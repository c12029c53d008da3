\* Three processes, two entries, so that the registry can be full; either name is
\* created twice; one process may die.
CONSTANTS
  p1 = p1
  p2 = p2
  p3 = p3
  i1 = i1
  i2 = i2
  Proc = {p1, p2, p3}
  Slot = {i1, i2}
  MaxShm = 2
  MaxSem = 2
  MaxCrash = 1
  NoProc = NoProc
  NoSlot = NoSlot
SPECIFICATION Spec
SYMMETRY Symmetry
INVARIANTS
  TypeOK
  SemaphoreAccounted
  CleanExit
PROPERTY ImplementsPeers
\* Processes come to their end.
CHECK_DEADLOCK FALSE
