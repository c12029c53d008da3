\* One block that exists in two loads of the component, two imports by one process,
\* and four numbers: memory, socket, duplicate and one connection, if other code
\* has none of them open.
CONSTANTS
  Block = {b1}
  Call = {c1, c2}
  Closed = Closed
  Foreign = Foreign
  NoFd = NoFd
  NoBlock = NoBlock
  NoCall = NoCall
  MaxEpoch = 2
  MaxForeign = 1
  FdLimit = 4
SPECIFICATION FairSpec
INVARIANTS
  TypeOK
  FdsAccounted
  MappedIsNamed
  NothingOutlivesUnload
PROPERTIES
  ServedImportsEnd
  UnloadEnds
\* The behaviour ends when the calls and epochs of the bound are used up.
CHECK_DEADLOCK FALSE
