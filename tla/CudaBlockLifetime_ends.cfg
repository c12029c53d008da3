\* One block that is used twice, a subscription in another process
\* that does not die: a reference that a dead process leaves is never given back.
CONSTANTS
  Block = {b1}
  Sub = {remote}
  InProcess = {}
  MaxAlloc = 2
  MaxCrash = 0
  NoBlock = NoBlock
  NoSub = NoSub
SPECIFICATION FairSpec
PROPERTIES
  DroppedBlockComesBack
  DestructorEnds
\* The behaviour ends when the allocations of the bound are used up.
CHECK_DEADLOCK FALSE
