\* One block that two subscriptions contend for, one in the publisher's process
\* and one in a process that may die; two allocations, so that the block is used
\* again while messages about its first use are on their way; of the failures the
\* code passes over, one at a time.
CONSTANTS
  Block = {b1}
  Sub = {local, remote}
  InProcess = {local}
  MaxAlloc = 2
  MaxCrash = 1
  MaxFaults = 1
  NoBlock = NoBlock
  NoSub = NoSub
SPECIFICATION Spec
CONSTRAINT FewFaults
INVARIANTS
  TypeOK
  RefcountCountsHolders
  PinnedBlockNotReused
  
  UidVerdictIsRight
 
\* The behaviour ends when the allocations of the bound are used up.
CHECK_DEADLOCK FALSE
