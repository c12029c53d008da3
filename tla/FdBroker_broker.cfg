\* A window of one, so that the second publication evicts; two subscribers; five
\* descriptors, so that the table can be full.
CONSTANTS
  Conn = {c1, c2}
  Listen = Listen
  Closed = Closed
  NoFd = NoFd
  NoReply = NoReply
  StatusMiss = StatusMiss
  Capacity = 1
  MaxUid = 2
  FdLimit = 5
SPECIFICATION FairSpec
INVARIANTS
  TypeOK
  FdsAccounted
  MappedIsDescribed
  NothingOutlivesBroker
PROPERTY ExitEnds
\* The process has exited and the calls have returned.
CHECK_DEADLOCK FALSE
