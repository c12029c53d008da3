\* As FdDispatcher_epochs.cfg, with one load of the component.
CONSTANTS
  Block = {b1}
  Call = {c1, c2}
  Closed = Closed
  Foreign = Foreign
  NoFd = NoFd
  NoBlock = NoBlock
  NoCall = NoCall
  MaxEpoch = 1
  MaxForeign = 0
  FdLimit = 4
SPECIFICATION FairSpec
PROPERTY ConnectionsAreServed
\* The behaviour ends when the calls and epochs of the bound are used up.
CHECK_DEADLOCK FALSE
