\* One block and one subscriber in another process are enough.
CONSTANTS
  Block = {b1}
  Sub = {remote}
  InProcess = {}
  MaxAlloc = 2
  MaxCrash = 0
  NoBlock = NoBlock
  NoSub = NoSub
SPECIFICATION Spec
PROPERTY LateImportIsDetected
CHECK_DEADLOCK FALSE
