\* Two buffers, so that one can be copied into the other and both be destroyed.
CONSTANTS
  Buffer = {b1, b2}
  Stream = {s1, s2}
  NullStream = NullStream
  Reader = {r1}
  MaxKernel = 2
  NoStream = NoStream
  NoBuffer = NoBuffer
SPECIFICATION FairSpec
INVARIANTS
  TypeOK
  ReadsSeeWrites
  FreedMemoryIsIdle
PROPERTIES
  NoWriteOverReads
  DroppedIsFreed
\* The behaviour ends when the kernels and handles of the bound are used up.
CHECK_DEADLOCK FALSE
