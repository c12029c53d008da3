\* One buffer, from allocation or promotion to the pool; two read handles on a usable stream
\* and the default one; three kernels, of which a
\* transfer from the host may be one.
CONSTANTS
  Buffer = {b1}
  Stream = {s1}
  NullStream = NullStream
  r1 = r1
  r2 = r2
  Reader = {r1, r2}
  MaxKernel = 3
  NoStream = NoStream
  NoBuffer = NoBuffer
SPECIFICATION Spec
SYMMETRY Symmetry
INVARIANTS
  TypeOK
  OwnersExact
  SourceOutlivesCopy
PROPERTY ImplementsEvents
\* The behaviour ends when the buffer, kernels and handles are used up.
CHECK_DEADLOCK FALSE
