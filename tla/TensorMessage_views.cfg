\* Numbers of four bits: SIZE_MAX is 15, INT64_MAX is 7, so that the products of two
\* dimensions, of a stride and an extent, and of a span and an item can overflow.
CONSTANTS
  IntMax = 7
  Lengths = {0, 1, 5}
  Negatives = {1}
  Offsets = {0, 1, 15}
  Sizes = {0, 3, 5}
  MaxRank = 2
  MaxBytes = 7
  TensorDims = {2}
  MaxViews = 2
  Throws = Throws
  Unknown = Unknown
SPECIFICATION Spec
INVARIANTS
  TypeOK
  ViewsInStorage
  ChecksAreExact
  StoredIsReadBack
\* A message of which nothing can be made is a dead end.
CHECK_DEADLOCK FALSE
