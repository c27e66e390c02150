\* Three objects: two errors with messages of different lengths and a string
\* made of one of them.
SPECIFICATION Spec
CONSTANTS
  NULL = NULL
  Objects = {o1, o2, o3}
  Lengths <- MCLengths
  MaxRefs = 2
INVARIANTS
  TypeOK
  HeapIsObjects
  RefsCounted
  CopyFits
  GrownBufferSuffices
PROPERTY
  CallsReturn
