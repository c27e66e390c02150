SPECIFICATION PtrSpec
CONSTANTS
  NULL = NULL
  Objs = {a, b, c}
  Locals = {p, q}
  MaxRaw = 1
SYMMETRY MCSymmetry
INVARIANTS
  PtrTypeOK
  CountIsPointers
  OperationResult
  OnlyInnerSourceDangles
