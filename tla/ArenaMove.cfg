\* MCNidl with an arena that realloc may move.
SPECIFICATION NidlSpec
CONSTANTS
  NULL = NULL
  InitialCap = 256
  SizeBits = 11
  MaskModulus = 128
  MayMove = TRUE
  GuardMax = 4
  Files = {"a", "b", "c", "d"}
  Root = "a"
  Disks <- MCDisks
  DirChoices <- MCDirChoices
  MaxDirs = 2
  MaxStack = 3
  MaxFrames = 5
INVARIANT PointersStable
