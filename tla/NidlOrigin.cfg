\* MCNidl, for the module that imported declarations are said to be from.
SPECIFICATION NidlSpec
CONSTANTS
  NULL = NULL
  InitialCap = 256
  SizeBits = 11
  MaskModulus = 128
  MayMove = FALSE
  GuardMax = 4
  Files = {"a", "b", "c", "d"}
  Root = "a"
  Disks <- MCDisks
  DirChoices <- MCDirChoices
  MaxDirs = 2
  MaxStack = 3
  MaxFrames = 5
INVARIANT SourceModuleIsOrigin
