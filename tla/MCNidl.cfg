\* ctx.stack has room for three paths, and a chain of four files gets past it;
\* memory is there for some disks and not for others, and growing it may fail
\* anywhere.  The block does not move (see ArenaMove.cfg).
SPECIFICATION NidlSpec
CONSTANTS
  NULL = NULL
  InitialCap = 256
  SizeBits = 11
  MaskModulus = 128
  MayMove = FALSE
  GuardMax = 4
  Files = {"a", "b", "c", "d"}
  Root = "a"
  Disks <- MCDisks
  DirChoices <- MCDirChoices
  MaxDirs = 2
  MaxStack = 3
  MaxFrames = 5
INVARIANTS
  NidlTypeOK
  BlocksDisjoint
  StackTracksFrames
  FewPathsEnd
  ImportClosure
  BasesFirst
  SignaturesAgree
  DirectImportsNamed
