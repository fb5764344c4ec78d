\* Sessions of up to nine commands that make, enter and remove directories.
SPECIFICATION MCSpec
CONSTANTS
  NB = 8
  DS = 4
  BlockSize = 2
  HalfWord = 11
  StrayBlock = 8
  LastWiped = 6
  PartWiped = 1
  MaxOpen = 2
  MaxDepth = 3
  StackSize = 8
  MaxFlush = 2
  JunkName = "junk"
  TextIds = {"t"}
  Names = {"a", "b"}
  Stem <- MCStem
  PathArgs <- MCPathArgs
  MaxCommands = 9
  Vocabulary = {"mkdir", "cd", "rmdir", "create", "rmfile"}
PROPERTY RmdirEnds
CHECK_DEADLOCK FALSE
