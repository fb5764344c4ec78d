\* Any session: rmfile of a file that is not there.
SPECIFICATION MCSpec
CONSTANTS
  NB = 10
  DS = 4
  BlockSize = 2
  HalfWord = 16
  StrayBlock = 9
  LastWiped = 8
  PartWiped = 1
  MaxOpen = 2
  MaxDepth = 3
  StackSize = 8
  MaxFlush = 2
  JunkName = "junk"
  TextIds = {"t"}
  Names = {"a", "b"}
  Stem <- MCStem
  PathArgs <- MCPathArgs
  MaxCommands = 6
  Vocabulary = {"mkdir", "cd", "rmdir", "create", "open", "close", "rmfile", "write", "format", "exit", "crash"}
INVARIANT ReservedKept
CHECK_DEADLOCK FALSE
