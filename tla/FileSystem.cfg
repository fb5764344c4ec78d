\* Any session of up to eight commands on a volume with two free blocks.
INIT MCInit
NEXT MCNext
CONSTANTS
  NB = 8
  DS = 4
  BlockSize = 2
  HalfWord = 11
  StrayBlock = 8
  LastWiped = 6
  PartWiped = 1
  MaxOpen = 2
  MaxDepth = 3
  StackSize = 1
  MaxFlush = 2
  JunkName = "junk"
  TextIds = {"t"}
  Names = {a, b, c}
  Stem <- MCStem
  PathArgs <- MCPathArgs
  MaxCommands = 8
  Vocabulary = {"mkdir", "cd", "rmdir", "create", "open", "close", "rmfile", "write", "format", "exit", "crash"}
INVARIANT TypeOK
INVARIANT NoSlotMeansFreeSlot
INVARIANT WalksEnd
SYMMETRY MCSymmetry
CHECK_DEADLOCK FALSE
