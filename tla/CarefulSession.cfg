\* Careful sessions of up to ten commands on a volume with four free blocks.
SPECIFICATION TreeSpec
CONSTANTS
  NB = 10
  DS = 4
  BlockSize = 2
  HalfWord = 16
  StrayBlock = 9
  LastWiped = 8
  PartWiped = 1
  MaxOpen = 2
  MaxDepth = 3
  StackSize = 8
  MaxFlush = 2
  JunkName = "junk"
  TextIds = {"t"}
  Names = {"a", "a.c"}
  Stem <- MCStem
  PathArgs <- MCPathArgs
  MaxCommands = 10
  Vocabulary = {"mkdir", "cd", "rmdir", "create", "open", "close", "rmfile", "write", "format", "exit", "crash"}
INVARIANT OnlyTornGoesWild
INVARIANT VolumeSound
INVARIANT PathNamesCwd
INVARIANT HandlesLive
INVARIANT ImageSound
PROPERTY ImplementsTree
CHECK_DEADLOCK FALSE
