SPECIFICATION FatSpec
CONSTANTS
  Names = {"a", "b"}
  Last = 4
  Sector <- MCSector
  Chunks = {1, 3}
  MaxCommands = 3
  MaxLength = 3
  MaxFaults = 1
  MaxLosses = 1
INVARIANTS
  FilesWhole
  ChainsApart
  PromisesKept
  NothingLost
  FreeCounted
CHECK_DEADLOCK FALSE
