SPECIFICATION Spec
CONSTANTS
  Base = 4
  Limit = 20
  MaxBlocks = 5
  SplitThresh = 4
  Alignment = 2
  Sizes = {0, 2, 3, 6}
INVARIANTS DescriptorsKept FreeIsCompact NothingLost
PROPERTY ImplementsAllocator
