\* Two wraps of the wire numbers, windows of one and two blocks, a disk that may fail.
SPECIFICATION Spec
CONSTANTS
  Size = 12
  Modulus = 6
  MaxWindow = 2
  MaxRetransmits = 1
  Space = 12
  DiskFails = TRUE
PROPERTIES ImplementsTransfer Ends
INVARIANTS InOrder ServerNotAhead
CHECK_DEADLOCK FALSE
