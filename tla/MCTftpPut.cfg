\* Two wraps of the wire numbers, windows of one to three blocks, a disk that may fail.
SPECIFICATION Spec
CONSTANTS
  Size = 17
  Modulus = 8
  MaxWindow = 3
  MaxRetransmits = 1
  ReadFails = TRUE
PROPERTIES ImplementsTransfer Ends
INVARIANTS InOrder ClientNotAhead
CHECK_DEADLOCK FALSE
