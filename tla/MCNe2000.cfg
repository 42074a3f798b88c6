\* A ring of four pages, frames of one page to more than the ring holds.
SPECIFICATION CardSpecUndisturbed
CONSTANTS
  RxStart = 3
  RxEnd = 7
  Sizes = {1, 2}
  Largest = 1
  MaxTx = 4
  MaxRx = 4
INVARIANTS BufferKept
PROPERTY ImplementsLink
