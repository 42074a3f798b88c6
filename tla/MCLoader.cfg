\* Programs loaded one after the other, any read of which can fail, with 1, 2 or 3
\* units of memory, mirrored or not.  The layout is that of the KISS (DRAM) and of the Mini.
SPECIFICATION Spec
CONSTANTS
  AddressSpace = 256
  Unit = 32
  MaxUnits = 3
  MaxHeap = 10
  RomBelow = 0
  BssEnd = 9
  Align = 2
  Images <- MCImages
  LoadOffset = 3
  RawAddress = 11
  Page = 4
  InitrdGap = 2
  InitrdSizes = {0, 2}
INVARIANTS RamMeasured ImageLoaded OwnIntact KernelInformed
CHECK_DEADLOCK FALSE
