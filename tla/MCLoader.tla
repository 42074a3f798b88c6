------------------------------ MODULE MCLoader ------------------------------
EXTENDS Loader

Seg(paddr, filesz, memsz) == [paddr |-> paddr, filesz |-> filesz, memsz |-> memsz]

Elf(segments) == [elf |-> TRUE, kernel |-> FALSE, segments |-> segments]

\* Images with segments in ascending order: in and above gogoboot's memory, across its
\* end, unaligned, each starting elsewhere; a kernel, at the very start; one that is too
\* large for the smallest memory; one without a header.
MCImages ==
  <<Elf(<<Seg(3, 2, 4), Seg(7, 3, 6)>>),
    Elf(<<Seg(2, 3, 3), Seg(6, 1, 1), Seg(20, 1, 7)>>),
    [elf |-> TRUE, kernel |-> TRUE, segments |-> <<Seg(0, 2, 2), Seg(9, 2, 5)>>],
    Elf(<<Seg(5, 2, 3)>>),
    [elf |-> FALSE, kernel |-> FALSE, segments |-> <<Seg(0, 3, 3)>>]>>

\* These images are as the theorems about the loader assume.
ASSUME ImagesAsAssumed == NoWrap /\ Ascending /\ InformationFits /\ KernelsMarked
=============================================================================
