------------------------------- MODULE MCFat -------------------------------
EXTENDS Fat

\* The entries of the names are in different sectors of the directory, so that a rename can
\* be cut short between them; the first two clusters share a sector of the FAT; every other
\* cell is in a sector of its own.
MCSector(cell) ==
  CASE cell[1] = "fat" /\ cell[2] \in {2, 3} -> <<"FAT", 1>>
    [] cell[1] = "fat" -> <<"FAT", 2>>
    [] OTHER -> cell
=============================================================================
