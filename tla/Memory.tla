------------------------------- MODULE Memory -------------------------------
(***************************************************************************)
(* What is where in the memory (core/mem.c, and target_mem_init() of the   *)
(* machines): how much there is, where gogoboot and its heap and stack     *)
(* are, and what a program may be loaded over.                             *)
(***************************************************************************)
EXTENDS Integers

CONSTANTS
  AddressSpace,  \* 2^32 in the program
  Unit,          \* mem_get_granularity(), in bytes
  MaxUnits,      \* mem_get_max_possible(), in units
  MaxHeap,       \* MAXHEAP
  RomBelow,      \* rom_below_addr: 0x28000 on the Q40, 0 on the others
  BssEnd,        \* the end of gogoboot in RAM, or 0 if it has a RAM of its own (KISS, SRAM)
  Align          \* bytes in a longword, 4 in the program

ASSUME MemoryAssumption ==
  /\ {AddressSpace, Unit, MaxUnits, MaxHeap, Align} \subseteq Nat \ {0}
  /\ {RomBelow, BssEnd} \subseteq Nat
  /\ BssEnd < Unit /\ MaxUnits * Unit < AddressSpace

AtMost(m, n) == IF n < m THEN n ELSE m

RoundUp(n, to) == ((n + to - 1) \div to) * to

RoundDown(n, to) == (n \div to) * to

\* The unit that answers at the place of a unit when some are fitted: none beyond
\* those, or the same ones again (mirrored).
Answers(unit, fitted, mirrored) ==
  IF unit <= fitted THEN unit
  ELSE IF mirrored THEN ((unit - 1) % fitted) + 1 ELSE 0

\* Mutation of LastWritten: the units are marked from the lowest to the highest.
LastWrittenUp(cell, fitted, mirrored) ==
  CHOOSE u \in 1 .. MaxUnits :
    /\ Answers(u, fitted, mirrored) = cell
    /\ \A v \in 1 .. MaxUnits : Answers(v, fitted, mirrored) = cell => v <= u

\* The units are marked from the highest to the lowest: the mark that stays.
LastWritten(cell, fitted, mirrored) ==
  CHOOSE u \in 1 .. MaxUnits :
    /\ Answers(u, fitted, mirrored) = cell
    /\ \A v \in 1 .. MaxUnits : Answers(v, fitted, mirrored) = cell => v >= u

ReadsBack(unit, fitted, mirrored) ==
  LET cell == Answers(unit, fitted, mirrored)
  IN  cell # 0 /\ LastWritten(cell, fitted, mirrored) = unit

\* measure_ram_size(): up to the first unit that does not hold its mark.
MeasureRamSize(fitted, mirrored) ==
  LET good == {n \in 0 .. MaxUnits : \A u \in 1 .. n : ReadsBack(u, fitted, mirrored)}
  IN  Unit * (CHOOSE n \in good : \A m \in good : m <= n)

\* target_mem_init(): gogoboot ends at BounceBelow, heap and stack are at the top, or all
\* is beyond the RAM that is measured.
BounceBelow == RoundUp(BssEnd, Align)

HeapBase(ram) == IF BssEnd = 0 THEN ram ELSE ram - AtMost(ram \div 4, MaxHeap)

\* check_writable_range() has nothing against it.
CheckWritableRange(base, length, bounce, ram) ==
  /\ (base + length) % AddressSpace <= ram
  /\ (base + length) % AddressSpace <= HeapBase(ram)
  /\ base >= RomBelow
  /\ bounce \/ base >= BounceBelow
=============================================================================
