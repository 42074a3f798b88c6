------------------------------- MODULE Loader -------------------------------
(***************************************************************************)
(* Loading and starting a program (core/loader.c, q40/execute.s).  What    *)
(* goes below BounceBelow, where gogoboot itself is, is kept in a buffer   *)
(* on the heap and copied into place by machine_execute().                 *)
(*                                                                         *)
(* A byte in memory is a triple: <<image, segment, offset>> if it came     *)
(* from a file, or one of the values below.                                *)
(***************************************************************************)
EXTENDS Memory, Sequences, FiniteSets

CONSTANTS
  Images,        \* the files: [elf, kernel, segments], see Segments
  LoadOffset,    \* EXECUTABLE_LOAD_ADDRESS
  RawAddress,    \* where load_m68k_executable() loads to
  Page,          \* 0x1000
  InitrdGap,     \* 0x100000
  InitrdSizes    \* sizes of the files named as initrd

ASSUME LoaderAssumption ==
  /\ 0 \notin DOMAIN Images
  /\ {LoadOffset, RawAddress, InitrdGap} \cup InitrdSizes \subseteq Nat
  /\ Page \in Nat \ {0}
  /\ \A f \in DOMAIN Images :
       /\ Images[f].elf \in BOOLEAN /\ Images[f].kernel \in BOOLEAN
       /\ Images[f].segments \in Seq([paddr : Nat, filesz : Nat, memsz : Nat]) \ {<<>>}
       /\ \A s \in DOMAIN Images[f].segments :
            /\ Images[f].segments[s].filesz <= Images[f].segments[s].memsz
            /\ Images[f].segments[s].paddr + Images[f].segments[s].memsz < AddressSpace

VARIABLES
  ram,           \* ram_size
  mem,           \* the memory, by address
  bounce,        \* loader_bounce_buffer_target and what _data points to
  file,          \* the image being loaded, or 0
  progheadNum,   \* its next segment
  offset,        \* load_offset
  informed,      \* a kernel's records are written
  running        \* the image that machine_execute() started, or 0

vars == <<ram, mem, bounce, file, progheadNum, offset, informed, running>>

Free     == <<0, 0, 0>>       \* memory nobody uses yet
Own      == <<0, 0, 1>>       \* gogoboot's: code, data, heap, stack
Junk     == <<0, 0, 2>>       \* what malloc() returns
Zero     == <<0, 0, 3>>
BootInfo == <<0, 0, 4>>       \* the records Linux gets, here one byte
Initrd   == <<0, 0, 5>>

IsOwn(a) == a < BounceBelow \/ a >= HeapBase(ram)

NoBounce == [target |-> 0, data |-> <<>>]

Segments(f) == Images[f].segments

\* The bytes of a segment: those of the file, and zeros up to memsz.
Content(f, s) ==
  [k \in 0 .. Segments(f)[s].memsz - 1 |->
     IF k < Segments(f)[s].filesz THEN <<f, s, k>> ELSE Zero]

\* A range of the bytes c, which belong at address at, put into the memory m.
Put(m, at, c, from, to) ==
  [a \in DOMAIN m |-> IF a - at \in from .. to - 1 THEN c[a - at] ELSE m[a]]

Least(S) == CHOOSE n \in S : \A m \in S : n <= m
Greatest(S) == CHOOSE n \in S : \A m \in S : m <= n

\* The range that the segments cover, before load_offset is added.
MinLoadAddr(f) == Least({Segments(f)[s].paddr : s \in DOMAIN Segments(f)})
MaxLoadAddr(f) ==
  Greatest({Segments(f)[s].paddr + Segments(f)[s].memsz : s \in DOMAIN Segments(f)})
-----------------------------------------------------------------------------
(***************************************************************************)
(* The bounce buffer.                                                      *)
(***************************************************************************)
Size(b) == Cardinality(DOMAIN b.data)

NewBounce(paddr, size) ==
  [target |-> RoundDown(paddr, Align),
   data |-> [k \in 0 .. RoundUp(size + (paddr % Align), Align) - 1 |-> Junk]]

Positive(n) == IF n < 0 THEN 0 ELSE n

\* realloc() keeps what fits and adds Junk.
Grown(data, size, n) ==
  [k \in 0 .. n - 1 |-> IF k < size THEN data[k] ELSE Junk]

\* memmove(data, data + below, size): towards the start of the buffer.
Moved(data, size, below) ==
  [k \in DOMAIN data |-> IF k < size THEN data[k + below] ELSE data[k]]

\* Mutation of GrowBounce: the part above is not counted.
GrowBounceBelow(b, paddr, size) ==
  LET below == RoundUp(Positive(b.target - paddr), Align)
      grown == Grown(b.data, Size(b), Size(b) + below)
  IN  [target |-> b.target - below, data |-> grown]

GrowBounce(b, paddr, size) ==
  LET below == RoundUp(Positive(b.target - paddr), Align)
      above == RoundUp(Positive(paddr + size - (b.target + Size(b))), Align)
      grown == Grown(b.data, Size(b), Size(b) + below + above)
  IN  [target |-> b.target - below,
       data |-> IF below > 0 THEN Moved(grown, Size(b), below) ELSE grown]

\* bounce_expand().
BounceExpand(b, paddr, size) ==
  IF b = NoBounce THEN NewBounce(paddr, size) ELSE GrowBounce(b, paddr, size)
-----------------------------------------------------------------------------
(***************************************************************************)
(* load_data(), of segment s of file f to paddr.                           *)
(***************************************************************************)
\* Mutation of BounceSize: what ends above gogoboot does not need the buffer.
BounceSizeAll(paddr, size) == IF paddr + size <= BounceBelow THEN size ELSE 0

\* How much of it goes to the bounce buffer.
BounceSize(paddr, size) == Positive(AtMost(BounceBelow - paddr, size))

Bounced(f, s, paddr) ==
  IF BounceSize(paddr, Segments(f)[s].memsz) > 0
  THEN BounceExpand(bounce, paddr, BounceSize(paddr, Segments(f)[s].memsz))
  ELSE bounce

\* All of it is read, and the rest of the memory it takes is zeroed,
LoadData(f, s, paddr) ==
  LET size == Segments(f)[s].memsz
      b == Bounced(f, s, paddr)
      n == BounceSize(paddr, size)
  IN  /\ bounce' = [b EXCEPT !.data = Put(b.data, paddr - b.target, Content(f, s), 0, n)]
      /\ mem' = Put(mem, paddr, Content(f, s), n, size)

\* or the disk fails, before or after part of it is read.
LoadDataFails(f, s, paddr) ==
  LET filesz == Segments(f)[s].filesz
      b == Bounced(f, s, paddr)
      n == BounceSize(paddr, Segments(f)[s].memsz)
  IN  \E k \in 0 .. filesz - 1 :
        /\ bounce' =
             [b EXCEPT !.data = Put(b.data, paddr - b.target, Content(f, s), 0, AtMost(n, k))]
        /\ mem' = Put(mem, paddr, Content(f, s), n, k)
-----------------------------------------------------------------------------
(***************************************************************************)
(* The commands.                                                           *)
(***************************************************************************)
Init ==
  /\ \E fitted \in 1 .. MaxUnits, mirrored \in BOOLEAN :
       /\ ram = MeasureRamSize(fitted, mirrored)
       /\ mem = [a \in 0 .. fitted * Unit - 1 |-> IF IsOwn(a) THEN Own ELSE Free]
  /\ bounce = NoBounce
  /\ file = 0 /\ progheadNum = 0 /\ offset = 0 /\ informed = FALSE
  /\ running = 0

Idle == file = 0 /\ running = 0

GiveUp == file' = 0 /\ progheadNum' = 0 /\ offset' = 0 /\ informed' = FALSE

\* load_elf_executable(), up to the second pass.  What it refuses leaves no trace.
ScanElf(f) ==
  /\ Idle /\ Images[f].elf
  /\ LET off == IF MinLoadAddr(f) < RomBelow THEN LoadOffset ELSE 0 IN
     /\ CheckWritableRange(MinLoadAddr(f) + off, MaxLoadAddr(f) - MinLoadAddr(f), TRUE, ram)
     /\ offset' = off
  /\ file' = f
  /\ progheadNum' = 1
  /\ UNCHANGED <<ram, mem, bounce, informed, running>>

\* load_m68k_executable() has one segment, the file, and a place of its own for it.
ScanM68k(f) ==
  /\ Idle /\ ~Images[f].elf
  /\ file' = f /\ progheadNum' = 1
  /\ offset' = RawAddress - MinLoadAddr(f)
  /\ UNCHANGED <<ram, mem, bounce, informed, running>>

LoadSegment ==
  /\ file # 0 /\ progheadNum <= Len(Segments(file))
  /\ LET seg == Segments(file)[progheadNum]
         paddr == seg.paddr + offset
     IN  IF CheckWritableRange(paddr, seg.memsz, TRUE, ram)
         THEN \/ LoadData(file, progheadNum, paddr) /\ progheadNum' = progheadNum + 1
               /\ UNCHANGED <<file, offset, informed>>
              \/ LoadDataFails(file, progheadNum, paddr) /\ GiveUp
         ELSE GiveUp /\ UNCHANGED <<mem, bounce>>
  /\ UNCHANGED <<ram, running>>

\* machine_execute(): the buffer is copied over gogoboot, and the image entered.
MachineExecute(m) ==
  [a \in DOMAIN m |->
     IF a - bounce.target \in DOMAIN bounce.data THEN bounce.data[a - bounce.target] ELSE m[a]]

Loaded == file # 0 /\ progheadNum > Len(Segments(file))

\* A kernel is recognised by its first bytes, in the bounce buffer if it starts
\* below the limit: at the start of the buffer.
First ==
  LET min == MinLoadAddr(file) + offset
  IN  IF min < BounceBelow THEN bounce.data[0] ELSE mem[min]

SeenAsKernel ==
  /\ Images[file].elf /\ Images[file].kernel
  /\ \E s \in DOMAIN Segments(file) :
       First = <<file, s, 0>> /\ Segments(file)[s].paddr = MinLoadAddr(file)

\* The records are put on the page above the kernel, the initrd further up.
BootInfoAt(f) == RoundUp(MaxLoadAddr(f) + offset, Page)
InitrdAt(f) == RoundUp(BootInfoAt(f) + 1, Page) + InitrdGap

Fill(m, from, n, byte) == [a \in DOMAIN m |-> IF a - from \in 0 .. n - 1 THEN byte ELSE m[a]]

Inform(initrd) ==
  /\ Loaded /\ SeenAsKernel /\ ~informed
  /\ BootInfoAt(file) >= BounceBelow
  /\ mem' = Fill(Fill(mem, BootInfoAt(file), 1, BootInfo), InitrdAt(file), initrd, Initrd)
  /\ informed' = TRUE
  /\ UNCHANGED <<ram, bounce, file, progheadNum, offset, running>>

\* The kernel is for another machine, the records are too low, or there is no initrd,
\* which is found out after the records were written.
RefuseKernel ==
  /\ Loaded /\ SeenAsKernel
  /\ GiveUp
  /\ UNCHANGED <<ram, mem, bounce, running>>

\* Mutation of Execute: every image is taken for one that is not a kernel.
ExecuteUninformed ==
  /\ Loaded
  /\ mem' = MachineExecute(mem)
  /\ running' = file /\ file' = 0
  /\ UNCHANGED <<ram, bounce, progheadNum, offset, informed>>

\* execute().
Execute ==
  /\ Loaded /\ (SeenAsKernel => informed)
  /\ mem' = MachineExecute(mem)
  /\ running' = file /\ file' = 0
  /\ UNCHANGED <<ram, bounce, progheadNum, offset, informed>>

Next ==
  \/ \E f \in DOMAIN Images : ScanElf(f) \/ ScanM68k(f)
  \/ LoadSegment
  \/ Execute
  \/ \E n \in InitrdSizes : Inform(n)
  \/ RefuseKernel

Spec == Init /\ [][Next]_vars
-----------------------------------------------------------------------------
(***************************************************************************)
(* Properties.                                                             *)
(***************************************************************************)
\* gogoboot finds the memory that is fitted, all of it and no more, whether what is
\* beyond is missing or shows the same memory again.
RamMeasured == DOMAIN mem = 0 .. ram - 1

\* A program that was started has its file in memory, each byte in its place and
\* the rest of its memory zeroed, also where gogoboot was, and whatever attempts
\* failed before.
ImageLoaded ==
  running # 0 =>
    \A s \in DOMAIN Segments(running) : \A k \in DOMAIN Content(running, s) :
      mem[Segments(running)[s].paddr + offset + k] = Content(running, s)[k]

\* As long as gogoboot runs, nothing but itself writes to its code, data, heap and
\* stack: loading can fail at any point and the command line goes on.
OwnIntact ==
  running = 0 => \A a \in DOMAIN mem : IsOwn(a) => mem[a] = Own

\* A kernel gets its records, outside what it was loaded to: it is recognised
\* wherever it starts.
KernelInformed ==
  running # 0 /\ Images[running].kernel => mem[BootInfoAt(running)] = BootInfo
-----------------------------------------------------------------------------
(***************************************************************************)
(* What the code takes for granted of the images, each stated of where an  *)
(* image goes to: load_offset is LoadOffset for an image that would reach  *)
(* into the vectors, and moves one without a header to RawAddress.         *)
(***************************************************************************)
OffsetOf(f) ==
  IF Images[f].elf THEN IF MinLoadAddr(f) < RomBelow THEN LoadOffset ELSE 0
  ELSE RawAddress - MinLoadAddr(f)

Place(f, s) == Segments(f)[s].paddr + OffsetOf(f)

\* No segment ends beyond the address space.
NoWrap ==
  \A f \in DOMAIN Images : \A s \in DOMAIN Segments(f) :
    Place(f, s) + Segments(f)[s].memsz < AddressSpace

\* The segments of a file are in ascending order and do not overlap.
Ascending ==
  \A f \in DOMAIN Images : \A s, t \in DOMAIN Segments(f) :
    s < t => Segments(f)[s].paddr + Segments(f)[s].memsz <= Segments(f)[t].paddr

\* Where a kernel fits below the heap, its records and its initrd do.
InformationFits ==
  \A f \in DOMAIN Images : \A units \in 1 .. MaxUnits, n \in InitrdSizes :
    LET end == MaxLoadAddr(f) + OffsetOf(f)
        limit == HeapBase(units * Unit)
    IN  Images[f].kernel /\ end <= limit =>
          RoundUp(RoundUp(end, Page) + 1, Page) + InitrdGap + n <= limit

\* A kernel is an ELF file whose lowest segment holds its mark.  If that goes to
\* the bounce buffer, it is the first in its longword and no image starts lower.
KernelsMarked ==
  \A f \in {k \in DOMAIN Images : Images[k].kernel} :
    /\ Images[f].elf
    /\ \E s \in DOMAIN Segments(f) :
         Segments(f)[s].paddr = MinLoadAddr(f) /\ Segments(f)[s].filesz > 0
    /\ LET min == MinLoadAddr(f) + OffsetOf(f)
       IN  min < BounceBelow =>
             /\ min % Align = 0
             /\ \A g \in DOMAIN Images : \A t \in DOMAIN Segments(g) : min <= Place(g, t)
=============================================================================
