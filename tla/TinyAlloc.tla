----------------------------- MODULE TinyAlloc ------------------------------
(***************************************************************************)
(* The heap (lib/tinyalloc.c, with the wrappers of lib/stdlib.c): a list   *)
(* of free blocks sorted by address and compacted, a list of used blocks,  *)
(* and descriptors not in use, of which only the number matters.           *)
(***************************************************************************)
EXTENDS Integers, SequencesExt

CONSTANTS
  Base, Limit,       \* where blocks can be: heap_limit is the byte before Limit
  MaxBlocks,         \* heap_max_blocks, 256 or 2048 in the program
  SplitThresh,       \* heap_split_thresh, 16 in the program
  Alignment,         \* heap_alignment, 4 in the program
  Sizes              \* what the program asks for

ASSUME HeapAssumption ==
  /\ Base \in Nat /\ Limit \in Nat /\ Base <= Limit
  /\ MaxBlocks \in Nat \ {0} /\ SplitThresh \in Nat \ {0} /\ Alignment \in Nat \ {0}
  /\ Base % Alignment = 0
  /\ Sizes \subseteq Nat

VARIABLES
  heap,              \* the lists, and the end of the part used so far
  owned,             \* the blocks the program holds: address and size asked for
  emptied            \* a block of size 0 was given back: no block was, or one that
                     \* may lie within another, free one by then

vars == <<heap, owned, emptied>>

Heap(free, used, fresh, top) ==
  [free |-> free, used |-> used, fresh |-> fresh, top |-> top]

Block(addr, size) == [addr |-> addr, size |-> size]

End(b) == b.addr + b.size

Least(S) == CHOOSE i \in S : \A j \in S : i <= j
-----------------------------------------------------------------------------
\* Mutation of InsertBlock: the free list is not kept in order.
InsertBlockFirst(free, b) == <<b>> \o free

\* insert_block(): before the first free block that is not below it.
InsertBlock(free, b) ==
  LET i == Least({k \in DOMAIN free : b.addr <= free[k].addr} \cup {Len(free) + 1})
  IN  InsertAt(free, i, b)

\* Mutation of Merge: the size of the last block merged is forgotten.
MergeShort(list, b) ==
  IF list # <<>> /\ End(Last(list)) = b.addr
  THEN Append(Front(list), Block(Last(list).addr, b.addr - Last(list).addr))
  ELSE Append(list, b)

\* One step of compact().
Merge(list, b) ==
  IF list # <<>> /\ End(Last(list)) = b.addr
  THEN Append(Front(list), Block(Last(list).addr, b.addr - Last(list).addr + b.size))
  ELSE Append(list, b)

\* compact(), of the first n free blocks.
Compacting(free) ==
  LET c[n \in 0 .. Len(free)] == IF n = 0 THEN <<>> ELSE Merge(c[n - 1], free[n])
  IN  c

Compacted(free) == Compacting(free)[Len(free)]

\* Mutation of Released: the descriptors of merged blocks are lost.
ReleasedNone(fresh, free) == fresh

\* release_blocks() takes back the descriptors of the blocks merged away.
Released(fresh, free) == fresh + Len(free) - Len(Compacted(free))

\* insert_block() followed by compact().
Insert(h, used, fresh, top, b) ==
  LET free == InsertBlock(h, b)
  IN  Heap(Compacted(free), used, Released(fresh, free), top)

\* The program's sizes are rounded up.
Aligned(n) == ((n + Alignment - 1) \div Alignment) * Alignment

\* The last block can grow or shrink, within the limit.
IsTop(h, b, num) == End(b) >= h.top /\ b.addr + num < Limit

\* alloc_block(): a block from the free list, the first that does,
TakeTop(h, i, num) ==
  LET b == Block(h.free[i].addr, num)
  IN  Heap(RemoveAt(h.free, i), <<b>> \o h.used, h.fresh, End(b))

TakeWhole(h, i) ==
  Heap(RemoveAt(h.free, i), <<h.free[i]>> \o h.used, h.fresh, h.top)

\* Mutation of TakePart: the rest starts where the whole block did.
TakePartOverlapping(h, i, num) ==
  LET b == Block(h.free[i].addr, num)
      rest == Block(b.addr, h.free[i].size - num)
  IN  Insert(RemoveAt(h.free, i), <<b>> \o h.used, h.fresh - 1, h.top, rest)

TakePart(h, i, num) ==
  LET b == Block(h.free[i].addr, num)
      rest == Block(End(b), h.free[i].size - num)
  IN  Insert(RemoveAt(h.free, i), <<b>> \o h.used, h.fresh - 1, h.top, rest)

\* or a new one at the top.
TakeFresh(h, num) ==
  LET b == Block(h.top, num)
  IN  Heap(h.free, <<b>> \o h.used, h.fresh - 1, End(b))

\* The heaps alloc_block() can leave: none if it fails.
AllocBlock(h, n) ==
  LET num == Aligned(n)
      fits == {i \in DOMAIN h.free : IsTop(h, h.free[i], num) \/ h.free[i].size >= num}
      i == Least(fits)
  IN  IF fits # {}
      THEN {IF IsTop(h, h.free[i], num) THEN TakeTop(h, i, num)
            ELSE IF h.fresh > 0 /\ h.free[i].size - num >= SplitThresh
                 THEN TakePart(h, i, num)
                 ELSE TakeWhole(h, i)}
      ELSE IF h.fresh > 0 /\ h.top + num < Limit THEN {TakeFresh(h, num)} ELSE {}

\* ta_free(): the used block that was allocated last, of those at the address.
FreeBlock(h, addr) ==
  LET i == Least({k \in DOMAIN h.used : h.used[k].addr = addr})
  IN  Insert(h.free, RemoveAt(h.used, i), h.fresh, h.top, h.used[i])
-----------------------------------------------------------------------------
Init ==
  /\ heap = Heap(<<>>, <<>>, MaxBlocks, Base)
  /\ owned = {}
  /\ emptied = FALSE

\* The callers hold a block of size 0 (ls does, of an empty directory) only until
\* they allocate again: such a block shares its address with the next one.
Settled == \A b \in owned : b.size > 0

\* malloc() halts if it gets no block, malloc_unchecked() leaves all as it was.
Malloc(n) ==
  /\ Settled
  /\ \E h \in AllocBlock(heap, n) :
       heap' = h /\ owned' = owned \cup {Block(Head(h.used).addr, n)}
  /\ UNCHANGED emptied

Free(b) ==
  /\ heap' = FreeBlock(heap, b.addr)
  /\ owned' = owned \ {b}
  /\ emptied' = (emptied \/ b.size = 0)

\* realloc(): a new block, and the old one freed after its contents are copied.
\* No caller asks for 0 bytes.
Realloc(b, n) ==
  /\ Settled /\ n > 0
  /\ \E h \in AllocBlock(heap, n) :
       /\ heap' = FreeBlock(h, b.addr)
       /\ owned' = (owned \ {b}) \cup {Block(Head(h.used).addr, n)}
  /\ UNCHANGED emptied

Next ==
  \/ \E n \in Sizes : Malloc(n)
  \/ \E b \in owned : Free(b)
  \/ \E b \in owned, n \in Sizes : Realloc(b, n)

Spec == Init /\ [][Next]_vars
-----------------------------------------------------------------------------
(***************************************************************************)
(* Properties.                                                             *)
(***************************************************************************)
Blocks == [addr : Base .. Limit, size : 0 .. Limit - Base]

\* No descriptor is lost or used twice (what ta_check() verifies).
DescriptorsKept ==
  Len(heap.free) + Len(heap.used) + heap.fresh = MaxBlocks

\* The free list stays sorted, and whatever borders on each other is merged:
\* freed memory can be had again in the largest pieces possible.  This ends with
\* the first block of size 0, whose neighbours are merged without it: given back,
\* it lies within a larger free block and keeps the parts of that from merging.
FreeIsCompact == emptied \/
  \A i \in 1 .. Len(heap.free) - 1 : End(heap.free[i]) < heap.free[i + 1].addr

\* Nothing below the top is lost: once the program holds nothing, one block of
\* free memory reaches from the base to the top (with the same exception).
NothingLost ==
  owned = {} /\ ~emptied => heap.free \in {<<>>, <<Block(Base, heap.top - Base)>>}

\* Every block the program was given is its own until it gives it back, however
\* blocks are split, grown, shrunk and merged.
Abs == INSTANCE Allocator
ImplementsAllocator == Abs!Spec
=============================================================================
