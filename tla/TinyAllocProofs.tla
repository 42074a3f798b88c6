-------------------------- MODULE TinyAllocProofs ---------------------------
(***************************************************************************)
(* Proofs about the heap.  The invariant, HeapInv, has three parts: Fine   *)
(* (no two blocks of the lists share a byte, and the descriptors are all   *)
(* there), Owns (the used blocks are those the program holds, each at      *)
(* least as large as was asked for) and Tidy (the order of the free list,  *)
(* and that the lists cover all below the top).  compact() is a recursive  *)
(* function: what it does is proved by induction on the blocks it has      *)
(* gone through.                                                           *)
(***************************************************************************)
EXTENDS TinyAlloc, SequenceTheorems, NumberTheorems

\* The loops of insert_block(), alloc_block() and ta_free() stop at the first place.
LEMMA LeastExists ==
  ASSUME NEW S, S \subseteq Nat, S # {}
  PROVE  /\ Least(S) \in S
         /\ \A j \in S : Least(S) <= j
  BY SmallestExists DEF Least

-----------------------------------------------------------------------------
(***************************************************************************)
(* Blocks, and lists with a block more or less.                            *)
(***************************************************************************)
AnyBlock == [addr : Nat, size : Nat]

LEMMA BlockMade ==
  ASSUME NEW a \in Nat, NEW n \in Nat
  PROVE  /\ Block(a, n) \in AnyBlock
         /\ Block(a, n).addr = a /\ Block(a, n).size = n
         /\ End(Block(a, n)) = a + n
  BY DEF Block, AnyBlock, End

LEMMA BlockParts ==
  ASSUME NEW b \in AnyBlock
  PROVE  b.addr \in Nat /\ b.size \in Nat /\ End(b) = b.addr + b.size /\ End(b) \in Nat
  BY DEF AnyBlock, End

LEMMA Removal ==
  ASSUME NEW s \in Seq(AnyBlock), NEW i \in 1 .. Len(s)
  PROVE  /\ RemoveAt(s, i) \in Seq(AnyBlock)
         /\ Len(RemoveAt(s, i)) = Len(s) - 1
         /\ \A k \in 1 .. Len(s) - 1 :
              RemoveAt(s, i)[k] = IF k < i THEN s[k] ELSE s[k + 1]
  <1> DEFINE a == SubSeq(s, 1, i - 1)
             b == SubSeq(s, i + 1, Len(s))
  <1>1. Len(s) \in Nat /\ \A k \in 1 .. Len(s) : s[k] \in AnyBlock
    OBVIOUS
  <1>2. /\ a \in Seq(AnyBlock) /\ Len(a) = i - 1
        /\ \A k \in 1 .. i - 1 : a[k] = s[k]
    <2>1. \A k \in 1 .. i - 1 : s[k] \in AnyBlock
      BY <1>1
    <2>2. QED
      BY <1>1, <2>1, SubSeqProperties
  <1>3. /\ b \in Seq(AnyBlock) /\ Len(b) = Len(s) - i
        /\ \A k \in 1 .. Len(s) - i : b[k] = s[i + k]
    <2>1. \A k \in i + 1 .. Len(s) : s[k] \in AnyBlock
      BY <1>1
    <2>2. QED
      BY <1>1, <2>1, SubSeqProperties
  <1>4. RemoveAt(s, i) = a \o b
    BY DEF RemoveAt
  <1> HIDE DEF a, b
  <1>5. /\ a \o b \in Seq(AnyBlock)
        /\ Len(a \o b) = Len(a) + Len(b)
        /\ \A k \in 1 .. Len(a) + Len(b) :
             (a \o b)[k] = IF k <= Len(a) THEN a[k] ELSE b[k - Len(a)]
    BY <1>2, <1>3, ConcatProperties
  <1>6. ASSUME NEW k \in 1 .. Len(s) - 1
        PROVE  (a \o b)[k] = IF k < i THEN s[k] ELSE s[k + 1]
    <2>1. CASE k < i
      BY <1>1, <1>2, <1>3, <1>5, <2>1
    <2>2. CASE k >= i
      <3> DEFINE j == k - Len(a)
      <3>1. j \in 1 .. Len(s) - i /\ i + j = k + 1 /\ ~(k <= Len(a)) /\ k \in 1 .. Len(a) + Len(b)
        BY <1>1, <1>2, <1>3, <2>2
      <3>2. (a \o b)[k] = b[j]
        BY <1>5, <3>1
      <3> HIDE DEF j
      <3>3. b[j] = s[k + 1]
        BY <1>3, <3>1
      <3>4. QED
        BY <2>2, <3>2, <3>3
    <2>3. k < i \/ k >= i
      BY <1>1
    <2>4. QED
      BY <2>1, <2>2, <2>3
  <1>7. QED
    BY <1>1, <1>2, <1>3, <1>4, <1>5, <1>6

LEMMA Insertion ==
  ASSUME NEW s \in Seq(AnyBlock), NEW e \in AnyBlock, NEW i \in 1 .. Len(s) + 1
  PROVE  /\ InsertAt(s, i, e) \in Seq(AnyBlock)
         /\ Len(InsertAt(s, i, e)) = Len(s) + 1
         /\ \A k \in 1 .. Len(s) + 1 :
              InsertAt(s, i, e)[k] = IF k < i THEN s[k] ELSE IF k = i THEN e ELSE s[k - 1]
  <1> DEFINE a == SubSeq(s, 1, i - 1)
             b == SubSeq(s, i, Len(s))
             c == a \o <<e>>
  <1>1. Len(s) \in Nat /\ \A k \in 1 .. Len(s) : s[k] \in AnyBlock
    OBVIOUS
  <1>2. /\ a \in Seq(AnyBlock) /\ Len(a) = i - 1
        /\ \A k \in 1 .. i - 1 : a[k] = s[k]
    <2>1. \A k \in 1 .. i - 1 : s[k] \in AnyBlock
      BY <1>1
    <2>2. QED
      BY <1>1, <2>1, SubSeqProperties
  <1>3. /\ b \in Seq(AnyBlock) /\ Len(b) = Len(s) - i + 1
        /\ \A k \in 1 .. Len(s) - i + 1 : b[k] = s[i + k - 1]
    <2>1. \A k \in i .. Len(s) : s[k] \in AnyBlock
      BY <1>1
    <2>2. QED
      BY <1>1, <2>1, SubSeqProperties
  <1>4. InsertAt(s, i, e) = c \o b
    BY DEF InsertAt
  <1>5. <<e>> \in Seq(AnyBlock) /\ Len(<<e>>) = 1 /\ <<e>>[1] = e
    OBVIOUS
  <1> HIDE DEF a, b
  <1>6. /\ c \in Seq(AnyBlock) /\ Len(c) = i
        /\ \A k \in 1 .. i - 1 : c[k] = s[k]
        /\ c[i] = e
    <2>1. /\ c \in Seq(AnyBlock) /\ Len(c) = Len(a) + 1
          /\ \A k \in 1 .. Len(a) + 1 : c[k] = IF k <= Len(a) THEN a[k] ELSE <<e>>[k - Len(a)]
      BY <1>2, <1>5, ConcatProperties
    <2>2. c[i] = <<e>>[i - Len(a)] /\ i - Len(a) = 1
      BY <1>2, <2>1
    <2> HIDE DEF c
    <2>3. QED
      BY <1>2, <1>5, <2>1, <2>2
  <1> HIDE DEF c
  <1>7. /\ c \o b \in Seq(AnyBlock)
        /\ Len(c \o b) = Len(c) + Len(b)
        /\ \A k \in 1 .. Len(c) + Len(b) :
             (c \o b)[k] = IF k <= Len(c) THEN c[k] ELSE b[k - Len(c)]
    BY <1>3, <1>6, ConcatProperties
  <1>8. ASSUME NEW k \in 1 .. Len(s) + 1
        PROVE  (c \o b)[k] = IF k < i THEN s[k] ELSE IF k = i THEN e ELSE s[k - 1]
    <2>1. CASE k <= i
      <3>1. k <= Len(c) /\ k \in 1 .. Len(c) + Len(b) /\ (k < i => k \in 1 .. i - 1) /\ (~(k < i) => k = i)
        BY <1>1, <1>3, <1>6, <2>1
      <3>2. (c \o b)[k] = c[k]
        BY <1>7, <3>1
      <3>3. QED
        BY <1>6, <3>1, <3>2
    <2>2. CASE k > i
      <3> DEFINE j == k - Len(c)
      <3>1. /\ j \in 1 .. Len(s) - i + 1 /\ (i + j) - 1 = k - 1
            /\ ~(k <= Len(c)) /\ k \in 1 .. Len(c) + Len(b) /\ ~(k < i) /\ k # i
        BY <1>1, <1>3, <1>6, <2>2
      <3>2. (c \o b)[k] = b[j]
        BY <1>7, <3>1
      <3> HIDE DEF j
      <3>3. b[j] = s[k - 1]
        BY <1>3, <3>1
      <3>4. QED
        BY <3>1, <3>2, <3>3
    <2>3. k <= i \/ k > i
      BY <1>1
    <2>4. QED
      BY <2>1, <2>2, <2>3
  <1>9. QED
    BY <1>1, <1>3, <1>4, <1>6, <1>7, <1>8

\* compact() either lets the last block grow over the next, or goes on with that.
Grows(list, b) == list # <<>> /\ End(list[Len(list)]) = b.addr

LEMMA MergeCases ==
  ASSUME NEW list \in Seq(AnyBlock), NEW b \in AnyBlock
  PROVE  /\ Merge(list, b) \in Seq(AnyBlock)
         /\ Grows(list, b) =>
              /\ Len(list) \in Nat \ {0}
              /\ Len(Merge(list, b)) = Len(list)
              /\ \A k \in 1 .. Len(list) - 1 : Merge(list, b)[k] = list[k]
              /\ Merge(list, b)[Len(list)] =
                   Block(list[Len(list)].addr, list[Len(list)].size + b.size)
         /\ ~Grows(list, b) =>
              /\ Len(Merge(list, b)) = Len(list) + 1
              /\ \A k \in 1 .. Len(list) : Merge(list, b)[k] = list[k]
              /\ Merge(list, b)[Len(list) + 1] = b
  <1>1. Len(list) \in Nat /\ \A k \in 1 .. Len(list) : list[k] \in AnyBlock
    OBVIOUS
  <1>2. CASE Grows(list, b)
    <2> DEFINE n == Len(list)
               last == list[n]
               grown == Block(last.addr, last.size + b.size)
    <2>1. n \in Nat \ {0} /\ End(last) = b.addr
      BY <1>1, <1>2, EmptySeq DEF Grows
    <2>2. last \in AnyBlock /\ grown \in AnyBlock
      <3>1. last \in AnyBlock
        BY <1>1, <2>1
      <3> HIDE DEF last
      <3>2. last.addr \in Nat /\ last.size \in Nat /\ b.size \in Nat
        BY <3>1 DEF AnyBlock
      <3> DEFINE a == last.addr
                 m == last.size + b.size
      <3>3. a \in Nat /\ m \in Nat /\ grown = Block(a, m)
        BY <3>2
      <3> HIDE DEF a, m
      <3>4. QED
        BY <3>1, <3>3, BlockMade
    <2>3. b.addr - last.addr + b.size = last.size + b.size
      <3>1. End(last) = last.addr + last.size /\ last.addr \in Nat /\ last.size \in Nat /\ b.size \in Nat
        BY <2>2, BlockParts
      <3> HIDE DEF last
      <3>2. QED
        BY <2>1, <3>1
    <2>4. Merge(list, b) = Append(Front(list), grown)
      BY <1>2, <2>3 DEF Grows, Merge, Last
    <2>5. /\ Front(list) \in Seq(AnyBlock) /\ Len(Front(list)) = n - 1
          /\ \A k \in 1 .. n - 1 : Front(list)[k] = list[k]
      <3>1. \A k \in 1 .. n - 1 : list[k] \in AnyBlock
        BY <1>1, <2>1
      <3>2. Front(list) = SubSeq(list, 1, n - 1)
        BY DEF Front
      <3>3. 1 \in Int /\ n - 1 \in Int /\ (n - 1) - 1 + 1 = n - 1 /\ (1 > n - 1 => n - 1 = 0)
        <4> HIDE DEF n
        <4>1. QED
          BY <2>1
      <3> HIDE DEF n
      <3>4. /\ SubSeq(list, 1, n - 1) \in Seq(AnyBlock)
            /\ Len(SubSeq(list, 1, n - 1)) = IF 1 <= n - 1 THEN (n - 1) - 1 + 1 ELSE 0
            /\ \A k \in 1 .. (n - 1) - 1 + 1 : SubSeq(list, 1, n - 1)[k] = list[1 + k - 1]
        BY <3>1, <3>3, SubSeqProperties
      <3>5. QED
        BY <2>1, <3>2, <3>3, <3>4
    <2> HIDE DEF grown
    <2>6. /\ Append(Front(list), grown) \in Seq(AnyBlock)
          /\ Len(Append(Front(list), grown)) = n
          /\ \A k \in 1 .. n - 1 : Append(Front(list), grown)[k] = Front(list)[k]
          /\ Append(Front(list), grown)[n] = grown
      <3> DEFINE f == Front(list)
      <3>1. f \in Seq(AnyBlock) /\ Len(f) = n - 1 /\ Len(f) + 1 = n
        BY <2>1, <2>5
      <3> HIDE DEF f, n
      <3>2. QED
        BY <2>2, <3>1, AppendProperties DEF f
    <2>7. QED
      BY <1>2, <2>1, <2>4, <2>5, <2>6 DEF grown
  <1>3. CASE ~Grows(list, b)
    <2>1. Merge(list, b) = Append(list, b)
      BY <1>3 DEF Grows, Merge, Last
    <2>2. QED
      BY <1>1, <1>3, <2>1, AppendProperties
  <1>4. QED
    BY <1>2, <1>3

\* compact() goes block by block.
LEMMA CompactingSteps ==
  ASSUME NEW free \in Seq(AnyBlock)
  PROVE  /\ Len(free) \in Nat
         /\ Compacting(free) \in [0 .. Len(free) -> Seq(AnyBlock)]
         /\ Compacting(free)[0] = <<>>
         /\ \A n \in 1 .. Len(free) :
              Compacting(free)[n] = Merge(Compacting(free)[n - 1], free[n])
  <1> DEFINE N == Len(free)
             Lists == Seq(AnyBlock)
             step == [n \in 1 .. N |-> [list \in Lists |-> Merge(list, free[n])]]
             Rule(g) == [n \in 0 .. N |-> IF n = 0 THEN <<>> ELSE Merge(g[n - 1], free[n])]
  <1>1. N \in Nat /\ <<>> \in Lists
    BY EmptySeq
  <1>2. step \in [1 .. N -> [Lists -> Lists]]
    <2>1. ASSUME NEW n \in 1 .. N, NEW list \in Lists
          PROVE  Merge(list, free[n]) \in Lists
      <3>1. free[n] \in AnyBlock
        OBVIOUS
      <3>2. QED
        BY <3>1, MergeCases
    <2> HIDE DEF Lists, N
    <2>2. QED
      BY <2>1
  <1>3. PICK f \in [0 .. N -> Lists] :
          f[0] = <<>> /\ \A n \in 1 .. N : f[n] = step[n][f[n - 1]]
    <2> HIDE DEF Lists, step, N
    <2>1. QED
      BY <1>1, <1>2, Recursion, SMTT(60)
  <1>4. f = Rule(f)
    <2>1. f[0] = Rule(f)[0]
      BY <1>1, <1>3
    <2>2. ASSUME NEW n \in 1 .. N
          PROVE  f[n] = Rule(f)[n]
      <3>1. f[n - 1] \in Lists
        BY <1>1, <1>3, SMTT(60)
      <3>2. f[n] = Merge(f[n - 1], free[n])
        BY <1>3, <3>1
      <3>3. QED
        BY <1>1, <3>2
    <2>3. \A n \in 0 .. N : n = 0 \/ n \in 1 .. N
      BY <1>1
    <2> HIDE DEF Rule
    <2>4. \A n \in 0 .. N : f[n] = Rule(f)[n]
      BY <2>1, <2>2, <2>3
    <2> USE DEF Rule
    <2>5. QED
      BY <1>3, <2>4
  <1>5. Compacting(free) = Rule(Compacting(free))
    <2>1. Compacting(free) = CHOOSE g : g = Rule(g)
      BY DEF Compacting
    <2> HIDE DEF Rule
    <2>2. QED
      BY <1>4, <2>1
  <1>6. Compacting(free)[0] = <<>>
    BY <1>1, <1>5
  <1>7. \A n \in 1 .. N : Compacting(free)[n] = Merge(Compacting(free)[n - 1], free[n])
    BY <1>1, <1>5
  <1>8. \A n \in 0 .. N : Compacting(free)[n] \in Lists
    <2> DEFINE D == {n \in Nat : n <= N => Compacting(free)[n] \in Lists}
    <2>1. 0 \in D
      BY <1>1, <1>6
    <2>2. ASSUME NEW n \in Nat, n \in D
          PROVE  n + 1 \in D
      <3>1. SUFFICES ASSUME n + 1 <= N PROVE Compacting(free)[n + 1] \in Lists
        OBVIOUS
      <3>2. Compacting(free)[n] \in Lists /\ n + 1 \in 1 .. N
        BY <1>1, <2>2, <3>1
      <3>3. Compacting(free)[n + 1] = Merge(Compacting(free)[n], free[n + 1])
        BY <1>7, <3>2
      <3>4. free[n + 1] \in AnyBlock
        BY <3>2
      <3> DEFINE list == Compacting(free)[n]
      <3> HIDE DEF D, list
      <3>5. list \in Seq(AnyBlock)
        BY <3>2 DEF list
      <3>6. Merge(list, free[n + 1]) \in Seq(AnyBlock)
        BY <3>4, <3>5, MergeCases
      <3>7. QED
        BY <3>3, <3>6 DEF list
    <2>3. Nat \subseteq D
      <3> HIDE DEF D
      <3>1. QED
        BY <2>1, <2>2, Induction
    <2>4. QED
      BY <1>1, <2>3
  <1>9. Compacting(free) = [n \in 0 .. N |-> Compacting(free)[n]]
    BY <1>5
  <1>10. QED
    BY <1>1, <1>6, <1>7, <1>8, <1>9

\* What holds of the empty list, and of each merge of the next block, holds of the
\* result: Q[n] are the lists that may stand after n blocks.
LEMMA CompactedIn ==
  ASSUME NEW free \in Seq(AnyBlock),
         NEW Q,
         <<>> \in Q[0],
         \A n \in 1 .. Len(free) : \A list \in Q[n - 1] \cap Seq(AnyBlock) :
           Merge(list, free[n]) \in Q[n]
  PROVE  /\ Compacted(free) \in Q[Len(free)]
         /\ Compacted(free) \in Seq(AnyBlock)
  <1> DEFINE N == Len(free)
             c == Compacting(free)
             D == {n \in Nat : n <= N => c[n] \in Q[n]}
  <1>1. /\ N \in Nat /\ c[0] = <<>>
        /\ \A n \in 0 .. N : c[n] \in Seq(AnyBlock)
        /\ \A n \in 1 .. N : c[n] = Merge(c[n - 1], free[n])
    BY CompactingSteps
  <1> HIDE DEF N, c
  <1>2. 0 \in D
    BY <1>1
  <1>3. ASSUME NEW n \in Nat, n \in D
        PROVE  n + 1 \in D
    <2>1. SUFFICES ASSUME n + 1 <= N PROVE c[n + 1] \in Q[n + 1]
      OBVIOUS
    <2>2. n + 1 \in 1 .. N /\ n \in 0 .. N /\ (n + 1) - 1 = n
      BY <1>1, <2>1
    <2>3. c[n] \in Q[n] \cap Seq(AnyBlock)
      BY <1>1, <1>3, <2>2
    <2>4. \A m \in 1 .. N : \A list \in Q[m - 1] \cap Seq(AnyBlock) : Merge(list, free[m]) \in Q[m]
      BY DEF N
    <2>5. Merge(c[n], free[n + 1]) \in Q[n + 1]
      BY <2>2, <2>3, <2>4
    <2>6. QED
      BY <1>1, <2>2, <2>5
  <1>4. N \in D
    <2> HIDE DEF D
    <2>1. QED
      BY <1>1, <1>2, <1>3, Induction
  <1>5. QED
    BY <1>1, <1>4 DEF Compacted, N, c

\* One block lies entirely before the other, or has no bytes at all.
Apart(b, c) == b.size = 0 \/ c.size = 0 \/ End(b) <= c.addr \/ End(c) <= b.addr

\* A block lies in the heap, and what it holds is below the top.
Within(b, top) ==
  /\ b.addr >= Base /\ End(b) <= Limit
  /\ b.size = 0 \/ End(b) <= top

\* A block holds a byte.
Holds(b, x) == b.addr <= x /\ x < End(b)

\* Two blocks that border on each other, as one.
Joined(b, c) == Block(b.addr, b.size + c.size)

LEMMA JoinedParts ==
  ASSUME NEW b \in AnyBlock, NEW c \in AnyBlock, End(b) = c.addr
  PROVE  /\ Joined(b, c) \in AnyBlock
         /\ Joined(b, c).addr = b.addr
         /\ Joined(b, c).size = b.size + c.size
         /\ End(Joined(b, c)) = End(c)
         /\ \A u \in AnyBlock : Apart(u, b) /\ Apart(u, c) => Apart(u, Joined(b, c))
         /\ \A top \in Nat : Within(b, top) /\ Within(c, top) => Within(Joined(b, c), top)
         /\ \A x \in Nat : Holds(b, x) \/ Holds(c, x) => Holds(Joined(b, c), x)
  <1> DEFINE j == Joined(b, c)
  <1>1. /\ b.addr \in Nat /\ b.size \in Nat /\ End(b) = b.addr + b.size
        /\ c.addr \in Nat /\ c.size \in Nat /\ End(c) = c.addr + c.size
    BY BlockParts
  <1>2. /\ j \in AnyBlock /\ j.addr = b.addr /\ j.size = b.size + c.size
        /\ End(j) = b.addr + (b.size + c.size)
    <2> DEFINE a == b.addr
               n == b.size + c.size
    <2>1. a \in Nat /\ n \in Nat /\ j = Block(a, n)
      BY <1>1 DEF Joined
    <2> HIDE DEF a, n, j
    <2>2. j \in AnyBlock /\ j.addr = a /\ j.size = n /\ End(j) = a + n
      BY <2>1, BlockMade
    <2>3. QED
      BY <2>2 DEF a, n
  <1> HIDE DEF j
  <1>3. End(j) = End(c)
    <2>1. b.addr + b.size = c.addr
      BY <1>1
    <2>2. b.addr + (b.size + c.size) = c.addr + c.size
      BY <1>1, <2>1
    <2>3. QED
      BY <1>1, <1>2, <2>2
  <1>4. ASSUME NEW u \in AnyBlock, Apart(u, b), Apart(u, c)
        PROVE  Apart(u, j)
    <2>1. u.addr \in Nat /\ u.size \in Nat /\ End(u) = u.addr + u.size
      BY BlockParts
    <2>2. QED
      BY <1>1, <1>2, <1>3, <1>4, <2>1 DEF Apart
  <1>5. ASSUME NEW top \in Nat, Within(b, top), Within(c, top)
        PROVE  Within(j, top)
    BY <1>1, <1>2, <1>3, <1>5, HeapAssumption DEF Within
  <1>6. ASSUME NEW x \in Nat, Holds(b, x) \/ Holds(c, x)
        PROVE  Holds(j, x)
    BY <1>1, <1>2, <1>3, <1>6 DEF Holds
  <1>7. QED
    BY <1>2, <1>3, <1>4, <1>5, <1>6 DEF j

\* The blocks of a list after one more merge.
LEMMA MergeBlocks ==
  ASSUME NEW list \in Seq(AnyBlock), NEW b \in AnyBlock
  PROVE  LET m == Merge(list, b)
         IN  /\ m \in Seq(AnyBlock) /\ Len(m) \in Nat \ {0} /\ Len(m) <= Len(list) + 1
             /\ \A k \in 1 .. Len(m) - 1 : k \in 1 .. Len(list) /\ m[k] = list[k]
             /\ \/ m[Len(m)] = b /\ Len(m) = Len(list) + 1 /\ ~Grows(list, b)
                \/ /\ Len(m) \in 1 .. Len(list) /\ Len(m) = Len(list)
                   /\ End(list[Len(m)]) = b.addr
                   /\ m[Len(m)] = Joined(list[Len(m)], b)
  <1> DEFINE m == Merge(list, b)
             n == Len(list)
  <1>1. n \in Nat
    OBVIOUS
  <1>0. m \in Seq(AnyBlock)
    BY MergeCases
  <1>2. CASE Grows(list, b)
    <2>1. End(list[n]) = b.addr
      BY <1>2 DEF Grows
    <2>2. /\ n \in Nat \ {0} /\ Len(m) = n
          /\ \A k \in 1 .. n - 1 : m[k] = list[k]
          /\ m[n] = Joined(list[n], b)
      BY <1>2, MergeCases DEF Joined
    <2> HIDE DEF m, n
    <2>3. /\ Len(m) \in Nat \ {0} /\ Len(m) <= n + 1
          /\ \A k \in 1 .. Len(m) - 1 : k \in 1 .. n /\ m[k] = list[k]
          /\ Len(m) \in 1 .. n
      BY <2>2
    <2>4. QED
      BY <1>0, <2>1, <2>2, <2>3 DEF m, n
  <1>3. CASE ~Grows(list, b)
    <2>1. /\ Len(m) = n + 1
          /\ \A k \in 1 .. n : m[k] = list[k]
          /\ m[n + 1] = b
      BY <1>3, MergeCases
    <2> HIDE DEF m, n
    <2>2. /\ Len(m) \in Nat \ {0} /\ Len(m) <= n + 1
          /\ \A k \in 1 .. Len(m) - 1 : k \in 1 .. n /\ m[k] = list[k]
          /\ m[Len(m)] = b
      BY <1>1, <2>1
    <2>3. QED
      BY <1>0, <1>3, <2>1, <2>2 DEF m, n
  <1>4. QED
    BY <1>2, <1>3

-----------------------------------------------------------------------------
\* A list of as many blocks or fewer is left.
LEMMA CompactedShorter ==
  ASSUME NEW free \in Seq(AnyBlock)
  PROVE  /\ Compacted(free) \in Seq(AnyBlock)
         /\ Len(free) \in Nat /\ Len(Compacted(free)) \in Nat
         /\ Len(Compacted(free)) <= Len(free)
  <1> DEFINE Q == [n \in 0 .. Len(free) |-> {list \in Seq(AnyBlock) : Len(list) <= n}]
  <1>1. Len(free) \in Nat
    OBVIOUS
  <1>2. <<>> \in Q[0]
    BY <1>1, EmptySeq
  <1>3. ASSUME NEW n \in 1 .. Len(free), NEW list \in Q[n - 1] \cap Seq(AnyBlock)
        PROVE  Merge(list, free[n]) \in Q[n]
    <2>1. list \in Seq(AnyBlock) /\ Len(list) <= n - 1 /\ free[n] \in AnyBlock /\ Len(list) \in Nat
      BY <1>1
    <2>2. /\ Merge(list, free[n]) \in Seq(AnyBlock)
          /\ Len(Merge(list, free[n])) \in Nat
          /\ Len(Merge(list, free[n])) <= Len(list) + 1
      <3> HIDE DEF Q
      <3>1. QED
        BY <2>1, MergeBlocks
    <2>3. Len(Merge(list, free[n])) <= n
      <3> DEFINE m == Len(Merge(list, free[n]))
                 l == Len(list)
      <3>1. m \in Nat /\ l \in Nat /\ m <= l + 1 /\ l <= n - 1 /\ n \in Nat
        BY <1>1, <2>1, <2>2
      <3> HIDE DEF m, l
      <3>2. m <= n
        BY <3>1
      <3>3. QED
        BY <3>2 DEF m
    <2>4. QED
      BY <1>1, <2>2, <2>3
  <1>4. Compacted(free) \in Q[Len(free)] /\ Compacted(free) \in Seq(AnyBlock)
    <2> HIDE DEF Q
    <2>1. QED
      BY <1>2, <1>3, CompactedIn
  <1>5. QED
    BY <1>1, <1>4

\* What is apart from all free blocks stays so.
LEMMA CompactedApart ==
  ASSUME NEW free \in Seq(AnyBlock), NEW u \in AnyBlock,
         \A i \in 1 .. Len(free) : Apart(u, free[i])
  PROVE  \A k \in 1 .. Len(Compacted(free)) : Apart(u, Compacted(free)[k])
  <1> DEFINE Q == [n \in 0 .. Len(free) |->
                     {list \in Seq(AnyBlock) : \A k \in 1 .. Len(list) : Apart(u, list[k])}]
  <1>1. Len(free) \in Nat
    OBVIOUS
  <1>2. <<>> \in Q[0]
    BY <1>1, EmptySeq
  <1>3. ASSUME NEW n \in 1 .. Len(free), NEW list \in Q[n - 1] \cap Seq(AnyBlock)
        PROVE  Merge(list, free[n]) \in Q[n]
    <2> DEFINE m == Merge(list, free[n])
    <2>1. /\ list \in Seq(AnyBlock) /\ free[n] \in AnyBlock /\ Apart(u, free[n])
          /\ \A k \in 1 .. Len(list) : list[k] \in AnyBlock /\ Apart(u, list[k])
      BY <1>1
    <2> HIDE DEF Q
    <2>2. /\ m \in Seq(AnyBlock) /\ Len(m) \in Nat \ {0}
          /\ \A k \in 1 .. Len(m) - 1 : k \in 1 .. Len(list) /\ m[k] = list[k]
          /\ \/ m[Len(m)] = free[n]
             \/ /\ Len(m) \in 1 .. Len(list)
                /\ End(list[Len(m)]) = free[n].addr
                /\ m[Len(m)] = Joined(list[Len(m)], free[n])
      BY <2>1, MergeBlocks
    <2> HIDE DEF m
    <2>3. Apart(u, m[Len(m)])
      BY <2>1, <2>2, JoinedParts
    <2>4. ASSUME NEW k \in 1 .. Len(m)
          PROVE  Apart(u, m[k])
      <3>1. k = Len(m) \/ k \in 1 .. Len(m) - 1
        BY <2>2
      <3>2. QED
        BY <2>1, <2>2, <2>3, <3>1
    <2>5. QED
      BY <1>1, <2>2, <2>4 DEF m, Q
  <1>4. Compacted(free) \in Q[Len(free)]
    <2> HIDE DEF Q
    <2>1. QED
      BY <1>2, <1>3, CompactedIn
  <1>5. QED
    BY <1>1, <1>4

Disjointed(list) ==
  \A k, l \in 1 .. Len(list) : k # l => Apart(list[k], list[l])

\* Free blocks that are apart from each other stay so.
LEMMA CompactedDisjoint ==
  ASSUME NEW free \in Seq(AnyBlock), Disjointed(free)
  PROVE  Disjointed(Compacted(free))
  <1> DEFINE Ahead(n, list) == \A i \in n + 1 .. Len(free) : \A k \in 1 .. Len(list) : Apart(free[i], list[k])
             Q == [n \in 0 .. Len(free) |->
                     {list \in Seq(AnyBlock) : Ahead(n, list) /\ Disjointed(list)}]
  <1>1. Len(free) \in Nat /\ \A i \in 1 .. Len(free) : free[i] \in AnyBlock
    OBVIOUS
  <1>2. <<>> \in Q[0]
    BY <1>1, EmptySeq DEF Disjointed
  <1>3. ASSUME NEW n \in 1 .. Len(free), NEW list \in Q[n - 1] \cap Seq(AnyBlock)
        PROVE  Merge(list, free[n]) \in Q[n]
    <2> DEFINE m == Merge(list, free[n])
    <2>1. /\ list \in Seq(AnyBlock) /\ free[n] \in AnyBlock /\ Disjointed(list)
          /\ \A k \in 1 .. Len(list) : list[k] \in AnyBlock
          /\ \A i \in n .. Len(free) : \A k \in 1 .. Len(list) : Apart(free[i], list[k])
      BY <1>1
    <2> HIDE DEF Q
    <2>2. /\ m \in Seq(AnyBlock) /\ Len(m) \in Nat \ {0}
          /\ \A k \in 1 .. Len(m) - 1 : k \in 1 .. Len(list) /\ m[k] = list[k]
          /\ \/ m[Len(m)] = free[n] /\ Len(m) = Len(list) + 1
             \/ /\ Len(m) \in 1 .. Len(list) /\ Len(m) = Len(list)
                /\ End(list[Len(m)]) = free[n].addr
                /\ m[Len(m)] = Joined(list[Len(m)], free[n])
      BY <2>1, MergeBlocks
    <2> HIDE DEF m
    <2>3. ASSUME NEW u \in AnyBlock, Apart(u, free[n]),
                 Len(m) \in 1 .. Len(list) => Apart(u, list[Len(m)])
          PROVE  Apart(u, m[Len(m)])
      BY <2>1, <2>2, <2>3, JoinedParts
    <2>4. \A i \in n + 1 .. Len(free) : Apart(free[i], free[n])
      BY <1>1 DEF Disjointed
    <2>5. ASSUME NEW i \in n + 1 .. Len(free), NEW k \in 1 .. Len(m)
          PROVE  Apart(free[i], m[k])
      <3>1. i \in 1 .. Len(free) /\ i \in n .. Len(free)
        BY <1>1
      <3>2. k = Len(m) \/ k \in 1 .. Len(m) - 1
        BY <2>2
      <3>3. QED
        BY <1>1, <2>1, <2>2, <2>3, <2>4, <3>1, <3>2
    <2>6. \A k \in 1 .. Len(list) : Apart(list[k], free[n]) /\ n \in n .. Len(free)
      <3>1. n \in n .. Len(free)
        BY <1>1
      <3>2. QED
        BY <2>1, <3>1 DEF Apart
    <2>7. ASSUME NEW k \in 1 .. Len(m) - 1
          PROVE  Apart(m[k], m[Len(m)]) /\ Apart(m[Len(m)], m[k])
      <3>1. k \in 1 .. Len(list) /\ m[k] = list[k] /\ list[k] \in AnyBlock /\ k # Len(m)
        BY <2>1, <2>2
      <3>2. Len(m) \in 1 .. Len(list) => Apart(list[k], list[Len(m)])
        BY <2>1, <3>1 DEF Disjointed
      <3>3. Apart(m[k], m[Len(m)])
        BY <2>3, <2>6, <3>1, <3>2
      <3>4. QED
        BY <3>3 DEF Apart
    <2>8. ASSUME NEW k \in 1 .. Len(m), NEW l \in 1 .. Len(m), k # l
          PROVE  Apart(m[k], m[l])
      <3>1. \A j \in 1 .. Len(m) : j = Len(m) \/ j \in 1 .. Len(m) - 1
        BY <2>2
      <3>2. CASE k \in 1 .. Len(m) - 1 /\ l \in 1 .. Len(m) - 1
        BY <2>1, <2>2, <2>8, <3>2 DEF Disjointed
      <3>3. QED
        BY <2>7, <2>8, <3>1, <3>2
    <2>9. QED
      BY <1>1, <2>2, <2>5, <2>8 DEF m, Q, Disjointed
  <1>4. Compacted(free) \in Q[Len(free)]
    <2> HIDE DEF Q
    <2>1. QED
      BY <1>2, <1>3, CompactedIn
  <1>5. QED
    BY <1>1, <1>4

\* Free blocks that lie in the heap and below the top stay so.
LEMMA CompactedWithin ==
  ASSUME NEW free \in Seq(AnyBlock), NEW top \in Nat,
         \A i \in 1 .. Len(free) : Within(free[i], top)
  PROVE  \A k \in 1 .. Len(Compacted(free)) : Within(Compacted(free)[k], top)
  <1> DEFINE Q == [n \in 0 .. Len(free) |->
                     {list \in Seq(AnyBlock) : \A k \in 1 .. Len(list) : Within(list[k], top)}]
  <1>1. Len(free) \in Nat
    OBVIOUS
  <1>2. <<>> \in Q[0]
    BY <1>1, EmptySeq
  <1>3. ASSUME NEW n \in 1 .. Len(free), NEW list \in Q[n - 1] \cap Seq(AnyBlock)
        PROVE  Merge(list, free[n]) \in Q[n]
    <2> DEFINE m == Merge(list, free[n])
    <2>1. /\ list \in Seq(AnyBlock) /\ free[n] \in AnyBlock /\ Within(free[n], top)
          /\ \A k \in 1 .. Len(list) : list[k] \in AnyBlock /\ Within(list[k], top)
      BY <1>1
    <2> HIDE DEF Q
    <2>2. /\ m \in Seq(AnyBlock) /\ Len(m) \in Nat \ {0}
          /\ \A k \in 1 .. Len(m) - 1 : k \in 1 .. Len(list) /\ m[k] = list[k]
          /\ \/ m[Len(m)] = free[n]
             \/ /\ Len(m) \in 1 .. Len(list)
                /\ End(list[Len(m)]) = free[n].addr
                /\ m[Len(m)] = Joined(list[Len(m)], free[n])
      BY <2>1, MergeBlocks
    <2> HIDE DEF m
    <2>3. Within(m[Len(m)], top)
      BY <2>1, <2>2, JoinedParts
    <2>4. ASSUME NEW k \in 1 .. Len(m)
          PROVE  Within(m[k], top)
      <3>1. k = Len(m) \/ k \in 1 .. Len(m) - 1
        BY <2>2
      <3>2. QED
        BY <2>1, <2>2, <2>3, <3>1
    <2>5. QED
      BY <1>1, <2>2, <2>4 DEF m, Q
  <1>4. Compacted(free) \in Q[Len(free)]
    <2> HIDE DEF Q
    <2>1. QED
      BY <1>2, <1>3, CompactedIn
  <1>5. QED
    BY <1>1, <1>4

Covered(list, x) == \E k \in 1 .. Len(list) : Holds(list[k], x)

\* No byte of the free blocks is lost.
LEMMA CompactedCovers ==
  ASSUME NEW free \in Seq(AnyBlock), NEW x \in Nat, Covered(free, x)
  PROVE  Covered(Compacted(free), x)
  <1> DEFINE Q == [n \in 0 .. Len(free) |->
                     {list \in Seq(AnyBlock) :
                        (\E i \in 1 .. n : Holds(free[i], x)) => Covered(list, x)}]
  <1>1. Len(free) \in Nat
    OBVIOUS
  <1>2. <<>> \in Q[0]
    BY <1>1, EmptySeq
  <1>3. ASSUME NEW n \in 1 .. Len(free), NEW list \in Q[n - 1] \cap Seq(AnyBlock)
        PROVE  Merge(list, free[n]) \in Q[n]
    <2> DEFINE m == Merge(list, free[n])
    <2>1. /\ list \in Seq(AnyBlock) /\ free[n] \in AnyBlock /\ Len(list) \in Nat
          /\ \A k \in 1 .. Len(list) : list[k] \in AnyBlock
          /\ (\E i \in 1 .. n - 1 : Holds(free[i], x)) => Covered(list, x)
      BY <1>1
    <2> HIDE DEF Q
    <2>2. /\ m \in Seq(AnyBlock) /\ Len(m) \in Nat \ {0}
          /\ \A k \in 1 .. Len(m) - 1 : k \in 1 .. Len(list) /\ m[k] = list[k]
          /\ \/ m[Len(m)] = free[n] /\ Len(m) = Len(list) + 1
             \/ /\ Len(m) \in 1 .. Len(list) /\ Len(m) = Len(list)
                /\ End(list[Len(m)]) = free[n].addr
                /\ m[Len(m)] = Joined(list[Len(m)], free[n])
      BY <2>1, MergeBlocks
    <2> HIDE DEF m
    <2>3. Holds(free[n], x) => Holds(m[Len(m)], x)
      BY <2>1, <2>2, JoinedParts
    <2>4. ASSUME NEW k \in 1 .. Len(list), Holds(list[k], x)
          PROVE  Covered(m, x)
      <3>1. CASE k \in 1 .. Len(m) - 1
        <4>1. m[k] = list[k] /\ k \in 1 .. Len(m)
          BY <2>2, <3>1
        <4>2. QED
          BY <2>4, <4>1 DEF Covered
      <3>2. CASE k \notin 1 .. Len(m) - 1
        <4>1. k = Len(m) /\ Len(m) \in 1 .. Len(list)
          BY <2>1, <2>2, <3>2
        <4>2. ~(Len(m) = Len(list) + 1)
          BY <2>1, <4>1
        <4>3. Holds(m[Len(m)], x)
          BY <2>1, <2>2, <2>4, <4>1, <4>2, JoinedParts
        <4>4. QED
          BY <2>2, <4>3 DEF Covered
      <3>3. QED
        BY <3>1, <3>2
    <2>5. ASSUME NEW i \in 1 .. n, Holds(free[i], x)
          PROVE  Covered(m, x)
      <3>1. CASE i = n
        BY <2>2, <2>3, <2>5, <3>1 DEF Covered
      <3>2. CASE i # n
        <4>1. i \in 1 .. n - 1
          BY <1>1, <3>2
        <4>2. QED
          BY <2>1, <2>4, <2>5, <4>1 DEF Covered
      <3>3. QED
        BY <3>1, <3>2
    <2>6. QED
      BY <1>1, <2>2, <2>5 DEF m, Q
  <1>4. Compacted(free) \in Q[Len(free)]
    <2> HIDE DEF Q
    <2>1. QED
      BY <1>2, <1>3, CompactedIn
  <1>5. QED
    BY <1>1, <1>4 DEF Covered

\* Free blocks in order, bordering on each other or not, and with space between them.
InOrder(list) ==
  /\ \A k \in 1 .. Len(list) : list[k].size > 0
  /\ \A k \in 1 .. Len(list) - 1 : End(list[k]) <= list[k + 1].addr

Spaced(list) ==
  /\ \A k \in 1 .. Len(list) : list[k].size > 0
  /\ \A k \in 1 .. Len(list) - 1 : End(list[k]) < list[k + 1].addr

LEMMA CompactedSpaced ==
  ASSUME NEW free \in Seq(AnyBlock), InOrder(free)
  PROVE  Spaced(Compacted(free))
  <1> DEFINE Ends(n, list) ==
               IF n = 0 THEN list = <<>>
               ELSE Len(list) > 0 /\ End(list[Len(list)]) = End(free[n])
             Q == [n \in 0 .. Len(free) |->
                     {list \in Seq(AnyBlock) : Spaced(list) /\ Ends(n, list)}]
  <1>1. Len(free) \in Nat
    OBVIOUS
  <1>2. <<>> \in Q[0]
    BY <1>1, EmptySeq DEF Spaced
  <1>3. ASSUME NEW n \in 1 .. Len(free), NEW list \in Q[n - 1] \cap Seq(AnyBlock)
        PROVE  Merge(list, free[n]) \in Q[n]
    <2> DEFINE m == Merge(list, free[n])
               l == Len(list)
               b == free[n]
    <2>1. /\ list \in Seq(AnyBlock) /\ b \in AnyBlock /\ l \in Nat
          /\ \A k \in 1 .. l : list[k] \in AnyBlock
          /\ Spaced(list) /\ Ends(n - 1, list)
      BY <1>1
    <2>2. /\ m \in Seq(AnyBlock) /\ Len(m) \in Nat \ {0}
          /\ \A k \in 1 .. Len(m) - 1 : k \in 1 .. l /\ m[k] = list[k]
          /\ \/ m[Len(m)] = b /\ Len(m) = l + 1 /\ ~Grows(list, b)
             \/ /\ Len(m) \in 1 .. l /\ Len(m) = l
                /\ End(list[Len(m)]) = b.addr
                /\ m[Len(m)] = Joined(list[Len(m)], b)
      <3> HIDE DEF Q
      <3>1. QED
        BY <2>1, MergeBlocks
    <2>3. b.addr \in Nat /\ b.size \in Nat /\ b.size > 0 /\ End(b) = b.addr + b.size
      BY <2>1, BlockParts DEF InOrder
    <2>4. l > 0 => End(list[l]) <= b.addr /\ list[l] \in AnyBlock
      <3>1. CASE n = 1
        <4>1. list = <<>>
          BY <2>1, <3>1
        <4>2. QED
          BY <4>1, EmptySeq
      <3>2. CASE n # 1
        <4>1. n - 1 \in 1 .. Len(free) - 1 /\ (n - 1) + 1 = n /\ n - 1 # 0
          BY <1>1, <3>2
        <4>2. End(free[n - 1]) <= b.addr
          BY <4>1 DEF InOrder
        <4>3. End(list[l]) = End(free[n - 1]) /\ l > 0
          BY <2>1, <4>1
        <4>4. l \in 1 .. l
          BY <2>1, <4>3
        <4>5. QED
          BY <2>1, <4>2, <4>3, <4>4
      <3>3. QED
        BY <3>1, <3>2
    <2>5. l > 0 /\ ~Grows(list, b) => End(list[l]) < b.addr
      <3>1. SUFFICES ASSUME l > 0, ~Grows(list, b)
                     PROVE  End(list[l]) < b.addr
        OBVIOUS
      <3>2. End(list[l]) # b.addr
        BY <2>1, <3>1, EmptySeq DEF Grows
      <3>3. End(list[l]) \in Nat
        BY <2>4, <3>1, BlockParts
      <3> HIDE DEF l, b
      <3>4. QED
        BY <2>3, <2>4, <3>1, <3>2, <3>3
    <2> HIDE DEF m, l, b, Q
    <2>6. CASE Len(m) = l + 1
      <3>1. m[Len(m)] = b /\ ~Grows(list, b)
        BY <2>1, <2>2, <2>6
      <3>2. ASSUME NEW k \in 1 .. Len(m)
            PROVE  m[k].size > 0
        <4>1. k = Len(m) \/ k \in 1 .. Len(m) - 1
          BY <2>2
        <4>2. QED
          BY <2>1, <2>2, <2>3, <3>1, <4>1 DEF Spaced, l
      <3>3. ASSUME NEW k \in 1 .. Len(m) - 1
            PROVE  End(m[k]) < m[k + 1].addr
        <4>1. CASE k = l
          <5>1. l > 0 /\ m[k + 1] = b /\ m[k] = list[l]
            BY <2>1, <2>2, <2>6, <3>1, <4>1
          <5>2. QED
            BY <2>5, <3>1, <5>1
        <4>2. CASE k # l
          <5>1. k \in 1 .. l - 1 /\ k + 1 \in 1 .. Len(m) - 1
            BY <2>1, <2>6, <4>2
          <5>2. QED
            BY <2>1, <2>2, <5>1 DEF Spaced, l
        <4>3. QED
          BY <4>1, <4>2
      <3>4. Spaced(m)
        BY <3>2, <3>3 DEF Spaced
      <3>5. Ends(n, m)
        BY <1>1, <2>2, <3>1 DEF b
      <3>6. QED
        BY <1>1, <2>2, <3>4, <3>5 DEF Q, m, b
    <2>7. CASE Len(m) = l
      <3>1. /\ l \in 1 .. l /\ End(list[l]) = b.addr /\ m[l] = Joined(list[l], b)
        BY <2>1, <2>2, <2>7
      <3>2. /\ m[l].addr = list[l].addr /\ m[l].size = list[l].size + b.size
            /\ End(m[l]) = End(b) /\ list[l].size \in Nat
        BY <2>1, <3>1, JoinedParts, BlockParts, SMTT(60)
      <3>3. ASSUME NEW k \in 1 .. Len(m)
            PROVE  m[k].size > 0
        <4>1. k = l \/ k \in 1 .. Len(m) - 1
          BY <2>1, <2>7
        <4>2. list[l].size + b.size > 0
          BY <2>3, <3>2
        <4>3. QED
          BY <2>1, <2>2, <3>2, <4>1, <4>2 DEF Spaced, l
      <3>4. ASSUME NEW k \in 1 .. Len(m) - 1
            PROVE  End(m[k]) < m[k + 1].addr
        <4>1. k \in 1 .. l - 1 /\ m[k] = list[k] /\ k + 1 \in 1 .. l
          BY <2>1, <2>2, <2>7
        <4>2. m[k + 1].addr = list[k + 1].addr
          <5>1. k + 1 = l \/ k + 1 \in 1 .. Len(m) - 1
            BY <2>1, <2>7
          <5>2. QED
            BY <2>2, <3>2, <5>1
        <4>3. QED
          BY <2>1, <4>1, <4>2 DEF Spaced, l
      <3>5. Spaced(m)
        BY <3>3, <3>4 DEF Spaced
      <3>6. Ends(n, m)
        BY <1>1, <2>2, <2>7, <3>2 DEF b
      <3>7. QED
        BY <1>1, <2>2, <3>5, <3>6 DEF Q, m, b
    <2>8. QED
      BY <2>2, <2>6, <2>7 
  <1>4. Compacted(free) \in Q[Len(free)]
    <2> HIDE DEF Q
    <2>1. QED
      BY <1>2, <1>3, CompactedIn
  <1>5. QED
    BY <1>1, <1>4

-----------------------------------------------------------------------------
(***************************************************************************)
(* The invariant.                                                          *)
(***************************************************************************)
\* The lists and the descriptors: no two blocks share a byte, whatever their sizes.
Fine(free, used, fresh, top) ==
  /\ free \in Seq(AnyBlock) /\ used \in Seq(AnyBlock) /\ fresh \in Nat
  /\ top \in Base .. Limit
  /\ Len(free) + Len(used) + fresh = MaxBlocks
  /\ \A i \in 1 .. Len(free) : Within(free[i], top)
  /\ \A i \in 1 .. Len(used) : Within(used[i], top)
  /\ Disjointed(free) /\ Disjointed(used)
  /\ \A i \in 1 .. Len(free), j \in 1 .. Len(used) : Apart(free[i], used[j])

\* The order of the free list, and that every byte below the top is in some block, as
\* long as no block of size 0 was given back.
Tidy(free, used, top) ==
  /\ Spaced(free)
  /\ \A x \in Base .. top - 1 : Covered(free, x) \/ Covered(used, x)
  /\ \A k, l \in 1 .. Len(used) : k # l => used[k].addr # used[l].addr

\* The used blocks are the program's: f tells which is whose.  Blocks may share an
\* address if one is empty, and ta_free() finds the one allocated last.
Owns(f, own, used) ==
  /\ f \in [own -> 1 .. Len(used)]
  /\ \A b, c \in own : b # c => f[b] # f[c]
  /\ \A k \in 1 .. Len(used) : \E b \in own : f[b] = k
  /\ \A b \in own : used[f[b]].addr = b.addr /\ b.size <= used[f[b]].size
  /\ \A b \in own : b.size = 0 => \A k \in 1 .. Len(used) : k < f[b] => used[k].addr # b.addr

\* A heap h, while the program holds the blocks of own; gone tells if an empty one was
\* given back.
Sound(h, own, gone) ==
  /\ h = Heap(h.free, h.used, h.fresh, h.top)
  /\ Fine(h.free, h.used, h.fresh, h.top)
  /\ own \subseteq AnyBlock
  /\ \A b, c \in own : b.size = 0 /\ c.size = 0 => b = c
  /\ \E f : Owns(f, own, h.used)
  /\ gone \in BOOLEAN
  /\ gone \/ Tidy(h.free, h.used, h.top)

HeapInv == Sound(heap, owned, emptied)

-----------------------------------------------------------------------------
(***************************************************************************)
(* Blocks enter and leave the lists.                                       *)
(***************************************************************************)
\* The place that the k-th element has in a list with one more element, at i.
Skip(i, k) == IF k < i THEN k ELSE k + 1

LEMMA RemovedPlaces ==
  ASSUME NEW list \in Seq(AnyBlock), NEW i \in 1 .. Len(list)
  PROVE  LET r == RemoveAt(list, i)
         IN  /\ r \in Seq(AnyBlock) /\ Len(list) \in Nat /\ Len(r) = Len(list) - 1 /\ Len(r) \in Nat
             /\ list[i] \in AnyBlock
             /\ \A k \in 1 .. Len(r) :
                  Skip(i, k) \in 1 .. Len(list) /\ Skip(i, k) # i /\ r[k] = list[Skip(i, k)]
             /\ \A k, l \in 1 .. Len(r) : k # l => Skip(i, k) # Skip(i, l)
             /\ \A j \in 1 .. Len(list) : j # i => \E k \in 1 .. Len(r) : Skip(i, k) = j
  <1> DEFINE n == Len(list)
             r == RemoveAt(list, i)
  <1>1. /\ r \in Seq(AnyBlock) /\ n \in Nat /\ Len(r) = n - 1
        /\ \A k \in 1 .. n - 1 : r[k] = IF k < i THEN list[k] ELSE list[k + 1]
        /\ list[i] \in AnyBlock
    BY Removal
  <1> HIDE DEF n, r
  <1>2. i \in 1 .. n
    BY DEF n
  <1>3. \A k \in 1 .. n - 1 : Skip(i, k) \in 1 .. n /\ Skip(i, k) # i /\ r[k] = list[Skip(i, k)]
    BY <1>1, <1>2 DEF Skip
  <1>4. \A k, l \in 1 .. n - 1 : k # l => Skip(i, k) # Skip(i, l)
    BY <1>1, <1>2 DEF Skip
  <1>5. ASSUME NEW j \in 1 .. n, j # i
        PROVE  \E k \in 1 .. n - 1 : Skip(i, k) = j
    <2> DEFINE k == IF j < i THEN j ELSE j - 1
    <2>1. k \in 1 .. n - 1 /\ Skip(i, k) = j
      BY <1>1, <1>2, <1>5 DEF Skip
    <2> HIDE DEF k
    <2>2. QED
      BY <2>1
  <1>6. n - 1 \in Nat
    BY <1>1, <1>2
  <1>7. QED
    BY <1>1, <1>3, <1>4, <1>5, <1>6 DEF n, r

LEMMA InsertedPlaces ==
  ASSUME NEW list \in Seq(AnyBlock), NEW b \in AnyBlock, NEW i \in 1 .. Len(list) + 1
  PROVE  LET r == InsertAt(list, i, b)
         IN  /\ r \in Seq(AnyBlock) /\ Len(list) \in Nat /\ Len(r) = Len(list) + 1 /\ Len(r) \in Nat
             /\ i \in 1 .. Len(r) /\ r[i] = b
             /\ \A k \in 1 .. Len(list) :
                  Skip(i, k) \in 1 .. Len(r) /\ Skip(i, k) # i /\ r[Skip(i, k)] = list[k]
             /\ \A j \in 1 .. Len(r) : j # i => \E k \in 1 .. Len(list) : Skip(i, k) = j
  <1> DEFINE n == Len(list)
             r == InsertAt(list, i, b)
  <1>1. /\ r \in Seq(AnyBlock) /\ n \in Nat /\ Len(r) = n + 1
        /\ \A k \in 1 .. n + 1 :
             r[k] = IF k < i THEN list[k] ELSE IF k = i THEN b ELSE list[k - 1]
    <2>1. n \in Nat
      OBVIOUS
    <2>2. /\ r \in Seq(AnyBlock) /\ Len(r) = n + 1
          /\ \A k \in 1 .. n + 1 :
               r[k] = IF k < i THEN list[k] ELSE IF k = i THEN b ELSE list[k - 1]
      BY Insertion
    <2>3. QED
      BY <2>1, <2>2
  <1> HIDE DEF n, r
  <1>2. i \in 1 .. n + 1
    BY DEF n
  <1>3. ASSUME NEW k \in 1 .. n
        PROVE  Skip(i, k) \in 1 .. n + 1 /\ Skip(i, k) # i /\ r[Skip(i, k)] = list[k]
    BY <1>1, <1>2 DEF Skip
  <1>4. ASSUME NEW j \in 1 .. n + 1, j # i
        PROVE  \E k \in 1 .. n : Skip(i, k) = j
    <2> DEFINE k == IF j < i THEN j ELSE j - 1
    <2>1. k \in 1 .. n /\ Skip(i, k) = j
      BY <1>1, <1>2, <1>4 DEF Skip
    <2> HIDE DEF k
    <2>2. QED
      BY <2>1
  <1>5. r[i] = b /\ n + 1 \in Nat
    BY <1>1, <1>2
  <1>6. QED
    BY <1>1, <1>2, <1>3, <1>4, <1>5 DEF n, r

LEMMA PushedPlaces ==
  ASSUME NEW list \in Seq(AnyBlock), NEW b \in AnyBlock
  PROVE  LET r == <<b>> \o list
         IN  /\ r \in Seq(AnyBlock) /\ Len(list) \in Nat /\ Len(r) = Len(list) + 1
             /\ r[1] = b /\ Head(r) = b
             /\ \A k \in 1 .. Len(list) : r[k + 1] = list[k]
  <1> DEFINE n == Len(list)
             r == <<b>> \o list
  <1>1. n \in Nat /\ <<b>> \in Seq(AnyBlock) /\ Len(<<b>>) = 1 /\ <<b>>[1] = b
    OBVIOUS
  <1>2. /\ r \in Seq(AnyBlock) /\ Len(r) = Len(<<b>>) + n
        /\ \A k \in 1 .. Len(<<b>>) + n :
             r[k] = IF k <= Len(<<b>>) THEN <<b>>[k] ELSE list[k - Len(<<b>>)]
    BY <1>1, ConcatProperties
  <1>3. Len(r) = n + 1 /\ \A k \in 1 .. 1 + n : r[k] = IF k <= 1 THEN b ELSE list[k - 1]
    <2> HIDE DEF n, r
    <2>1. QED
      BY <1>1, <1>2
  <1>4. r[1] = b /\ \A k \in 1 .. n : r[k + 1] = list[k]
    <2> HIDE DEF n, r
    <2>1. QED
      BY <1>1, <1>3
  <1>5. Head(r) = r[1]
    <2>1. r # <<>>
      BY <1>1, <1>2, <1>3, EmptySeq
    <2> HIDE DEF r
    <2>2. QED
      BY <1>2, <2>1
  <1>6. QED
    BY <1>1, <1>2, <1>3, <1>4, <1>5

\* A block apart from all others.
Clear(b, free, used) ==
  /\ \A k \in 1 .. Len(free) : Apart(b, free[k])
  /\ \A k \in 1 .. Len(used) : Apart(b, used[k])

LEMMA ApartSymmetric == \A b, c : Apart(b, c) <=> Apart(c, b)
  BY DEF Apart

LEMMA FreeRemoved ==
  ASSUME NEW free, NEW used, NEW fresh, NEW top, Fine(free, used, fresh, top),
         NEW i \in 1 .. Len(free)
  PROVE  /\ Fine(RemoveAt(free, i), used, fresh + 1, top)
         /\ free[i] \in AnyBlock /\ Within(free[i], top)
         /\ Clear(free[i], RemoveAt(free, i), used)
  <1> DEFINE r == RemoveAt(free, i)
  <1>1. /\ free \in Seq(AnyBlock) /\ used \in Seq(AnyBlock) /\ fresh \in Nat
        /\ Len(free) \in Nat /\ Len(used) \in Nat /\ MaxBlocks \in Nat
        /\ Len(free) + Len(used) + fresh = MaxBlocks
    BY HeapAssumption DEF Fine
  <1>2. /\ r \in Seq(AnyBlock) /\ Len(r) = Len(free) - 1 /\ Len(r) \in Nat /\ free[i] \in AnyBlock
        /\ \A k \in 1 .. Len(r) :
             Skip(i, k) \in 1 .. Len(free) /\ Skip(i, k) # i /\ r[k] = free[Skip(i, k)]
        /\ \A k, l \in 1 .. Len(r) : k # l => Skip(i, k) # Skip(i, l)
    BY <1>1, RemovedPlaces
  <1> HIDE DEF r
  <1>3. fresh + 1 \in Nat /\ Len(r) + Len(used) + (fresh + 1) = MaxBlocks
    <2> DEFINE l == Len(r)
               m == Len(free)
               n == Len(used)
    <2>1. /\ l \in Nat /\ m \in Nat /\ n \in Nat /\ fresh \in Nat
          /\ l = m - 1 /\ m + n + fresh = MaxBlocks
      BY <1>1, <1>2
    <2> HIDE DEF l, m, n
    <2>2. fresh + 1 \in Nat /\ l + n + (fresh + 1) = MaxBlocks
      BY <2>1
    <2>3. QED
      BY <2>2 DEF l, m, n
  <1>4. Disjointed(r)
    BY <1>2 DEF Disjointed, Fine
  <1>5. /\ \A k \in 1 .. Len(r) : Within(r[k], top) /\ Apart(free[i], r[k])
        /\ \A k \in 1 .. Len(r), j \in 1 .. Len(used) : Apart(r[k], used[j])
    BY <1>2 DEF Disjointed, Fine
  <1>6. QED
    BY <1>1, <1>2, <1>3, <1>4, <1>5 DEF Fine, Clear, r

LEMMA UsedRemoved ==
  ASSUME NEW free, NEW used, NEW fresh, NEW top, Fine(free, used, fresh, top),
         NEW i \in 1 .. Len(used)
  PROVE  /\ Fine(free, RemoveAt(used, i), fresh + 1, top)
         /\ used[i] \in AnyBlock /\ Within(used[i], top)
         /\ Clear(used[i], free, RemoveAt(used, i))
  <1> DEFINE r == RemoveAt(used, i)
  <1>1. /\ free \in Seq(AnyBlock) /\ used \in Seq(AnyBlock) /\ fresh \in Nat
        /\ Len(free) \in Nat /\ Len(used) \in Nat /\ MaxBlocks \in Nat
        /\ Len(free) + Len(used) + fresh = MaxBlocks
    BY HeapAssumption DEF Fine
  <1>2. /\ r \in Seq(AnyBlock) /\ Len(r) = Len(used) - 1 /\ Len(r) \in Nat /\ used[i] \in AnyBlock
        /\ \A k \in 1 .. Len(r) :
             Skip(i, k) \in 1 .. Len(used) /\ Skip(i, k) # i /\ r[k] = used[Skip(i, k)]
        /\ \A k, l \in 1 .. Len(r) : k # l => Skip(i, k) # Skip(i, l)
    BY <1>1, RemovedPlaces
  <1> HIDE DEF r
  <1>3. fresh + 1 \in Nat /\ Len(free) + Len(r) + (fresh + 1) = MaxBlocks
    <2> DEFINE l == Len(r)
               m == Len(free)
               n == Len(used)
    <2>1. /\ l \in Nat /\ m \in Nat /\ n \in Nat /\ fresh \in Nat
          /\ l = n - 1 /\ m + n + fresh = MaxBlocks
      BY <1>1, <1>2
    <2> HIDE DEF l, m, n
    <2>2. fresh + 1 \in Nat /\ m + l + (fresh + 1) = MaxBlocks
      BY <2>1
    <2>3. QED
      BY <2>2 DEF l, m, n
  <1>4. Disjointed(r)
    BY <1>2 DEF Disjointed, Fine
  <1>5. /\ \A k \in 1 .. Len(r) : Within(r[k], top) /\ Apart(used[i], r[k])
        /\ \A k \in 1 .. Len(free), j \in 1 .. Len(r) : Apart(free[k], r[j])
        /\ \A k \in 1 .. Len(free) : Apart(used[i], free[k])
    BY <1>2, ApartSymmetric DEF Disjointed, Fine
  <1>6. QED
    BY <1>1, <1>2, <1>3, <1>4, <1>5 DEF Fine, Clear, r

LEMMA UsedPushed ==
  ASSUME NEW free, NEW used, NEW fresh \in Nat, NEW top, Fine(free, used, fresh + 1, top),
         NEW b \in AnyBlock, Within(b, top), Clear(b, free, used)
  PROVE  Fine(free, <<b>> \o used, fresh, top)
  <1> DEFINE r == <<b>> \o used
  <1>1. /\ free \in Seq(AnyBlock) /\ used \in Seq(AnyBlock)
        /\ Len(free) \in Nat /\ Len(used) \in Nat /\ MaxBlocks \in Nat
        /\ Len(free) + Len(used) + (fresh + 1) = MaxBlocks
    BY HeapAssumption DEF Fine
  <1>2. /\ r \in Seq(AnyBlock) /\ Len(r) = Len(used) + 1
        /\ r[1] = b
        /\ \A k \in 1 .. Len(used) : r[k + 1] = used[k]
    BY <1>1, PushedPlaces
  <1> HIDE DEF r
  <1>3. Len(free) + Len(r) + fresh = MaxBlocks
    BY <1>1, <1>2
  <1>4. \A k \in 1 .. Len(r) : (r[k] = b /\ k = 1) \/ (k - 1 \in 1 .. Len(used) /\ r[k] = used[k - 1])
    <2>1. SUFFICES ASSUME NEW k \in 1 .. Len(r), k # 1
                   PROVE  k - 1 \in 1 .. Len(used) /\ r[k] = used[k - 1]
      BY <1>2
    <2>2. k - 1 \in 1 .. Len(used) /\ (k - 1) + 1 = k
      BY <1>1, <1>2, <2>1
    <2>3. QED
      BY <1>2, <2>2
  <1>5. \A k, l \in 1 .. Len(r) : k # l => Apart(r[k], r[l])
    <2>1. SUFFICES ASSUME NEW k \in 1 .. Len(r), NEW l \in 1 .. Len(r), k # l
                   PROVE  Apart(r[k], r[l])
      OBVIOUS
    <2>2. CASE k = 1
      BY <1>1, <1>2, <1>4, <2>1, <2>2 DEF Clear
    <2>3. CASE l = 1
      BY <1>1, <1>2, <1>4, <2>1, <2>3, ApartSymmetric DEF Clear
    <2>4. CASE k # 1 /\ l # 1
      <3>1. k - 1 \in 1 .. Len(used) /\ l - 1 \in 1 .. Len(used) /\ k - 1 # l - 1
        BY <1>1, <1>2, <1>4, <2>1, <2>4
      <3>2. QED
        BY <1>4, <2>4, <3>1 DEF Fine, Disjointed
    <2>5. QED
      BY <2>2, <2>3, <2>4
  <1>6. /\ \A k \in 1 .. Len(r) : Within(r[k], top)
        /\ \A i \in 1 .. Len(free), k \in 1 .. Len(r) : Apart(free[i], r[k])
    BY <1>4, ApartSymmetric DEF Fine, Clear
  <1>7. QED
    BY <1>1, <1>2, <1>3, <1>5, <1>6 DEF Fine, Disjointed, r

\* The top can move to wherever no block ends above.
LEMMA TopMoved ==
  ASSUME NEW free, NEW used, NEW fresh, NEW top, Fine(free, used, fresh, top),
         NEW up \in Base .. Limit,
         \A k \in 1 .. Len(free) : Within(free[k], up),
         \A k \in 1 .. Len(used) : Within(used[k], up)
  PROVE  Fine(free, used, fresh, up)
  BY DEF Fine

\* Where insert_block() puts a block.
LEMMA InsertionPoint ==
  ASSUME NEW free \in Seq(AnyBlock), NEW b \in AnyBlock
  PROVE  \E i \in 1 .. Len(free) + 1 :
           /\ InsertBlock(free, b) = InsertAt(free, i, b)
           /\ \A k \in 1 .. Len(free) : k < i => ~(b.addr <= free[k].addr)
           /\ i \in 1 .. Len(free) => b.addr <= free[i].addr
  <1> DEFINE n == Len(free)
             S == {k \in DOMAIN free : b.addr <= free[k].addr} \cup {n + 1}
  <1>1. n \in Nat /\ DOMAIN free = 1 .. n
    OBVIOUS
  <1> HIDE DEF n
  <1>2. S \subseteq 1 .. n + 1 /\ S # {}
    BY <1>1
  <1>3. Least(S) \in S /\ \A j \in S : Least(S) <= j
    <2>1. S \subseteq Nat
      BY <1>1, <1>2
    <2> HIDE DEF S
    <2>2. QED
      BY <1>2, <2>1, LeastExists
  <1> DEFINE i == Least(S)
  <1>4. i \in 1 .. n + 1
    <2> HIDE DEF S
    <2>1. QED
      BY <1>2, <1>3
  <1>5. InsertBlock(free, b) = InsertAt(free, i, b)
    BY DEF InsertBlock, n
  <1>6. ASSUME NEW k \in 1 .. n, k < i
        PROVE  ~(b.addr <= free[k].addr)
    <2>1. k \notin S
      <3> HIDE DEF S
      <3>1. i \in Nat /\ k \in Nat
        BY <1>1, <1>4
      <3> HIDE DEF i
      <3>2. ~(i <= k)
        BY <1>6, <3>1
      <3>3. QED
        BY <1>3, <3>2 DEF i
    <2>2. QED
      BY <1>1, <2>1
  <1>7. i \in 1 .. n => b.addr <= free[i].addr
    BY <1>1, <1>3
  <1> HIDE DEF i, S
  <1>8. QED
    BY <1>4, <1>5, <1>6, <1>7 DEF n

LEMMA FreeInserted ==
  ASSUME NEW free, NEW used, NEW fresh \in Nat, NEW top, Fine(free, used, fresh + 1, top),
         NEW b \in AnyBlock, Within(b, top), Clear(b, free, used)
  PROVE  Fine(InsertBlock(free, b), used, fresh, top)
  <1> DEFINE r == InsertBlock(free, b)
  <1>1. /\ free \in Seq(AnyBlock) /\ used \in Seq(AnyBlock) /\ top \in Base .. Limit
        /\ Len(free) \in Nat /\ Len(used) \in Nat /\ MaxBlocks \in Nat
        /\ Len(free) + Len(used) + (fresh + 1) = MaxBlocks
    BY HeapAssumption DEF Fine
  <1>2. PICK i \in 1 .. Len(free) + 1 : r = InsertAt(free, i, b)
    BY <1>1, InsertionPoint
  <1>3. /\ r \in Seq(AnyBlock) /\ Len(r) = Len(free) + 1
        /\ i \in 1 .. Len(r) /\ r[i] = b
        /\ \A k \in 1 .. Len(free) : r[Skip(i, k)] = free[k]
        /\ \A j \in 1 .. Len(r) : j # i => \E k \in 1 .. Len(free) : Skip(i, k) = j
    BY <1>1, <1>2, InsertedPlaces
  <1> HIDE DEF r
  <1>4. Len(r) + Len(used) + fresh = MaxBlocks
    <2> DEFINE l == Len(r)
               m == Len(free)
               n == Len(used)
    <2>1. l \in Nat /\ m \in Nat /\ n \in Nat /\ l = m + 1 /\ m + n + (fresh + 1) = MaxBlocks
      BY <1>1, <1>3
    <2> HIDE DEF l, m, n
    <2>2. l + n + fresh = MaxBlocks
      BY <2>1
    <2>3. QED
      BY <2>2 DEF l, m, n
  <1>5. \A j \in 1 .. Len(r) : (j = i /\ r[j] = b) \/ \E k \in 1 .. Len(free) : Skip(i, k) = j /\ r[j] = free[k]
    BY <1>3
  <1>6. ASSUME NEW j \in 1 .. Len(r), NEW l \in 1 .. Len(r), j # l
        PROVE  Apart(r[j], r[l])
    <2>1. CASE j = i
      BY <1>3, <1>5, <1>6, <2>1 DEF Clear
    <2>2. CASE l = i
      BY <1>3, <1>5, <1>6, <2>2, ApartSymmetric DEF Clear
    <2>3. CASE j # i /\ l # i
      <3>1. PICK k \in 1 .. Len(free) : Skip(i, k) = j /\ r[j] = free[k]
        BY <1>5, <2>3
      <3>2. PICK m \in 1 .. Len(free) : Skip(i, m) = l /\ r[l] = free[m]
        BY <1>5, <2>3
      <3>3. QED
        BY <1>6, <3>1, <3>2 DEF Fine, Disjointed
    <2>4. QED
      BY <2>1, <2>2, <2>3
  <1>7. /\ \A j \in 1 .. Len(r) : Within(r[j], top)
        /\ \A j \in 1 .. Len(r), k \in 1 .. Len(used) : Apart(r[j], used[k])
    BY <1>5 DEF Fine, Clear
  <1>8. QED
    BY <1>1, <1>3, <1>4, <1>6, <1>7 DEF Fine, Disjointed, r

LEMMA CompactedFine ==
  ASSUME NEW free, NEW used, NEW fresh, NEW top, Fine(free, used, fresh, top)
  PROVE  Fine(Compacted(free), used, Released(fresh, free), top)
  <1> DEFINE r == Compacted(free)
  <1>1. /\ free \in Seq(AnyBlock) /\ used \in Seq(AnyBlock) /\ fresh \in Nat
        /\ Len(used) \in Nat /\ MaxBlocks \in Nat /\ top \in Nat
        /\ Len(free) + Len(used) + fresh = MaxBlocks
    BY HeapAssumption DEF Fine
  <1>2. r \in Seq(AnyBlock) /\ Len(free) \in Nat /\ Len(r) \in Nat /\ Len(r) <= Len(free)
    BY <1>1, CompactedShorter
  <1>3. Released(fresh, free) = fresh + Len(free) - Len(r)
    BY DEF Released
  <1>4. Disjointed(r)
    BY <1>1, CompactedDisjoint DEF Fine
  <1>5. \A k \in 1 .. Len(r) : Within(r[k], top)
    BY <1>1, CompactedWithin DEF Fine
  <1>6. ASSUME NEW j \in 1 .. Len(used)
        PROVE  \A k \in 1 .. Len(r) : Apart(r[k], used[j])
    <2>1. used[j] \in AnyBlock
      BY <1>1
    <2>2. \A i \in 1 .. Len(free) : Apart(used[j], free[i])
      BY ApartSymmetric DEF Fine
    <2>3. \A k \in 1 .. Len(r) : Apart(used[j], r[k])
      BY <1>1, <2>1, <2>2, CompactedApart
    <2>4. QED
      BY <2>3, ApartSymmetric
  <1> HIDE DEF r
  <1>7. /\ Released(fresh, free) \in Nat
        /\ Len(r) + Len(used) + Released(fresh, free) = MaxBlocks
    <2> DEFINE l == Len(r)
               m == Len(free)
               n == Len(used)
               f == Released(fresh, free)
    <2>1. /\ l \in Nat /\ m \in Nat /\ n \in Nat /\ l <= m /\ m + n + fresh = MaxBlocks
          /\ f = fresh + m - l /\ fresh \in Nat
      BY <1>1, <1>2, <1>3
    <2> HIDE DEF l, m, n, f
    <2>2. f \in Nat /\ l + n + f = MaxBlocks
      BY <2>1
    <2>3. QED
      BY <2>2 DEF l, m, n, f
  <1>8. QED
    BY <1>1, <1>2, <1>4, <1>5, <1>6, <1>7 DEF Fine, r

\* insert_block() and compact() together.
LEMMA InsertFine ==
  ASSUME NEW free, NEW used, NEW fresh \in Nat, NEW top, Fine(free, used, fresh + 1, top),
         NEW b \in AnyBlock, Within(b, top), Clear(b, free, used)
  PROVE  LET h == Insert(free, used, fresh, top, b)
         IN  /\ h = Heap(h.free, h.used, h.fresh, h.top)
             /\ Fine(h.free, h.used, h.fresh, h.top)
             /\ h.free = Compacted(InsertBlock(free, b)) /\ h.used = used /\ h.top = top
  <1>1. Fine(InsertBlock(free, b), used, fresh, top)
    BY FreeInserted
  <1> DEFINE r == InsertBlock(free, b)
             h == Insert(free, used, fresh, top, b)
  <1>2. Fine(Compacted(r), used, Released(fresh, r), top)
    <2> HIDE DEF r
    <2>1. QED
      BY <1>1, CompactedFine DEF r
  <1>3. h = Heap(Compacted(r), used, Released(fresh, r), top)
    BY DEF Insert
  <1>4. /\ h.free = Compacted(r) /\ h.used = used /\ h.fresh = Released(fresh, r) /\ h.top = top
    <2> HIDE DEF r, h
    <2>1. QED
      BY <1>3 DEF Heap
  <1> HIDE DEF h, r
  <1>5. QED
    BY <1>2, <1>3, <1>4 DEF h, r

\* Inserted where it belongs, a block that is not empty keeps the order.
LEMMA InsertSpaced ==
  ASSUME NEW free \in Seq(AnyBlock), Spaced(free), NEW b \in AnyBlock, b.size > 0,
         \A k \in 1 .. Len(free) : Apart(b, free[k])
  PROVE  Spaced(Compacted(InsertBlock(free, b)))
  <1> DEFINE r == InsertBlock(free, b)
             n == Len(free)
  <1>1. n \in Nat /\ \A k \in 1 .. n : free[k] \in AnyBlock
    OBVIOUS
  <1>2. PICK i \in 1 .. n + 1 :
          /\ r = InsertAt(free, i, b)
          /\ \A k \in 1 .. n : k < i => ~(b.addr <= free[k].addr)
          /\ i \in 1 .. n => b.addr <= free[i].addr
    BY InsertionPoint
  <1>3. /\ r \in Seq(AnyBlock) /\ Len(r) = n + 1
        /\ \A k \in 1 .. n + 1 :
             r[k] = IF k < i THEN free[k] ELSE IF k = i THEN b ELSE free[k - 1]
    <2>1. i \in 1 .. Len(free) + 1
      OBVIOUS
    <2> HIDE DEF r, n
    <2>2. r = InsertAt(free, i, b)
      BY <1>2
    <2>3. /\ InsertAt(free, i, b) \in Seq(AnyBlock)
          /\ Len(InsertAt(free, i, b)) = Len(free) + 1
          /\ \A k \in 1 .. Len(free) + 1 :
               InsertAt(free, i, b)[k] =
                 IF k < i THEN free[k] ELSE IF k = i THEN b ELSE free[k - 1]
      BY <2>1, Insertion
    <2>4. QED
      BY <2>2, <2>3 DEF n
  <1>4. b.addr \in Nat /\ b.size \in Nat /\ End(b) = b.addr + b.size /\ End(b) \in Nat
    BY BlockParts
  <1>5. ASSUME NEW k \in 1 .. n
        PROVE  /\ k < i => End(free[k]) <= b.addr
               /\ k = i => End(b) <= free[k].addr
               /\ free[k].size > 0
    <2>1. /\ free[k].addr \in Nat /\ free[k].size \in Nat
          /\ End(free[k]) = free[k].addr + free[k].size
      BY <1>1, BlockParts
    <2>2. free[k].size > 0
      BY DEF Spaced
    <2>3. End(b) <= free[k].addr \/ End(free[k]) <= b.addr
      <3>1. Apart(b, free[k])
        OBVIOUS
      <3>2. b.size # 0 /\ free[k].size # 0
        BY <1>4, <2>1, <2>2
      <3>3. QED
        BY <3>1, <3>2 DEF Apart
    <2>4. k < i => End(free[k]) <= b.addr
      <3>1. SUFFICES ASSUME k < i PROVE End(free[k]) <= b.addr
        OBVIOUS
      <3>2. ~(b.addr <= free[k].addr)
        BY <1>2, <3>1
      <3> DEFINE a == free[k].addr
                 m == free[k].size
                 e == End(free[k])
      <3> HIDE DEF n, r, a, m, e
      <3>3. e <= b.addr
        BY <1>4, <2>1, <2>2, <2>3, <3>2 DEF a, m, e
      <3>4. QED
        BY <3>3 DEF e
    <2>5. k = i => End(b) <= free[k].addr
      <3>1. SUFFICES ASSUME k = i PROVE End(b) <= free[k].addr
        OBVIOUS
      <3>2. b.addr <= free[k].addr
        BY <1>2, <3>1
      <3>3. QED
        BY <1>4, <2>1, <2>2, <2>3, <3>2
    <2>6. QED
      BY <2>2, <2>4, <2>5
  <1>6. \A k \in 1 .. n - 1 : End(free[k]) <= free[k + 1].addr
    <2>1. SUFFICES ASSUME NEW k \in 1 .. n - 1
                   PROVE  End(free[k]) <= free[k + 1].addr
      OBVIOUS
    <2>2. k \in 1 .. n /\ k + 1 \in 1 .. n
      BY <1>1
    <2>3. End(free[k]) \in Nat /\ free[k + 1].addr \in Nat
      BY <1>1, <2>2, BlockParts
    <2>4. End(free[k]) < free[k + 1].addr
      BY DEF Spaced
    <2>5. QED
      BY <2>3, <2>4
  <1> HIDE DEF n, r
  <1>7. \A k \in 1 .. n + 1 : r[k].size > 0
    <2>1. SUFFICES ASSUME NEW k \in 1 .. n + 1
                   PROVE  r[k].size > 0
      OBVIOUS
    <2>2. (k < i => k \in 1 .. n) /\ (k > i => k - 1 \in 1 .. n)
      BY <1>1, <1>2
    <2>3. QED
      BY <1>1, <1>2, <1>3, <1>5, <2>2
  <1>8. ASSUME NEW k \in 1 .. n
        PROVE  End(r[k]) <= r[k + 1].addr
    <2>1. k \in 1 .. n + 1 /\ k + 1 \in 1 .. n + 1 /\ (k + 1) - 1 = k
      BY <1>1
    <2>2. CASE k + 1 < i
      <3>1. r[k] = free[k] /\ r[k + 1] = free[k + 1] /\ k \in 1 .. n - 1
        BY <1>1, <1>2, <1>3, <2>1, <2>2
      <3>2. QED
        BY <1>6, <3>1
    <2>3. CASE k + 1 = i
      <3>1. r[k] = free[k] /\ r[k + 1] = b /\ k < i
        BY <1>1, <1>2, <1>3, <2>1, <2>3
      <3>2. QED
        BY <1>5, <3>1
    <2>4. CASE k = i
      <3>1. r[k] = b /\ r[k + 1] = free[k]
        BY <1>1, <1>2, <1>3, <2>1, <2>4
      <3>2. QED
        BY <1>5, <2>4, <3>1
    <2>5. CASE k > i
      <3>1. r[k] = free[k - 1] /\ r[k + 1] = free[k] /\ k - 1 \in 1 .. n - 1 /\ (k - 1) + 1 = k
        BY <1>1, <1>2, <1>3, <2>1, <2>5
      <3>2. QED
        BY <1>6, <3>1
    <2>6. QED
      BY <1>1, <1>2, <2>2, <2>3, <2>4, <2>5
  <1>9. InOrder(r)
    <2>1. Len(r) = n + 1 /\ 1 .. Len(r) - 1 = 1 .. n
      BY <1>1, <1>3
    <2>2. QED
      BY <1>7, <1>8, <2>1 DEF InOrder
  <1>10. QED
    BY <1>3, <1>9, CompactedSpaced DEF r

-----------------------------------------------------------------------------
(***************************************************************************)
(* alloc_block() and ta_free().                                            *)
(***************************************************************************)
\* Sizes are rounded up, not down.
LEMMA AlignedUp ==
  ASSUME NEW n \in Nat
  PROVE  Aligned(n) \in Nat /\ Aligned(n) >= n
  <1> DEFINE x == n + Alignment - 1
             q == x \div Alignment
             r == x % Alignment
  <1>1. Alignment \in Nat \ {0} /\ x \in Nat
    BY HeapAssumption
  <1>2. q \in Nat /\ r \in 0 .. Alignment - 1 /\ x = Alignment * q + r
    <2> HIDE DEF x
    <2>1. QED
      BY <1>1, SMTT(30)
  <1>3. Aligned(n) = q * Alignment
    BY DEF Aligned
  <1> HIDE DEF q, r
  <1>4. q * Alignment \in Nat /\ q * Alignment = Alignment * q
    BY <1>1, <1>2
  <1>5. QED
    BY <1>1, <1>2, <1>3, <1>4

\* The heap after alloc_block(): well formed, with one more used block, large enough.
Allocated(g, used, n) ==
  \E u \in AnyBlock :
    /\ g = Heap(g.free, <<u>> \o used, g.fresh, g.top)
    /\ Fine(g.free, <<u>> \o used, g.fresh, g.top)
    /\ u.size >= n

LEMMA HeapParts ==
  ASSUME NEW free, NEW used, NEW fresh, NEW top
  PROVE  LET h == Heap(free, used, fresh, top)
         IN  /\ h.free = free /\ h.used = used /\ h.fresh = fresh /\ h.top = top
             /\ h = Heap(h.free, h.used, h.fresh, h.top)
  BY DEF Heap

LEMMA SplitBlock ==
  ASSUME NEW x \in AnyBlock, NEW num \in Nat, num <= x.size
  PROVE  LET b == Block(x.addr, num)
             rest == Block(End(b), x.size - num)
         IN  /\ b \in AnyBlock /\ rest \in AnyBlock
             /\ b.addr = x.addr /\ b.size = num /\ End(b) = x.addr + num
             /\ rest.addr = x.addr + num /\ rest.size = x.size - num /\ End(rest) = End(x)
             /\ Apart(b, rest)
             /\ \A u \in AnyBlock : Apart(x, u) => Apart(b, u) /\ Apart(rest, u)
             /\ \A top \in Nat : Within(x, top) => Within(b, top) /\ Within(rest, top)
  <1> DEFINE a == x.addr
             m == x.size
             b == Block(a, num)
             l == m - num
             e == End(b)
             rest == Block(e, l)
  <1>1. a \in Nat /\ m \in Nat /\ End(x) = a + m
    BY BlockParts
  <1>2. num <= m
    OBVIOUS
  <1> HIDE DEF a, m
  <1>3. b \in AnyBlock /\ b.addr = a /\ b.size = num /\ e = a + num
    BY <1>1, BlockMade
  <1>4. l \in Nat /\ e \in Nat
    BY <1>1, <1>2, <1>3
  <1> HIDE DEF l, e
  <1>5. rest \in AnyBlock /\ rest.addr = e /\ rest.size = l /\ End(rest) = e + l
    BY <1>4, BlockMade
  <1> HIDE DEF b, rest
  <1>6. End(rest) = End(x) /\ End(rest) = a + m
    BY <1>1, <1>2, <1>3, <1>5 DEF l
  <1>7. End(b) = a + num
    BY <1>3 DEF e
  <1>8. Apart(b, rest)
    BY <1>1, <1>3, <1>5, <1>7 DEF Apart
  <1>9. ASSUME NEW u \in AnyBlock, Apart(x, u)
        PROVE  Apart(b, u) /\ Apart(rest, u)
    <2>1. u.addr \in Nat /\ u.size \in Nat /\ End(u) = u.addr + u.size
      BY BlockParts
    <2>2. m = 0 \/ u.size = 0 \/ a + m <= u.addr \/ End(u) <= a
      BY <1>1, <1>9 DEF Apart, a, m
    <2>3. Apart(b, u)
      BY <1>1, <1>2, <1>3, <1>7, <2>1, <2>2 DEF Apart
    <2>4. Apart(rest, u)
      BY <1>1, <1>2, <1>3, <1>5, <1>6, <2>1, <2>2 DEF Apart, l
    <2>5. QED
      BY <2>3, <2>4
  <1>10. ASSUME NEW top \in Nat, Within(x, top)
         PROVE  Within(b, top) /\ Within(rest, top)
    <2>1. a >= Base /\ a + m <= Limit /\ (m = 0 \/ a + m <= top)
      BY <1>1, <1>10 DEF Within, a, m
    <2>2. Base \in Nat /\ Limit \in Nat
      BY HeapAssumption
    <2>3. Within(b, top)
      BY <1>1, <1>2, <1>3, <1>7, <2>1, <2>2 DEF Within
    <2>4. Within(rest, top)
      BY <1>1, <1>2, <1>3, <1>5, <1>6, <2>1, <2>2 DEF Within, l
    <2>5. QED
      BY <2>3, <2>4
  <1>11. QED
    BY <1>3, <1>5, <1>6, <1>7, <1>8, <1>9, <1>10 DEF a, m, l, e, b, rest

LEMMA WholeFine ==
  ASSUME NEW h, Fine(h.free, h.used, h.fresh, h.top), NEW i \in 1 .. Len(h.free)
  PROVE  LET g == TakeWhole(h, i)
         IN  /\ g = Heap(RemoveAt(h.free, i), <<h.free[i]>> \o h.used, h.fresh, h.top)
             /\ Fine(RemoveAt(h.free, i), <<h.free[i]>> \o h.used, h.fresh, h.top)
  <1>1. h.fresh \in Nat
    BY DEF Fine
  <1>2. QED
    BY <1>1, FreeRemoved, UsedPushed DEF TakeWhole

\* Blocks that are not above a block at the top end below it.
LEMMA TopBlock ==
  ASSUME NEW x \in AnyBlock, NEW u \in AnyBlock, NEW top \in Nat, End(x) >= top,
         Within(u, top), Apart(x, u), u.size # 0
  PROVE  End(u) <= x.addr
  <1>1. x.addr \in Nat /\ x.size \in Nat /\ End(x) = x.addr + x.size
    BY BlockParts
  <1>2. u.addr \in Nat /\ u.size \in Nat /\ End(u) = u.addr + u.size
    BY BlockParts
  <1>3. QED
    BY <1>1, <1>2 DEF Within, Apart

LEMMA TopFine ==
  ASSUME NEW h, Fine(h.free, h.used, h.fresh, h.top), NEW i \in 1 .. Len(h.free),
         NEW num \in Nat, IsTop(h, h.free[i], num)
  PROVE  LET b == Block(h.free[i].addr, num)
         IN  /\ TakeTop(h, i, num) = Heap(RemoveAt(h.free, i), <<b>> \o h.used, h.fresh, h.free[i].addr + num)
             /\ b \in AnyBlock /\ b.addr = h.free[i].addr /\ b.size = num
             /\ Fine(RemoveAt(h.free, i), <<b>> \o h.used, h.fresh, h.free[i].addr + num)
  <1> DEFINE x == h.free[i]
             a == x.addr
             b == Block(a, num)
             r == RemoveAt(h.free, i)
             used == h.used
             up == a + num
  <1>1. /\ h.fresh \in Nat /\ h.top \in Nat
        /\ Fine(r, used, h.fresh + 1, h.top)
        /\ x \in AnyBlock /\ Within(x, h.top) /\ Clear(x, r, used)
        /\ r \in Seq(AnyBlock) /\ used \in Seq(AnyBlock)
    <2>1. h.fresh \in Nat /\ h.top \in Nat
      BY HeapAssumption DEF Fine
    <2>2. /\ Fine(r, used, h.fresh + 1, h.top)
          /\ x \in AnyBlock /\ Within(x, h.top) /\ Clear(x, r, used)
      BY FreeRemoved
    <2> HIDE DEF r, used, x
    <2>3. QED
      BY <2>1, <2>2 DEF Fine
  <1>2. a \in Nat /\ a >= Base /\ End(x) >= h.top /\ up < Limit
    <2>1. IsTop(h, x, num)
      OBVIOUS
    <2> HIDE DEF x
    <2>2. QED
      BY <1>1, <2>1, BlockParts DEF IsTop, Within
  <1>3. TakeTop(h, i, num) = Heap(r, <<b>> \o used, h.fresh, End(b))
    BY DEF TakeTop
  <1> HIDE DEF x, a, r, used
  <1>4. b \in AnyBlock /\ b.addr = a /\ b.size = num /\ End(b) = up
    BY <1>2, BlockMade
  <1>5. up \in Base .. Limit
    BY <1>2, HeapAssumption
  <1> HIDE DEF b, up
  <1>6. ASSUME NEW u \in AnyBlock, Within(u, h.top), Apart(x, u)
        PROVE  Within(u, up) /\ Apart(b, u)
    <2>1. u.addr \in Nat /\ u.size \in Nat /\ End(u) = u.addr + u.size
      BY BlockParts
    <2>2. u.size # 0 => End(u) <= a
      BY <1>1, <1>2, <1>6, TopBlock DEF a
    <2>3. u.size # 0 => End(u) <= up
      BY <1>2, <2>1, <2>2 DEF up
    <2>4. QED
      BY <1>4, <1>6, <2>2, <2>3 DEF Within, Apart
  <1>7. /\ \A k \in 1 .. Len(r) : r[k] \in AnyBlock /\ Within(r[k], h.top) /\ Apart(x, r[k])
        /\ \A k \in 1 .. Len(used) : used[k] \in AnyBlock /\ Within(used[k], h.top) /\ Apart(x, used[k])
    BY <1>1 DEF Fine, Clear
  <1>8. Fine(r, used, h.fresh + 1, up)
    BY <1>1, <1>5, <1>6, <1>7, TopMoved
  <1>9. Clear(b, r, used)
    BY <1>6, <1>7 DEF Clear
  <1>10. Within(b, up)
    <2>1. Base \in Nat /\ Limit \in Nat
      BY HeapAssumption
    <2>2. QED
      BY <1>2, <1>4, <2>1 DEF Within, up
  <1>11. Fine(r, <<b>> \o used, h.fresh, up)
    BY <1>1, <1>4, <1>8, <1>9, <1>10, UsedPushed
  <1>12. QED
    BY <1>3, <1>4, <1>11 DEF x, a, b, r, used, up

LEMMA FreshFine ==
  ASSUME NEW h, Fine(h.free, h.used, h.fresh, h.top), NEW num \in Nat,
         h.fresh > 0, h.top + num < Limit
  PROVE  LET b == Block(h.top, num)
         IN  /\ TakeFresh(h, num) = Heap(h.free, <<b>> \o h.used, h.fresh - 1, h.top + num)
             /\ b \in AnyBlock /\ b.addr = h.top /\ b.size = num
             /\ Fine(h.free, <<b>> \o h.used, h.fresh - 1, h.top + num)
  <1> DEFINE free == h.free
             used == h.used
             fresh == h.fresh - 1
             top == h.top
             b == Block(top, num)
             up == top + num
  <1>1. /\ fresh \in Nat /\ fresh + 1 = h.fresh /\ top \in Nat /\ up \in Base .. Limit
        /\ top >= Base
    <2>1. h.fresh \in Nat /\ h.top \in Base .. Limit
      BY DEF Fine
    <2>2. QED
      BY <2>1, HeapAssumption
  <1>2. Fine(free, used, fresh + 1, top)
    BY <1>1
  <1>3. TakeFresh(h, num) = Heap(free, <<b>> \o used, fresh, End(b))
    BY DEF TakeFresh
  <1> HIDE DEF free, used, fresh, top
  <1>4. b \in AnyBlock /\ b.addr = top /\ b.size = num /\ End(b) = up
    BY <1>1, BlockMade
  <1> HIDE DEF b
  <1>5. ASSUME NEW u \in AnyBlock, Within(u, top)
        PROVE  Within(u, up) /\ Apart(b, u)
    <2>1. u.addr \in Nat /\ u.size \in Nat /\ End(u) = u.addr + u.size
      BY BlockParts
    <2>2. u.size # 0 => End(u) <= top
      BY <1>5 DEF Within
    <2>3. u.size # 0 => End(u) <= up
      BY <1>1, <2>1, <2>2
    <2>4. QED
      BY <1>4, <1>5, <2>2, <2>3 DEF Within, Apart
  <1> HIDE DEF up
  <1>6. /\ \A k \in 1 .. Len(free) : free[k] \in AnyBlock /\ Within(free[k], top)
        /\ \A k \in 1 .. Len(used) : used[k] \in AnyBlock /\ Within(used[k], top)
    BY <1>2 DEF Fine
  <1>7. Fine(free, used, fresh + 1, up)
    BY <1>1, <1>2, <1>5, <1>6, TopMoved
  <1>8. Clear(b, free, used)
    BY <1>5, <1>6 DEF Clear
  <1>9. Within(b, up)
    <2>1. Base \in Nat /\ Limit \in Nat
      BY HeapAssumption
    <2>2. QED
      BY <1>1, <1>4, <2>1 DEF Within, up
  <1>10. Fine(free, <<b>> \o used, fresh, up)
    BY <1>1, <1>4, <1>7, <1>8, <1>9, UsedPushed
  <1>11. QED
    BY <1>3, <1>4, <1>10 DEF free, used, fresh, top, b, up

LEMMA PartFine ==
  ASSUME NEW h, Fine(h.free, h.used, h.fresh, h.top), NEW i \in 1 .. Len(h.free),
         NEW num \in Nat, h.fresh > 0, h.free[i].size >= num
  PROVE  LET b == Block(h.free[i].addr, num)
             rest == Block(End(b), h.free[i].size - num)
             g == TakePart(h, i, num)
         IN  /\ g = Heap(g.free, g.used, g.fresh, g.top)
             /\ g.free = Compacted(InsertBlock(RemoveAt(h.free, i), rest))
             /\ g.used = <<b>> \o h.used /\ g.top = h.top
             /\ Fine(g.free, g.used, g.fresh, g.top)
             /\ Clear(rest, RemoveAt(h.free, i), h.used)
  <1> DEFINE x == h.free[i]
             b == Block(x.addr, num)
             rest == Block(End(b), x.size - num)
             r == RemoveAt(h.free, i)
             used == h.used
             fresh == h.fresh - 1
             top == h.top
             g == TakePart(h, i, num)
  <1>1. /\ h.fresh \in Nat /\ top \in Nat
        /\ Fine(r, used, h.fresh + 1, top)
        /\ x \in AnyBlock /\ Within(x, top) /\ Clear(x, r, used)
    <2>1. h.fresh \in Nat /\ top \in Nat
      BY HeapAssumption DEF Fine
    <2>2. /\ Fine(r, used, h.fresh + 1, top)
          /\ x \in AnyBlock /\ Within(x, top) /\ Clear(x, r, used)
      BY FreeRemoved
    <2>3. QED
      BY <2>1, <2>2
  <1>2. fresh \in Nat /\ fresh + 1 = h.fresh
    BY <1>1
  <1>3. g = Insert(r, <<b>> \o used, fresh, top, rest)
    BY DEF TakePart
  <1>4. num <= x.size
    <2>1. x.size >= num
      OBVIOUS
    <2> HIDE DEF x
    <2>2. QED
      BY <1>1, <2>1, BlockParts
  <1> HIDE DEF x, r, used, top
  <1>5. /\ b \in AnyBlock /\ rest \in AnyBlock /\ Apart(b, rest)
        /\ \A u \in AnyBlock : Apart(x, u) => Apart(b, u) /\ Apart(rest, u)
        /\ Within(b, top) /\ Within(rest, top)
    BY <1>1, <1>4, SplitBlock
  <1> HIDE DEF b, rest, g, fresh
  <1>6. /\ \A k \in 1 .. Len(r) : r[k] \in AnyBlock /\ Apart(x, r[k])
        /\ \A k \in 1 .. Len(used) : used[k] \in AnyBlock /\ Apart(x, used[k])
        /\ used \in Seq(AnyBlock)
    BY <1>1 DEF Fine, Clear
  <1>7. Clear(b, r, used) /\ Clear(rest, r, used)
    BY <1>5, <1>6 DEF Clear
  <1>8. Fine(r, <<b>> \o used, fresh + 1, top)
    BY <1>1, <1>2, <1>5, <1>7, UsedPushed
  <1>9. Clear(rest, r, <<b>> \o used)
    <2> DEFINE p == <<b>> \o used
    <2>1. /\ Len(used) \in Nat /\ Len(p) = Len(used) + 1 /\ p[1] = b
          /\ \A k \in 1 .. Len(used) : p[k + 1] = used[k]
      BY <1>5, <1>6, PushedPlaces
    <2> HIDE DEF p
    <2>2. ASSUME NEW k \in 1 .. Len(p)
          PROVE  Apart(rest, p[k])
      <3>1. k = 1 \/ (k - 1 \in 1 .. Len(used) /\ (k - 1) + 1 = k)
        BY <2>1
      <3>2. CASE k = 1
        BY <1>5, <2>1, <3>2, ApartSymmetric
      <3>3. CASE k - 1 \in 1 .. Len(used) /\ (k - 1) + 1 = k
        BY <1>7, <2>1, <3>3 DEF Clear
      <3>4. QED
        BY <3>1, <3>2, <3>3
    <2>3. QED
      BY <1>7, <2>2 DEF Clear, p
  <1>10. /\ g = Heap(g.free, g.used, g.fresh, g.top)
         /\ Fine(g.free, g.used, g.fresh, g.top)
         /\ g.free = Compacted(InsertBlock(r, rest)) /\ g.used = <<b>> \o used /\ g.top = top
    <2> DEFINE p == <<b>> \o used
    <2> HIDE DEF p
    <2>1. Fine(r, p, fresh + 1, top) /\ Clear(rest, r, p) /\ g = Insert(r, p, fresh, top, rest)
      BY <1>3, <1>8, <1>9 DEF p
    <2>2. LET f == Insert(r, p, fresh, top, rest)
          IN  /\ f = Heap(f.free, f.used, f.fresh, f.top)
              /\ Fine(f.free, f.used, f.fresh, f.top)
              /\ f.free = Compacted(InsertBlock(r, rest)) /\ f.used = p /\ f.top = top
      BY <1>2, <1>5, <2>1, InsertFine
    <2>3. QED
      BY <2>1, <2>2 DEF p
  <1>11. QED
    BY <1>7, <1>10 DEF x, b, rest, r, used, top, g

LEMMA AllocCases ==
  ASSUME NEW h, Fine(h.free, h.used, h.fresh, h.top), NEW n \in Nat, NEW g \in AllocBlock(h, n)
  PROVE  LET num == Aligned(n)
         IN  \/ h.fresh > 0 /\ h.top + num < Limit /\ g = TakeFresh(h, num)
             \/ \E i \in 1 .. Len(h.free) :
                  \/ IsTop(h, h.free[i], num) /\ g = TakeTop(h, i, num)
                  \/ /\ h.free[i].size >= num
                     /\ \/ g = TakeWhole(h, i)
                        \/ /\ h.fresh > 0 /\ h.free[i].size - num >= SplitThresh
                           /\ g = TakePart(h, i, num)
  <1> DEFINE num == Aligned(n)
             fits == {i \in DOMAIN h.free : IsTop(h, h.free[i], num) \/ h.free[i].size >= num}
             i == Least(fits)
  <1>1. DOMAIN h.free = 1 .. Len(h.free) /\ Len(h.free) \in Nat
    BY DEF Fine
  <1> HIDE DEF num
  <1>2. CASE fits = {}
    BY <1>2 DEF AllocBlock, num
  <1>3. CASE fits # {}
    <2>1. i \in fits
      <3>1. fits \subseteq Nat
        BY <1>1
      <3> HIDE DEF fits
      <3>2. QED
        BY <1>3, <3>1, LeastExists
    <2>2. i \in 1 .. Len(h.free) /\ (IsTop(h, h.free[i], num) \/ h.free[i].size >= num)
      BY <1>1, <2>1
    <2>3. g = IF IsTop(h, h.free[i], num) THEN TakeTop(h, i, num)
              ELSE IF h.fresh > 0 /\ h.free[i].size - num >= SplitThresh
                   THEN TakePart(h, i, num)
                   ELSE TakeWhole(h, i)
      BY <1>3 DEF AllocBlock, num
    <2> HIDE DEF i
    <2>4. QED
      BY <2>2, <2>3 DEF num
  <1>4. QED
    BY <1>2, <1>3

LEMMA AllocFine ==
  ASSUME NEW h, Fine(h.free, h.used, h.fresh, h.top), NEW n \in Nat, NEW g \in AllocBlock(h, n)
  PROVE  Allocated(g, h.used, n)
  <1> DEFINE num == Aligned(n)
  <1>1. num \in Nat /\ num >= n
    BY AlignedUp
  <1> HIDE DEF num
  <1>2. CASE h.fresh > 0 /\ h.top + num < Limit /\ g = TakeFresh(h, num)
    <2> DEFINE b == Block(h.top, num)
               p == <<b>> \o h.used
    <2>1. /\ g = Heap(h.free, p, h.fresh - 1, h.top + num)
          /\ b \in AnyBlock /\ b.size = num
          /\ Fine(h.free, p, h.fresh - 1, h.top + num)
      BY <1>1, <1>2, FreshFine
    <2> HIDE DEF b, p
    <2>2. /\ g.free = h.free /\ g.used = p /\ g.fresh = h.fresh - 1 /\ g.top = h.top + num
      BY <2>1, HeapParts
    <2>3. QED
      BY <1>1, <2>1, <2>2 DEF Allocated, p
  <1>3. ASSUME NEW i \in 1 .. Len(h.free), IsTop(h, h.free[i], num), g = TakeTop(h, i, num)
        PROVE  Allocated(g, h.used, n)
    <2> DEFINE b == Block(h.free[i].addr, num)
               p == <<b>> \o h.used
               r == RemoveAt(h.free, i)
               up == h.free[i].addr + num
    <2>1. /\ g = Heap(r, p, h.fresh, up)
          /\ b \in AnyBlock /\ b.size = num
          /\ Fine(r, p, h.fresh, up)
      BY <1>1, <1>3, TopFine
    <2> HIDE DEF b, p, r, up
    <2>2. /\ g.free = r /\ g.used = p /\ g.fresh = h.fresh /\ g.top = up
      BY <2>1, HeapParts
    <2>3. QED
      BY <1>1, <2>1, <2>2 DEF Allocated, p
  <1>4. ASSUME NEW i \in 1 .. Len(h.free), h.free[i].size >= num, g = TakeWhole(h, i)
        PROVE  Allocated(g, h.used, n)
    <2> DEFINE b == h.free[i]
               p == <<b>> \o h.used
               r == RemoveAt(h.free, i)
    <2>1. /\ g = Heap(r, p, h.fresh, h.top)
          /\ Fine(r, p, h.fresh, h.top)
      BY <1>4, WholeFine
    <2>2. b \in AnyBlock /\ b.size >= num
      BY <1>4, FreeRemoved
    <2> HIDE DEF b, p, r
    <2>3. g.free = r /\ g.used = p /\ g.fresh = h.fresh /\ g.top = h.top
      BY <2>1, HeapParts
    <2>4. b.size >= n
      BY <1>1, <2>2, BlockParts
    <2>5. QED
      BY <2>1, <2>2, <2>3, <2>4 DEF Allocated, p
  <1>5. ASSUME NEW i \in 1 .. Len(h.free), h.free[i].size >= num, h.fresh > 0,
               g = TakePart(h, i, num)
        PROVE  Allocated(g, h.used, n)
    <2> DEFINE b == Block(h.free[i].addr, num)
    <2>1. /\ g = Heap(g.free, g.used, g.fresh, g.top)
          /\ g.used = <<b>> \o h.used
          /\ Fine(g.free, g.used, g.fresh, g.top)
      BY <1>1, <1>5, PartFine
    <2>2. b \in AnyBlock /\ b.size = num
      <3> DEFINE a == h.free[i].addr
      <3>1. a \in Nat
        BY FreeRemoved, BlockParts
      <3> HIDE DEF a
      <3>2. Block(a, num) \in AnyBlock /\ Block(a, num).size = num
        BY <1>1, <3>1, BlockMade
      <3>3. QED
        BY <3>2 DEF a
    <2> HIDE DEF b
    <2>3. QED
      BY <1>1, <2>1, <2>2 DEF Allocated
  <1>6. QED
    BY <1>2, <1>3, <1>4, <1>5, AllocCases DEF num

LEMMA FreeFine ==
  ASSUME NEW h, Fine(h.free, h.used, h.fresh, h.top), NEW addr,
         NEW j \in 1 .. Len(h.used), h.used[j].addr = addr
  PROVE  \E i \in 1 .. Len(h.used) :
           /\ h.used[i].addr = addr
           /\ i <= j
           /\ \A k \in 1 .. Len(h.used) : k < i => h.used[k].addr # addr
           /\ h.used[i] \in AnyBlock
           /\ Clear(h.used[i], h.free, RemoveAt(h.used, i))
           /\ LET g == FreeBlock(h, addr)
              IN  /\ g = Heap(g.free, g.used, g.fresh, g.top)
                  /\ Fine(g.free, g.used, g.fresh, g.top)
                  /\ g.free = Compacted(InsertBlock(h.free, h.used[i]))
                  /\ g.used = RemoveAt(h.used, i) /\ g.top = h.top
  <1> DEFINE S == {k \in DOMAIN h.used : h.used[k].addr = addr}
             i == Least(S)
             g == FreeBlock(h, addr)
             r == RemoveAt(h.used, i)
  <1>1. DOMAIN h.used = 1 .. Len(h.used) /\ Len(h.used) \in Nat /\ h.fresh \in Nat
    BY DEF Fine
  <1>2. i \in S /\ \A k \in S : i <= k
    <2>1. S \subseteq Nat /\ S # {}
      BY <1>1
    <2> HIDE DEF S
    <2>2. QED
      BY <2>1, LeastExists
  <1>3. i \in 1 .. Len(h.used) /\ h.used[i].addr = addr /\ i <= j
    BY <1>1, <1>2
  <1>4. g = Insert(h.free, r, h.fresh, h.top, h.used[i])
    BY DEF FreeBlock
  <1> HIDE DEF i, g
  <1>5. \A k \in 1 .. Len(h.used) : k < i => h.used[k].addr # addr
    <2>1. SUFFICES ASSUME NEW k \in 1 .. Len(h.used), k < i, h.used[k].addr = addr
                   PROVE  FALSE
      OBVIOUS
    <2>2. k \in S
      BY <1>1, <2>1
    <2>3. i <= k
      BY <1>2, <2>2
    <2>4. QED
      BY <1>1, <1>3, <2>1, <2>3
  <1>6. /\ Fine(h.free, r, h.fresh + 1, h.top)
        /\ h.used[i] \in AnyBlock /\ Within(h.used[i], h.top) /\ Clear(h.used[i], h.free, r)
    BY <1>3, UsedRemoved
  <1>7. /\ g = Heap(g.free, g.used, g.fresh, g.top)
        /\ Fine(g.free, g.used, g.fresh, g.top)
        /\ g.free = Compacted(InsertBlock(h.free, h.used[i])) /\ g.used = r /\ g.top = h.top
    <2> DEFINE f == Insert(h.free, r, h.fresh, h.top, h.used[i])
    <2>1. /\ f = Heap(f.free, f.used, f.fresh, f.top)
          /\ Fine(f.free, f.used, f.fresh, f.top)
          /\ f.free = Compacted(InsertBlock(h.free, h.used[i])) /\ f.used = r /\ f.top = h.top
      <3> HIDE DEF r
      <3>1. QED
        BY <1>1, <1>6, InsertFine
    <2>2. QED
      BY <1>4, <2>1
  <1>8. QED
    BY <1>3, <1>5, <1>6, <1>7 DEF g
-----------------------------------------------------------------------------
(***************************************************************************)
(* Who owns what.                                                          *)
(***************************************************************************)
\* Two used blocks that are not empty begin at different addresses.
LEMMA ApartAddresses ==
  ASSUME NEW b \in AnyBlock, NEW c \in AnyBlock, Apart(b, c), b.size > 0, c.size > 0
  PROVE  b.addr # c.addr
  BY BlockParts DEF Apart

\* The parts of Fine that ownership rests on.
LEMMA UsedParts ==
  ASSUME NEW free, NEW used, NEW fresh, NEW top, Fine(free, used, fresh, top)
  PROVE  /\ used \in Seq(AnyBlock) /\ Len(used) \in Nat
         /\ \A k \in 1 .. Len(used) : used[k] \in AnyBlock /\ Within(used[k], top)
         /\ \A k, l \in 1 .. Len(used) : k # l => Apart(used[k], used[l])
  BY DEF Fine, Disjointed

\* A block just allocated is nobody else's, and the program's from now on.
LEMMA OwnsAlloc ==
  ASSUME NEW free, NEW used, NEW fresh, NEW top, NEW u \in AnyBlock,
         used \in Seq(AnyBlock), Fine(free, <<u>> \o used, fresh, top),
         NEW own, own \subseteq AnyBlock, \A b \in own : b.size > 0,
         NEW f, Owns(f, own, used), NEW n \in Nat, u.size >= n
  PROVE  /\ Block(u.addr, n) \in AnyBlock /\ Block(u.addr, n) \notin own
         /\ \E f1 : Owns(f1, own \cup {Block(u.addr, n)}, <<u>> \o used)
         /\ \A c \in own : Apart(Block(u.addr, n), c)
         /\ Base <= u.addr /\ u.addr + n <= Limit
  <1> DEFINE p == <<u>> \o used
             m == Len(used)
             a == u.addr
             new == Block(a, n)
             own1 == own \cup {new}
             f1 == [b \in own1 |-> IF b = new THEN 1 ELSE f[b] + 1]
  <1>1. /\ m \in Nat /\ Len(p) = m + 1 /\ p[1] = u
        /\ \A k \in 1 .. m : p[k + 1] = used[k]
    BY PushedPlaces
  <1>2. /\ \A k \in 1 .. Len(p) : p[k] \in AnyBlock /\ Within(p[k], top)
        /\ \A k, l \in 1 .. Len(p) : k # l => Apart(p[k], p[l])
    BY UsedParts
  <1>3. a \in Nat /\ u.size \in Nat /\ End(u) = a + u.size
    BY BlockParts
  <1>4. new \in AnyBlock /\ new.addr = a /\ new.size = n /\ End(new) = a + n
    <2> HIDE DEF a
    <2>1. QED
      BY <1>3, BlockMade
  <1>5. /\ \A b \in own : f[b] \in 1 .. m
        /\ \A b, c \in own : b # c => f[b] # f[c]
        /\ \A k \in 1 .. m : \E b \in own : f[b] = k
        /\ \A b \in own : used[f[b]].addr = b.addr /\ b.size <= used[f[b]].size
    BY DEF Owns
  <1> HIDE DEF p, m, new
  <1>6. ASSUME NEW c \in own
        PROVE  /\ used[f[c]] \in AnyBlock /\ used[f[c]].addr = c.addr /\ c.size <= used[f[c]].size
               /\ c \in AnyBlock /\ Apart(u, used[f[c]])
    <2> DEFINE k == f[c]
    <2>1. k \in 1 .. m /\ k + 1 \in 1 .. Len(p) /\ 1 \in 1 .. Len(p) /\ k + 1 # 1
      BY <1>1, <1>5
    <2> HIDE DEF k
    <2>2. p[k + 1] = used[k]
      BY <1>1, <2>1
    <2>3. used[k] \in AnyBlock /\ Apart(u, used[k])
      BY <1>1, <1>2, <2>1, <2>2
    <2>4. QED
      BY <1>5, <2>3 DEF k
  <1>7. ASSUME NEW c \in own
        PROVE  Apart(new, c) /\ c # new
    <2> DEFINE v == used[f[c]]
    <2>1. /\ v \in AnyBlock /\ v.addr = c.addr /\ c.size <= v.size
          /\ c \in AnyBlock /\ Apart(u, v)
      BY <1>6
    <2> HIDE DEF v
    <2>2. v.addr \in Nat /\ v.size \in Nat /\ End(v) = v.addr + v.size
      BY <2>1, BlockParts
    <2>3. c.addr \in Nat /\ c.size \in Nat /\ End(c) = c.addr + c.size /\ c.size > 0
      BY <2>1, BlockParts
    <2>4. u.size = 0 \/ v.size = 0 \/ a + u.size <= v.addr \/ v.addr + v.size <= a
      BY <1>3, <2>1, <2>2 DEF Apart
    <2>5. n = 0 \/ a + n <= c.addr \/ c.addr + c.size <= a
      <3> HIDE DEF a
      <3>1. QED
        BY <1>3, <2>1, <2>2, <2>3, <2>4
    <2>6. Apart(new, c)
      <3> HIDE DEF a
      <3>1. QED
        BY <1>4, <2>3, <2>5 DEF Apart
    <2>7. c # new
      <3> HIDE DEF a
      <3>1. QED
        BY <1>3, <1>4, <2>3, <2>5
    <2>8. QED
      BY <2>6, <2>7
  <1>8. new \notin own
    BY <1>7
  <1>9. Owns(f1, own1, p)
    <2>1. \A b \in own : b # new /\ f1[b] = f[b] + 1 /\ f1[b] \in 2 .. Len(p)
      BY <1>1, <1>5, <1>8
    <2>2. f1[new] = 1
      OBVIOUS
    <2>3. f1 \in [own1 -> 1 .. Len(p)]
      <3>1. \A b \in own1 : (IF b = new THEN 1 ELSE f[b] + 1) \in 1 .. Len(p)
        BY <1>1, <1>5
      <3>2. QED
        BY <3>1
    <2>4. ASSUME NEW b \in own1, NEW c \in own1, b # c
          PROVE  f1[b] # f1[c]
      <3> HIDE DEF f1
      <3>1. CASE b \in own /\ c \in own
        <4>1. f[b] # f[c] /\ f[b] \in Int /\ f[c] \in Int
          BY <1>5, <2>4, <3>1
        <4>2. QED
          BY <2>1, <3>1, <4>1
      <3>2. CASE b = new \/ c = new
        BY <2>1, <2>2, <2>4, <3>2
      <3>3. QED
        BY <3>1, <3>2
    <2>5. ASSUME NEW k \in 1 .. Len(p)
          PROVE  \E b \in own1 : f1[b] = k
      <3>1. CASE k = 1
        BY <2>2, <3>1
      <3>2. CASE k # 1
        <4>1. k - 1 \in 1 .. m /\ (k - 1) + 1 = k
          BY <1>1, <3>2
        <4>2. PICK b \in own : f[b] = k - 1
          BY <1>5, <4>1
        <4>3. f1[b] = k
          BY <2>1, <4>1, <4>2
        <4>4. QED
          BY <4>2, <4>3
      <3>3. QED
        BY <3>1, <3>2
    <2> HIDE DEF f1
    <2>6. ASSUME NEW b \in own1
          PROVE  p[f1[b]].addr = b.addr /\ b.size <= p[f1[b]].size
      <3>1. CASE b = new
        BY <1>1, <1>3, <1>4, <2>2, <3>1
      <3>2. CASE b \in own
        <4>1. p[f1[b]] = used[f[b]]
          BY <1>1, <1>5, <2>1, <3>2
        <4>2. QED
          BY <1>5, <3>2, <4>1
      <3>3. QED
        BY <3>1, <3>2
    <2>7. ASSUME NEW b \in own1, b.size = 0
          PROVE  \A k \in 1 .. Len(p) : k < f1[b] => p[k].addr # b.addr
      <3>1. b = new
        BY <2>7
      <3>2. QED
        BY <2>2, <3>1
    <2>8. QED
      BY <2>3, <2>4, <2>5, <2>6, <2>7 DEF Owns
  <1>10. Base <= a /\ a + n <= Limit
    <2>1. Within(u, top)
      BY <1>1, <1>2
    <2>2. a >= Base /\ a + u.size <= Limit
      BY <1>3, <2>1 DEF Within
    <2>3. QED
      BY <1>3, <2>2, HeapAssumption
  <1>11. QED
    BY <1>4, <1>7, <1>8, <1>9, <1>10 DEF p, new

\* What ta_free() takes from the used list is the block given back, but for one case: an
\* empty block at the same address, allocated later, is taken in its place, and the
\* empty one has the descriptor that was meant from then on.
LEMMA OwnsFree ==
  ASSUME NEW free, NEW used, NEW fresh, NEW top, Fine(free, used, fresh, top),
         NEW own, own \subseteq AnyBlock,
         \A b, c \in own : b.size = 0 /\ c.size = 0 => b = c,
         NEW f, Owns(f, own, used), NEW b \in own,
         NEW i \in 1 .. Len(used), used[i].addr = b.addr,
         \A k \in 1 .. Len(used) : k < i => used[k].addr # b.addr
  PROVE  \E f1 : Owns(f1, own \ {b}, RemoveAt(used, i))
  <1> DEFINE m == Len(used)
             r == RemoveAt(used, i)
             own1 == own \ {b}
  <1>1. /\ m \in Nat
        /\ \A k \in 1 .. m : used[k] \in AnyBlock
        /\ \A k, l \in 1 .. m : k # l => Apart(used[k], used[l])
    BY UsedParts
  <1>2. /\ Len(r) = m - 1
        /\ \A k \in 1 .. Len(r) :
             Skip(i, k) \in 1 .. m /\ Skip(i, k) # i /\ r[k] = used[Skip(i, k)]
        /\ \A j \in 1 .. m : j # i => \E k \in 1 .. Len(r) : Skip(i, k) = j
    BY UsedParts, RemovedPlaces
  <1>3. /\ f \in [own -> 1 .. m]
        /\ \A c \in own : f[c] \in 1 .. m
        /\ \A c, d \in own : c # d => f[c] # f[d]
        /\ \A k \in 1 .. m : \E c \in own : f[c] = k
        /\ \A c \in own : used[f[c]].addr = c.addr /\ c.size <= used[f[c]].size
        /\ \A c \in own : c.size = 0 => \A k \in 1 .. m : k < f[c] => used[k].addr # c.addr
    BY DEF Owns
  <1> HIDE DEF m, r
  <1>4. \A c \in own : c \in AnyBlock /\ c.size \in Nat /\ used[f[c]].size \in Nat
    BY <1>1, <1>3, BlockParts
  \* At most one block that is not empty has an address.
  <1>5. ASSUME NEW c \in own, NEW d \in own, c # d, c.size # 0, d.size # 0
        PROVE  c.addr # d.addr
    <2>1. /\ used[f[c]] \in AnyBlock /\ used[f[d]] \in AnyBlock
          /\ Apart(used[f[c]], used[f[d]])
      BY <1>1, <1>3, <1>5
    <2>2. used[f[c]].size > 0 /\ used[f[d]].size > 0
      BY <1>3, <1>4, <1>5
    <2>3. QED
      BY <1>3, <2>1, <2>2, ApartAddresses
  <1>6. PICK e \in own : f[e] = i
    BY <1>3 DEF m
  <1>7. i \in 1 .. m /\ used[i].addr = b.addr /\ e.addr = b.addr
    BY <1>3, <1>6 DEF m
  \* The block taken in the place of another is empty.
  <1>8. e # b => e.size = 0 /\ b.size # 0
    <2>1. SUFFICES ASSUME e # b
                   PROVE  e.size = 0 /\ b.size # 0
      OBVIOUS
    <2>2. f[b] # i /\ f[b] \in 1 .. m
      BY <1>3, <1>6, <2>1
    <2>3. i < f[b]
      <3>1. ~(f[b] < i)
        BY <1>3, <2>2 DEF m
      <3>2. QED
        BY <1>1, <1>7, <2>2, <3>1
    <2>4. b.size # 0
      BY <1>3, <1>7, <2>3
    <2>5. e.size = 0
      BY <1>5, <1>7, <2>1, <2>4
    <2>6. QED
      BY <2>4, <2>5
  \* Each block's place before the removal, with the swap,
  <1> DEFINE old(c) == IF c = e THEN f[b] ELSE f[c]
             f1 == [c \in own1 |-> CHOOSE k \in 1 .. Len(r) : Skip(i, k) = old(c)]
  <1>9. ASSUME NEW c \in own1
        PROVE  old(c) \in 1 .. m /\ old(c) # i
    BY <1>3, <1>6, <1>9
  <1>10. ASSUME NEW c \in own1, NEW d \in own1, c # d
         PROVE  old(c) # old(d)
    BY <1>3, <1>6, <1>10
  <1>11. ASSUME NEW j \in 1 .. m, j # i
         PROVE  \E c \in own1 : old(c) = j
    <2>1. PICK c \in own : f[c] = j
      BY <1>3
    <2>2. CASE c = b
      BY <1>6, <1>11, <2>1, <2>2
    <2>3. CASE c # b
      BY <1>6, <1>11, <2>1, <2>3
    <2>4. QED
      BY <2>2, <2>3
  <1>12. ASSUME NEW c \in own1
         PROVE  used[old(c)].addr = c.addr /\ c.size <= used[old(c)].size
    <2>1. CASE c = e
      <3>1. e # b /\ c.size = 0 /\ old(c) = f[b]
        BY <1>8, <2>1
      <3>2. QED
        BY <1>3, <1>4, <1>7, <2>1, <3>1
    <2>2. CASE c # e
      BY <1>3, <2>2
    <2>3. QED
      BY <2>1, <2>2
  \* and no block after the removal has the address of an empty one before it.
  <1>13. ASSUME NEW c \in own1, c.size = 0, NEW j \in 1 .. m, j # i, j < old(c)
         PROVE  used[j].addr # c.addr
    <2>1. CASE c = e
      <3>1. PICK d \in own : f[d] = j
        BY <1>3
      <3>2. old(c) = f[b] /\ e # b /\ d # b /\ d # e
        BY <1>1, <1>3, <1>6, <1>13, <2>1, <3>1
      <3>3. b.size # 0 /\ e.size = 0
        BY <1>8, <3>2
      <3>4. d.size # 0
        BY <3>2, <3>3
      <3>5. d.addr # b.addr
        BY <1>5, <3>2, <3>3, <3>4
      <3>6. QED
        BY <1>3, <1>7, <2>1, <3>1, <3>5
    <2>2. CASE c # e
      BY <1>3, <1>13, <2>2
    <2>3. QED
      BY <2>1, <2>2
  <1> HIDE DEF old
  <1>14. ASSUME NEW c \in own1
         PROVE  f1[c] \in 1 .. Len(r) /\ Skip(i, f1[c]) = old(c)
    <2>1. \E k \in 1 .. Len(r) : Skip(i, k) = old(c)
      BY <1>2, <1>9
    <2>2. QED
      BY <2>1
  <1>15. f1 \in [own1 -> 1 .. Len(r)]
    <2>1. f1 = [c \in own1 |-> f1[c]]
      OBVIOUS
    <2> HIDE DEF f1
    <2>2. QED
      BY <1>14, <2>1
  <1> HIDE DEF f1
  <1>16. ASSUME NEW c \in own1, NEW d \in own1, c # d
         PROVE  f1[c] # f1[d]
    BY <1>10, <1>14, <1>16
  <1>17. ASSUME NEW k \in 1 .. Len(r)
         PROVE  \E c \in own1 : f1[c] = k
    <2>1. PICK c \in own1 : old(c) = Skip(i, k)
      BY <1>2, <1>11
    <2>2. Skip(i, f1[c]) = Skip(i, k) /\ f1[c] \in Int /\ k \in Int
      BY <1>14, <2>1
    <2>3. f1[c] = k
      BY <1>7, <2>2 DEF Skip
    <2>4. QED
      BY <2>1, <2>3
  <1>18. ASSUME NEW c \in own1
         PROVE  r[f1[c]].addr = c.addr /\ c.size <= r[f1[c]].size
    BY <1>2, <1>12, <1>14
  <1>19. ASSUME NEW c \in own1, c.size = 0, NEW k \in 1 .. Len(r), k < f1[c]
         PROVE  r[k].addr # c.addr
    <2>1. f1[c] \in 1 .. Len(r) /\ Skip(i, f1[c]) = old(c)
      BY <1>14
    <2>2. Skip(i, k) \in 1 .. m /\ Skip(i, k) # i /\ r[k] = used[Skip(i, k)]
      BY <1>2
    <2>3. Skip(i, k) < Skip(i, f1[c])
      BY <1>7, <1>19, <2>1 DEF Skip
    <2>4. QED
      BY <1>13, <1>19, <2>1, <2>2, <2>3
  <1>20. QED
    BY <1>15, <1>16, <1>17, <1>18, <1>19, ZenonT(60) DEF Owns, r

-----------------------------------------------------------------------------
(***************************************************************************)
(* Order and coverage.                                                     *)
(***************************************************************************)
LEMMA RemovedSpaced ==
  ASSUME NEW list \in Seq(AnyBlock), Spaced(list), NEW i \in 1 .. Len(list)
  PROVE  Spaced(RemoveAt(list, i))
  <1> DEFINE n == Len(list)
             r == RemoveAt(list, i)
  <1>1. /\ n \in Nat /\ Len(r) = n - 1 /\ i \in 1 .. n
        /\ \A k \in 1 .. n : list[k] \in AnyBlock
        /\ \A k \in 1 .. Len(r) : Skip(i, k) \in 1 .. n /\ r[k] = list[Skip(i, k)]
    BY RemovedPlaces
  <1>2. /\ \A k \in 1 .. n : list[k].size > 0
        /\ \A k \in 1 .. n - 1 : End(list[k]) < list[k + 1].addr
    BY DEF Spaced
  <1> HIDE DEF n, r
  <1>3. \A k \in 1 .. Len(r) : r[k].size > 0
    BY <1>1, <1>2
  <1>4. ASSUME NEW k \in 1 .. Len(r) - 1
        PROVE  End(r[k]) < r[k + 1].addr
    <2>1. /\ k \in 1 .. n - 2 /\ k \in 1 .. Len(r) /\ k + 1 \in 1 .. Len(r)
          /\ k \in 1 .. n - 1 /\ k + 1 \in 1 .. n - 1 /\ k \in 1 .. n
          /\ k + 1 \in 1 .. n /\ k + 2 \in 1 .. n /\ (k + 1) + 1 = k + 2
      BY <1>1
    <2>2. r[k] = list[Skip(i, k)] /\ r[k + 1] = list[Skip(i, k + 1)]
      BY <1>1, <2>1
    <2>3. CASE k + 1 < i
      BY <1>1, <1>2, <2>1, <2>2, <2>3 DEF Skip
    <2>4. CASE ~(k < i)
      <3>1. Skip(i, k) = k + 1 /\ Skip(i, k + 1) = k + 2
        BY <1>1, <2>1, <2>4 DEF Skip
      <3>2. QED
        BY <1>2, <2>1, <2>2, <3>1
    <2>5. CASE k < i /\ ~(k + 1 < i)
      <3>1. Skip(i, k) = k /\ Skip(i, k + 1) = k + 2
        BY <1>1, <2>1, <2>5 DEF Skip
      <3>2. End(list[k]) < list[k + 1].addr /\ End(list[k + 1]) < list[k + 2].addr
        BY <1>2, <2>1
      <3>3. list[k] \in AnyBlock /\ list[k + 1] \in AnyBlock /\ list[k + 2] \in AnyBlock
        BY <1>1, <2>1
      <3>4. /\ End(list[k]) \in Nat /\ list[k + 1].addr \in Nat /\ list[k + 1].size \in Nat
            /\ End(list[k + 1]) = list[k + 1].addr + list[k + 1].size
            /\ list[k + 2].addr \in Nat
        BY <3>3, BlockParts
      <3>5. End(list[k]) < list[k + 2].addr
        BY <3>2, <3>4, SMTT(60)
      <3>6. QED
        BY <2>2, <3>1, <3>5
    <2>6. QED
      BY <2>3, <2>4, <2>5
  <1>5. QED
    BY <1>3, <1>4 DEF Spaced, r

\* What a list covers, after a block is taken out of it, or put in.
LEMMA RemovedCovers ==
  ASSUME NEW list \in Seq(AnyBlock), NEW i \in 1 .. Len(list), NEW x, Covered(list, x)
  PROVE  Holds(list[i], x) \/ Covered(RemoveAt(list, i), x)
  <1> DEFINE r == RemoveAt(list, i)
  <1>1. /\ \A k \in 1 .. Len(r) : r[k] = list[Skip(i, k)]
        /\ \A j \in 1 .. Len(list) : j # i => \E k \in 1 .. Len(r) : Skip(i, k) = j
    BY RemovedPlaces
  <1> HIDE DEF r
  <1>2. QED
    BY <1>1 DEF Covered, r

LEMMA PushedCovers ==
  ASSUME NEW list \in Seq(AnyBlock), NEW b \in AnyBlock, NEW x,
         Holds(b, x) \/ Covered(list, x)
  PROVE  Covered(<<b>> \o list, x)
  <1> DEFINE r == <<b>> \o list
             n == Len(list)
  <1>1. /\ n \in Nat /\ Len(r) = n + 1 /\ r[1] = b
        /\ \A k \in 1 .. n : r[k + 1] = list[k]
    BY PushedPlaces
  <1> HIDE DEF r
  <1>2. CASE Holds(b, x)
    <2>1. 1 \in 1 .. Len(r) /\ Holds(r[1], x)
      BY <1>1, <1>2
    <2>2. QED
      BY <2>1 DEF Covered, r
  <1>3. CASE Covered(list, x)
    <2>1. PICK k \in 1 .. n : Holds(list[k], x)
      BY <1>3 DEF Covered
    <2> HIDE DEF n
    <2>2. k + 1 \in 1 .. Len(r) /\ r[k + 1] = list[k]
      BY <1>1, <2>1
    <2>3. QED
      BY <2>1, <2>2 DEF Covered, r
  <1>4. QED
    BY <1>2, <1>3

LEMMA InsertCovers ==
  ASSUME NEW free \in Seq(AnyBlock), NEW b \in AnyBlock, NEW x \in Nat,
         Holds(b, x) \/ Covered(free, x)
  PROVE  Covered(Compacted(InsertBlock(free, b)), x)
  <1> DEFINE r == InsertBlock(free, b)
             n == Len(free)
  <1>1. PICK i \in 1 .. n + 1 : r = InsertAt(free, i, b)
    BY InsertionPoint
  <1>2. /\ r \in Seq(AnyBlock) /\ i \in 1 .. Len(r) /\ r[i] = b
        /\ \A k \in 1 .. n : Skip(i, k) \in 1 .. Len(r) /\ r[Skip(i, k)] = free[k]
    <2> DEFINE q == InsertAt(free, i, b)
    <2>1. /\ q \in Seq(AnyBlock) /\ i \in 1 .. Len(q) /\ q[i] = b
          /\ \A k \in 1 .. Len(free) : Skip(i, k) \in 1 .. Len(q) /\ q[Skip(i, k)] = free[k]
      BY <1>1, InsertedPlaces
    <2>2. QED
      BY <1>1, <2>1
  <1> HIDE DEF r
  <1>3. Covered(r, x)
    BY <1>2 DEF Covered
  <1>4. QED
    BY <1>2, <1>3, CompactedCovers DEF r

\* Taking a block from the used list, or adding one at an address of its own.
LEMMA PushedTidy ==
  ASSUME NEW free, NEW used \in Seq(AnyBlock), NEW top, NEW u \in AnyBlock,
         Spaced(free),
         \A x \in Base .. top - 1 : Covered(free, x) \/ Holds(u, x) \/ Covered(used, x),
         \A k, l \in 1 .. Len(used) : k # l => used[k].addr # used[l].addr,
         \A k \in 1 .. Len(used) : u.addr # used[k].addr
  PROVE  Tidy(free, <<u>> \o used, top)
  <1> DEFINE r == <<u>> \o used
             n == Len(used)
  <1>1. /\ n \in Nat /\ Len(r) = n + 1 /\ r[1] = u
        /\ \A k \in 1 .. n : r[k + 1] = used[k]
    BY PushedPlaces
  <1>2. \A x \in Base .. top - 1 : Covered(free, x) \/ Covered(r, x)
    BY PushedCovers
  <1> HIDE DEF r, n
  <1>3. \A k \in 1 .. Len(r) : (r[k] = u /\ k = 1) \/ (k - 1 \in 1 .. n /\ r[k] = used[k - 1])
    <2>1. SUFFICES ASSUME NEW k \in 1 .. Len(r), k # 1
                   PROVE  k - 1 \in 1 .. n /\ r[k] = used[k - 1]
      BY <1>1
    <2>2. k - 1 \in 1 .. n /\ (k - 1) + 1 = k
      BY <1>1, <2>1
    <2>3. QED
      BY <1>1, <2>2
  <1>4. ASSUME NEW k \in 1 .. Len(r), NEW l \in 1 .. Len(r), k # l
        PROVE  r[k].addr # r[l].addr
    <2>1. k - 1 # l - 1
      BY <1>1, <1>4
    <2>2. QED
      BY <1>3, <1>4, <2>1, ZenonT(60) DEF n
  <1>5. QED
    BY <1>2, <1>4 DEF Tidy, r

LEMMA RemovedAddresses ==
  ASSUME NEW list \in Seq(AnyBlock), NEW i \in 1 .. Len(list),
         \A k, l \in 1 .. Len(list) : k # l => list[k].addr # list[l].addr
  PROVE  \A k, l \in 1 .. Len(RemoveAt(list, i)) :
           k # l => RemoveAt(list, i)[k].addr # RemoveAt(list, i)[l].addr
  <1> DEFINE r == RemoveAt(list, i)
  <1>1. /\ \A k \in 1 .. Len(r) : Skip(i, k) \in 1 .. Len(list) /\ r[k] = list[Skip(i, k)]
        /\ \A k, l \in 1 .. Len(r) : k # l => Skip(i, k) # Skip(i, l)
    BY RemovedPlaces, SMTT(60)
  <1> HIDE DEF r
  <1>2. \A k, l \in 1 .. Len(r) : k # l => r[k].addr # r[l].addr
    BY <1>1
  <1>3. QED
    BY <1>2 DEF r

\* free() of a block that is not empty.
LEMMA FreeTidy ==
  ASSUME NEW free \in Seq(AnyBlock), NEW used \in Seq(AnyBlock), NEW top \in Nat,
         Tidy(free, used, top), NEW i \in 1 .. Len(used), used[i].size > 0,
         \A k \in 1 .. Len(free) : Apart(used[i], free[k])
  PROVE  Tidy(Compacted(InsertBlock(free, used[i])), RemoveAt(used, i), top)
  <1> DEFINE b == used[i]
             r == RemoveAt(used, i)
             c == Compacted(InsertBlock(free, b))
  <1>1. b \in AnyBlock
    OBVIOUS
  <1>2. Spaced(c)
    BY <1>1, InsertSpaced DEF Tidy
  <1>3. \A k, l \in 1 .. Len(r) : k # l => r[k].addr # r[l].addr
    BY RemovedAddresses DEF Tidy
  <1>4. ASSUME NEW x \in Base .. top - 1
        PROVE  Covered(c, x) \/ Covered(r, x)
    <2>1. x \in Nat
      BY <1>4, HeapAssumption
    <2>2. Covered(free, x) \/ Covered(used, x)
      BY <1>4 DEF Tidy
    <2>3. Covered(used, x) => Holds(b, x) \/ Covered(r, x)
      BY RemovedCovers
    <2>4. Holds(b, x) \/ Covered(free, x) => Covered(c, x)
      BY <1>1, <2>1, InsertCovers
    <2>5. QED
      BY <2>2, <2>3, <2>4
  <1> HIDE DEF b, c, r
  <1>5. Tidy(c, r, top)
    BY <1>2, <1>3, <1>4 DEF Tidy
  <1>6. QED
    BY <1>5 DEF b, c, r

\* A free block's address is no used one's, if neither is empty.
LEMMA FreeAddress ==
  ASSUME NEW h, Fine(h.free, h.used, h.fresh, h.top), Spaced(h.free),
         \A k \in 1 .. Len(h.used) : h.used[k].size > 0, NEW i \in 1 .. Len(h.free)
  PROVE  /\ h.free[i] \in AnyBlock /\ h.free[i].size > 0
         /\ Base <= h.free[i].addr /\ End(h.free[i]) <= h.top
         /\ \A k \in 1 .. Len(h.used) : h.free[i].addr # h.used[k].addr
  <1>1. /\ h.free[i] \in AnyBlock /\ Within(h.free[i], h.top) /\ h.free[i].size > 0
        /\ \A k \in 1 .. Len(h.used) : h.used[k] \in AnyBlock /\ Apart(h.free[i], h.used[k])
    BY DEF Fine, Spaced
  <1>2. Base <= h.free[i].addr /\ End(h.free[i]) <= h.top
    <2> DEFINE b == h.free[i]
    <2>1. b \in AnyBlock /\ Within(b, h.top) /\ b.size > 0
      BY <1>1
    <2> HIDE DEF b
    <2>2. b.addr \in Nat /\ b.size \in Nat
      BY <2>1, BlockParts
    <2>3. Base <= b.addr /\ End(b) <= h.top
      BY <2>1, <2>2, HeapAssumption DEF Within
    <2>4. QED
      BY <2>3 DEF b
  <1>3. QED
    BY <1>1, <1>2, ApartAddresses

\* malloc(), while the program holds no empty block.
LEMMA AllocTidy ==
  ASSUME NEW h, Fine(h.free, h.used, h.fresh, h.top), Tidy(h.free, h.used, h.top),
         \A k \in 1 .. Len(h.used) : h.used[k].size > 0,
         NEW n \in Nat, NEW g \in AllocBlock(h, n)
  PROVE  Tidy(g.free, g.used, g.top)
  <1> DEFINE num == Aligned(n)
             free == h.free
             used == h.used
             top == h.top
  <1>1. num \in Nat
    BY AlignedUp
  <1>2. /\ free \in Seq(AnyBlock) /\ used \in Seq(AnyBlock) /\ top \in Nat /\ Base \in Nat
        /\ \A k \in 1 .. Len(used) : used[k] \in AnyBlock /\ Within(used[k], top) /\ used[k].size > 0
    BY HeapAssumption DEF Fine
  <1>3. /\ Spaced(free)
        /\ \A x \in Base .. top - 1 : Covered(free, x) \/ Covered(used, x)
        /\ \A k, l \in 1 .. Len(used) : k # l => used[k].addr # used[l].addr
    BY DEF Tidy
  <1> HIDE DEF num
  \* A new block at the top.
  <1>4. CASE h.fresh > 0 /\ top + num < Limit /\ g = TakeFresh(h, num)
    <2> DEFINE b == Block(top, num)
               p == <<b>> \o used
               up == top + num
    <2>1. g = Heap(free, p, h.fresh - 1, up) /\ b \in AnyBlock /\ b.addr = top /\ End(b) = up
      <3>1. g = Heap(free, p, h.fresh - 1, up) /\ b \in AnyBlock /\ b.addr = top
        BY <1>1, <1>4, FreshFine
      <3>2. End(b) = up
        <4> HIDE DEF top
        <4>1. QED
          BY <1>1, <1>2, BlockMade
      <3>3. QED
        BY <3>1, <3>2
    <2>2. g.free = free /\ g.used = p /\ g.top = up
      <3> HIDE DEF p, up
      <3>1. QED
        BY <2>1, HeapParts
    <2> HIDE DEF b, free, used, top
    <2>3. ASSUME NEW k \in 1 .. Len(used)
          PROVE  b.addr # used[k].addr
      <3> DEFINE u == used[k]
      <3>1. u \in AnyBlock /\ Within(u, top) /\ u.size > 0
        BY <1>2
      <3> HIDE DEF u
      <3>2. u.addr \in Nat /\ u.size \in Nat /\ End(u) = u.addr + u.size
        BY <3>1, BlockParts
      <3>3. End(u) <= top
        BY <3>1, <3>2 DEF Within
      <3>4. u.addr # top
        BY <1>2, <3>1, <3>2, <3>3
      <3>5. QED
        BY <2>1, <3>4 DEF u
    <2>4. ASSUME NEW x \in Base .. up - 1
          PROVE  Covered(free, x) \/ Holds(b, x) \/ Covered(used, x)
      <3>1. x \in Base .. top - 1 \/ (top <= x /\ x < up)
        BY <1>1, <1>2
      <3>2. QED
        BY <1>3, <2>1, <3>1 DEF Holds
    <2>5. Tidy(free, <<b>> \o used, up)
      <3> HIDE DEF up, p
      <3>1. QED
        BY <1>2, <1>3, <2>1, <2>3, <2>4, PushedTidy
    <2>6. QED
      BY <2>2, <2>5
  \* A free block: no used one has its address, and it leaves the list in order.
  <1>5. ASSUME NEW i \in 1 .. Len(free)
        PROVE  LET b == free[i]
                   r == RemoveAt(free, i)
               IN  /\ b \in AnyBlock /\ b.size > 0 /\ Base <= b.addr /\ End(b) <= top
                   /\ \A k \in 1 .. Len(used) : b.addr # used[k].addr
                   /\ r \in Seq(AnyBlock) /\ Spaced(r)
                   /\ \A x \in Base .. top - 1 :
                        Covered(r, x) \/ Holds(b, x) \/ Covered(used, x)
    <2>1. /\ free[i] \in AnyBlock /\ free[i].size > 0
          /\ Base <= free[i].addr /\ End(free[i]) <= top
          /\ \A k \in 1 .. Len(used) : free[i].addr # used[k].addr
      BY <1>2, <1>3, FreeAddress
    <2>2. Spaced(RemoveAt(free, i)) /\ RemoveAt(free, i) \in Seq(AnyBlock)
      BY <1>2, <1>3, RemovedSpaced, RemovedPlaces
    <2>3. \A x \in Base .. top - 1 :
            Covered(RemoveAt(free, i), x) \/ Holds(free[i], x) \/ Covered(used, x)
      BY <1>2, <1>3, RemovedCovers
    <2>4. QED
      BY <2>1, <2>2, <2>3
  <1>6. ASSUME NEW i \in 1 .. Len(free), IsTop(h, free[i], num), g = TakeTop(h, i, num)
        PROVE  Tidy(g.free, g.used, g.top)
    <2> DEFINE o == free[i]
               a == o.addr
               b == Block(a, num)
               r == RemoveAt(free, i)
               p == <<b>> \o used
               up == a + num
    <2>1. /\ o \in AnyBlock /\ Base <= a /\ End(o) <= top
          /\ \A k \in 1 .. Len(used) : a # used[k].addr
          /\ r \in Seq(AnyBlock) /\ Spaced(r)
          /\ \A x \in Base .. top - 1 : Covered(r, x) \/ Holds(o, x) \/ Covered(used, x)
      BY <1>5
    <2>2. g = Heap(r, p, h.fresh, up) /\ b \in AnyBlock /\ b.addr = a
      BY <1>1, <1>6, TopFine
    <2>3. g.free = r /\ g.used = p /\ g.top = up
      <3> HIDE DEF r, p, up
      <3>1. QED
        BY <2>2, HeapParts
    <2> HIDE DEF o, r, free, used, top
    <2>4. a \in Nat /\ End(o) \in Nat /\ End(o) >= a
      BY <2>1, BlockParts
    <2> HIDE DEF a
    <2>5. End(b) = up
      BY <1>1, <2>4, BlockMade
    <2> HIDE DEF b
    <2>6. ASSUME NEW x \in Base .. up - 1
          PROVE  Covered(r, x) \/ Holds(b, x) \/ Covered(used, x)
      <3>1. (x \in Base .. top - 1 /\ x < a) \/ (a <= x /\ x < up)
        BY <1>1, <1>2, <2>1, <2>4
      <3>2. a <= x /\ x < up => Holds(b, x)
        BY <2>2, <2>5 DEF Holds
      <3>3. x < a => ~Holds(o, x)
        BY <1>2, <2>4, <2>6 DEF Holds, a
      <3>4. QED
        BY <2>1, <3>1, <3>2, <3>3
    <2>7. Tidy(r, <<b>> \o used, up)
      <3> HIDE DEF up, p
      <3>1. QED
        BY <1>2, <1>3, <2>1, <2>2, <2>6, PushedTidy
    <2>8. QED
      BY <2>3, <2>7
  <1>7. ASSUME NEW i \in 1 .. Len(free), g = TakeWhole(h, i)
        PROVE  Tidy(g.free, g.used, g.top)
    <2> DEFINE b == free[i]
               r == RemoveAt(free, i)
               p == <<b>> \o used
    <2>1. g.free = r /\ g.used = p /\ g.top = top
      <3> HIDE DEF r, p, top
      <3>1. g = Heap(r, p, h.fresh, top)
        BY <1>7 DEF TakeWhole, r, p, top
      <3>2. QED
        BY <3>1, HeapParts
    <2>2. /\ b \in AnyBlock /\ \A k \in 1 .. Len(used) : b.addr # used[k].addr
          /\ Spaced(r)
          /\ \A x \in Base .. top - 1 : Covered(r, x) \/ Holds(b, x) \/ Covered(used, x)
      BY <1>5
    <2> HIDE DEF b, r, used, top
    <2>3. Tidy(r, <<b>> \o used, top)
      <3> HIDE DEF p
      <3>1. QED
        BY <1>2, <1>3, <2>2, PushedTidy
    <2>4. QED
      BY <2>1, <2>3
  <1>8. ASSUME NEW i \in 1 .. Len(free), h.fresh > 0, free[i].size >= num,
               free[i].size - num >= SplitThresh, g = TakePart(h, i, num)
        PROVE  Tidy(g.free, g.used, g.top)
    <2> DEFINE o == free[i]
               b == Block(o.addr, num)
               l == o.size - num
               rest == Block(End(b), l)
               r == RemoveAt(free, i)
               c == Compacted(InsertBlock(r, rest))
    <2>1. /\ o \in AnyBlock /\ \A k \in 1 .. Len(used) : o.addr # used[k].addr
          /\ r \in Seq(AnyBlock) /\ Spaced(r)
          /\ \A x \in Base .. top - 1 : Covered(r, x) \/ Holds(o, x) \/ Covered(used, x)
      BY <1>5
    <2>2. /\ g.free = c /\ g.used = <<b>> \o used /\ g.top = top
          /\ Clear(rest, r, used)
      BY <1>1, <1>8, PartFine
    <2> HIDE DEF r, free, used, top
    <2>3. /\ num <= o.size /\ o.size >= num /\ o.size - num >= SplitThresh
      <3>1. o.size >= num /\ o.size - num >= SplitThresh
        BY <1>8
      <3> HIDE DEF o
      <3>2. o.size \in Nat
        BY <2>1, BlockParts
      <3>3. QED
        BY <1>1, <3>1, <3>2
    <2> HIDE DEF o
    <2>4. /\ b \in AnyBlock /\ rest \in AnyBlock
          /\ b.addr = o.addr /\ End(b) = o.addr + num
          /\ rest.addr = o.addr + num /\ rest.size = l /\ End(rest) = End(o)
      BY <1>1, <2>1, <2>3, SplitBlock
    <2>5. l > 0
      <3>1. o.size \in Nat
        BY <2>1, BlockParts
      <3>2. QED
        BY <1>1, <2>3, <3>1, HeapAssumption
    <2> HIDE DEF b, l, rest
    <2>6. Spaced(c)
      BY <2>1, <2>2, <2>4, <2>5, InsertSpaced DEF Clear
    <2>7. ASSUME NEW x \in Base .. top - 1
          PROVE  Covered(c, x) \/ Holds(b, x) \/ Covered(used, x)
      <3>1. x \in Nat
        BY <1>2
      <3>2. Holds(o, x) => Holds(b, x) \/ Holds(rest, x)
        <4>1. o.addr \in Nat /\ o.size \in Nat /\ End(o) \in Nat
          BY <2>1, BlockParts
        <4>2. QED
          BY <1>1, <2>4, <3>1, <4>1 DEF Holds
      <3>3. Holds(rest, x) \/ Covered(r, x) => Covered(c, x)
        BY <2>1, <2>4, <3>1, InsertCovers
      <3>4. QED
        BY <2>1, <2>7, <3>2, <3>3
    <2> HIDE DEF c
    <2>8. Tidy(c, <<b>> \o used, top)
      BY <1>2, <1>3, <2>1, <2>4, <2>6, <2>7, PushedTidy
    <2>9. QED
      BY <2>2, <2>8
  <1>9. QED
    BY <1>4, <1>6, <1>7, <1>8, AllocCases DEF num

-----------------------------------------------------------------------------
(***************************************************************************)
(* Every action preserves the invariant.                                   *)
(***************************************************************************)
\* alloc_block(), whoever calls it.
LEMMA SoundAlloc ==
  ASSUME NEW h, NEW own, NEW gone, Sound(h, own, gone), \A b \in own : b.size > 0,
         NEW n \in Nat, NEW g \in AllocBlock(h, n)
  PROVE  LET new == Block(Head(g.used).addr, n)
         IN  /\ Sound(g, own \cup {new}, gone)
             /\ new \in AnyBlock /\ new \notin own /\ new.size = n
             /\ \A c \in own : Apart(new, c)
             /\ Base <= new.addr /\ End(new) <= Limit
  <1>1. /\ Fine(h.free, h.used, h.fresh, h.top) /\ h.used \in Seq(AnyBlock)
        /\ own \subseteq AnyBlock /\ gone \in BOOLEAN /\ (gone \/ Tidy(h.free, h.used, h.top))
    BY DEF Sound, Fine
  <1>2. PICK u \in AnyBlock :
          /\ g = Heap(g.free, <<u>> \o h.used, g.fresh, g.top)
          /\ Fine(g.free, <<u>> \o h.used, g.fresh, g.top)
          /\ u.size >= n
    BY <1>1, AllocFine DEF Allocated
  <1>3. g.used = <<u>> \o h.used
    <2> DEFINE p == <<u>> \o h.used
    <2> HIDE DEF p
    <2>1. g = Heap(g.free, p, g.fresh, g.top)
      BY <1>2 DEF p
    <2>2. g.used = p
      BY <2>1, HeapParts
    <2>3. QED
      BY <2>2 DEF p
  <1>4. Head(g.used) = u
    BY <1>1, <1>3, PushedPlaces
  <1> DEFINE new == Block(u.addr, n)
             own1 == own \cup {new}
  <1>5. PICK f : Owns(f, own, h.used)
    BY DEF Sound
  <1>6. /\ new \in AnyBlock /\ new \notin own
        /\ \E f1 : Owns(f1, own1, <<u>> \o h.used)
        /\ \A c \in own : Apart(new, c)
        /\ Base <= u.addr /\ u.addr + n <= Limit
    BY <1>1, <1>2, <1>5, OwnsAlloc
  <1>7. new.addr = u.addr /\ new.size = n /\ End(new) = u.addr + n
    <2>1. u.addr \in Nat
      BY BlockParts
    <2> DEFINE a == u.addr
    <2> HIDE DEF a
    <2>2. Block(a, n).addr = a /\ Block(a, n).size = n /\ End(Block(a, n)) = a + n
      BY <2>1, BlockMade DEF a
    <2>3. QED
      BY <2>2 DEF a
  <1>8. gone \/ Tidy(g.free, g.used, g.top)
    <2>1. ASSUME NEW k \in 1 .. Len(h.used)
          PROVE  h.used[k].size > 0
      <3>1. PICK b \in own : f[b] = k
        BY <1>5 DEF Owns
      <3>2. b.size <= h.used[k].size /\ b.size > 0
        BY <1>5, <3>1 DEF Owns
      <3>3. b \in AnyBlock /\ h.used[k] \in AnyBlock
        BY <1>1
      <3>4. QED
        BY <3>2, <3>3, BlockParts
    <2>2. QED
      BY <1>1, <2>1, AllocTidy
  <1> HIDE DEF new
  <1>9. \A b, c \in own1 : b.size = 0 /\ c.size = 0 => b = c
    BY <1>1
  <1>10. own1 \subseteq AnyBlock
    BY <1>1, <1>6
  <1>11. Sound(g, own1, gone)
    BY <1>1, <1>2, <1>3, <1>6, <1>8, <1>9, <1>10 DEF Sound
  <1>12. QED
    BY <1>4, <1>6, <1>7, <1>11 DEF new

\* ta_free() of a block the program holds.
LEMMA SoundFree ==
  ASSUME NEW h, NEW own, NEW gone, Sound(h, own, gone), NEW b \in own
  PROVE  Sound(FreeBlock(h, b.addr), own \ {b}, gone \/ b.size = 0)
  <1> DEFINE used == h.used
             g == FreeBlock(h, b.addr)
  <1>1. /\ Fine(h.free, used, h.fresh, h.top) /\ used \in Seq(AnyBlock)
        /\ h.free \in Seq(AnyBlock) /\ h.top \in Nat
        /\ own \subseteq AnyBlock /\ \A d, c \in own : d.size = 0 /\ c.size = 0 => d = c
        /\ gone \in BOOLEAN /\ (gone \/ Tidy(h.free, used, h.top))
    <2>1. /\ Fine(h.free, used, h.fresh, h.top)
          /\ own \subseteq AnyBlock /\ \A d, c \in own : d.size = 0 /\ c.size = 0 => d = c
          /\ gone \in BOOLEAN /\ (gone \/ Tidy(h.free, used, h.top))
      BY DEF Sound
    <2>2. used \in Seq(AnyBlock) /\ h.free \in Seq(AnyBlock) /\ h.top \in Nat
      BY <2>1, HeapAssumption DEF Fine
    <2>3. QED
      BY <2>1, <2>2
  <1>2. PICK f : Owns(f, own, used)
    BY DEF Sound
  <1>3. /\ f[b] \in 1 .. Len(used) /\ used[f[b]].addr = b.addr
        /\ b.size <= used[f[b]].size
    BY <1>2 DEF Owns
  <1>4. PICK i \in 1 .. Len(used) :
           /\ used[i].addr = b.addr
           /\ i <= f[b]
           /\ \A k \in 1 .. Len(used) : k < i => used[k].addr # b.addr
           /\ used[i] \in AnyBlock
           /\ Clear(used[i], h.free, RemoveAt(used, i))
           /\ g = Heap(g.free, g.used, g.fresh, g.top)
           /\ Fine(g.free, g.used, g.fresh, g.top)
           /\ g.free = Compacted(InsertBlock(h.free, used[i]))
           /\ g.used = RemoveAt(used, i) /\ g.top = h.top
    <2> DEFINE j == f[b]
    <2>1. j \in 1 .. Len(used) /\ used[j].addr = b.addr
      BY <1>3
    <2> HIDE DEF j
    <2>2. QED
      BY <1>1, <2>1, FreeFine DEF j
  <1> HIDE DEF g
  <1>5. \E f1 : Owns(f1, own \ {b}, g.used)
    <2> DEFINE free == h.free
               fresh == h.fresh
               top == h.top
    <2>1. /\ Fine(free, used, fresh, top) /\ own \subseteq AnyBlock
          /\ \A d, c \in own : d.size = 0 /\ c.size = 0 => d = c
          /\ Owns(f, own, used)
          /\ i \in 1 .. Len(used) /\ used[i].addr = b.addr
          /\ \A k \in 1 .. Len(used) : k < i => used[k].addr # b.addr
      BY <1>1, <1>2, <1>4
    <2> HIDE DEF free, fresh, top, used
    <2>2. \E f1 : Owns(f1, own \ {b}, RemoveAt(used, i))
      BY <2>1, OwnsFree
    <2>3. QED
      BY <1>4, <2>2 DEF used
  <1>6. gone \/ b.size = 0 \/ Tidy(g.free, g.used, g.top)
    <2>1. SUFFICES ASSUME ~gone, b.size # 0
                   PROVE  Tidy(g.free, g.used, g.top)
      OBVIOUS
    <2>2. Tidy(h.free, used, h.top)
      BY <1>1, <2>1
    <2>3. i = f[b]
      BY <1>3, <1>4, <2>2 DEF Tidy
    <2>4. used[i].size > 0
      <3>1. b \in AnyBlock /\ b.size <= used[i].size
        BY <1>1, <1>3, <2>3
      <3>2. QED
        BY <1>4, <2>1, <3>1, BlockParts
    <2>5. \A k \in 1 .. Len(h.free) : Apart(used[i], h.free[k])
      BY <1>4 DEF Clear
    <2>6. QED
      BY <1>1, <1>4, <2>2, <2>4, <2>5, FreeTidy
  <1>7. Sound(g, own \ {b}, gone \/ b.size = 0)
    BY <1>1, <1>4, <1>5, <1>6 DEF Sound
  <1>8. QED
    BY <1>7 DEF g

LEMMA HeapInit == Init => HeapInv
  <1> SUFFICES ASSUME Init
               PROVE  HeapInv
    OBVIOUS
  <1> DEFINE f == [b \in {} |-> 1]
  <1>1. heap = Heap(<<>>, <<>>, MaxBlocks, Base) /\ owned = {} /\ emptied = FALSE
    BY DEF Init
  <1>2. /\ heap.free = <<>> /\ heap.used = <<>> /\ heap.fresh = MaxBlocks /\ heap.top = Base
        /\ heap = Heap(heap.free, heap.used, heap.fresh, heap.top)
    BY <1>1, HeapParts
  <1>3. <<>> \in Seq(AnyBlock) /\ Len(<<>>) = 0
    BY EmptySeq
  <1>4. Base \in Nat /\ Limit \in Nat /\ MaxBlocks \in Nat /\ Base <= Limit
    BY HeapAssumption
  <1>5. Fine(<<>>, <<>>, MaxBlocks, Base)
    BY <1>3, <1>4 DEF Fine, Disjointed
  <1>6. Owns(f, {}, <<>>)
    BY <1>3 DEF Owns
  <1>7. Tidy(<<>>, <<>>, Base)
    BY <1>3, <1>4 DEF Tidy, Spaced
  <1>8. QED
    BY <1>1, <1>2, <1>5, <1>6, <1>7 DEF HeapInv, Sound

LEMMA HeapStep ==
  ASSUME HeapInv, [Next]_vars
  PROVE  HeapInv'
  <1>1. Sizes \subseteq Nat
    BY HeapAssumption
  <1>2. ASSUME NEW n \in Sizes, Malloc(n)
        PROVE  HeapInv'
    <2>1. PICK h \in AllocBlock(heap, n) :
            heap' = h /\ owned' = owned \cup {Block(Head(h.used).addr, n)}
      BY <1>2 DEF Malloc
    <2>2. Sound(h, owned \cup {Block(Head(h.used).addr, n)}, emptied)
      BY <1>1, <1>2, SoundAlloc DEF HeapInv, Malloc, Settled
    <2>3. QED
      BY <1>2, <2>1, <2>2 DEF HeapInv, Malloc
  <1>3. ASSUME NEW b \in owned, Free(b)
        PROVE  HeapInv'
    BY <1>3, SoundFree DEF HeapInv, Free
  <1>4. ASSUME NEW b \in owned, NEW n \in Sizes, Realloc(b, n)
        PROVE  HeapInv'
    <2>1. PICK h \in AllocBlock(heap, n) :
            /\ heap' = FreeBlock(h, b.addr)
            /\ owned' = (owned \ {b}) \cup {Block(Head(h.used).addr, n)}
      BY <1>4 DEF Realloc
    <2> DEFINE new == Block(Head(h.used).addr, n)
    <2>2. Sound(h, owned \cup {new}, emptied) /\ new \notin owned
      BY <1>1, <1>4, SoundAlloc DEF HeapInv, Realloc, Settled
    <2>3. Sound(FreeBlock(h, b.addr), (owned \cup {new}) \ {b}, emptied \/ b.size = 0)
      <3> HIDE DEF new
      <3>1. QED
        BY <2>2, SoundFree
    <2>4. (owned \cup {new}) \ {b} = owned'
      BY <2>1, <2>2
    <2>5. (emptied \/ b.size = 0) = emptied'
      <3>1. b.size > 0 /\ b \in AnyBlock /\ emptied' = emptied /\ emptied \in BOOLEAN
        BY <1>4 DEF Realloc, Settled, HeapInv, Sound
      <3>2. b.size # 0
        BY <3>1, BlockParts
      <3>3. QED
        BY <3>1, <3>2
    <2>6. QED
      BY <2>1, <2>3, <2>4, <2>5 DEF HeapInv
  <1>5. CASE UNCHANGED vars
    BY <1>5 DEF vars, HeapInv
  <1>6. QED
    BY <1>2, <1>3, <1>4, <1>5 DEF Next

\* The lists are well formed, every used block is some block the program holds, and the
\* free list is in order, whatever the program asks for and gives back.
THEOREM TinyAllocInvariant == Spec => []HeapInv
  <1>1. QED
    BY HeapInit, HeapStep, PTL DEF Spec

-----------------------------------------------------------------------------
(***************************************************************************)
(* What follows from the invariant.                                        *)
(***************************************************************************)
\* Whatever mixture of splitting, growing, merging and releasing a program causes, the
\* lists and the descriptors not in use are together all the descriptors there are.
THEOREM TinyAllocDescriptorsKept == Spec => []DescriptorsKept
  <1>1. HeapInv => DescriptorsKept
    BY DEF HeapInv, Sound, Fine, DescriptorsKept
  <1>2. QED
    BY <1>1, TinyAllocInvariant, PTL

\* compact() leaves space between any two free blocks, until an empty block is freed.
THEOREM TinyAllocFreeIsCompact == Spec => []FreeIsCompact
  <1>1. HeapInv => FreeIsCompact
    BY DEF HeapInv, Sound, Tidy, Spaced, FreeIsCompact
  <1>2. QED
    BY <1>1, TinyAllocInvariant, PTL

\* A free list with space between its blocks that covers all below the top is one block.
LEMMA OneBlock ==
  ASSUME NEW free, NEW used, NEW fresh, NEW top, Fine(free, used, fresh, top),
         Spaced(free), Len(free) > 0, \A x \in Base .. top - 1 : Covered(free, x)
  PROVE  free = <<Block(Base, top - Base)>>
  <1> DEFINE n == Len(free)
  <1>1. /\ free \in Seq(AnyBlock) /\ n \in Nat /\ n > 0
        /\ top \in Nat /\ Base \in Nat /\ Base <= top
        /\ \A k \in 1 .. n : free[k] \in AnyBlock /\ Within(free[k], top) /\ free[k].size > 0
        /\ \A k, l \in 1 .. n : k # l => Apart(free[k], free[l])
        /\ \A k \in 1 .. n - 1 : End(free[k]) < free[k + 1].addr
    <2>1. free \in Seq(AnyBlock) /\ n \in Nat /\ n > 0 /\ top \in Base .. Limit
      BY DEF Fine
    <2>2. /\ \A k \in 1 .. n : free[k] \in AnyBlock /\ Within(free[k], top) /\ free[k].size > 0
          /\ \A k, l \in 1 .. n : k # l => Apart(free[k], free[l])
          /\ \A k \in 1 .. n - 1 : End(free[k]) < free[k + 1].addr
      BY DEF Fine, Disjointed, Spaced
    <2>3. QED
      BY <2>1, <2>2, HeapAssumption
  <1>2. \A x \in Base .. top - 1 : \E k \in 1 .. n : Holds(free[k], x)
    BY DEF Covered
  <1> HIDE DEF n
  <1>3. ASSUME NEW k \in 1 .. n
        PROVE  /\ free[k].addr \in Nat /\ free[k].size \in Nat /\ free[k].size > 0
               /\ End(free[k]) = free[k].addr + free[k].size
               /\ Base <= free[k].addr /\ End(free[k]) <= top
    <2> DEFINE b == free[k]
    <2>1. b \in AnyBlock /\ Within(b, top) /\ b.size > 0
      BY <1>1
    <2> HIDE DEF b
    <2>2. b.addr \in Nat /\ b.size \in Nat /\ End(b) = b.addr + b.size
      BY <2>1, BlockParts
    <2>3. Base <= b.addr /\ End(b) <= top
      BY <2>1, <2>2, <1>1 DEF Within
    <2>4. QED
      BY <2>1, <2>2, <2>3 DEF b
  <1>4. \A k \in 1 .. n : k # 1 => k - 1 \in 1 .. n - 1 /\ k - 1 \in 1 .. n /\ (k - 1) + 1 = k
    BY <1>1
  <1>5. 1 \in 1 .. n
    BY <1>1
  <1>6. free[1].addr = Base
    <2>1. Base \in Base .. top - 1
      BY <1>1, <1>3, <1>5
    <2>2. PICK k \in 1 .. n : Holds(free[k], Base)
      BY <1>2, <2>1
    <2>3. free[k].addr = Base
      BY <1>1, <1>3, <2>2 DEF Holds
    <2>4. k = 1
      <3>1. SUFFICES ASSUME k # 1
                     PROVE  FALSE
        OBVIOUS
      <3> DEFINE j == k - 1
      <3>2. j \in 1 .. n /\ End(free[j]) < free[k].addr
        BY <1>1, <1>4, <3>1
      <3> HIDE DEF j
      <3>3. /\ free[j].addr \in Nat /\ free[j].size \in Nat
            /\ End(free[j]) = free[j].addr + free[j].size /\ Base <= free[j].addr
        BY <1>3, <3>2
      <3>4. QED
        BY <2>3, <3>2, <3>3, HeapAssumption
    <2>5. QED
      BY <2>3, <2>4
  <1>7. End(free[1]) = top
    <2>1. SUFFICES ASSUME End(free[1]) # top
                   PROVE  FALSE
      OBVIOUS
    <2> DEFINE x == End(free[1])
    <2>2. x \in Base .. top - 1 /\ x > Base
      BY <1>1, <1>3, <1>5, <1>6, <2>1
    <2>3. PICK k \in 1 .. n : Holds(free[k], x)
      BY <1>2, <2>2
    <2>4. free[k].addr <= x /\ x < End(free[k])
      BY <2>3 DEF Holds
    <2>5. k # 1
      BY <2>2, <2>4
    <2> DEFINE j == k - 1
    <2>6. j \in 1 .. n /\ End(free[j]) < free[k].addr
      BY <1>1, <1>4, <2>5
    <2> HIDE DEF j
    <2>7. CASE j = 1
      BY <1>3, <2>2, <2>4, <2>6, <2>7
    <2>8. CASE j # 1
      <3>1. Apart(free[1], free[j])
        BY <1>1, <1>5, <2>6, <2>8
      <3>2. End(free[1]) <= free[j].addr \/ End(free[j]) <= free[1].addr
        BY <1>3, <1>5, <2>6, <3>1 DEF Apart
      <3>3. End(free[j]) < x
        BY <1>3, <2>2, <2>4, <2>6
      <3>4. /\ free[j].addr \in Nat /\ free[j].size \in Nat /\ free[j].size > 0
            /\ End(free[j]) = free[j].addr + free[j].size /\ Base <= free[j].addr
        BY <1>3, <2>6
      <3>5. x \in Nat /\ Base \in Nat
        BY <1>3, <1>5, HeapAssumption
      <3>6. QED
        BY <1>6, <3>2, <3>3, <3>4, <3>5
    <2>9. QED
      BY <2>7, <2>8
  <1>8. n = 1
    <2>1. SUFFICES ASSUME n # 1
                   PROVE  FALSE
      OBVIOUS
    <2>2. 1 \in 1 .. n - 1 /\ 2 \in 1 .. n /\ 1 + 1 = 2
      BY <1>1, <2>1
    <2>3. top < free[2].addr
      BY <1>1, <1>7, <2>2
    <2>4. QED
      BY <1>1, <1>3, <2>2, <2>3
  <1>9. free[1] = Block(Base, top - Base)
    <2> DEFINE b == free[1]
    <2>1. b \in AnyBlock /\ b.addr = Base /\ b.size = top - Base
      BY <1>1, <1>3, <1>5, <1>6, <1>7
    <2> HIDE DEF b
    <2>2. b = Block(Base, top - Base)
      BY <2>1 DEF AnyBlock, Block
    <2>3. QED
      BY <2>2 DEF b
  <1>10. QED
    <2> DEFINE b == Block(Base, top - Base)
               s == <<b>>
    <2>1. free[1] = b
      BY <1>9
    <2> HIDE DEF b
    <2>2. free[1] \in AnyBlock
      BY <1>1, <1>5
    <2>3. s \in Seq(AnyBlock) /\ Len(s) = 1 /\ s[1] = b
      BY <2>1, <2>2
    <2> HIDE DEF s
    <2>4. \A k \in 1 .. Len(free) : free[k] = s[k]
      BY <1>8, <2>1, <2>3 DEF n
    <2>5. Len(free) = Len(s)
      BY <1>8, <2>3 DEF n
    <2>6. free = s
      BY <1>1, <2>3, <2>4, <2>5, SeqEqual
    <2>7. QED
      BY <2>6 DEF s, b

\* Once the program holds nothing, the free memory below the top is one block: nothing
\* was lost by the splitting, and compact() put all of it together again.
THEOREM TinyAllocNothingLost == Spec => []NothingLost
  <1>1. ASSUME HeapInv, owned = {}, ~emptied
        PROVE  heap.free \in {<<>>, <<Block(Base, heap.top - Base)>>}
    <2>1. /\ Fine(heap.free, heap.used, heap.fresh, heap.top)
          /\ Tidy(heap.free, heap.used, heap.top)
      BY <1>1 DEF HeapInv, Sound
    <2>2. PICK f : Owns(f, owned, heap.used)
      BY <1>1 DEF HeapInv, Sound
    <2>3. \A k \in 1 .. Len(heap.used) : FALSE
      BY <1>1, <2>2 DEF Owns
    <2>4. \A x \in Base .. heap.top - 1 : Covered(heap.free, x)
      BY <2>1, <2>3 DEF Tidy, Covered
    <2>5. heap.free \in Seq(AnyBlock) /\ Len(heap.free) \in Nat
      BY <2>1 DEF Fine
    <2>6. CASE Len(heap.free) = 0
      BY <2>5, <2>6, EmptySeq
    <2>7. CASE Len(heap.free) > 0
      BY <2>1, <2>4, <2>7, OneBlock DEF Tidy
    <2>8. QED
      BY <2>5, <2>6, <2>7
  <1>2. HeapInv => NothingLost
    BY <1>1 DEF NothingLost
  <1>3. QED
    BY <1>2, TinyAllocInvariant, PTL

\* Blocks that are apart have no byte in common.
LEMMA ApartDisjoint ==
  ASSUME NEW b \in AnyBlock, NEW c \in AnyBlock, Apart(b, c)
  PROVE  Abs!Disjoint(b, c)
  <1>1. /\ b.addr \in Nat /\ b.size \in Nat /\ End(b) = b.addr + b.size
        /\ c.addr \in Nat /\ c.size \in Nat /\ End(c) = c.addr + c.size
    BY BlockParts
  <1>2. \A x \in Int : ~(x >= b.addr /\ x <= b.addr + b.size - 1
                         /\ x >= c.addr /\ x <= c.addr + c.size - 1)
    BY <1>1 DEF Apart
  <1>3. QED
    BY <1>1, <1>2 DEF Abs!Disjoint, Abs!Bytes

LEMMA AllocVacant ==
  ASSUME HeapInv, Settled, NEW n \in Nat, NEW g \in AllocBlock(heap, n)
  PROVE  LET new == Block(Head(g.used).addr, n)
         IN  Abs!Vacant(new) /\ new \notin owned
  <1> DEFINE new == Block(Head(g.used).addr, n)
  <1>1. /\ new \in AnyBlock /\ new \notin owned
        /\ \A c \in owned : Apart(new, c)
        /\ Base <= new.addr /\ End(new) <= Limit
    BY SoundAlloc DEF HeapInv, Settled
  <1>2. owned \subseteq AnyBlock
    BY DEF HeapInv, Sound
  <1> HIDE DEF new
  <1>3. Abs!Bytes(new) \subseteq Base .. Limit - 1
    <2>1. /\ new.addr \in Nat /\ new.size \in Nat /\ End(new) = new.addr + new.size
          /\ Base \in Nat /\ Limit \in Nat
      BY <1>1, BlockParts, HeapAssumption
    <2>2. QED
      BY <1>1, <2>1 DEF Abs!Bytes
  <1>4. \A c \in owned : Abs!Disjoint(new, c)
    BY <1>1, <1>2, ApartDisjoint
  <1>5. QED
    BY <1>1, <1>3, <1>4 DEF Abs!Vacant, new

LEMMA StepImplements ==
  ASSUME HeapInv, [Next]_vars
  PROVE  [Abs!Next]_owned
  <1>1. Sizes \subseteq Nat
    BY HeapAssumption
  <1>2. ASSUME NEW n \in Sizes, Malloc(n)
        PROVE  Abs!Alloc
    <2>1. PICK h \in AllocBlock(heap, n) :
            owned' = owned \cup {Block(Head(h.used).addr, n)}
      BY <1>2 DEF Malloc
    <2> DEFINE new == Block(Head(h.used).addr, n)
    <2>2. Abs!Vacant(new)
      BY <1>1, <1>2, AllocVacant DEF Malloc
    <2> HIDE DEF new
    <2>3. new \in owned' /\ owned' = owned \cup {new}
      BY <2>1 DEF new
    <2>4. QED
      BY <2>2, <2>3 DEF Abs!Alloc
  <1>3. ASSUME NEW b \in owned, Free(b)
        PROVE  Abs!Free
    BY <1>3 DEF Free, Abs!Free
  <1>4. ASSUME NEW b \in owned, NEW n \in Sizes, Realloc(b, n)
        PROVE  Abs!Realloc
    <2>1. PICK h \in AllocBlock(heap, n) :
            owned' = (owned \ {b}) \cup {Block(Head(h.used).addr, n)}
      BY <1>4 DEF Realloc
    <2> DEFINE new == Block(Head(h.used).addr, n)
    <2>2. Abs!Vacant(new)
      BY <1>1, <1>4, AllocVacant DEF Realloc
    <2> HIDE DEF new
    <2>3. new \in owned' /\ owned' = (owned \ {b}) \cup {new}
      BY <2>1 DEF new
    <2>4. QED
      BY <2>2, <2>3 DEF Abs!Realloc
  <1>5. CASE UNCHANGED vars
    BY <1>5 DEF vars
  <1>6. QED
    BY <1>2, <1>3, <1>4, <1>5 DEF Next, Abs!Next

\* The heap is an allocator: what malloc() and realloc() give a program lies within the
\* heap, and shares no byte with anything else it holds.
THEOREM TinyAllocImplementsAllocator == Spec => ImplementsAllocator
  <1>1. Init => Abs!Init
    BY DEF Init, Abs!Init
  <1>2. HeapInv /\ [Next]_vars => [Abs!Next]_owned
    BY StepImplements
  <1>3. QED
    BY <1>1, <1>2, TinyAllocInvariant, PTL DEF Spec, ImplementsAllocator, Abs!Spec
=============================================================================
