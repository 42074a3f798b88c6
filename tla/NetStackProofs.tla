--------------------------- MODULE NetStackProofs ---------------------------
(***************************************************************************)
(* The checksums, for every sum and every width of words: what is sent is  *)
(* accepted, and what was damaged in one word is not.  Then the list of    *)
(* sinks, which stays one sorted list, and what follows for the packets:   *)
(* each is owned once, goes to the sink that matches it best, and is       *)
(* served before net_pump() ends.                                          *)
(***************************************************************************)
EXTENDS NetStack, NumberTheorems, FiniteSetTheorems, SequenceTheorems

LEMMA OnesPositive == Ones \in Nat /\ Ones >= 3 /\ Carry = Ones + 1 /\ Carry \in Nat
  BY CarryAssumption DEF Ones

\* The two parts of a sum in checksum_complete(): the word and the carries.
LEMMA SumParts ==
  ASSUME NEW sum \in Nat
  PROVE  /\ sum \div Carry \in Nat
         /\ sum % Carry \in 0 .. Ones
         /\ sum = Carry * (sum \div Carry) + (sum % Carry)
  <1>1. Carry \in Nat \ {0} /\ Ones = Carry - 1
    BY OnesPositive
  <1>. QED  BY <1>1, Parts

LEMMA ProductGrows ==
  ASSUME NEW c \in Nat, NEW m \in Nat, NEW n \in Nat, m >= n
  PROVE  c * m >= c * n
  OBVIOUS

LEMMA OneMultiple ==
  ASSUME NEW m \in Int, Ones * m >= 1, Ones * m <= Ones
  PROVE  m = 1
  <1>1. m <= 0 => Ones * m <= 0
    BY OnesPositive
  <1>2. m >= 2 => Ones * m >= Ones * 2
    BY OnesPositive
  <1>3. QED
    BY <1>1, <1>2, OnesPositive

\* Adding the carries leaves the remainder by a word of ones as it is, and never makes
\* a sum 0 that was not (checksum_complete()).
LEMMA FoldKeeps ==
  ASSUME NEW sum \in Nat
  PROVE  /\ Fold(sum) \in Nat
         /\ \E q \in Nat : sum = Fold(sum) + Ones * q
         /\ Fold(sum) = 0 => sum = 0
  <1> DEFINE q == sum \div Carry
             r == sum % Carry
  <1>1. q \in Nat /\ r \in 0 .. Ones /\ sum = Carry * q + r
    BY SumParts
  <1>2. Fold(sum) = r + q
    BY DEF Fold
  <1> HIDE DEF q, r
  <1>3. Carry * q = Ones * q + q
    BY <1>1, OnesPositive
  <1>4. sum = Fold(sum) + Ones * q
    BY <1>1, <1>2, <1>3, OnesPositive
  <1>5. Fold(sum) = 0 => q = 0 /\ r = 0
    BY <1>1, <1>2, OnesPositive
  <1>6. Fold(sum) \in Nat /\ (Fold(sum) = 0 => sum = 0)
    BY <1>1, <1>2, <1>5, OnesPositive
  <1>7. QED
    BY <1>1, <1>4, <1>6

\* The loop of checksum_complete() ends after two turns at the latest.
LEMMA FoldTwice ==
  ASSUME NEW sum \in Sums
  PROVE  Folded(sum) \in Words
  <1>1. sum \in Nat /\ sum <= Carry * Ones
    BY OnesPositive DEF Sums
  <1>2. sum \div Carry \in 0 .. Ones
    <2> DEFINE q == sum \div Carry
               r == sum % Carry
    <2>0. q \in Nat /\ r \in 0 .. Ones /\ sum = Carry * q + r
      BY <1>1, SumParts
    <2> HIDE DEF q, r
    <2>1. ~(q >= Carry)
      <3>1. SUFFICES ASSUME q >= Carry
                     PROVE  FALSE
        OBVIOUS
      <3>2. Carry * q >= Carry * Carry
        BY <2>0, <3>1, ProductGrows, OnesPositive
      <3>3. Carry * Carry = Carry * Ones + Carry
        BY OnesPositive
      <3>4. Carry * q \in Nat /\ Carry * Ones \in Nat
        BY <2>0, OnesPositive
      <3>5. QED
        BY <1>1, <2>0, <3>2, <3>3, <3>4, OnesPositive
    <2>2. q \in 0 .. Ones
      BY <2>0, <2>1, OnesPositive
    <2>3. QED
      BY <2>2 DEF q
  <1>3. Fold(sum) \in 0 .. 2 * Ones
    BY <1>1, <1>2, SumParts, OnesPositive DEF Fold
  <1>4. ASSUME NEW s \in Carry .. 2 * Ones
        PROVE  Fold(s) \in Words
    <2> DEFINE q == s \div Carry
               r == s % Carry
    <2>1. s \in Nat /\ s >= Carry /\ s <= 2 * Carry - 2
      BY OnesPositive
    <2>2. q \in Nat /\ r \in 0 .. Ones /\ s = Carry * q + r /\ Fold(s) = r + q
      BY <2>1, SumParts DEF Fold
    <2> HIDE DEF q, r
    <2>3. q < 2
      <3>1. q >= 2 => Carry * q >= Carry * 2
        BY <2>2, ProductGrows, OnesPositive
      <3>2. QED
        BY <2>1, <2>2, <3>1, OnesPositive
    <2>4. q # 0
      BY <2>1, <2>2, OnesPositive
    <2>5. q = 1
      BY <2>2, <2>3, <2>4
    <2>6. QED
      BY <2>1, <2>2, <2>5, OnesPositive DEF Words
  <1>5. QED
    BY <1>1, <1>3, <1>4, OnesPositive DEF Folded, Words

\* Folded is the remainder by a word of ones, but for multiples of it, which leave that
\* word unless they are 0.
LEMMA FoldedKeeps ==
  ASSUME NEW sum \in Sums
  PROVE  /\ \E q \in Nat : sum = Folded(sum) + Ones * q
         /\ Folded(sum) = 0 => sum = 0
  <1>1. sum \in Nat
    BY OnesPositive DEF Sums
  <1>2. CASE sum < Carry
    <2>1. Folded(sum) = sum
      BY <1>2 DEF Folded
    <2>2. sum = sum + Ones * 0
      BY <1>1, OnesPositive
    <2>3. QED
      BY <2>1, <2>2
  <1>3. CASE ~(sum < Carry) /\ Fold(sum) < Carry
    <2>1. Folded(sum) = Fold(sum)
      BY <1>3 DEF Folded
    <2>2. QED
      BY <1>1, <2>1, FoldKeeps
  <1>4. CASE ~(sum < Carry) /\ ~(Fold(sum) < Carry)
    <2>1. PICK q \in Nat : sum = Fold(sum) + Ones * q
      BY <1>1, FoldKeeps
    <2>2. Fold(sum) \in Nat
      BY <1>1, FoldKeeps
    <2>3. PICK r \in Nat : Fold(sum) = Fold(Fold(sum)) + Ones * r
      BY <2>2, FoldKeeps
    <2>4. Folded(sum) = Fold(Fold(sum)) /\ Fold(Fold(sum)) \in Nat
      BY <1>4, <2>2, FoldKeeps DEF Folded
    <2>5. Ones * (q + r) = Ones * q + Ones * r
      BY OnesPositive
    <2>6. sum = Folded(sum) + Ones * (q + r)
      BY <2>1, <2>3, <2>4, <2>5, OnesPositive
    <2>7. Folded(sum) = 0 => sum = 0
      BY <1>1, <2>2, <2>4, FoldKeeps
    <2>8. q + r \in Nat
      OBVIOUS
    <2>9. QED
      BY <2>6, <2>7, <2>8
  <1>5. QED
    BY <1>2, <1>3, <1>4

\* The sums that are accepted are the multiples of a word of ones other than 0
\* (net_verify_ipv4_checksum(), net_verify_icmp_checksum()).
LEMMA VerifiedIff ==
  ASSUME NEW sum \in Sums
  PROVE  Verified(sum) <=> sum # 0 /\ \E q \in Nat : sum = Ones * q
  <1>1. Folded(sum) \in 0 .. Ones /\ sum \in Nat
    BY FoldTwice, OnesPositive DEF Words, Sums
  <1>2. PICK q \in Nat : sum = Folded(sum) + Ones * q
    BY FoldedKeeps
  <1>3. Verified(sum) <=> Folded(sum) = Ones
    BY <1>1, OnesPositive DEF Verified, ChecksumComplete
  <1>4. ASSUME Folded(sum) = Ones
        PROVE  sum # 0 /\ q + 1 \in Nat /\ sum = Ones * (q + 1)
    <2>1. Ones * (q + 1) = Ones * q + Ones /\ Ones * q >= 0
      BY OnesPositive
    <2>2. QED
      BY <1>2, <1>4, <2>1, OnesPositive
  <1>5. ASSUME sum # 0, NEW r \in Nat, sum = Ones * r
        PROVE  Folded(sum) = Ones
    <2>1. Folded(sum) # 0
      BY <1>5, FoldedKeeps
    <2>2. Ones * (r - q) = Ones * r - Ones * q
      BY OnesPositive
    <2>3. Folded(sum) = Ones * (r - q)
      BY <1>1, <1>2, <1>5, <2>2, OnesPositive
    <2>4. r - q = 1
      BY <1>1, <2>1, <2>3, OneMultiple, OnesPositive
    <2>5. QED
      BY <2>3, <2>4, OnesPositive
  <1>6. QED
    BY <1>3, <1>4, <1>5

\* A packet that carries the checksum computed for it is accepted, as the replies of
\* icmp_received() must be by the host that asked.
THEOREM ComputedVerifies ==
  ASSUME NEW sum \in Sums, sum + Computed(sum) \in Sums, sum # 0
  PROVE  Verified(sum + Computed(sum))
  <1>1. Folded(sum) \in 0 .. Ones /\ sum \in Nat
    BY FoldTwice, OnesPositive DEF Words, Sums
  <1>2. PICK q \in Nat : sum = Folded(sum) + Ones * q
    BY FoldedKeeps
  <1>3. Computed(sum) = Ones - Folded(sum)
    BY DEF Computed, ChecksumComplete
  <1>4. Ones * (q + 1) = Ones * q + Ones
    BY OnesPositive
  <1>5. sum + Computed(sum) = Ones * (q + 1)
    BY <1>1, <1>2, <1>3, <1>4, OnesPositive
  <1>6. sum + Computed(sum) # 0
    BY <1>1, <1>3, OnesPositive
  <1>7. QED
    BY <1>5, <1>6, VerifiedIff

\* The same of UDP, whose checksum is never the 0 that stands for none
\* (net_compute_udp_checksum()).
THEOREM UdpComputedVerifies ==
  ASSUME NEW sum \in Sums, sum + UdpComputed(sum) \in Sums, sum # 0
  PROVE  UdpComputed(sum) # 0 /\ Verified(sum + UdpComputed(sum))
  <1>1. CASE ChecksumComplete(sum) # 0
    BY <1>1, ComputedVerifies DEF UdpComputed, Computed
  <1>2. CASE ChecksumComplete(sum) = 0
    <2>1. PICK q \in Nat : sum = Ones * q
      BY <1>2, VerifiedIff DEF Verified
    <2>2. UdpComputed(sum) = Ones
      BY <1>2 DEF UdpComputed
    <2>3. Ones * (q + 1) = Ones * q + Ones /\ Ones * q >= 0
      BY OnesPositive
    <2>4. sum + Ones = Ones * (q + 1) /\ sum + Ones # 0
      BY <2>1, <2>3, OnesPositive
    <2>5. Verified(sum + Ones)
      BY <2>2, <2>4, VerifiedIff
    <2>6. QED
      BY <2>2, <2>5, OnesPositive
  <1>3. QED
    BY <1>1, <1>2

\* A packet in which one word is damaged is rejected, whatever the damage, unless it
\* makes 0 of a word of ones or the other way round (net_eth_push()).
THEOREM DamageSeen ==
  ASSUME NEW others \in Nat, NEW sent \in Words, NEW got \in Words, got # sent,
         ~(sent = 0 /\ got = Ones), ~(sent = Ones /\ got = 0),
         others + sent \in Sums, others + got \in Sums, Verified(others + sent)
  PROVE  ~Verified(others + got)
  <1>1. SUFFICES ASSUME Verified(others + got)
                 PROVE  FALSE
    OBVIOUS
  <1>2. PICK q \in Nat : others + sent = Ones * q
    BY VerifiedIff
  <1>3. PICK r \in Nat : others + got = Ones * r
    BY <1>1, VerifiedIff
  <1>4. sent \in 0 .. Ones /\ got \in 0 .. Ones
    BY OnesPositive DEF Words
  <1>5. Ones * (r - q) = Ones * r - Ones * q /\ Ones * (q - r) = Ones * q - Ones * r
    BY OnesPositive
  <1>6. got - sent = Ones * (r - q) /\ sent - got = Ones * (q - r)
    BY <1>2, <1>3, <1>4, <1>5, OnesPositive
  <1>7. CASE got > sent
    <2>1. r - q = 1
      BY <1>4, <1>6, <1>7, OneMultiple, OnesPositive
    <2>2. got - sent = Ones
      BY <1>6, <2>1, OnesPositive
    <2>3. QED
      BY <1>4, <2>2, OnesPositive
  <1>8. CASE sent > got
    <2>1. q - r = 1
      BY <1>4, <1>6, <1>8, OneMultiple, OnesPositive
    <2>2. sent - got = Ones
      BY <1>6, <2>1, OnesPositive
    <2>3. QED
      BY <1>4, <2>2, OnesPositive
  <1>9. QED
    BY <1>4, <1>7, <1>8, OnesPositive
-----------------------------------------------------------------------------
(***************************************************************************)
(* The list of sinks, as a sequence.                                       *)
(***************************************************************************)
Link == Sinks \cup {Null}
Elements(L) == {L[i] : i \in 1 .. Len(L)}

\* The head and the links of the sinks make this list, and the sinks that are not in it
\* link to nothing.
Chain(L, h, nx) ==
  /\ L \in Seq(Sinks)
  /\ \A i, j \in 1 .. Len(L) : L[i] = L[j] => i = j
  /\ nx \in [Sinks -> Link]
  /\ h = IF Len(L) = 0 THEN Null ELSE L[1]
  /\ \A i \in 1 .. Len(L) : nx[L[i]] = IF i = Len(L) THEN Null ELSE L[i + 1]
  /\ \A s \in Sinks \ Elements(L) : nx[s] = Null

LEMMA SinksFinite == IsFiniteSet(Sinks) /\ Cardinality(Sinks) \in Nat
  <1> DEFINE N == Len(Order)
             f == [i \in 1 .. N + 1 |-> IF i = N + 1 THEN "tftp" ELSE Order[i]]
  <1>1. N \in Nat /\ "tftp" \in Sinks /\ \A i \in 1 .. N : Order[i] \in Sinks
    BY NetStackAssumption
  <1>2. \A s \in Sinks \ {"tftp"} : \E i \in 1 .. N : Order[i] = s
    BY NetStackAssumption
  <1> HIDE DEF N
  <1>3. f \in [1 .. N + 1 -> Sinks]
    BY <1>1
  <1>4. \A s \in Sinks : \E i \in 1 .. N + 1 : f[i] = s
    <2>1. ASSUME NEW s \in Sinks PROVE \E i \in 1 .. N + 1 : f[i] = s
      <3>1. CASE s = "tftp"
        <4>1. N + 1 \in 1 .. N + 1 /\ f[N + 1] = s
          BY <1>1, <3>1
        <4>. QED  BY <4>1
      <3>2. CASE s # "tftp"
        <4>1. PICK i \in 1 .. N : Order[i] = s
          BY <1>2, <3>2
        <4>2. i \in 1 .. N + 1 /\ i # N + 1
          BY <1>1, <4>1
        <4>. QED  BY <4>1, <4>2
      <3>. QED  BY <3>1, <3>2
    <2>. QED  BY <2>1
  <1>5. f \in Surjection(1 .. N + 1, Sinks)
    <2> HIDE DEF f
    <2>. QED  BY <1>3, <1>4 DEF Surjection
  <1>6. ExistsSurjection(1 .. N + 1, Sinks) /\ N + 1 \in Nat
    BY <1>1, <1>5 DEF ExistsSurjection
  <1>7. IsFiniteSet(Sinks)
    BY <1>6, FS_NatSurjection
  <1>. QED  BY <1>7, FS_CardinalityType

LEMMA ChainLength ==
  ASSUME NEW L, NEW h, NEW nx, Chain(L, h, nx)
  PROVE  /\ Len(L) \in Nat /\ Len(L) <= Cardinality(Sinks)
         /\ Cardinality(Elements(L)) = Len(L)
         /\ Elements(L) \subseteq Sinks
  <1>1. L \in Seq(Sinks) /\ Len(L) \in Nat /\ L = [i \in 1 .. Len(L) |-> L[i]]
        /\ \A i \in 1 .. Len(L) : L[i] \in Sinks
    BY DEF Chain
  <1>2. Elements(L) \subseteq Sinks /\ Elements(L) = {L[i] : i \in 1 .. Len(L)}
    BY <1>1 DEF Elements
  <1>3. L \in Bijection(1 .. Len(L), Elements(L))
    <2>1. L \in [1 .. Len(L) -> Elements(L)]
      BY <1>1, <1>2
    <2>2. \A i, j \in 1 .. Len(L) : L[i] = L[j] => i = j
      BY DEF Chain
    <2>. QED  BY <1>2, <2>1, <2>2 DEF Bijection, Injection, Surjection, IsInjective
  <1>4. ExistsBijection(1 .. Len(L), Elements(L))
    BY <1>3 DEF ExistsBijection
  <1>5. Cardinality(Elements(L)) = Len(L)
    BY <1>1, <1>4, FS_CountingElements
  <1>6. Cardinality(Elements(L)) <= Cardinality(Sinks)
    BY <1>2, SinksFinite, FS_Subset
  <1>. QED  BY <1>1, <1>2, <1>5, <1>6

LEMMA NthSteps ==
  ASSUME NEW h \in Link, NEW nx \in [Sinks -> Link]
  PROVE  LET nth == Nth(h, nx)
         IN  /\ nth[0] = h
             /\ \A n \in 1 .. Cardinality(Sinks) :
                  nth[n] = IF nth[n - 1] = Null THEN Null ELSE nx[nth[n - 1]]
  <1> DEFINE N == Cardinality(Sinks)
             nth == Nth(h, nx)
             step == [n \in 1 .. N |-> [s \in Link |-> IF s = Null THEN Null ELSE nx[s]]]
             Rule(g) == [n \in 0 .. N |-> IF n = 0 THEN h
                                          ELSE IF g[n - 1] = Null THEN Null ELSE nx[g[n - 1]]]
  <1>1. N \in Nat
    BY SinksFinite
  <1>2. step \in [1 .. N -> [Link -> Link]]
    <2>1. \A s \in Link : (IF s = Null THEN Null ELSE nx[s]) \in Link
      BY DEF Link
    <2> HIDE DEF N
    <2>. QED  BY <2>1
  <1>3. PICK f \in [0 .. N -> Link] :
          f[0] = h /\ \A n \in 1 .. N : f[n] = step[n][f[n - 1]]
    <2>1. h \in Link
      OBVIOUS
    <2> HIDE DEF N, step, Rule, nth
    <2>2. \A M \in Nat : \A steps \in [1 .. M -> [Link -> Link]] :
            \E f \in [0 .. M -> Link] : f[0] = h /\ \A n \in 1 .. M : f[n] = steps[n][f[n - 1]]
      BY <2>1, Recursion
    <2>. QED  BY <1>1, <1>2, <2>2
  <1> HIDE DEF N
  <1>4. f = Rule(f)
    <2>1. ASSUME NEW n \in 0 .. N
          PROVE  f[n] = Rule(f)[n]
      <3>1. CASE n = 0
        BY <1>3, <3>1
      <3>2. CASE n # 0
        <4>1. n \in 1 .. N /\ n - 1 \in 0 .. N
          BY <1>1, <3>2
        <4>2. f[n - 1] \in Link
          BY <1>3, <4>1
        <4>3. f[n] = IF f[n - 1] = Null THEN Null ELSE nx[f[n - 1]]
          BY <1>3, <4>1, <4>2
        <4>. QED  BY <3>2, <4>3
      <3>. QED  BY <3>1, <3>2
    <2>2. Rule(f) = [n \in 0 .. N |-> Rule(f)[n]]
      OBVIOUS
    <2> HIDE DEF Rule
    <2>. QED  BY <1>3, <2>1, <2>2
  <1>5. nth = Rule(nth)
    <2>1. nth = CHOOSE g : g = Rule(g)
      BY DEF Nth, N
    <2> HIDE DEF Rule, nth
    <2>. QED  BY <1>4, <2>1
  <1>6. nth[0] = h
    BY <1>1, <1>5
  <1>7. ASSUME NEW n \in 1 .. N
        PROVE  nth[n] = IF nth[n - 1] = Null THEN Null ELSE nx[nth[n - 1]]
    <2> HIDE DEF nth
    <2>1. n \in 0 .. N /\ n # 0
      BY <1>1
    <2>2. Rule(nth)[n] = IF nth[n - 1] = Null THEN Null ELSE nx[nth[n - 1]]
      BY <2>1, Zenon
    <2> HIDE DEF Rule
    <2>. QED  BY <1>5, <2>2
  <1>. QED  BY <1>6, <1>7 DEF N

\* Following the links from the head gives the list.
LEMMA NthChain ==
  ASSUME NEW L, NEW h, NEW nx, Chain(L, h, nx)
  PROVE  \A n \in 0 .. Cardinality(Sinks) :
           Nth(h, nx)[n] = IF n < Len(L) THEN L[n + 1] ELSE Null
  <1> DEFINE N == Cardinality(Sinks)
             l == Len(L)
             nth == Nth(h, nx)
             D == {n \in Nat : n <= N => nth[n] = IF n < l THEN L[n + 1] ELSE Null}
  <1>1. /\ N \in Nat /\ l \in Nat /\ \A i \in 1 .. l : L[i] \in Sinks
        /\ h \in Link /\ nx \in [Sinks -> Link]
        /\ h = IF l = 0 THEN Null ELSE L[1]
        /\ \A i \in 1 .. l : nx[L[i]] = IF i = l THEN Null ELSE L[i + 1]
    <2>1. l \in Nat /\ N \in Nat
      BY SinksFinite, ChainLength
    <2>2. \A i \in 1 .. l : L[i] \in Sinks
      BY DEF Chain
    <2>3. h = IF l = 0 THEN Null ELSE L[1]
      BY DEF Chain
    <2>4. h \in Link
      <3> HIDE DEF l
      <3>. QED  BY <2>1, <2>2, <2>3 DEF Link
    <2>. QED  BY <2>1, <2>2, <2>3, <2>4 DEF Chain
  <1>2. /\ nth[0] = h
        /\ \A n \in 1 .. N : nth[n] = IF nth[n - 1] = Null THEN Null ELSE nx[nth[n - 1]]
    BY <1>1, NthSteps
  <1> HIDE DEF N, l, nth
  <1>3. 0 \in D
    BY <1>1, <1>2
  <1>4. ASSUME NEW n \in Nat, n \in D
        PROVE  n + 1 \in D
    <2>1. SUFFICES ASSUME n + 1 <= N
                   PROVE  nth[n + 1] = IF n + 1 < l THEN L[(n + 1) + 1] ELSE Null
      OBVIOUS
    <2>2. n + 1 \in 1 .. N /\ (n + 1) - 1 = n /\ n <= N
      BY <1>1, <2>1
    <2>3. nth[n] = IF n < l THEN L[n + 1] ELSE Null
      BY <1>4, <2>2
    <2>4. nth[n + 1] = IF nth[n] = Null THEN Null ELSE nx[nth[n]]
      BY <1>2, <2>2
    <2>5. CASE n < l
      <3>1. n + 1 \in 1 .. l /\ (n + 1 = l <=> ~(n + 1 < l))
        BY <1>1, <2>5
      <3>2. nth[n] = L[n + 1] /\ L[n + 1] \in Sinks
        BY <1>1, <2>3, <2>5, <3>1
      <3>3. nth[n] # Null
        BY <3>2, NetStackAssumption
      <3>. QED  BY <1>1, <2>4, <3>1, <3>2, <3>3
    <2>6. CASE ~(n < l)
      BY <1>1, <2>3, <2>4, <2>6
    <2>. QED  BY <2>5, <2>6
  <1>5. Nat \subseteq D
    <2> HIDE DEF D
    <2>. QED  BY <1>3, <1>4, Induction
  <1>. QED  BY <1>1, <1>5 DEF N, l, nth

LEMMA ListedChain ==
  ASSUME NEW L, NEW h, NEW nx, Chain(L, h, nx)
  PROVE  Listed(h, nx) = Elements(L)
  <1> DEFINE N == Cardinality(Sinks)
             l == Len(L)
             nth == Nth(h, nx)
  <1>1. /\ N \in Nat /\ l \in Nat /\ l <= N /\ \A i \in 1 .. l : L[i] \in Sinks
        /\ \A n \in 0 .. N : nth[n] = IF n < l THEN L[n + 1] ELSE Null
    <2>1. N \in Nat /\ l \in Nat /\ l <= N
      BY SinksFinite, ChainLength
    <2>2. \A i \in 1 .. l : L[i] \in Sinks
      BY DEF Chain
    <2>. QED  BY <2>1, <2>2, NthChain
  <1> HIDE DEF N, l, nth
  <1>2. ASSUME NEW i \in 1 .. l
        PROVE  L[i] \in {nth[n] : n \in 0 .. N} \ {Null}
    <2>1. i - 1 \in 0 .. N /\ i - 1 < l /\ (i - 1) + 1 = i
      BY <1>1
    <2>2. nth[i - 1] = L[i]
      BY <1>1, <2>1
    <2>. QED  BY <1>1, <2>1, <2>2, NetStackAssumption
  <1>3. ASSUME NEW n \in 0 .. N, nth[n] # Null
        PROVE  nth[n] \in {L[i] : i \in 1 .. l}
    <2>1. n < l /\ nth[n] = L[n + 1]
      BY <1>1, <1>3
    <2>2. n + 1 \in 1 .. l
      BY <1>1, <2>1
    <2>. QED  BY <2>1, <2>2
  <1>4. {nth[n] : n \in 0 .. N} \ {Null} = {L[i] : i \in 1 .. l}
    BY <1>2, <1>3
  <1>. QED  BY <1>4 DEF Listed, Elements, N, l, nth
-----------------------------------------------------------------------------
(***************************************************************************)
(* A sink comes into the list after its first k sinks, or leaves it.       *)
(***************************************************************************)
Ins(L, k, s) ==
  [i \in 1 .. Len(L) + 1 |-> IF i <= k THEN L[i] ELSE IF i = k + 1 THEN s ELSE L[i - 1]]
Del(L, k) == [i \in 1 .. Len(L) - 1 |-> IF i < k THEN L[i] ELSE L[i + 1]]

\* M is the list L with s after its first k sinks.
Inserted(L, k, s, M) ==
  /\ M \in Seq(Sinks) /\ Len(M) = Len(L) + 1
  /\ M[k + 1] = s
  /\ \A i \in 1 .. k : M[i] = L[i]
  /\ \A i \in k + 1 .. Len(L) : M[i + 1] = L[i]
  /\ Elements(M) = Elements(L) \cup {s}

LEMMA InsFacts ==
  ASSUME NEW L \in Seq(Sinks), NEW s \in Sinks, NEW k \in 0 .. Len(L)
  PROVE  Inserted(L, k, s, Ins(L, k, s))
  <1> DEFINE l == Len(L)
             M == Ins(L, k, s)
  <1>1. l \in Nat /\ k \in 0 .. l /\ \A i \in 1 .. l : L[i] \in Sinks
    OBVIOUS
  <1>2. M = [i \in 1 .. l + 1 |-> IF i <= k THEN L[i] ELSE IF i = k + 1 THEN s ELSE L[i - 1]]
    BY DEF Ins
  <1> HIDE DEF l, M
  <1>3. ASSUME NEW i \in 1 .. l + 1 PROVE M[i] \in Sinks
    <2>1. CASE i <= k
      BY <1>1, <1>2, <2>1
    <2>2. CASE i = k + 1
      BY <1>1, <1>2, <2>2
    <2>3. CASE i > k + 1
      <3>1. i - 1 \in 1 .. l /\ M[i] = L[i - 1]
        BY <1>1, <1>2, <2>3
      <3>. QED  BY <1>1, <3>1
    <2>. QED  BY <1>1, <2>1, <2>2, <2>3
  <1>4. M \in [1 .. l + 1 -> Sinks] /\ l + 1 \in Nat
    BY <1>1, <1>2, <1>3
  <1>5. M \in Seq(Sinks) /\ Len(M) = l + 1
    BY <1>4, SeqDef, LenProperties
  <1>6. /\ M[k + 1] = s
        /\ \A i \in 1 .. k : M[i] = L[i]
        /\ \A i \in k + 1 .. l : M[i + 1] = L[i]
    BY <1>1, <1>2
  <1>7. Elements(M) = {M[i] : i \in 1 .. l + 1} /\ Elements(L) = {L[i] : i \in 1 .. l}
    BY <1>5 DEF Elements, l
  <1>8. ASSUME NEW i \in 1 .. l + 1 PROVE M[i] \in Elements(L) \cup {s}
    <2>1. CASE i <= k
      <3>1. i \in 1 .. l /\ M[i] = L[i]
        BY <1>1, <1>2, <2>1
      <3>. QED  BY <1>7, <3>1
    <2>2. CASE i = k + 1
      BY <1>6, <2>2
    <2>3. CASE i > k + 1
      <3>1. i - 1 \in 1 .. l /\ M[i] = L[i - 1]
        BY <1>1, <1>2, <2>3
      <3>. QED  BY <1>7, <3>1
    <2>. QED  BY <1>1, <2>1, <2>2, <2>3
  <1>9. ASSUME NEW i \in 1 .. l PROVE L[i] \in Elements(M)
    <2>1. CASE i <= k
      <3>1. i \in 1 .. l + 1 /\ M[i] = L[i]
        BY <1>1, <1>2, <2>1
      <3>. QED  BY <1>7, <3>1
    <2>2. CASE i > k
      <3>1. i + 1 \in 1 .. l + 1 /\ i \in k + 1 .. l
        BY <1>1, <2>2
      <3>2. M[i + 1] = L[i]
        BY <1>6, <3>1
      <3>. QED  BY <1>7, <3>1, <3>2
    <2>. QED  BY <1>1, <2>1, <2>2
  <1>10. s \in Elements(M)
    <2>1. k + 1 \in 1 .. l + 1
      BY <1>1
    <2>. QED  BY <1>6, <1>7, <2>1
  <1>11. Elements(M) = Elements(L) \cup {s}
    BY <1>7, <1>8, <1>9, <1>10
  <1>. QED  BY <1>5, <1>6, <1>11 DEF Inserted, l, M

\* The links of net_add_packet_sink().
LEMMA ChainIns ==
  ASSUME NEW L, NEW h, NEW nx, Chain(L, h, nx),
         NEW s \in Sinks \ Elements(L), NEW k \in 0 .. Len(L), NEW g, NEW ny \in [Sinks -> Link],
         g = IF k = 0 THEN s ELSE h,
         ny[s] = IF k < Len(L) THEN L[k + 1] ELSE Null,
         k > 0 => ny[L[k]] = s,
         \A t \in Sinks : t # s /\ (k > 0 => t # L[k]) => ny[t] = nx[t]
  PROVE  Chain(Ins(L, k, s), g, ny)
  <1> DEFINE l == Len(L)
             M == Ins(L, k, s)
  <1>1. /\ L \in Seq(Sinks) /\ l \in Nat /\ k \in 0 .. l /\ \A i \in 1 .. l : L[i] \in Sinks
        /\ \A i, j \in 1 .. l : L[i] = L[j] => i = j
        /\ h = IF l = 0 THEN Null ELSE L[1]
        /\ \A i \in 1 .. l : nx[L[i]] = IF i = l THEN Null ELSE L[i + 1]
        /\ \A t \in Sinks \ Elements(L) : nx[t] = Null
        /\ \A i \in 1 .. l : L[i] # s
    BY DEF Chain, Elements
  <1>2. /\ M \in Seq(Sinks) /\ Len(M) = l + 1
        /\ M[k + 1] = s
        /\ \A i \in 1 .. k : M[i] = L[i]
        /\ \A i \in k + 1 .. l : M[i + 1] = L[i]
        /\ Elements(M) = Elements(L) \cup {s}
    <2>1. L \in Seq(Sinks) /\ s \in Sinks /\ k \in 0 .. Len(L)
      BY <1>1
    <2>2. Inserted(L, k, s, M)
      BY <2>1, InsFacts
    <2>. QED  BY <2>2 DEF Inserted
  <1>3. /\ ny[s] = IF k < l THEN L[k + 1] ELSE Null
        /\ k > 0 => ny[L[k]] = s
        /\ \A t \in Sinks : t # s /\ (k > 0 => t # L[k]) => ny[t] = nx[t]
    OBVIOUS
  <1> HIDE DEF l, M
  <1>4. ASSUME NEW i \in 1 .. l + 1
        PROVE  \/ i \in 1 .. k
               \/ i = k + 1
               \/ i - 1 \in k + 1 .. l /\ i = (i - 1) + 1
    BY <1>1
  <1>5. ASSUME NEW i \in 1 .. l + 1, NEW j \in 1 .. l + 1, M[i] = M[j] PROVE i = j
    <2>1. \A n \in 1 .. k : n \in 1 .. l
      BY <1>1
    <2>2. \A n \in k + 1 .. l : n \in 1 .. l
      BY <1>1
    <2>3. CASE i = k + 1
      <3>1. M[i] = s
        BY <1>2, <2>3
      <3>2. CASE j \in 1 .. k
        BY <1>1, <1>2, <1>5, <2>1, <3>1, <3>2
      <3>3. CASE j - 1 \in k + 1 .. l /\ j = (j - 1) + 1
        <4>1. M[j] = L[j - 1] /\ j - 1 \in 1 .. l
          BY <1>2, <2>2, <3>3
        <4>. QED  BY <1>1, <1>5, <3>1, <4>1
      <3>. QED  BY <1>4, <2>3, <3>2, <3>3
    <2>4. CASE i \in 1 .. k
      <3>1. M[i] = L[i] /\ i \in 1 .. l
        BY <1>2, <2>1, <2>4
      <3>2. CASE j \in 1 .. k
        <4>1. M[j] = L[j] /\ j \in 1 .. l
          BY <1>2, <2>1, <3>2
        <4>2. L[i] = L[j]
          BY <1>5, <3>1, <4>1
        <4>. QED  BY <1>1, <3>1, <4>1, <4>2
      <3>3. CASE j = k + 1
        <4>1. M[j] = s
          BY <1>2, <3>3
        <4>2. L[i] # s
          BY <1>1, <3>1
        <4>. QED  BY <1>5, <3>1, <4>1, <4>2
      <3>4. CASE j - 1 \in k + 1 .. l /\ j = (j - 1) + 1
        <4>1. M[j] = L[j - 1] /\ j - 1 \in 1 .. l
          BY <1>2, <2>2, <3>4
        <4>2. i = j - 1
          BY <1>1, <1>5, <3>1, <4>1
        <4>. QED  BY <1>1, <2>4, <3>4, <4>2
      <3>. QED  BY <1>4, <3>2, <3>3, <3>4
    <2>5. CASE i - 1 \in k + 1 .. l /\ i = (i - 1) + 1
      <3>1. M[i] = L[i - 1] /\ i - 1 \in 1 .. l
        BY <1>2, <2>2, <2>5
      <3>2. CASE j \in 1 .. k
        <4>1. M[j] = L[j] /\ j \in 1 .. l
          BY <1>2, <2>1, <3>2
        <4>2. i - 1 = j
          BY <1>1, <1>5, <3>1, <4>1
        <4>. QED  BY <1>1, <2>5, <3>2, <4>2
      <3>3. CASE j = k + 1
        <4>1. M[j] = s
          BY <1>2, <3>3
        <4>2. L[i - 1] # s
          BY <1>1, <3>1
        <4>. QED  BY <1>5, <3>1, <4>1, <4>2
      <3>4. CASE j - 1 \in k + 1 .. l /\ j = (j - 1) + 1
        <4>1. M[j] = L[j - 1] /\ j - 1 \in 1 .. l
          BY <1>2, <2>2, <3>4
        <4>2. i - 1 = j - 1
          BY <1>1, <1>5, <3>1, <4>1
        <4>. QED  BY <1>1, <4>2
      <3>. QED  BY <1>4, <3>2, <3>3, <3>4
    <2>. QED  BY <1>4, <2>3, <2>4, <2>5
  <1>6. g = IF l + 1 = 0 THEN Null ELSE M[1]
    <2>1. CASE k = 0
      BY <1>1, <1>2, <2>1
    <2>2. CASE k # 0
      <3>1. 1 \in 1 .. k /\ l # 0 /\ l + 1 # 0
        BY <1>1, <2>2
      <3>. QED  BY <1>1, <1>2, <2>2, <3>1
    <2>. QED  BY <2>1, <2>2
  <1>7. ASSUME NEW i \in 1 .. l + 1
        PROVE  ny[M[i]] = IF i = l + 1 THEN Null ELSE M[i + 1]
    <2>1. CASE i \in 1 .. k
      <3>1. M[i] = L[i] /\ i \in 1 .. l /\ i # l + 1 /\ L[i] \in Sinks /\ L[i] # s /\ k > 0
        BY <1>1, <1>2, <2>1
      <3>2. CASE i = k
        <4>1. ny[L[i]] = s /\ M[i + 1] = s
          BY <1>2, <1>3, <3>1, <3>2
        <4>. QED  BY <3>1, <4>1
      <3>3. CASE i # k
        <4>1. i + 1 \in 1 .. k /\ i # l /\ k \in 1 .. l
          BY <1>1, <2>1, <3>3
        <4>2. L[i] # L[k]
          BY <1>1, <3>1, <3>3, <4>1
        <4>3. ny[L[i]] = nx[L[i]]
          BY <1>3, <3>1, <4>2
        <4>4. nx[L[i]] = L[i + 1] /\ M[i + 1] = L[i + 1]
          BY <1>1, <1>2, <3>1, <4>1
        <4>. QED  BY <3>1, <4>3, <4>4
      <3>. QED  BY <3>2, <3>3
    <2>2. CASE i = k + 1
      <3>1. M[i] = s
        BY <1>2, <2>2
      <3>2. CASE k < l
        <4>1. k + 1 \in k + 1 .. l /\ i # l + 1
          BY <1>1, <2>2, <3>2
        <4>2. M[(k + 1) + 1] = L[k + 1]
          BY <1>2, <4>1
        <4>. QED  BY <1>3, <2>2, <3>1, <3>2, <4>1, <4>2
      <3>3. CASE ~(k < l)
        <4>1. i = l + 1
          BY <1>1, <2>2, <3>3
        <4>. QED  BY <1>3, <3>1, <3>3, <4>1
      <3>. QED  BY <3>2, <3>3
    <2>3. CASE i - 1 \in k + 1 .. l /\ i = (i - 1) + 1
      <3>1. M[i] = L[i - 1] /\ i - 1 \in 1 .. l /\ L[i - 1] # s /\ L[i - 1] \in Sinks
        <4>1. i - 1 \in 1 .. l
          BY <1>1, <2>3
        <4>. QED  BY <1>1, <1>2, <2>3, <4>1
      <3>2. k > 0 => L[i - 1] # L[k]
        <4>1. k > 0 => k \in 1 .. l /\ k # i - 1
          BY <1>1, <2>3
        <4>. QED  BY <1>1, <3>1, <4>1
      <3>3. ny[M[i]] = nx[L[i - 1]]
        BY <1>3, <3>1, <3>2
      <3>4. nx[L[i - 1]] = IF i - 1 = l THEN Null ELSE L[(i - 1) + 1]
        BY <1>1, <3>1
      <3>5. CASE i = l + 1
        BY <1>1, <3>3, <3>4, <3>5
      <3>6. CASE i # l + 1
        <4>1. i \in k + 1 .. l /\ i - 1 # l
          BY <1>1, <2>3, <3>6
        <4>2. M[i + 1] = L[i]
          BY <1>2, <4>1
        <4>. QED  BY <2>3, <3>3, <3>4, <3>6, <4>1, <4>2
      <3>. QED  BY <3>5, <3>6
    <2>. QED  BY <1>4, <2>1, <2>2, <2>3
  <1>8. ASSUME NEW t \in Sinks \ Elements(M) PROVE ny[t] = Null
    <2>1. t \notin Elements(L) /\ t # s
      BY <1>2
    <2>2. k > 0 => t # L[k]
      <3>1. k > 0 => k \in 1 .. l
        BY <1>1
      <3>. QED  BY <2>1, <3>1 DEF Elements, l
    <2>. QED  BY <1>1, <1>3, <2>1, <2>2
  <1>. QED  BY <1>2, <1>5, <1>6, <1>7, <1>8 DEF Chain, M

\* M is the list L without its k-th sink.
Deleted(L, k, M) ==
  /\ M \in Seq(Sinks) /\ Len(M) = Len(L) - 1
  /\ \A i \in 1 .. k - 1 : M[i] = L[i]
  /\ \A i \in k .. Len(L) - 1 : M[i] = L[i + 1]
  /\ Elements(M) = Elements(L) \ {L[k]}

LEMMA DelFacts ==
  ASSUME NEW L \in Seq(Sinks), NEW k \in 1 .. Len(L),
         \A i, j \in 1 .. Len(L) : L[i] = L[j] => i = j
  PROVE  Deleted(L, k, Del(L, k))
  <1> DEFINE l == Len(L)
             M == Del(L, k)
  <1>1. /\ l \in Nat /\ k \in 1 .. l /\ \A i \in 1 .. l : L[i] \in Sinks
        /\ \A i, j \in 1 .. l : L[i] = L[j] => i = j
    OBVIOUS
  <1>2. M = [i \in 1 .. l - 1 |-> IF i < k THEN L[i] ELSE L[i + 1]]
    BY DEF Del
  <1> HIDE DEF l, M
  <1>3. ASSUME NEW i \in 1 .. l - 1 PROVE M[i] \in Sinks
    <2>1. i \in 1 .. l /\ i + 1 \in 1 .. l
      BY <1>1
    <2>. QED  BY <1>1, <1>2, <2>1
  <1>4. M \in [1 .. l - 1 -> Sinks] /\ l - 1 \in Nat
    BY <1>1, <1>2, <1>3
  <1>5. M \in Seq(Sinks) /\ Len(M) = l - 1
    BY <1>4, SeqDef, LenProperties
  <1>6. /\ \A i \in 1 .. k - 1 : M[i] = L[i] /\ i \in 1 .. l /\ i # k /\ i \in 1 .. l - 1
        /\ \A i \in k .. l - 1 : M[i] = L[i + 1] /\ i + 1 \in 1 .. l /\ i + 1 # k
                                 /\ i \in 1 .. l - 1
    BY <1>1, <1>2
  <1>7. Elements(M) = {M[i] : i \in 1 .. l - 1} /\ Elements(L) = {L[i] : i \in 1 .. l}
    BY <1>5 DEF Elements, l
  <1>8. ASSUME NEW i \in 1 .. l - 1 PROVE M[i] \in Elements(L) \ {L[k]}
    <2>1. i \in 1 .. k - 1 \/ i \in k .. l - 1
      BY <1>1
    <2>. QED  BY <1>1, <1>6, <1>7, <2>1
  <1>9. ASSUME NEW i \in 1 .. l, L[i] # L[k] PROVE L[i] \in Elements(M)
    <2>1. CASE i < k
      <3>1. i \in 1 .. k - 1
        BY <1>1, <2>1
      <3>. QED  BY <1>6, <1>7, <3>1
    <2>2. CASE i > k
      <3>1. i - 1 \in k .. l - 1 /\ (i - 1) + 1 = i
        BY <1>1, <2>2
      <3>2. M[i - 1] = L[i] /\ i - 1 \in 1 .. l - 1
        BY <1>6, <3>1
      <3>. QED  BY <1>7, <3>2
    <2>3. i # k
      BY <1>9
    <2>. QED  BY <1>1, <2>1, <2>2, <2>3
  <1>10. Elements(M) = Elements(L) \ {L[k]}
    BY <1>7, <1>8, <1>9
  <1>. QED  BY <1>5, <1>6, <1>10 DEF Deleted, l, M

\* The links of net_remove_packet_sink().
LEMMA ChainDel ==
  ASSUME NEW L, NEW h, NEW nx, Chain(L, h, nx),
         NEW k \in 1 .. Len(L), NEW g, NEW ny \in [Sinks -> Link],
         g = IF k = 1 THEN nx[L[1]] ELSE h,
         ny[L[k]] = Null,
         k > 1 => ny[L[k - 1]] = nx[L[k]],
         \A t \in Sinks : t # L[k] /\ (k > 1 => t # L[k - 1]) => ny[t] = nx[t]
  PROVE  Chain(Del(L, k), g, ny)
  <1> DEFINE l == Len(L)
             M == Del(L, k)
  <1>1. /\ L \in Seq(Sinks) /\ l \in Nat /\ k \in 1 .. l /\ \A i \in 1 .. l : L[i] \in Sinks
        /\ \A i, j \in 1 .. l : L[i] = L[j] => i = j
        /\ h = IF l = 0 THEN Null ELSE L[1]
        /\ \A i \in 1 .. l : nx[L[i]] = IF i = l THEN Null ELSE L[i + 1]
        /\ \A t \in Sinks \ Elements(L) : nx[t] = Null
    BY DEF Chain
  <1>2. Deleted(L, k, M)
    BY <1>1, DelFacts
  <1>3. /\ M \in Seq(Sinks) /\ Len(M) = l - 1
        /\ \A i \in 1 .. k - 1 : M[i] = L[i]
        /\ \A i \in k .. l - 1 : M[i] = L[i + 1]
        /\ Elements(M) = Elements(L) \ {L[k]}
    BY <1>2 DEF Deleted
  <1>4. /\ ny[L[k]] = Null
        /\ k > 1 => ny[L[k - 1]] = nx[L[k]]
        /\ \A t \in Sinks : t # L[k] /\ (k > 1 => t # L[k - 1]) => ny[t] = nx[t]
        /\ g = IF k = 1 THEN nx[L[1]] ELSE h
    OBVIOUS
  <1> HIDE DEF l, M
  <1>5. ASSUME NEW i \in 1 .. l - 1
        PROVE  /\ i \in 1 .. k - 1 \/ i \in k .. l - 1
               /\ i \in 1 .. l /\ i + 1 \in 1 .. l /\ (i \in k .. l - 1 => i + 1 > k)
    BY <1>1
  <1>6. ASSUME NEW i \in 1 .. l - 1, NEW j \in 1 .. l - 1, M[i] = M[j] PROVE i = j
    <2>1. (M[i] = L[i] /\ i < k) \/ (M[i] = L[i + 1] /\ i >= k)
      BY <1>1, <1>3, <1>5
    <2>2. (M[j] = L[j] /\ j < k) \/ (M[j] = L[j + 1] /\ j >= k)
      BY <1>1, <1>3, <1>5
    <2>3. /\ L[i] = L[j] => i = j
          /\ L[i + 1] = L[j + 1] => i + 1 = j + 1
          /\ L[i] = L[j + 1] => i = j + 1
          /\ L[i + 1] = L[j] => i + 1 = j
      BY <1>1, <1>5
    <2>. QED  BY <1>1, <1>6, <2>1, <2>2, <2>3
  <1>7. g = IF l - 1 = 0 THEN Null ELSE M[1]
    <2>1. CASE k = 1
      <3>1. nx[L[1]] = IF 1 = l THEN Null ELSE L[1 + 1]
        BY <1>1, <2>1
      <3>2. l # 1 => 1 \in k .. l - 1
        BY <1>1, <2>1
      <3>3. l # 1 => M[1] = L[1 + 1]
        BY <1>3, <3>2
      <3>. QED  BY <1>1, <1>4, <2>1, <3>1, <3>3
    <2>2. CASE k # 1
      <3>1. 1 \in 1 .. k - 1 /\ l - 1 # 0 /\ l # 0
        BY <1>1, <2>2
      <3>. QED  BY <1>1, <1>3, <1>4, <2>2, <3>1
    <2>. QED  BY <2>1, <2>2
  <1>8. ASSUME NEW i \in 1 .. l - 1
        PROVE  ny[M[i]] = IF i = l - 1 THEN Null ELSE M[i + 1]
    <2>1. CASE i \in 1 .. k - 1 /\ i # k - 1
      <3>1. M[i] = L[i] /\ M[i + 1] = L[i + 1] /\ i # l - 1 /\ i # l
        <4>1. i + 1 \in 1 .. k - 1 /\ i # l - 1 /\ i # l
          BY <1>1, <2>1
        <4>. QED  BY <1>3, <2>1, <4>1
      <3>2. L[i] # L[k] /\ L[i] \in Sinks /\ (k > 1 => L[i] # L[k - 1])
        <4>1. k - 1 \in 1 .. l /\ i # k
          BY <1>1, <2>1
        <4>. QED  BY <1>1, <1>5, <2>1, <4>1
      <3>3. ny[L[i]] = nx[L[i]] /\ nx[L[i]] = L[i + 1]
        BY <1>1, <1>4, <1>5, <3>1, <3>2
      <3>. QED  BY <3>1, <3>3
    <2>2. CASE i = k - 1
      <3>1. M[i] = L[k - 1] /\ k > 1
        <4>1. k - 1 \in 1 .. k - 1 /\ k > 1
          BY <1>1, <2>2
        <4>. QED  BY <1>3, <2>2, <4>1
      <3>2. ny[M[i]] = IF k = l THEN Null ELSE L[k + 1]
        BY <1>1, <1>4, <3>1
      <3>3. k # l => M[k] = L[k + 1]
        <4>1. k # l => k \in k .. l - 1
          BY <1>1
        <4>. QED  BY <1>3, <4>1
      <3>4. (i = l - 1 <=> k = l) /\ i + 1 = k
        BY <1>1, <2>2
      <3>. QED  BY <3>2, <3>3, <3>4
    <2>3. CASE i \in k .. l - 1
      <3>1. M[i] = L[i + 1] /\ L[i + 1] # L[k] /\ L[i + 1] \in Sinks
        <4>1. i + 1 # k
          BY <1>1, <2>3
        <4>. QED  BY <1>1, <1>3, <1>5, <2>3, <4>1
      <3>2. k > 1 => L[i + 1] # L[k - 1]
        <4>1. k > 1 => k - 1 \in 1 .. l /\ k - 1 # i + 1
          BY <1>1, <2>3
        <4>. QED  BY <1>1, <1>5, <4>1
      <3>3. ny[L[i + 1]] = nx[L[i + 1]]
        BY <1>4, <3>1, <3>2
      <3>4. nx[L[i + 1]] = IF i + 1 = l THEN Null ELSE L[(i + 1) + 1]
        BY <1>1, <1>5
      <3>5. i # l - 1 => M[i + 1] = L[(i + 1) + 1]
        <4>1. i # l - 1 => i + 1 \in k .. l - 1
          BY <1>1, <2>3
        <4>. QED  BY <1>3, <4>1
      <3>6. i + 1 = l <=> i = l - 1
        BY <1>1
      <3>. QED  BY <3>1, <3>3, <3>4, <3>5, <3>6
    <2>. QED  BY <1>5, <2>1, <2>2, <2>3
  <1>9. ASSUME NEW t \in Sinks \ Elements(M) PROVE ny[t] = Null
    <2>1. CASE t = L[k]
      BY <1>4, <2>1
    <2>2. CASE t # L[k]
      <3>1. t \notin Elements(L)
        BY <1>3, <2>2
      <3>2. k > 1 => t # L[k - 1]
        <4>1. k > 1 => k - 1 \in 1 .. l
          BY <1>1
        <4>. QED  BY <3>1, <4>1 DEF Elements, l
      <3>. QED  BY <1>1, <1>4, <2>2, <3>1, <3>2
    <2>. QED  BY <2>1, <2>2
  <1>10. \A i, j \in 1 .. Len(M) : M[i] = M[j] => i = j
    BY <1>3, <1>6
  <1>11. g = IF Len(M) = 0 THEN Null ELSE M[1]
    BY <1>3, <1>7
  <1>12. \A i \in 1 .. Len(M) : ny[M[i]] = IF i = Len(M) THEN Null ELSE M[i + 1]
    BY <1>3, <1>8
  <1> HIDE DEF M
  <1>. QED  BY <1>3, <1>9, <1>10, <1>11, <1>12 DEF Chain, M
-----------------------------------------------------------------------------
(***************************************************************************)
(* net_add_packet_sink() and net_remove_packet_sink().                     *)
(***************************************************************************)
\* The list goes from the sinks that match more fields to those that match fewer.
Sorted(L, ms) ==
  \A i, j \in 1 .. Len(L) : i <= j => Score(ms[L[i]]) >= Score(ms[L[j]])

LEMMA BeforeChain ==
  ASSUME NEW L, NEW h, NEW nx, Chain(L, h, nx), NEW i \in 2 .. Len(L)
  PROVE  h # L[i] /\ Before(h, nx, L[i]) = L[i - 1]
  <1> DEFINE l == Len(L)
             r == L[i - 1]
             s == L[i]
  <1>1. /\ l \in Nat /\ i \in 2 .. l /\ \A j \in 1 .. l : L[j] \in Sinks
        /\ \A j, n \in 1 .. l : L[j] = L[n] => j = n
        /\ h = IF l = 0 THEN Null ELSE L[1]
        /\ \A j \in 1 .. l : nx[L[j]] = IF j = l THEN Null ELSE L[j + 1]
        /\ Listed(h, nx) = {L[j] : j \in 1 .. l}
    <2>1. Listed(h, nx) = {L[j] : j \in 1 .. l}
      BY ListedChain DEF Elements
    <2> HIDE DEF r, s
    <2>. QED  BY <2>1 DEF Chain
  <1> HIDE DEF l, r, s
  <1>2. i \in 1 .. l /\ i - 1 \in 1 .. l /\ 1 \in 1 .. l /\ i # 1 /\ l # 0 /\ i - 1 # l
        /\ (i - 1) + 1 = i
    <2>1. l \in Int /\ i \in Int /\ 2 <= i /\ i <= l
      BY <1>1
    <2>. QED  BY <2>1
  <1>3. h # L[i]
    BY <1>1, <1>2
  <1>6. Null \notin Sinks
    BY NetStackAssumption
  <1>4. nx[r] = s /\ r \in Listed(h, nx) /\ s # Null
    BY <1>1, <1>2, <1>6 DEF r, s
  <1>5. ASSUME NEW q \in Listed(h, nx), nx[q] = s PROVE q = r
    <2>1. PICK j \in 1 .. l : q = L[j]
      BY <1>1
    <2>2. j # l /\ L[j + 1] = L[i]
      BY <1>1, <1>4, <1>5, <2>1 DEF s
    <2>3. j + 1 \in 1 .. l
      BY <1>1, <2>1, <2>2
    <2>4. j + 1 = i
      BY <1>1, <1>2, <2>2, <2>3
    <2>5. j = i - 1
      BY <1>1, <2>4
    <2>. QED  BY <2>1, <2>5 DEF r
  <1>7. (CHOOSE q \in Listed(h, nx) : nx[q] = s) = r
    BY <1>4, <1>5
  <1>. QED  BY <1>3, <1>7 DEF Before, r, s

LEMMA RemovedChain ==
  ASSUME NEW L, NEW h, NEW nx, Chain(L, h, nx), NEW k \in 1 .. Len(L)
  PROVE  Chain(Del(L, k), Removed(h, nx, L[k])[1], Removed(h, nx, L[k])[2])
  <1> DEFINE l == Len(L)
             s == L[k]
  <1>1. /\ l \in Nat /\ k \in 1 .. l /\ \A j \in 1 .. l : L[j] \in Sinks
        /\ \A j, n \in 1 .. l : L[j] = L[n] => j = n
        /\ h = IF l = 0 THEN Null ELSE L[1]
        /\ nx \in [Sinks -> Link]
        /\ Listed(h, nx) = {L[j] : j \in 1 .. l}
    <2>1. Listed(h, nx) = {L[j] : j \in 1 .. l}
      BY ListedChain DEF Elements
    <2> HIDE DEF s
    <2>. QED  BY <2>1 DEF Chain
  <1>2. s \in Listed(h, nx) /\ s \in Sinks /\ nx[s] \in Link /\ Null \in Link
    BY <1>1 DEF Link
  <1>3. CASE k = 1
    <2>1. h = s
      BY <1>1, <1>3
    <2> DEFINE ny == [nx EXCEPT ![s] = Null]
    <2>2. Removed(h, nx, s) = <<nx[s], ny>>
      BY <1>2, <2>1 DEF Removed
    <2>3. ny \in [Sinks -> Link] /\ ny[s] = Null /\ \A t \in Sinks : t # s => ny[t] = nx[t]
      BY <1>1, <1>2
    <2> HIDE DEF ny
    <2>4. Chain(Del(L, k), nx[s], ny)
      <3> HIDE DEF l
      <3>1. ~(k > 1) /\ nx[s] = IF k = 1 THEN nx[L[1]] ELSE h
        BY <1>3
      <3>. QED  BY <2>3, <3>1, ChainDel
    <2>. QED  BY <2>2, <2>4
  <1>4. CASE k # 1
    <2>1. k \in 2 .. Len(L)
      BY <1>1, <1>4
    <2> DEFINE r == L[k - 1]
               ny == [nx EXCEPT ![r] = nx[s], ![s] = Null]
    <2>2. h # s /\ Before(h, nx, s) = r
      BY <2>1, BeforeChain
    <2>3. Removed(h, nx, s) = <<h, ny>>
      BY <1>2, <2>2 DEF Removed
    <2>4. r \in Sinks /\ r # s
      <3>1. k - 1 \in 1 .. l /\ k - 1 # k
        BY <1>1, <2>1
      <3>. QED  BY <1>1, <3>1
    <2>5. /\ ny \in [Sinks -> Link] /\ ny[s] = Null /\ ny[r] = nx[s]
          /\ \A t \in Sinks : t # s /\ t # r => ny[t] = nx[t]
      <3> HIDE DEF r, s
      <3>. QED  BY <1>1, <1>2, <2>4
    <2> HIDE DEF ny
    <2>6. Chain(Del(L, k), h, ny)
      <3>1. k > 1 /\ h = IF k = 1 THEN nx[L[1]] ELSE h
        BY <2>1
      <3>. QED  BY <2>5, <3>1, ChainDel
    <2>. QED  BY <2>3, <2>6
  <1>. QED  BY <1>3, <1>4

LEMMA AddedChain ==
  ASSUME NEW L, NEW h, NEW nx, Chain(L, h, nx), NEW s \in Sinks \ Elements(L), NEW m, NEW ms,
         Score(m) \in Nat, \A r \in Sinks : Score(ms[r]) \in Nat, Sorted(L, ms)
  PROVE  \E k \in 0 .. Len(L) :
           /\ Chain(Ins(L, k, s), Added(h, nx, s, m, ms)[1], Added(h, nx, s, m, ms)[2])
           /\ \A i \in 1 .. k : Score(ms[L[i]]) > Score(m)
           /\ \A i \in k + 1 .. Len(L) : Score(ms[L[i]]) <= Score(m)
  <1> DEFINE l == Len(L)
             place == {n \in 0 .. l - 1 : Score(ms[L[n + 1]]) <= Score(m)}
             last == CHOOSE r \in Elements(L) : nx[r] = Null
             a == Added(h, nx, s, m, ms)
             Found(k) == /\ Chain(Ins(L, k, s), a[1], a[2])
                         /\ \A i \in 1 .. k : Score(ms[L[i]]) > Score(m)
                         /\ \A i \in k + 1 .. l : Score(ms[L[i]]) <= Score(m)
  <1>1. /\ l \in Nat /\ \A j \in 1 .. l : L[j] \in Sinks /\ L[j] \in Elements(L)
        /\ \A j, n \in 1 .. l : L[j] = L[n] => j = n
        /\ h = IF l = 0 THEN Null ELSE L[1]
        /\ \A j \in 1 .. l : nx[L[j]] = IF j = l THEN Null ELSE L[j + 1]
        /\ nx \in [Sinks -> Link]
        /\ nx[s] = Null /\ s \in Sinks /\ s \notin Elements(L)
    BY DEF Chain, Elements
  <1>2. /\ Listed(h, nx) = Elements(L) /\ Cardinality(Elements(L)) = l
        /\ \A n \in 0 .. l - 1 : Nth(h, nx)[n] = L[n + 1]
    <2>1. Listed(h, nx) = Elements(L) /\ Cardinality(Elements(L)) = l /\ l <= Cardinality(Sinks)
          /\ Cardinality(Sinks) \in Nat
      BY ListedChain, ChainLength, SinksFinite
    <2>2. \A n \in 0 .. Cardinality(Sinks) : Nth(h, nx)[n] = IF n < l THEN L[n + 1] ELSE Null
      BY NthChain
    <2> HIDE DEF l
    <2>3. \A n \in 0 .. l - 1 : n \in 0 .. Cardinality(Sinks) /\ n < l
      BY <1>1, <2>1
    <2>. QED  BY <2>1, <2>2, <2>3
  <1>3. place = {n \in 0 .. Cardinality(Listed(h, nx)) - 1 :
                   Score(ms[Nth(h, nx)[n]]) <= Score(m)}
    <2> HIDE DEF l
    <2>. QED  BY <1>2
  <1>4. a = IF Elements(L) = {} THEN <<s, nx>>
            ELSE IF place = {} THEN <<h, [nx EXCEPT ![last] = s]>>
            ELSE IF Nth(h, nx)[Min(place)] = h THEN <<s, [nx EXCEPT ![s] = h]>>
            ELSE <<h, [nx EXCEPT ![s] = Nth(h, nx)[Min(place)],
                                 ![Before(h, nx, Nth(h, nx)[Min(place)])] = s]>>
    <2> DEFINE listed == Listed(h, nx)
               places == {n \in 0 .. Cardinality(listed) - 1 :
                            Score(ms[Nth(h, nx)[n]]) <= Score(m)}
               end == CHOOSE r \in listed : nx[r] = Null
               entry == Nth(h, nx)[Min(places)]
    <2>1. a = IF nx[s] # Null THEN <<h, nx>>
              ELSE IF listed = {} THEN <<s, nx>>
              ELSE IF places = {} THEN <<h, [nx EXCEPT ![end] = s]>>
              ELSE IF entry = h THEN <<s, [nx EXCEPT ![s] = h]>>
              ELSE <<h, [nx EXCEPT ![s] = entry, ![Before(h, nx, entry)] = s]>>
      BY DEF Added
    <2>2. listed = Elements(L) /\ places = place /\ end = last
      BY <1>2, <1>3
    <2>3. entry = Nth(h, nx)[Min(place)]
      <3> HIDE DEF place, places
      <3>. QED  BY <2>2
    <2> HIDE DEF listed, places, end, entry, a, place, last
    <2>. QED  BY <1>1, <2>1, <2>2, <2>3
  <1> HIDE DEF a
  <1>5. CASE l = 0
    <2>1. a = <<s, nx>>
      BY <1>4, <1>5 DEF Elements
    <2>2. Chain(Ins(L, 0, s), s, nx)
      <3>1. 0 \in 0 .. Len(L) /\ ~(0 < Len(L)) /\ ~(0 > 0) /\ s = IF 0 = 0 THEN s ELSE h
        BY <1>1, <1>5
      <3>. QED  BY <1>1, <3>1, ChainIns
    <2>3. Found(0)
      BY <1>5, <2>1, <2>2
    <2>. QED  BY <1>1, <2>3 DEF a
  <1>6. CASE l # 0 /\ place = {}
    <2>1. last = L[l]
      <3>1. l \in 1 .. l /\ L[l] \in Elements(L) /\ nx[L[l]] = Null
        BY <1>1, <1>6
      <3>2. ASSUME NEW r \in Elements(L), nx[r] = Null PROVE r = L[l]
        <4>1. PICK j \in 1 .. l : r = L[j]
          BY DEF Elements
        <4> HIDE DEF l
        <4>2. j + 1 \in 1 .. l => L[j + 1] # Null
          BY <1>1, NetStackAssumption
        <4>3. j # l => j + 1 \in 1 .. l
          BY <1>1, <4>1
        <4>. QED  BY <1>1, <3>2, <4>1, <4>2, <4>3
      <3> HIDE DEF l
      <3>. QED  BY <3>1, <3>2
    <2> DEFINE ny == [nx EXCEPT ![L[l]] = s]
    <2>2. a = <<h, ny>>
      <3>1. L[l] \in Elements(L)
        BY <1>1, <1>6
      <3>. QED  BY <1>4, <1>6, <2>1, <3>1
    <2>3. /\ ny \in [Sinks -> Link] /\ L[l] \in Sinks /\ L[l] # s /\ ny[L[l]] = s /\ ny[s] = Null
          /\ \A t \in Sinks : t # L[l] => ny[t] = nx[t]
      BY <1>1, <1>6 DEF Link
    <2> HIDE DEF ny
    <2>4. Chain(Ins(L, l, s), h, ny)
      <3>1. l \in 0 .. Len(L) /\ ~(l < Len(L)) /\ l > 0 /\ h = IF l = 0 THEN s ELSE h
        BY <1>1, <1>6
      <3>. QED  BY <1>1, <2>3, <3>1, ChainIns, SMTT(60)
    <2>5. \A i \in 1 .. l : Score(ms[L[i]]) > Score(m)
      <3> HIDE DEF l
      <3>1. SUFFICES ASSUME NEW i \in 1 .. l PROVE Score(ms[L[i]]) > Score(m)
        OBVIOUS
      <3>2. i - 1 \in 0 .. l - 1 /\ (i - 1) + 1 = i
        BY <1>1
      <3>3. ~(Score(ms[L[i]]) <= Score(m))
        BY <1>6, <3>2
      <3>4. Score(ms[L[i]]) \in Nat
        BY <1>1
      <3>. QED  BY <3>3, <3>4
    <2>6. Found(l)
      BY <1>1, <2>2, <2>4, <2>5
    <2>. QED  BY <1>1, <2>6 DEF a
  <1>7. CASE l # 0 /\ place # {}
    <2>1. PICK k \in place : \A n \in place : k <= n
      <3>1. place \subseteq Nat
        BY <1>1
      <3> HIDE DEF place
      <3>. QED  BY <1>7, <3>1, SmallestExists
    <2>2. Min(place) = k /\ k \in 0 .. l - 1 /\ k \in Nat
      <3>1. \A n \in place : n \in Nat
        BY <1>1
      <3>2. k \in 0 .. l - 1
        BY <2>1
      <3> HIDE DEF place
      <3>3. ASSUME NEW x \in place, \A y \in place : x <= y PROVE x = k
        BY <2>1, <3>1, <3>3
      <3>. QED  BY <1>1, <2>1, <3>1, <3>2, <3>3 DEF Min
    <2> DEFINE entry == L[k + 1]
    <2>3. Nth(h, nx)[Min(place)] = entry /\ k + 1 \in 1 .. l /\ entry \in Sinks
      <3>1. k + 1 \in 1 .. l
        BY <1>1, <2>2
      <3> HIDE DEF place, l
      <3>. QED  BY <1>1, <1>2, <2>2, <3>1
    <2>4. Elements(L) # {}
      BY <1>1, <2>3
    <2>5. /\ \A i \in 1 .. k : Score(ms[L[i]]) > Score(m)
          /\ \A i \in k + 1 .. l : Score(ms[L[i]]) <= Score(m)
      <3>1. ASSUME NEW i \in 1 .. k PROVE Score(ms[L[i]]) > Score(m)
        <4>1. i - 1 \in 0 .. l - 1 /\ (i - 1) + 1 = i /\ ~(k <= i - 1) /\ i \in 1 .. l
          BY <1>1, <2>2
        <4>2. i - 1 \notin place
          BY <2>1, <4>1
        <4>3. ~(Score(ms[L[i]]) <= Score(m))
          BY <4>1, <4>2
        <4>4. Score(ms[L[i]]) \in Nat
          BY <1>1, <4>1
        <4>. QED  BY <4>3, <4>4
      <3>2. ASSUME NEW i \in k + 1 .. l PROVE Score(ms[L[i]]) <= Score(m)
        <4>1. Score(ms[entry]) <= Score(m) /\ Score(ms[entry]) \in Nat
          BY <2>1, <2>3
        <4>2. i \in 1 .. l /\ k + 1 <= i
          BY <1>1, <2>2
        <4>3. Score(ms[entry]) >= Score(ms[L[i]]) /\ Score(ms[L[i]]) \in Nat
          BY <1>1, <2>3, <4>2 DEF Sorted
        <4>. QED  BY <4>1, <4>3
      <3>. QED  BY <3>1, <3>2
    <2>6. CASE k = 0
      <3> DEFINE ny == [nx EXCEPT ![s] = h]
      <3>1. entry = h
        BY <1>1, <1>7, <2>6
      <3>2. a = <<s, ny>>
        <4> HIDE DEF place, entry
        <4>. QED  BY <1>4, <1>7, <2>3, <2>4, <3>1
      <3>3. /\ ny \in [Sinks -> Link] /\ ny[s] = L[k + 1]
            /\ \A t \in Sinks : t # s => ny[t] = nx[t]
        BY <1>1, <2>3, <3>1 DEF Link
      <3> HIDE DEF ny
      <3>4. Chain(Ins(L, k, s), s, ny)
        <4>1. k \in 0 .. Len(L) /\ k < Len(L) /\ ~(k > 0) /\ s = IF k = 0 THEN s ELSE h
          BY <1>1, <1>7, <2>6
        <4>. QED  BY <1>1, <3>3, <4>1, ChainIns, SMTT(60)
      <3>5. Found(k) /\ k \in 0 .. l
        <4>1. k \in 0 .. l
          BY <1>1, <2>2
        <4>. QED  BY <2>5, <3>2, <3>4, <4>1
      <3>. QED  BY <3>5 DEF a
    <2>7. CASE k # 0
      <3> DEFINE r == L[k]
                 ny == [nx EXCEPT ![s] = entry, ![r] = s]
      <3>1. k + 1 \in 2 .. Len(L) /\ (k + 1) - 1 = k /\ k \in 1 .. l
        BY <1>1, <2>2, <2>7
      <3>2. entry # h /\ Before(h, nx, entry) = r
        BY <3>1, BeforeChain
      <3>3. a = <<h, ny>>
        <4> HIDE DEF place, entry, r
        <4>. QED  BY <1>4, <1>7, <2>3, <2>4, <3>2
      <3>4. r \in Sinks /\ r # s
        BY <1>1, <3>1
      <3>5. /\ ny \in [Sinks -> Link] /\ ny[s] = entry /\ ny[r] = s
            /\ \A t \in Sinks : t # s /\ t # r => ny[t] = nx[t]
        <4> HIDE DEF place, entry, r
        <4>. QED  BY <1>1, <2>3, <3>4 DEF Link
      <3> HIDE DEF ny
      <3>6. Chain(Ins(L, k, s), h, ny)
        <4>1. k \in 0 .. Len(L) /\ k < Len(L) /\ k > 0 /\ h = IF k = 0 THEN s ELSE h
          BY <1>1, <2>2, <2>7
        <4>. QED  BY <1>1, <3>5, <4>1, ChainIns, SMTT(60)
      <3>7. Found(k) /\ k \in 0 .. l
        <4>1. k \in 0 .. l
          BY <1>1, <2>2
        <4>. QED  BY <2>5, <3>3, <3>6, <4>1
      <3>. QED  BY <3>7 DEF a
    <2>. QED  BY <2>6, <2>7
  <1>. QED  BY <1>5, <1>6, <1>7
-----------------------------------------------------------------------------
(***************************************************************************)
(* What sending does to the packets.                                       *)
(***************************************************************************)
Buffers == [card : 0 .. 2, queued : Nat, waiting : Nat, alive : Int]

\* The packets that are not on their way out.
Held(t) == t.alive - t.queued - t.waiting

\* Nothing waits for the card while it has room.
Filled(t) == t.queued > 0 => t.card = 2

\* Packets came (n > 0) or went.
Changed(t, u, n) == u \in Buffers /\ Filled(u) /\ Held(u) = Held(t) + n

LEMMA AllocFree ==
  ASSUME NEW t \in Buffers, Filled(t)
  PROVE  Changed(t, t, 0) /\ Changed(t, Alloc(t), 1) /\ Changed(t, Free(t), -1)
  <1> DEFINE c == t.card
             q == t.queued
             w == t.waiting
             a == t.alive
  <1>1. c \in 0 .. 2 /\ q \in Nat /\ w \in Nat /\ a \in Int
        /\ t = [card |-> c, queued |-> q, waiting |-> w, alive |-> a]
    BY DEF Buffers
  <1>2. Alloc(t) = [card |-> c, queued |-> q, waiting |-> w, alive |-> a + 1]
    BY <1>1 DEF Alloc
  <1>3. Free(t) = [card |-> c, queued |-> q, waiting |-> w, alive |-> a - 1]
    BY <1>1 DEF Free
  <1>4. q > 0 => c = 2
    BY DEF Filled
  <1> HIDE DEF c, q, w, a
  <1>. QED  BY <1>1, <1>2, <1>3, <1>4 DEF Changed, Buffers, Filled, Held

LEMMA ToCardSends ==
  ASSUME NEW t \in Buffers, Filled(t)
  PROVE  Changed(t, ToCard(t), -1)
  <1> DEFINE c == t.card
             q == t.queued
             w == t.waiting
             a == t.alive
  <1>1. c \in 0 .. 2 /\ q \in Nat /\ w \in Nat /\ a \in Int
        /\ t = [card |-> c, queued |-> q, waiting |-> w, alive |-> a]
    BY DEF Buffers
  <1>2. ToCard(t) = IF c < 2
                    THEN [card |-> c + 1, queued |-> q, waiting |-> w, alive |-> a - 1]
                    ELSE [card |-> c, queued |-> q + 1, waiting |-> w, alive |-> a]
    <2> DEFINE full == [card |-> c + 1, queued |-> q, waiting |-> w, alive |-> a]
    <2>1. [t EXCEPT !.card = @ + 1] = full /\ full.alive = a
      BY <1>1
    <2>2. Free(full) = [card |-> c + 1, queued |-> q, waiting |-> w, alive |-> a - 1]
      BY DEF Free
    <2>3. [t EXCEPT !.queued = @ + 1] = [card |-> c, queued |-> q + 1, waiting |-> w, alive |-> a]
      BY <1>1
    <2> HIDE DEF full
    <2>. QED  BY <2>1, <2>2, <2>3 DEF ToCard
  <1>3. q > 0 => c = 2
    BY DEF Filled
  <1> HIDE DEF c, q, w, a
  <1>4. CASE c < 2
    BY <1>1, <1>2, <1>3, <1>4 DEF Changed, Buffers, Filled, Held
  <1>5. CASE ~(c < 2)
    BY <1>1, <1>2, <1>3, <1>5 DEF Changed, Buffers, Filled, Held
  <1>. QED  BY <1>4, <1>5

LEMMA ChangedTwice ==
  ASSUME NEW t \in Buffers, NEW u, NEW v, NEW m \in Int, NEW n \in Int,
         Changed(t, u, m), Changed(u, v, n)
  PROVE  Changed(t, v, m + n)
  <1>1. Held(t) \in Int
    BY DEF Held, Buffers
  <1>. QED  BY <1>1 DEF Changed

\* Whatever becomes of a packet in net_tx(), it is held no longer.
LEMMA NetTxSends ==
  ASSUME NEW t \in Buffers, Filled(t), NEW known, NEW u \in NetTx(t, known)
  PROVE  Changed(t, u, -1)
  <1> DEFINE w == [t EXCEPT !.waiting = @ + 1]
  <1>1. Changed(t, w, -1)
    <2> DEFINE c == t.card
               q == t.queued
               n == t.waiting
               a == t.alive
    <2>1. c \in 0 .. 2 /\ q \in Nat /\ n \in Nat /\ a \in Int
          /\ w = [card |-> c, queued |-> q, waiting |-> n + 1, alive |-> a]
          /\ Held(t) = a - q - n
      BY DEF Buffers, Held
    <2>2. q > 0 => c = 2
      BY DEF Filled
    <2> HIDE DEF c, q, n, a, w
    <2>. QED  BY <2>1, <2>2 DEF Changed, Buffers, Filled, Held
  <1> HIDE DEF w
  <1>2. Changed(t, ToCard(Alloc(w)), -1)
    <2>1. w \in Buffers /\ Filled(w)
      BY <1>1 DEF Changed
    <2>2. Changed(w, Alloc(w), 1)
      BY <2>1, AllocFree
    <2>3. Changed(Alloc(w), ToCard(Alloc(w)), -1)
      BY <2>2, ToCardSends DEF Changed
    <2>4. Changed(w, ToCard(Alloc(w)), 1 + (-1))
      BY <2>1, <2>2, <2>3, ChangedTwice
    <2>5. 1 + (-1) = 0 /\ -1 + 0 = -1
      OBVIOUS
    <2>. QED  BY <1>1, <2>4, <2>5, ChangedTwice
  <1>3. Changed(t, Free(t), -1) /\ Changed(t, ToCard(t), -1)
    BY AllocFree, ToCardSends
  <1>4. u \in {Free(t), ToCard(t), w, ToCard(Alloc(w))}
    BY DEF NetTx, Results, w
  <1>. QED  BY <1>1, <1>2, <1>3, <1>4

\* A packet made to be sent changes nothing in the end.
LEMMA MadeAndSent ==
  ASSUME NEW t \in Buffers, Filled(t)
  PROVE  /\ Changed(t, ToCard(Alloc(t)), 0)
         /\ \A known : \A u \in NetTx(Alloc(t), known) : Changed(t, u, 0)
  <1>1. Changed(t, Alloc(t), 1) /\ Alloc(t) \in Buffers /\ Filled(Alloc(t))
    BY AllocFree DEF Changed
  <1>2. 1 + (-1) = 0
    OBVIOUS
  <1>3. Changed(t, ToCard(Alloc(t)), 0)
    BY <1>1, <1>2, ToCardSends, ChangedTwice
  <1>4. ASSUME NEW known, NEW u \in NetTx(Alloc(t), known) PROVE Changed(t, u, 0)
    BY <1>1, <1>2, NetTxSends, ChangedTwice
  <1>. QED  BY <1>3, <1>4

\* A packet that was received is freed when it, or another, has been sent.
LEMMA SentAndFreed ==
  ASSUME NEW t \in Buffers, NEW u, Changed(t, u, 0)
  PROVE  Changed(t, Free(u), -1)
  <1>1. u \in Buffers /\ Changed(u, Free(u), -1)
    BY AllocFree DEF Changed
  <1>2. 0 + (-1) = -1
    OBVIOUS
  <1>. QED  BY <1>1, <1>2, ChangedTwice
-----------------------------------------------------------------------------
(***************************************************************************)
(* The packets in the queues of the sinks.                                 *)
(***************************************************************************)
Queues == [Sinks -> Seq(Traffic)]

\* Received() adds up the queues one after the other.
LEMMA ReceivedSteps ==
  ASSUME NEW q \in Queues
  PROVE  \E sum \in [0 .. Len(Order) -> Nat] :
           /\ Received(q) = sum[Len(Order)]
           /\ sum[0] = Len(q["tftp"])
           /\ \A n \in 1 .. Len(Order) : sum[n] = sum[n - 1] + Len(q[Order[n]])
  <1> DEFINE N == Len(Order)
             size == [s \in Sinks |-> Len(q[s])]
             step == [n \in 1 .. N |-> [k \in Nat |-> k + size[Order[n]]]]
             Rule(g) == [n \in 0 .. N |-> IF n = 0 THEN Len(q["tftp"])
                                          ELSE g[n - 1] + Len(q[Order[n]])]
             sum == CHOOSE g : g = Rule(g)
  <1>1. /\ N \in Nat /\ "tftp" \in Sinks /\ \A n \in 1 .. N : Order[n] \in Sinks
        /\ size \in [Sinks -> Nat] /\ \A s \in Sinks : size[s] = Len(q[s])
    BY NetStackAssumption DEF Queues
  <1> HIDE DEF N, size
  <1>2. step \in [1 .. N -> [Nat -> Nat]]
    BY <1>1
  <1>3. PICK f \in [0 .. N -> Nat] :
          f[0] = size["tftp"] /\ \A n \in 1 .. N : f[n] = step[n][f[n - 1]]
    <2>1. size["tftp"] \in Nat
      BY <1>1
    <2> DEFINE S == Nat
               s == size["tftp"]
    <2>2. s \in S /\ step \in [1 .. N -> [S -> S]] /\ N \in Nat
      BY <1>1, <1>2, <2>1
    <2> HIDE DEF step, S, s
    <2>3. \E g \in [0 .. N -> S] : g[0] = s /\ \A n \in 1 .. N : g[n] = step[n][g[n - 1]]
      BY <2>2, Recursion
    <2>. QED  BY <2>3 DEF S, s
  <1>4. \A n \in 1 .. N : f[n] = f[n - 1] + size[Order[n]]
    <2>1. ASSUME NEW n \in 1 .. N PROVE f[n] = f[n - 1] + size[Order[n]]
      <3>1. f[n - 1] \in Nat
        <4>1. n - 1 \in 0 .. N
          BY <1>1
        <4>. QED  BY <1>3, <4>1
      <3>. QED  BY <1>3, <3>1
    <2>. QED  BY <2>1
  <1> HIDE DEF step
  <1>5. f = Rule(f)
    <2>1. ASSUME NEW n \in 0 .. N PROVE f[n] = Rule(f)[n]
      <3>1. CASE n = 0
        BY <1>1, <1>3, <3>1
      <3>2. CASE n # 0
        <4>1. n \in 1 .. N
          BY <1>1, <3>2
        <4>2. f[n] = f[n - 1] + Len(q[Order[n]])
          BY <1>1, <1>4, <4>1
        <4>. QED  BY <3>2, <4>2
      <3>. QED  BY <3>1, <3>2
    <2>2. Rule(f) = [n \in 0 .. N |-> Rule(f)[n]]
      OBVIOUS
    <2> HIDE DEF Rule
    <2>. QED  BY <1>3, <2>1, <2>2
  <1>6. sum = Rule(sum)
    <2> HIDE DEF Rule
    <2>. QED  BY <1>5
  <1>7. Received(q) = sum[N]
    BY DEF Received, N
  <1> HIDE DEF sum
  <1>8. sum = [n \in 0 .. N |-> sum[n]]
    BY <1>6
  <1>9. sum[0] = Len(q["tftp"])
    BY <1>1, <1>6
  <1>10. ASSUME NEW n \in 1 .. N PROVE sum[n] = sum[n - 1] + Len(q[Order[n]])
    <2>1. n \in 0 .. N /\ n # 0
      BY <1>1
    <2>2. Rule(sum)[n] = sum[n - 1] + Len(q[Order[n]])
      BY <2>1, Zenon
    <2> HIDE DEF Rule
    <2>. QED  BY <1>6, <2>2
  <1>11. sum \in [0 .. N -> Nat]
    <2> DEFINE D == {n \in Nat : n <= N => sum[n] \in Nat}
    <2>1. 0 \in D
      BY <1>1, <1>9
    <2>2. ASSUME NEW n \in Nat, n \in D PROVE n + 1 \in D
      <3>1. SUFFICES ASSUME n + 1 <= N PROVE sum[n + 1] \in Nat
        OBVIOUS
      <3>2. n + 1 \in 1 .. N /\ (n + 1) - 1 = n /\ sum[n] \in Nat
        BY <1>1, <2>2, <3>1
      <3>3. Order[n + 1] \in Sinks /\ size[Order[n + 1]] \in Nat
        BY <1>1, <3>2
      <3>4. sum[n + 1] = sum[n] + size[Order[n + 1]]
        BY <1>1, <1>10, <3>2, <3>3
      <3>. QED  BY <3>2, <3>3, <3>4
    <2> HIDE DEF D
    <2>3. Nat \subseteq D
      BY <2>1, <2>2, Induction
    <2>4. \A n \in 0 .. N : sum[n] \in Nat
      BY <1>1, <2>3 DEF D
    <2>. QED  BY <1>8, <2>4
  <1>. QED  BY <1>7, <1>9, <1>10, <1>11 DEF N

LEMMA ReceivedNat ==
  ASSUME NEW q \in Queues
  PROVE  Received(q) \in Nat
  <1> DEFINE N == Len(Order)
  <1>1. N \in Nat
    BY NetStackAssumption
  <1> HIDE DEF N
  <1>2. PICK sum \in [0 .. N -> Nat] : Received(q) = sum[N]
    BY ReceivedSteps DEF N
  <1>. QED  BY <1>1, <1>2

\* Only the queue that changes counts.
LEMMA ReceivedChanges ==
  ASSUME NEW q \in Queues, NEW s \in Sinks, NEW x \in Seq(Traffic)
  PROVE  /\ Received(q) \in Nat
         /\ [q EXCEPT ![s] = x] \in Queues
         /\ Received([q EXCEPT ![s] = x]) = Received(q) + (Len(x) - Len(q[s]))
  <1> DEFINE N == Len(Order)
             r == [q EXCEPT ![s] = x]
             sizes == [t \in Sinks |-> Len(q[t])]
             more == Len(x) - Len(q[s])
             Seen(n) == s = "tftp" \/ \E i \in 1 .. n : Order[i] = s
  <1>1. /\ N \in Nat /\ "tftp" \in Sinks /\ \A n \in 1 .. N : Order[n] \in Sinks \ {"tftp"}
        /\ \A i, j \in 1 .. N : Order[i] = Order[j] => i = j
        /\ s # "tftp" => \E i \in 1 .. N : Order[i] = s
    BY NetStackAssumption
  <1>2. /\ r \in Queues
        /\ sizes \in [Sinks -> Nat] /\ more \in Int
        /\ \A t \in Sinks : Len(q[t]) = sizes[t]
        /\ \A t \in Sinks : Len(r[t]) = sizes[t] + (IF t = s THEN more ELSE 0)
    <2>1. r \in Queues
      BY DEF Queues
    <2>2. \A t \in Sinks : Len(q[t]) \in Nat
      BY DEF Queues
    <2>3. Len(x) \in Nat
      OBVIOUS
    <2>4. \A t \in Sinks : r[t] = IF t = s THEN x ELSE q[t]
      BY DEF Queues
    <2> HIDE DEF r
    <2>5. \A t \in Sinks : Len(r[t]) = IF t = s THEN Len(x) ELSE Len(q[t])
      BY <2>4
    <2>6. sizes \in [Sinks -> Nat] /\ more \in Int /\ \A t \in Sinks : Len(q[t]) = sizes[t]
      BY <2>2, <2>3
    <2>7. Len(x) = sizes[s] + more
      BY <2>2, <2>3
    <2> HIDE DEF sizes, more
    <2>. QED  BY <2>1, <2>5, <2>6, <2>7
  <1> HIDE DEF N, r, sizes, more
  <1>3. PICK a \in [0 .. N -> Nat] :
          /\ Received(q) = a[N]
          /\ a[0] = Len(q["tftp"])
          /\ \A n \in 1 .. N : a[n] = a[n - 1] + Len(q[Order[n]])
    BY ReceivedSteps DEF N
  <1>4. PICK b \in [0 .. N -> Nat] :
          /\ Received(r) = b[N]
          /\ b[0] = Len(r["tftp"])
          /\ \A n \in 1 .. N : b[n] = b[n - 1] + Len(r[Order[n]])
    BY <1>2, ReceivedSteps DEF N
  <1> DEFINE D == {n \in Nat : n <= N => b[n] = a[n] + (IF Seen(n) THEN more ELSE 0)}
  <1>5. 0 \in D
    <2>1. Seen(0) <=> s = "tftp"
      OBVIOUS
    <2>2. b[0] = a[0] + (IF s = "tftp" THEN more ELSE 0)
      <3>1. /\ a[0] = sizes["tftp"] /\ sizes["tftp"] \in Nat
            /\ b[0] = sizes["tftp"] + (IF s = "tftp" THEN more ELSE 0)
        <4>1. a[0] = Len(q["tftp"]) /\ b[0] = Len(r["tftp"])
          BY <1>3, <1>4
        <4>. QED  BY <1>1, <1>2, <4>1
      <3>. QED  BY <3>1
    <2> HIDE DEF Seen
    <2>. QED  BY <2>1, <2>2
  <1>6. ASSUME NEW n \in Nat, n \in D PROVE n + 1 \in D
    <2>1. SUFFICES ASSUME n + 1 <= N
                   PROVE  b[n + 1] = a[n + 1] + (IF Seen(n + 1) THEN more ELSE 0)
      OBVIOUS
    <2> DEFINE t == Order[n + 1]
    <2>2. /\ n + 1 \in 1 .. N /\ (n + 1) - 1 = n /\ n \in 0 .. N /\ n + 1 \in 0 .. N
          /\ \A i \in 1 .. n + 1 : i # n + 1 => i \in 1 .. n
          /\ \A i \in 1 .. n : i \in 1 .. n + 1
          /\ n + 1 \in 1 .. n + 1
          /\ \A i \in 1 .. n : i \in 1 .. N /\ i # n + 1
      <3>1. N \in Nat /\ n \in Nat /\ n + 1 <= N
        BY <1>1, <2>1
      <3>. QED  BY <3>1
    <2>3. /\ a[n] \in Nat /\ b[n] \in Nat /\ a[n + 1] \in Nat /\ b[n + 1] \in Nat
          /\ t \in Sinks /\ t # "tftp" /\ sizes[t] \in Nat
      BY <1>1, <1>2, <1>3, <1>4, <2>2
    <2>4. a[n + 1] = a[n] + sizes[t] /\ b[n + 1] = b[n] + (sizes[t] + (IF t = s THEN more ELSE 0))
      BY <1>2, <1>3, <1>4, <2>2, <2>3
    <2>5. Seen(n + 1) <=> (Seen(n) \/ t = s)
      BY <2>2
    <2>6. ~(Seen(n) /\ t = s)
      BY <1>1, <2>2, <2>3
    <2>7. b[n] = a[n] + (IF Seen(n) THEN more ELSE 0)
      BY <1>6, <2>2
    <2> HIDE DEF Seen, t
    <2>8. CASE Seen(n)
      BY <1>2, <2>3, <2>4, <2>5, <2>6, <2>7, <2>8
    <2>9. CASE ~Seen(n)
      BY <1>2, <2>3, <2>4, <2>5, <2>7, <2>9
    <2>. QED  BY <2>8, <2>9
  <1>7. Nat \subseteq D
    <2> HIDE DEF D
    <2>. QED  BY <1>5, <1>6, Induction
  <1>8. N \in D /\ Seen(N)
    BY <1>1, <1>7
  <1>9. b[N] = a[N] + more
    BY <1>1, <1>8
  <1>10. a[N] \in Nat
    BY <1>1, <1>3
  <1>. QED  BY <1>2, <1>3, <1>4, <1>9, <1>10 DEF r, more

LEMMA NoneReceived == [s \in Sinks |-> <<>>] \in Queues /\ Received([s \in Sinks |-> <<>>]) = 0
  <1> DEFINE N == Len(Order)
             q == [s \in Sinks |-> <<>>]
  <1>1. N \in Nat /\ "tftp" \in Sinks /\ \A n \in 1 .. N : Order[n] \in Sinks
    BY NetStackAssumption
  <1>2. q \in Queues /\ \A s \in Sinks : Len(q[s]) = 0
    BY DEF Queues
  <1> HIDE DEF N, q
  <1>3. PICK a \in [0 .. N -> Nat] :
          /\ Received(q) = a[N]
          /\ a[0] = Len(q["tftp"])
          /\ \A n \in 1 .. N : a[n] = a[n - 1] + Len(q[Order[n]])
    BY <1>2, ReceivedSteps DEF N
  <1> DEFINE D == {n \in Nat : n <= N => a[n] = 0}
  <1>4. 0 \in D
    BY <1>1, <1>2, <1>3
  <1>5. ASSUME NEW n \in Nat, n \in D PROVE n + 1 \in D
    <2>1. SUFFICES ASSUME n + 1 <= N PROVE a[n + 1] = 0
      OBVIOUS
    <2>2. n + 1 \in 1 .. N /\ (n + 1) - 1 = n /\ a[n] = 0
      BY <1>1, <1>5, <2>1
    <2>3. Len(q[Order[n + 1]]) = 0
      BY <1>1, <1>2, <2>2
    <2>4. a[n + 1] = a[n] + Len(q[Order[n + 1]])
      BY <1>3, <2>2
    <2>. QED  BY <2>2, <2>3, <2>4
  <1>6. Nat \subseteq D
    <2> HIDE DEF D
    <2>. QED  BY <1>4, <1>5, Induction
  <1>7. N \in D
    <2> HIDE DEF D
    <2>. QED  BY <1>1, <1>6
  <1>8. a[N] = 0
    BY <1>1, <1>7
  <1>9. Received(q) = 0
    BY <1>3, <1>8
  <1>. QED  BY <1>2, <1>9 DEF q
-----------------------------------------------------------------------------
(***************************************************************************)
(* Every packet allocated is somewhere.                                    *)
(***************************************************************************)
Account ==
  /\ queue \in Queues /\ kept \in Nat
  /\ pc \in {"idle", "card", "walk"}
  /\ tx \in Buffers /\ (pc # "card" => Filled(tx))
  /\ Held(tx) = kept + Received(queue)

\* The sink's callback was called with the first packet of its queue.
LEMMA PoppedReceived ==
  ASSUME NEW s \in Sinks, queue \in Queues, queue[s] # <<>>, Popped(s)
  PROVE  queue' \in Queues /\ Received(queue') = Received(queue) - 1
  <1> DEFINE x == Tail(queue[s])
             n == Len(x) - Len(queue[s])
  <1>1. queue[s] \in Seq(Traffic)
    BY DEF Queues
  <1>2. x \in Seq(Traffic) /\ Len(x) = Len(queue[s]) - 1
    BY <1>1, HeadTailProperties
  <1>3. Len(queue[s]) \in Nat
    BY <1>1
  <1>4. n = -1
    BY <1>2, <1>3
  <1>5. queue' = [queue EXCEPT ![s] = x]
    BY DEF Popped
  <1> HIDE DEF x
  <1>6. Received(queue) \in Nat /\ queue' \in Queues /\ Received(queue') = Received(queue) + n
    BY <1>2, <1>5, ReceivedChanges
  <1> HIDE DEF n
  <1>. QED  BY <1>4, <1>6

LEMMA PushedReceived ==
  ASSUME NEW s \in Sinks, NEW p \in Traffic, queue \in Queues,
         queue' = [queue EXCEPT ![s] = Append(@, p)]
  PROVE  queue' \in Queues /\ Received(queue') = Received(queue) + 1
  <1> DEFINE x == Append(queue[s], p)
             n == Len(x) - Len(queue[s])
  <1>1. queue[s] \in Seq(Traffic)
    BY DEF Queues
  <1>2. x \in Seq(Traffic) /\ Len(x) = Len(queue[s]) + 1
    BY <1>1, AppendProperties
  <1>3. Len(queue[s]) \in Nat
    BY <1>1
  <1>4. n = 1
    BY <1>2, <1>3
  <1>5. queue' = [queue EXCEPT ![s] = x]
    OBVIOUS
  <1> HIDE DEF x
  <1>6. Received(queue) \in Nat /\ queue' \in Queues /\ Received(queue') = Received(queue) + n
    BY <1>2, <1>5, ReceivedChanges, ZenonT(60)
  <1> HIDE DEF n
  <1>. QED  BY <1>4, <1>6

\* What net_eth_push() finds is a sink.
LEMMA TakerSink ==
  ASSUME NEW p, head \in Link, next \in [Sinks -> Link], Taker(p) # Null
  PROVE  \E n \in 0 .. Cardinality(Sinks) - 1 :
           /\ Taker(p) = Nth(head, next)[n] /\ Taker(p) \in Sinks
           /\ Matches(Taker(p), p)
           /\ \A k \in 0 .. n - 1 :
                Nth(head, next)[k] = Null \/ ~Matches(Nth(head, next)[k], p)
  <1> DEFINE N == Cardinality(Sinks)
             nth == Nth(head, next)
             takers == {n \in 0 .. N - 1 : nth[n] # Null /\ Matches(nth[n], p)}
  <1>1. N \in Nat
    BY SinksFinite
  <1>2. nth[0] = head
        /\ \A n \in 1 .. N : nth[n] = IF nth[n - 1] = Null THEN Null ELSE next[nth[n - 1]]
    BY NthSteps
  <1>3. takers # {} /\ Taker(p) = nth[Min(takers)]
    <2> HIDE DEF nth
    <2>. QED  BY DEF Taker, nth
  <1> HIDE DEF N, nth
  <1>4. \A n \in 0 .. N : nth[n] \in Link
    <2> DEFINE D == {n \in Nat : n <= N => nth[n] \in Link}
    <2>1. 0 \in D
      BY <1>2
    <2>2. ASSUME NEW n \in Nat, n \in D PROVE n + 1 \in D
      <3>1. SUFFICES ASSUME n + 1 <= N PROVE nth[n + 1] \in Link
        OBVIOUS
      <3>2. n + 1 \in 1 .. N /\ (n + 1) - 1 = n /\ nth[n] \in Link
        BY <1>1, <2>2, <3>1
      <3>3. nth[n + 1] = IF nth[n] = Null THEN Null ELSE next[nth[n]]
        BY <1>2, <3>2
      <3>. QED  BY <3>2, <3>3 DEF Link
    <2> HIDE DEF D
    <2>3. Nat \subseteq D
      BY <2>1, <2>2, Induction
    <2>. QED  BY <1>1, <2>3 DEF D
  <1>5. takers \subseteq Nat
    BY <1>1
  <1>6. PICK n \in takers : \A k \in takers : n <= k
    <2> HIDE DEF takers
    <2>. QED  BY <1>3, <1>5, SmallestExists
  <1>7. Min(takers) = n
    <2> HIDE DEF takers
    <2>1. \A k \in takers : k \in Nat
      BY <1>5
    <2>2. ASSUME NEW x \in takers, \A k \in takers : x <= k
          PROVE  x = n
      BY <1>6, <2>1, <2>2
    <2>. QED  BY <1>6, <2>2 DEF Min
  <1>8. n \in 0 .. N - 1 /\ nth[n] # Null /\ Matches(nth[n], p)
    BY <1>6
  <1>9. nth[n] \in Sinks
    BY <1>1, <1>4, <1>8 DEF Link
  <1>10. ASSUME NEW k \in 0 .. n - 1
         PROVE  nth[k] = Null \/ ~Matches(nth[k], p)
    <2>1. k \in 0 .. N - 1 /\ ~(n <= k)
      BY <1>1, <1>8
    <2>. QED  BY <1>6, <2>1
  <1>. QED  BY <1>3, <1>7, <1>8, <1>9, <1>10 DEF N, nth

LEMMA MinTwo ==
  ASSUME NEW a \in Int, NEW b \in Int
  PROVE  Min({a, b}) = IF a <= b THEN a ELSE b
  <1> DEFINE c == IF a <= b THEN a ELSE b
  <1>1. c \in {a, b} /\ \A y \in {a, b} : c <= y
    OBVIOUS
  <1>2. \A x \in {a, b} : (\A y \in {a, b} : x <= y) => x = c
    OBVIOUS
  <1> HIDE DEF c
  <1>3. Min({a, b}) = c
    BY <1>1, <1>2 DEF Min
  <1>. QED  BY <1>3 DEF c

\* While the list is walked packets change places, with net_tx() and without.
LEMMA AccountMoves ==
  ASSUME Account, pc # "card", pc' = pc, queue' \in Queues, kept' \in Nat, NEW n \in Int,
         Changed(tx, tx', n), kept' + Received(queue') = kept + Received(queue) + n
  PROVE  Account'
  BY DEF Account, Changed

LEMMA AccountResolverPump ==
  ASSUME Account, ResolverPump
  PROVE  Account'
  <1> DEFINE c == tx.card
             q == tx.queued
             w == tx.waiting
             a == tx.alive
             h == kept + Received(queue)
  <1>1. PICK ok \in 0 .. w, failed \in 0 .. w, queries \in 0 .. w :
          /\ ok + failed + queries <= w
          /\ LET sent == Min({queries, 2 - c})
             IN  tx' = [card    |-> c + sent,
                        queued  |-> q + ok + queries - sent,
                        waiting |-> w - ok - failed,
                        alive   |-> a - failed + queries - sent]
    BY DEF ResolverPump
  <1> DEFINE sent == Min({queries, 2 - c})
  <1>2. c \in 0 .. 2 /\ q \in Nat /\ w \in Nat /\ a \in Int /\ a - q - w = h
    BY DEF Account, Buffers, Held
  <1>3. tx' = [card |-> c + sent, queued |-> q + ok + queries - sent,
               waiting |-> w - ok - failed, alive |-> a - failed + queries - sent]
    BY <1>1
  <1>4. queue' = queue /\ kept' = kept /\ pc' = "card"
    BY DEF ResolverPump
  <1> HIDE DEF c, q, w, a
  <1>5. sent = IF queries <= 2 - c THEN queries ELSE 2 - c
    BY <1>2, MinTwo
  <1>6. sent \in 0 .. 2 /\ sent <= queries /\ sent <= 2 - c
    BY <1>2, <1>5
  <1> HIDE DEF sent
  <1>7. /\ c + sent \in 0 .. 2 /\ q + ok + queries - sent \in Nat
        /\ w - ok - failed \in Nat /\ a - failed + queries - sent \in Int
        /\ (a - failed + queries - sent) - (q + ok + queries - sent) - (w - ok - failed) = h
    BY <1>1, <1>2, <1>6
  <1>8. tx' \in Buffers /\ Held(tx') = h
    BY <1>3, <1>7 DEF Buffers, Held
  <1>. QED  BY <1>4, <1>8 DEF Account

LEMMA AccountCard ==
  ASSUME Account, Transmitted \/ EthPull
  PROVE  Account'
  <1> DEFINE c == tx.card
             q == tx.queued
             w == tx.waiting
             a == tx.alive
             h == kept + Received(queue)
             n == Min({2 - c, q})
  <1>1. /\ c \in 0 .. 2 /\ q \in Nat /\ w \in Nat /\ a \in Int /\ a - q - w = h
        /\ tx = [card |-> c, queued |-> q, waiting |-> w, alive |-> a]
    BY DEF Account, Buffers, Held
  <1>2. queue' = queue /\ kept' = kept
    BY DEF Transmitted, EthPull
  <1>3. CASE Transmitted
    <2>1. pc = "card" /\ pc' = pc /\ c > 0
          /\ tx' = [card |-> c - 1, queued |-> q, waiting |-> w, alive |-> a]
      BY <1>1, <1>3 DEF Transmitted
    <2> HIDE DEF c, q, w, a
    <2>2. tx' \in Buffers /\ Held(tx') = h
      BY <1>1, <2>1 DEF Buffers, Held
    <2>. QED  BY <1>2, <2>1, <2>2 DEF Account
  <1>4. CASE EthPull
    <2>1. pc' = "walk"
          /\ tx' = [card |-> c + n, queued |-> q - n, waiting |-> w, alive |-> a - n]
      <3>1. pc' = "walk"
            /\ tx' = [tx EXCEPT !.card = @ + n, !.queued = @ - n, !.alive = @ - n]
        BY <1>4 DEF EthPull
      <3> HIDE DEF n
      <3>. QED  BY <1>1, <3>1
    <2> HIDE DEF c, q, w, a
    <2>2. n = IF 2 - c <= q THEN 2 - c ELSE q
      BY <1>1, MinTwo
    <2>3. n \in 0 .. 2 /\ n <= q /\ n <= 2 - c /\ (q - n > 0 => c + n = 2)
      BY <1>1, <2>2
    <2> HIDE DEF n
    <2>4. tx' \in Buffers /\ Held(tx') = h
      BY <1>1, <2>1, <2>3 DEF Buffers, Held
    <2>5. Filled(tx')
      BY <2>1, <2>3 DEF Filled
    <2>. QED  BY <1>2, <2>1, <2>4, <2>5 DEF Account
  <1>. QED  BY <1>3, <1>4

LEMMA AccountEthPush ==
  ASSUME Account, NEW p \in Traffic, EthPush(p), head \in Link, next \in [Sinks -> Link]
  PROVE  Account'
  <1>1. pc = "card" /\ pc' = pc /\ kept' = kept
    BY DEF EthPush
  <1>2. CASE UNCHANGED <<queue, tx>>
    BY <1>1, <1>2 DEF Account
  <1>3. CASE /\ Taker(p) # Null
             /\ queue' = [queue EXCEPT ![Taker(p)] = Append(@, p)]
             /\ tx' = Alloc(tx)
    <2>1. Taker(p) \in Sinks
      BY <1>3, TakerSink
    <2> DEFINE s == Taker(p)
    <2>2. s \in Sinks /\ queue' = [queue EXCEPT ![s] = Append(@, p)] /\ queue \in Queues
      BY <1>3, <2>1 DEF Account
    <2> HIDE DEF s
    <2>3. queue' \in Queues /\ Received(queue') = Received(queue) + 1
      BY <2>2, PushedReceived
    <2> DEFINE c == tx.card
               q == tx.queued
               w == tx.waiting
               a == tx.alive
               h == kept + Received(queue)
    <2>4. /\ c \in 0 .. 2 /\ q \in Nat /\ w \in Nat /\ a \in Int /\ a - q - w = h
          /\ tx' = [card |-> c, queued |-> q, waiting |-> w, alive |-> a + 1]
      BY <1>3 DEF Account, Buffers, Held, Alloc
    <2> HIDE DEF c, q, w, a
    <2>5. tx' \in Buffers /\ Held(tx') = h + 1
      BY <2>4 DEF Buffers, Held
    <2>6. kept \in Nat /\ Received(queue) \in Nat
      BY ReceivedNat DEF Account
    <2>. QED  BY <1>1, <2>3, <2>5, <2>6 DEF Account
  <1>. QED  BY <1>2, <1>3 DEF EthPush

\* The callbacks of the sinks, which are called with a packet.
LEMMA AccountReceived ==
  ASSUME Account, ArpReceived \/ DhcpReceived \/ EchoReceived \/ UnwantedReceived,
         at \in Link
  PROVE  Account'
  <1>1. /\ queue \in Queues /\ kept \in Nat /\ Received(queue) \in Nat
        /\ pc = "walk" /\ pc' = pc /\ kept' = kept
    BY ReceivedNat DEF Account, ArpReceived, DhcpReceived, EchoReceived, UnwantedReceived, Called
  <1>2. queue' \in Queues /\ Received(queue') = Received(queue) - 1
    <2>1. PICK s \in {"arp", "dhcp", "icmp", "unwanted"} : Called(s) /\ Popped(s)
      BY DEF ArpReceived, DhcpReceived, EchoReceived, UnwantedReceived
    <2>2. s \in Sinks /\ queue[s] # <<>>
      BY <2>1 DEF Called, Link, Null
    <2>. QED  BY <1>1, <2>1, <2>2, PoppedReceived
  <1>3. tx \in Buffers /\ Filled(tx)
    BY <1>1 DEF Account
  <1>4. /\ Changed(tx, Free(tx), -1)
        /\ Changed(tx, Free(ToCard(Alloc(tx))), -1)
        /\ \A u \in NetTx(Alloc(tx), TRUE) : Changed(tx, Free(u), -1)
        /\ \A u \in NetTx(tx, TRUE) : Changed(tx, u, -1)
    BY <1>3, AllocFree, MadeAndSent, SentAndFreed, NetTxSends
  <1>5. CASE ArpReceived
    <2>1. tx' \in {Free(tx), Free(ToCard(Alloc(tx)))}
      BY <1>5 DEF ArpReceived
    <2>2. Changed(tx, tx', -1)
      BY <1>4, <2>1
    <2>. QED  BY <1>1, <1>2, <2>2, AccountMoves
  <1>6. CASE DhcpReceived
    <2>1. tx' \in {Free(tx), Free(ToCard(Alloc(tx)))}
      BY <1>6 DEF DhcpReceived
    <2>2. Changed(tx, tx', -1)
      BY <1>4, <2>1
    <2>. QED  BY <1>1, <1>2, <2>2, AccountMoves
  <1>7. CASE EchoReceived
    <2>1. tx' \in {Free(tx)} \cup NetTx(tx, TRUE)
      BY <1>7 DEF EchoReceived
    <2>2. Changed(tx, tx', -1)
      BY <1>4, <2>1
    <2>. QED  BY <1>1, <1>2, <2>2, AccountMoves
  <1>8. CASE UnwantedReceived
    <2>1. tx' = Free(tx) \/ \E t \in NetTx(Alloc(tx), TRUE) : tx' = Free(t)
      BY <1>8 DEF UnwantedReceived
    <2>2. Changed(tx, tx', -1)
      BY <1>4, <2>1
    <2>. QED  BY <1>1, <1>2, <2>2, AccountMoves
  <1>. QED  BY <1>5, <1>6, <1>7, <1>8

\* tftp_put_send_data() sends any number of packets, one after the other.
LEMMA AllSent ==
  ASSUME NEW t \in Buffers, Filled(t), NEW n \in Nat, NEW u \in NetTxAll(t, n)
  PROVE  Changed(t, u, 0)
  <1>1. CASE ~address
    BY <1>1, AllocFree DEF NetTxAll
  <1>2. CASE address
    <2>1. PICK w \in 0 .. n : \E x \in 0 .. w : u = Handed(t, n, w, x)
      BY <1>2 DEF NetTxAll
    <2>0. PICK q \in 0 .. w : u = Handed(t, n, w, q)
      BY <2>1
    <2> DEFINE c == t.card
               queued == t.queued
               waiting == t.waiting
               a == t.alive
               ready == n - w + q
               sent == Min({ready, 2 - c})
    <2>2. /\ c \in 0 .. 2 /\ queued \in Nat /\ waiting \in Nat /\ a \in Int
          /\ (queued > 0 => c = 2) /\ Held(t) = a - queued - waiting
      BY DEF Buffers, Filled, Held
    <2>3. u = [card |-> c + sent, queued |-> queued + ready - sent,
               waiting |-> waiting + w, alive |-> a + n + q - sent]
      BY <2>0 DEF Handed
    <2> HIDE DEF c, queued, waiting, a
    <2>4. ready \in Nat /\ n + q = ready + w
      OBVIOUS
    <2> HIDE DEF ready
    <2>5. sent = IF ready <= 2 - c THEN ready ELSE 2 - c
      BY <2>2, <2>4, MinTwo
    <2>6. sent \in 0 .. 2 /\ sent <= ready /\ sent <= 2 - c /\ (sent = ready \/ c + sent = 2)
      BY <2>2, <2>4, <2>5
    <2> HIDE DEF sent
    <2> DEFINE card1 == c + sent
               queued1 == queued + ready - sent
               waiting1 == waiting + w
               alive1 == a + n + q - sent
    <2>7. /\ card1 \in 0 .. 2 /\ queued1 \in Nat /\ waiting1 \in Nat /\ alive1 \in Int
          /\ (queued1 > 0 => card1 = 2) /\ alive1 - queued1 - waiting1 = a - queued - waiting
      BY <2>2, <2>4, <2>6
    <2>8. u = [card |-> card1, queued |-> queued1, waiting |-> waiting1, alive |-> alive1]
      BY <2>3
    <2> HIDE DEF card1, queued1, waiting1, alive1
    <2>9. u \in Buffers /\ Filled(u) /\ Held(u) = Held(t)
      BY <2>2, <2>7, <2>8 DEF Buffers, Filled, Held
    <2>10. Held(t) + 0 = Held(t)
      BY DEF Buffers, Held
    <2>. QED  BY <2>9, <2>10 DEF Changed
  <1>. QED  BY <1>1, <1>2

\* tftp_get_flush_data_and_ack() frees what the data queue has.
LEMMA Flushed ==
  ASSUME NEW t \in Buffers, Filled(t), NEW n \in Nat, NEW u \in FlushDataAndAck(t, n)
  PROVE  Changed(t, u, -n)
  <1>1. PICK v \in NetTx(Alloc(t), FALSE) : u = [v EXCEPT !.alive = @ - n]
    BY DEF FlushDataAndAck
  <1>2. Changed(t, v, 0)
    BY MadeAndSent
  <1> DEFINE c == v.card
             q == v.queued
             w == v.waiting
             a == v.alive
             h == Held(t)
  <1>3. /\ c \in 0 .. 2 /\ q \in Nat /\ w \in Nat /\ a \in Int /\ h \in Int
        /\ v = [card |-> c, queued |-> q, waiting |-> w, alive |-> a]
        /\ a - q - w = h + 0 /\ (q > 0 => c = 2)
    BY <1>2 DEF Changed, Buffers, Held, Filled
  <1>4. u = [card |-> c, queued |-> q, waiting |-> w, alive |-> a - n]
    BY <1>1, <1>3
  <1> HIDE DEF c, q, w, a, h
  <1>5. a - n \in Int /\ (a - n) - q - w = h + (-n)
    BY <1>3
  <1>6. u \in Buffers /\ Filled(u) /\ Held(u) = h + (-n)
    BY <1>3, <1>4, <1>5 DEF Buffers, Held, Filled
  <1>. QED  BY <1>6 DEF Changed, h

\* tftp_client_packet_received() keeps a block, frees what it kept, or frees the packet.
LEMMA AccountTftpReceived ==
  ASSUME Account, BlockKept \/ BlockFreed \/ AckReceived
  PROVE  Account'
  <1> DEFINE k == kept
             r == Received(queue)
  <1>1. TftpReceived
    BY DEF BlockKept, BlockFreed, AckReceived
  <1>2. /\ queue \in Queues /\ k \in Nat /\ r \in Nat /\ pc = "walk" /\ pc' = pc
        /\ tx \in Buffers /\ Filled(tx) /\ k + r = kept + Received(queue)
    BY <1>1, ReceivedNat DEF Account, TftpReceived, Called
  <1>3. queue' \in Queues /\ Received(queue') = r - 1
    <2>1. "tftp" \in Sinks /\ queue["tftp"] # <<>> /\ Popped("tftp")
      BY <1>1, NetStackAssumption DEF TftpReceived, Called
    <2>. QED  BY <1>2, <2>1, PoppedReceived
  <1>0. pc # "card" /\ pc' = pc /\ queue' \in Queues
    BY <1>2, <1>3
  <1> HIDE DEF r
  <1>4. CASE BlockKept /\ kept' = k + 1 /\ tx' = tx
    <2>1. Changed(tx, tx', 0)
      BY <1>2, <1>4, AllocFree
    <2> HIDE DEF k
    <2>2. kept' \in Nat /\ kept' + Received(queue') = kept + Received(queue) + 0
      BY <1>2, <1>3, <1>4
    <2>. QED  BY <1>0, <2>1, <2>2, AccountMoves
  <1>5. CASE BlockKept /\ kept' = 0 /\ tx' \in FlushDataAndAck(tx, k + 1)
    <2> DEFINE n == k + 1
    <2>1. n \in Nat /\ tx' \in FlushDataAndAck(tx, n)
      BY <1>2, <1>5
    <2> HIDE DEF k, n
    <2>2. Changed(tx, tx', -n)
      BY <1>2, <2>1, Flushed
    <2>3. kept' \in Nat /\ -n \in Int /\ kept' + Received(queue') = kept + Received(queue) + (-n)
      BY <1>2, <1>3, <1>5 DEF n
    <2>. QED  BY <1>0, <2>2, <2>3, AccountMoves
  <1>6. CASE BlockFreed /\ kept' = k /\ tx' \in {Free(t) : t \in {tx} \cup NetTx(Alloc(tx), FALSE)}
    <2>1. PICK t \in {tx} \cup NetTx(Alloc(tx), FALSE) : tx' = Free(t)
      BY <1>6
    <2>2. Changed(tx, t, 0)
      BY <1>2, <2>1, AllocFree, MadeAndSent
    <2>3. Changed(tx, tx', -1)
      BY <1>2, <2>1, <2>2, SentAndFreed
    <2> HIDE DEF k
    <2>4. kept' \in Nat /\ kept' + Received(queue') = kept + Received(queue) + (-1)
      BY <1>2, <1>3, <1>6
    <2>. QED  BY <1>0, <2>3, <2>4, AccountMoves
  <1>7. CASE BlockFreed /\ kept' = 0 /\ tx' \in {Free(t) : t \in FlushDataAndAck(tx, k)}
    <2>1. PICK t \in FlushDataAndAck(tx, k) : tx' = Free(t)
      BY <1>7
    <2> HIDE DEF k
    <2>2. Changed(tx, t, -k)
      BY <1>2, <2>1, Flushed
    <2>3. Changed(t, tx', -1)
      BY <2>1, <2>2, AllocFree DEF Changed
    <2>4. -k \in Int /\ Changed(tx, tx', (-k) + (-1))
      BY <1>2, <2>2, <2>3, ChangedTwice
    <2>5. /\ kept' \in Nat /\ (-k) + (-1) \in Int
          /\ kept' + Received(queue') = kept + Received(queue) + ((-k) + (-1))
      BY <1>2, <1>3, <1>7
    <2>. QED  BY <1>0, <2>4, <2>5, AccountMoves
  <1>8. CASE AckReceived
    <2>1. PICK n \in 0 .. Window : tx' \in {Free(t) : t \in NetTxAll(tx, n)}
      BY <1>8 DEF AckReceived
    <2>2. PICK t \in NetTxAll(tx, n) : tx' = Free(t)
      BY <2>1
    <2>3. n \in Nat /\ kept' = k
      BY <1>8, NetStackAssumption DEF AckReceived
    <2>4. Changed(tx, tx', -1)
      BY <1>2, <2>2, <2>3, AllSent, SentAndFreed
    <2> HIDE DEF k
    <2>5. kept' \in Nat /\ kept' + Received(queue') = kept + Received(queue) + (-1)
      BY <1>2, <1>3, <2>3
    <2>. QED  BY <1>0, <2>4, <2>5, AccountMoves
  <1>. QED  BY <1>4, <1>5, <1>6, <1>7, <1>8 DEF BlockKept, BlockFreed

\* The timers send again, and a download's writes and frees what it kept.
LEMMA AccountTimer ==
  ASSUME Account, DhcpTimerExpires \/ TftpTimerExpires
  PROVE  Account'
  <1> DEFINE k == kept
             r == Received(queue)
  <1>1. /\ pc = "walk" /\ pc' = pc /\ queue' = queue
        /\ tx \in Buffers /\ Filled(tx) /\ queue' \in Queues /\ k \in Nat /\ r \in Nat
        /\ Received(queue') = r /\ k + r = kept + Received(queue)
    BY ReceivedNat DEF Account, DhcpTimerExpires, TftpTimerExpires, Timed
  <1> HIDE DEF r
  <1>2. CASE kept' = k /\ (tx' = tx \/ tx' = ToCard(Alloc(tx)) \/ tx' \in NetTx(Alloc(tx), FALSE))
    <2>1. Changed(tx, tx', 0)
      BY <1>1, <1>2, AllocFree, MadeAndSent
    <2> HIDE DEF k
    <2>2. kept' \in Nat /\ kept' + Received(queue') = kept + Received(queue) + 0
      BY <1>1, <1>2
    <2>3. pc # "card" /\ pc' = pc /\ queue' \in Queues
      BY <1>1
    <2>. QED  BY <2>1, <2>2, <2>3, AccountMoves
  <1>3. CASE kept' = 0 /\ tx' \in FlushDataAndAck(tx, k)
    <2> HIDE DEF k
    <2>1. Changed(tx, tx', -k)
      BY <1>1, <1>3, Flushed
    <2>2. /\ kept' \in Nat /\ -k \in Int
          /\ kept' + Received(queue') = kept + Received(queue) + (-k)
      BY <1>1, <1>3
    <2>3. pc # "card" /\ pc' = pc /\ queue' \in Queues
      BY <1>1
    <2>. QED  BY <2>1, <2>2, <2>3, AccountMoves
  <1>. QED  BY <1>2, <1>3 DEF DhcpTimerExpires, TftpTimerExpires

LEMMA AccountTransfer ==
  ASSUME Account, BeginTransfer \/ EndTransfer
  PROVE  Account'
  <1>1. /\ queue \in Queues /\ kept \in Nat /\ Received(queue) \in Nat
        /\ pc = "idle" /\ pc' = pc /\ tx \in Buffers /\ Filled(tx)
    BY ReceivedNat DEF Account, BeginTransfer, EndTransfer
  <1>2. CASE BeginTransfer
    <2>1. Changed(tx, tx', 0)
      BY <1>1, <1>2, MadeAndSent DEF BeginTransfer
    <2>2. queue' = queue /\ kept' = kept
      BY <1>2 DEF BeginTransfer
    <2>. QED  BY <1>1, <2>1, <2>2, AccountMoves
  <1>3. CASE EndTransfer
    <2> DEFINE c == tx.card
               q == tx.queued
               w == tx.waiting
               a == tx.alive
               k == kept
               r == Received(queue)
               l == Len(queue["tftp"])
    <2>1. /\ c \in 0 .. 2 /\ q \in Nat /\ w \in Nat /\ a \in Int
          /\ tx = [card |-> c, queued |-> q, waiting |-> w, alive |-> a]
          /\ a - q - w = k + r /\ (q > 0 => c = 2)
      BY <1>1 DEF Account, Buffers, Held, Filled
    <2>2. "tftp" \in Sinks /\ <<>> \in Seq(Traffic) /\ Len(<<>>) = 0 /\ queue["tftp"] \in Seq(Traffic)
      BY <1>1, NetStackAssumption DEF Queues
    <2>3. l \in Nat /\ k \in Nat /\ r \in Nat
      BY <1>1, <2>2
    <2>4. /\ tx' = [tx EXCEPT !.alive = @ - l - k] /\ kept' = 0
          /\ queue' = [queue EXCEPT !["tftp"] = <<>>]
      BY <1>3 DEF EndTransfer
    <2>5. queue' \in Queues /\ Received(queue') = r + (0 - l)
      BY <1>1, <2>2, <2>4, ReceivedChanges
    <2>6. tx' = [card |-> c, queued |-> q, waiting |-> w, alive |-> a - l - k]
      BY <2>1, <2>4
    <2> HIDE DEF c, q, w, a, k, r, l
    <2>7. tx' \in Buffers /\ Filled(tx') /\ Held(tx') = r - l /\ r + (0 - l) = r - l
      BY <2>1, <2>3, <2>6 DEF Buffers, Held, Filled
    <2>8. r - l \in Int /\ Received(queue') = r - l
      BY <2>3, <2>5, <2>7
    <2>9. kept' + Received(queue') = r - l
      BY <2>4, <2>8
    <2>. QED  BY <1>1, <2>4, <2>5, <2>7, <2>9 DEF Account
  <1>. QED  BY <1>2, <1>3

LEMMA AccountStep ==
  ASSUME Account, head \in Link, next \in [Sinks -> Link], at \in Link, [Next]_vars
  PROVE  Account'
  <1>1. CASE ResolverPump
    BY <1>1, AccountResolverPump
  <1>2. CASE Transmitted \/ EthPull
    BY <1>2, AccountCard
  <1>3. ASSUME NEW p \in Traffic, EthPush(p) PROVE Account'
    BY <1>3, AccountEthPush
  <1>4. CASE ArpReceived \/ DhcpReceived \/ EchoReceived \/ UnwantedReceived
    BY <1>4, AccountReceived
  <1>5. CASE BlockKept \/ BlockFreed \/ AckReceived
    BY <1>5, AccountTftpReceived
  <1>6. CASE BeginTransfer \/ EndTransfer
    BY <1>6, AccountTransfer
  <1>7. CASE DhcpTimerExpires \/ TftpTimerExpires
    BY <1>7, AccountTimer
  <1>8. CASE WalkOn
    <2>1. pc = "walk" /\ pc' \in {pc, "idle"} /\ UNCHANGED <<queue, kept, tx>>
      BY <1>8 DEF WalkOn
    <2>. QED  BY <2>1 DEF Account
  <1>9. CASE ThrottleExpires
    <2>1. UNCHANGED <<queue, kept, tx, pc>>
      BY <1>9 DEF ThrottleExpires
    <2>. QED  BY <2>1 DEF Account
  <1>10. CASE UNCHANGED vars
    <2>1. UNCHANGED <<queue, kept, tx, pc>>
      BY <1>10 DEF vars
    <2>. QED  BY <2>1 DEF Account
  <1>. QED  BY <1>1, <1>2, <1>3, <1>4, <1>5, <1>6, <1>7, <1>8, <1>9, <1>10 DEF Next, Step
-----------------------------------------------------------------------------
(***************************************************************************)
(* What the sinks match.                                                   *)
(***************************************************************************)
\* The transfer's sink matches what it began with, and perhaps the server's port too.
Stricter(m) ==
  /\ Score(m) \in Nat /\ Score(m) >= Score(Match["tftp"])
  /\ NeedsAddress(m)
  /\ \A p \in Traffic : Fits(m, p) => Fits(Match["tftp"], p)

MatchKept ==
  /\ \A s \in Sinks \ {"tftp"} : match[s] = Match[s]
  /\ match = [s \in Sinks |-> match[s]]
  /\ Stricter(match["tftp"])
  /\ ~started => match["tftp"] = Match["tftp"]

LEMMA MatchScores ==
  /\ \A s \in Sinks : Score(Match[s]) \in Nat
  /\ Stricter(Match["tftp"])
  BY NetStackAssumption, MatchAssumption, FS_CardinalityType DEF Stricter, Score

\* A field more makes it match more closely.
LEMMA PortStricter ==
  ASSUME NEW port
  PROVE  LET m == WithPort(Match["tftp"], port)
         IN  Stricter(m) /\ Score(m) = Score(Match["tftp"]) + 1
  <1> DEFINE old == Match["tftp"]
             m == WithPort(old, port)
  <1>1. /\ DOMAIN m = DOMAIN old \cup {"remotePort"}
        /\ \A f \in DOMAIN old : f # "remotePort" => m[f] = old[f]
    BY DEF WithPort
  <1>2. IsFiniteSet(DOMAIN old) /\ "remotePort" \notin DOMAIN old /\ NeedsAddress(old)
    BY NetStackAssumption, MatchAssumption
  <1> HIDE DEF m, old
  <1>3. Score(m) = Score(old) + 1
    BY <1>1, <1>2, FS_AddElement DEF Score
  <1>4. Score(old) \in Nat
    BY <1>2, FS_CardinalityType DEF Score
  <1>5. NeedsAddress(m)
    BY <1>1, <1>2 DEF NeedsAddress
  <1>6. \A p \in Traffic : Fits(m, p) => Fits(old, p)
    BY <1>1, <1>2 DEF Fits
  <1>. QED  BY <1>3, <1>4, <1>5, <1>6 DEF Stricter, m, old

LEMMA ScoresKept ==
  ASSUME MatchKept
  PROVE  \A s \in Sinks : Score(match[s]) \in Nat
  BY MatchScores DEF MatchKept, Stricter

\* A packet for the transfer is for no other sink that would match it as closely.
LEMMA TransferClosest ==
  ASSUME MatchKept, NEW s \in Sinks \ {"tftp"}
  PROVE  Score(match[s]) < Score(Match["tftp"]) /\ Score(match[s]) < Score(match["tftp"])
  <1>1. match[s] = Match[s] /\ Score(Match[s]) < Score(Match["tftp"])
    BY MatchAssumption DEF MatchKept
  <1>2. "tftp" \in Sinks
    BY NetStackAssumption
  <1>3. /\ Score(Match[s]) \in Nat /\ Score(Match["tftp"]) \in Nat
        /\ Score(match["tftp"]) \in Nat /\ Score(match["tftp"]) >= Score(Match["tftp"])
    BY <1>2, MatchScores DEF MatchKept, Stricter
  <1>. QED  BY <1>1, <1>3

\* While there is no address, a packet fits the sink that gets it as closely as one that
\* would get it if there were an address.
LEMMA AddressFree ==
  ASSUME MatchKept, NEW p \in Traffic, NEW r \in Sinks, NEW s \in Sinks,
         Fits(match[r], p), Fits(match[s], p), NeedsAddress(match[r]), ~NeedsAddress(match[s])
  PROVE  Score(match[r]) <= Score(match[s])
  <1>1. s # "tftp" /\ match[s] = Match[s]
    BY DEF MatchKept, Stricter
  <1>2. CASE r # "tftp"
    <2>1. match[r] = Match[r]
      BY <1>2 DEF MatchKept
    <2>. QED  BY <1>1, <2>1, MatchAssumption
  <1>3. CASE r = "tftp"
    <2>1. Fits(Match["tftp"], p) /\ NeedsAddress(Match["tftp"])
      BY <1>3, MatchAssumption DEF MatchKept, Stricter
    <2>2. Score(Match["tftp"]) <= Score(Match[s])
      BY <1>1, <1>3, <2>1, MatchAssumption
    <2>3. Score(match[s]) < Score(Match["tftp"])
      BY <1>1, TransferClosest
    <2>4. Score(Match["tftp"]) \in Nat /\ Score(Match[s]) \in Nat
      BY <1>3, MatchScores
    <2>. QED  BY <1>1, <2>2, <2>3, <2>4
  <1>. QED  BY <1>2, <1>3
-----------------------------------------------------------------------------
(***************************************************************************)
(* The list, and the packets that wait for the sinks in it.                *)
(***************************************************************************)
\* A sink with packets is in the list, where the walk has not been.
Drained(L) ==
  \A s \in Sinks : queue[s] # <<>> =>
    \E j \in 1 .. Len(L) :
      /\ L[j] = s /\ pc # "idle"
      /\ pc = "walk" => \E i \in 1 .. j : at = L[i]

\* No other sink fits its packets more closely, with an address or without.
Closest(L) ==
  \A s \in Sinks : \A p \in Elements(queue[s]) : \A r \in Elements(L) :
    Fits(match[r], p) => Score(match[r]) <= Score(match[s])

Listing(L) ==
  /\ Chain(L, head, next)
  /\ Elements(L) \in {Sinks, Sinks \ {"tftp"}}
  /\ Sorted(L, match)
  /\ Drained(L)
  /\ Closest(L)

ListKept == at \in Link /\ MatchKept /\ \E L : Listing(L)

LEMMA SortedIns ==
  ASSUME NEW L \in Seq(Sinks), NEW s \in Sinks \ Elements(L), NEW k \in 0 .. Len(L),
         NEW ms, NEW ns, Sorted(L, ms),
         \A t \in Sinks : Score(ns[t]) \in Nat,
         \A t \in Sinks \ {s} : ns[t] = ms[t],
         \A i \in 1 .. k : Score(ms[L[i]]) > Score(ns[s]),
         \A i \in k + 1 .. Len(L) : Score(ms[L[i]]) <= Score(ns[s])
  PROVE  Sorted(Ins(L, k, s), ns)
  <1> DEFINE l == Len(L)
             M == Ins(L, k, s)
             old == [i \in 1 .. l |-> Score(ms[L[i]])]
             new == [i \in 1 .. l + 1 |-> Score(ns[M[i]])]
             mine == Score(ns[s])
  <1>1. l \in Nat /\ k \in 0 .. l /\ \A i \in 1 .. l : L[i] \in Sinks \ {s}
    BY DEF Elements
  <1>2. /\ Len(M) = l + 1 /\ M[k + 1] = s
        /\ \A i \in 1 .. k : M[i] = L[i]
        /\ \A i \in k + 1 .. l : M[i + 1] = L[i]
    BY InsFacts DEF Inserted
  <1> HIDE DEF M
  <1>3. \A i \in 1 .. l : old[i] = Score(ns[L[i]])
    BY <1>1
  <1>4. \A i \in 1 .. l : old[i] \in Nat
    BY <1>1, <1>3
  <1>5. mine \in Nat
    OBVIOUS
  <1>6. \A i, j \in 1 .. l : i <= j => old[i] >= old[j]
    BY DEF Sorted
  <1>7. /\ \A i \in 1 .. k : old[i] > mine
        /\ \A i \in k + 1 .. l : old[i] <= mine
    BY <1>1
  <1> HIDE DEF l, old, mine
  <1>8. ASSUME NEW i \in 1 .. l + 1
        PROVE  new[i] = IF i <= k THEN old[i] ELSE IF i = k + 1 THEN mine ELSE old[i - 1]
    <2>1. CASE i <= k
      <3>1. i \in 1 .. k /\ i \in 1 .. l
        BY <1>1, <2>1
      <3>. QED  BY <1>2, <1>3, <2>1, <3>1
    <2>2. CASE i = k + 1
      <3>1. ~(i <= k)
        BY <1>1, <2>2
      <3>. QED  BY <1>2, <2>2, <3>1 DEF mine
    <2>3. CASE i > k + 1
      <3>1. i - 1 \in k + 1 .. l /\ i - 1 \in 1 .. l /\ (i - 1) + 1 = i /\ ~(i <= k) /\ i # k + 1
        BY <1>1, <2>3
      <3>2. M[i] = L[i - 1]
        BY <1>2, <3>1
      <3>. QED  BY <1>3, <3>1, <3>2
    <2>. QED  BY <1>1, <2>1, <2>2, <2>3
  <1> HIDE DEF new
  <1>9. ASSUME NEW i \in 1 .. l + 1, NEW j \in 1 .. l + 1, i <= j
        PROVE  new[i] >= new[j]
    <2>1. new[i] = IF i <= k THEN old[i] ELSE IF i = k + 1 THEN mine ELSE old[i - 1]
      BY <1>8
    <2>2. new[j] = IF j <= k THEN old[j] ELSE IF j = k + 1 THEN mine ELSE old[j - 1]
      BY <1>8
    <2>3. CASE i <= k /\ j <= k
      <3>1. i \in 1 .. l /\ j \in 1 .. l
        BY <1>1, <2>3
      <3>. QED  BY <1>6, <1>9, <2>1, <2>2, <2>3, <3>1
    <2>4. CASE i <= k /\ j = k + 1
      <3>1. i \in 1 .. k /\ i \in 1 .. l /\ ~(j <= k)
        BY <1>1, <2>4
      <3>. QED  BY <1>4, <1>5, <1>7, <2>1, <2>2, <2>4, <3>1
    <2>5. CASE i <= k /\ j > k + 1
      <3>1. i \in 1 .. l /\ j - 1 \in 1 .. l /\ i <= j - 1 /\ ~(j <= k) /\ j # k + 1
        BY <1>1, <2>5
      <3>. QED  BY <1>6, <2>1, <2>2, <2>5, <3>1
    <2>6. CASE i = k + 1 /\ j = k + 1
      BY <1>5, <2>1, <2>2, <2>6
    <2>7. CASE i = k + 1 /\ j > k + 1
      <3>1. j - 1 \in k + 1 .. l /\ j - 1 \in 1 .. l /\ ~(j <= k) /\ j # k + 1 /\ ~(i <= k)
        BY <1>1, <2>7
      <3>2. new[i] = mine /\ new[j] = old[j - 1]
        BY <2>1, <2>2, <2>7, <3>1
      <3>. QED  BY <1>4, <1>5, <1>7, <3>1, <3>2
    <2>8. CASE i > k + 1 /\ j > k + 1
      <3>1. /\ i - 1 \in 1 .. l /\ j - 1 \in 1 .. l /\ i - 1 <= j - 1
            /\ ~(i <= k) /\ i # k + 1 /\ ~(j <= k) /\ j # k + 1
        BY <1>1, <1>9, <2>8
      <3>2. new[i] = old[i - 1] /\ new[j] = old[j - 1]
        BY <2>1, <2>2, <3>1
      <3>. QED  BY <1>6, <3>1, <3>2
    <2>. QED  BY <1>1, <1>9, <2>3, <2>4, <2>5, <2>6, <2>7, <2>8
  <1>10. \A i, j \in 1 .. Len(M) : i <= j => new[i] >= new[j]
    BY <1>2, <1>9
  <1>11. \A i \in 1 .. Len(M) : new[i] = Score(ns[M[i]])
    BY <1>2 DEF new
  <1>. QED  BY <1>10, <1>11 DEF Sorted, M

LEMMA SortedDel ==
  ASSUME NEW L, NEW h, NEW nx, Chain(L, h, nx), NEW k \in 1 .. Len(L), NEW ms, Sorted(L, ms)
  PROVE  Sorted(Del(L, k), ms)
  <1> DEFINE l == Len(L)
             M == Del(L, k)
             From(i) == IF i < k THEN i ELSE i + 1
  <1>1. l \in Nat /\ k \in 1 .. l /\ L \in Seq(Sinks)
        /\ \A i, j \in 1 .. l : L[i] = L[j] => i = j
    BY DEF Chain
  <1>2. /\ Len(M) = l - 1
        /\ \A i \in 1 .. k - 1 : M[i] = L[i]
        /\ \A i \in k .. l - 1 : M[i] = L[i + 1]
    BY <1>1, DelFacts DEF Deleted
  <1>3. \A i, j \in 1 .. l : i <= j => Score(ms[L[i]]) >= Score(ms[L[j]])
    BY DEF Sorted
  <1> HIDE DEF l, M
  <1>4. \A i \in 1 .. l - 1 : M[i] = L[From(i)] /\ From(i) \in 1 .. l
    <2>1. ASSUME NEW i \in 1 .. l - 1 PROVE M[i] = L[From(i)] /\ From(i) \in 1 .. l
      <3>1. CASE i < k
        <4>1. i \in 1 .. k - 1 /\ i \in 1 .. l
          BY <1>1, <3>1
        <4>. QED  BY <1>2, <3>1, <4>1
      <3>2. CASE ~(i < k)
        <4>1. i \in k .. l - 1 /\ i + 1 \in 1 .. l
          BY <1>1, <3>2
        <4>. QED  BY <1>2, <3>2, <4>1
      <3>. QED  BY <3>1, <3>2
    <2>. QED  BY <2>1
  <1>5. \A i, j \in 1 .. l - 1 : i <= j => From(i) <= From(j)
    BY <1>1
  <1> HIDE DEF From
  <1>6. \A i, j \in 1 .. l - 1 : i <= j => Score(ms[M[i]]) >= Score(ms[M[j]])
    BY <1>3, <1>4, <1>5
  <1>. QED  BY <1>2, <1>6 DEF Sorted, M
-----------------------------------------------------------------------------
(***************************************************************************)
(* The steps of net_pump().                                                *)
(***************************************************************************)
LEMMA ChainFacts ==
  ASSUME NEW L, NEW h, NEW nx, Chain(L, h, nx)
  PROVE  /\ L \in Seq(Sinks) /\ Len(L) \in Nat /\ \A i \in 1 .. Len(L) : L[i] \in Sinks
         /\ h \in Link /\ nx \in [Sinks -> Link]
         /\ \A i, j \in 1 .. Len(L) : L[i] = L[j] => i = j
  <1>1. L \in Seq(Sinks) /\ Len(L) \in Nat /\ \A i \in 1 .. Len(L) : L[i] \in Sinks
    BY DEF Chain
  <1>2. CASE Len(L) = 0
    BY <1>1, <1>2 DEF Chain, Link
  <1>3. CASE Len(L) # 0
    <2>1. 1 \in 1 .. Len(L)
      BY <1>1, <1>3
    <2>. QED  BY <1>1, <1>3, <2>1 DEF Chain, Link
  <1>. QED  BY <1>2, <1>3

\* While the list is as it is and packets leave.
LEMMA ListingStays ==
  ASSUME NEW L, Listing(L), UNCHANGED <<list, match>>, Drained(L)',
         \A s \in Sinks : Elements(queue'[s]) \subseteq Elements(queue[s])
  PROVE  Listing(L)'
  <1>1. head' = head /\ next' = next /\ match' = match
    BY DEF list
  <1>2. Closest(L)'
    BY <1>1 DEF Listing, Closest
  <1>. QED  BY <1>1, <1>2 DEF Listing

LEMMA MatchStays ==
  ASSUME MatchKept, match' = match, started' \in {started, TRUE}
  PROVE  MatchKept'
  BY DEF MatchKept

LEMMA PoppedLess ==
  ASSUME NEW s \in Sinks, queue \in Queues, queue[s] # <<>>, Popped(s)
  PROVE  \A t \in Sinks : /\ Elements(queue'[t]) \subseteq Elements(queue[t])
                          /\ queue'[t] # <<>> => queue[t] # <<>>
  <1>1. queue' \in Queues /\ queue[s] \in Seq(Traffic)
    BY PoppedReceived DEF Queues
  <1>2. \A t \in Sinks : queue'[t] = IF t = s THEN Tail(queue[s]) ELSE queue[t]
    BY DEF Popped, Queues
  <1>3. Elements(Tail(queue[s])) \subseteq Elements(queue[s])
    <2> DEFINE q == queue[s]
               x == Tail(q)
               l == Len(q)
    <2>1. Len(x) = l - 1 /\ l \in Nat /\ \A i \in 1 .. Len(x) : x[i] = q[i + 1]
      BY <1>1, HeadTailProperties
    <2> HIDE DEF q, x, l
    <2>2. ASSUME NEW i \in 1 .. Len(x) PROVE \E j \in 1 .. l : x[i] = q[j]
      <3>1. i + 1 \in 1 .. l
        BY <2>1
      <3>. QED  BY <2>1, <3>1
    <2>3. Elements(x) \subseteq {q[j] : j \in 1 .. l}
      BY <2>2 DEF Elements
    <2>. QED  BY <2>3 DEF Elements, q, x, l
  <1>. QED  BY <1>2, <1>3

LEMMA ListQuiet ==
  ASSUME Account, ListKept, UNCHANGED <<list, match, queue, started>>,
         (pc' = pc /\ at' = at) \/ ResolverPump \/ EthPull \/ WalkOn
  PROVE  ListKept'
  <1>1. PICK L : Listing(L)
    BY DEF ListKept
  <1>2. at \in Link /\ MatchKept
    BY DEF ListKept
  <1>3. Chain(L, head, next) /\ Drained(L)
    BY <1>1 DEF Listing
  <1> DEFINE l == Len(L)
  <1>4. /\ L \in Seq(Sinks) /\ l \in Nat /\ \A i \in 1 .. l : L[i] \in Sinks
        /\ head \in Link /\ next \in [Sinks -> Link]
        /\ \A i, j \in 1 .. l : L[i] = L[j] => i = j
        /\ head = IF l = 0 THEN Null ELSE L[1]
        /\ \A i \in 1 .. l : next[L[i]] = IF i = l THEN Null ELSE L[i + 1]
    BY <1>3, ChainFacts DEF Chain
  <1>5. \A s \in Sinks : queue[s] # <<>> =>
          \E j \in 1 .. l : /\ L[j] = s /\ pc # "idle"
                            /\ pc = "walk" => \E i \in 1 .. j : at = L[i]
    BY <1>3 DEF Drained
  <1>6. MatchKept'
    BY <1>2, MatchStays
  <1>7. ASSUME at' \in Link, Drained(L)' PROVE ListKept'
    <2>1. Listing(L)'
      BY <1>1, <1>7, ListingStays
    <2>. QED  BY <1>6, <1>7, <2>1 DEF ListKept
  <1>8. CASE pc' = pc /\ at' = at
    <2>1. Drained(L)' /\ at' \in Link
      BY <1>2, <1>3, <1>8 DEF Drained
    <2>. QED  BY <1>7, <2>1
  <1>9. CASE ResolverPump
    <2>1. pc = "idle" /\ at' = at
      BY <1>9 DEF ResolverPump
    <2>2. Drained(L)'
      BY <1>5, <2>1 DEF Drained
    <2>. QED  BY <1>2, <1>7, <2>1, <2>2
  <1>10. CASE EthPull
    <2>1. pc = "card" /\ at' = head
      BY <1>10 DEF EthPull
    <2>2. ASSUME NEW s \in Sinks, queue'[s] # <<>>
          PROVE  \E j \in 1 .. l : L[j] = s /\ \E i \in 1 .. j : at' = L[i]
      <3>1. PICK j \in 1 .. l : L[j] = s
        BY <1>5, <2>2
      <3>2. 1 \in 1 .. j /\ at' = L[1]
        BY <1>4, <2>1
      <3>. QED  BY <3>1, <3>2
    <2>3. pc' = "walk"
      BY <1>10 DEF EthPull
    <2>4. Drained(L)'
      BY <2>2, <2>3 DEF Drained
    <2>. QED  BY <1>4, <1>7, <2>1, <2>4
  <1>11. CASE WalkOn
    <2>1. pc = "walk"
      BY <1>11 DEF WalkOn
    <2>2. CASE at = Null
      <3>1. at' = at /\ queue' = queue
        BY <1>11, <2>2 DEF WalkOn
      <3>2. ASSUME NEW s \in Sinks PROVE queue[s] = <<>>
        <4>1. SUFFICES ASSUME queue[s] # <<>> PROVE FALSE
          OBVIOUS
        <4>5. PICK j \in 1 .. l : \E i \in 1 .. j : at = L[i]
          BY <1>5, <2>1, <4>1
        <4>2. PICK i \in 1 .. j : at = L[i]
          BY <4>5
        <4>3. i \in 1 .. l
          BY <1>4
        <4>. QED  BY <1>4, <2>2, <4>2, <4>3, NetStackAssumption
      <3>3. Drained(L)'
        BY <3>1, <3>2 DEF Drained
      <3>. QED  BY <1>2, <1>7, <3>1, <3>3
    <2>3. CASE at # Null
      <3>1. at \in Sinks /\ queue[at] = <<>> /\ at' = next[at] /\ pc' = pc /\ queue' = queue
        BY <1>2, <1>11, <2>3 DEF WalkOn, Link
      <3>2. ASSUME NEW s \in Sinks, queue[s] # <<>>
            PROVE  \E j \in 1 .. l : L[j] = s /\ \E i \in 1 .. j : at' = L[i]
        <4>1. PICK j \in 1 .. l : L[j] = s /\ \E i \in 1 .. j : at = L[i]
          BY <1>5, <2>1, <3>2
        <4>2. PICK i \in 1 .. j : at = L[i]
          BY <4>1
        <4>3. i # j
          BY <3>1, <3>2, <4>1, <4>2
        <4>4. i \in 1 .. l /\ i # l /\ i + 1 \in 1 .. j
          BY <1>4, <4>2, <4>3
        <4>5. at' = L[i + 1]
          BY <1>4, <3>1, <4>2, <4>4
        <4>. QED  BY <4>1, <4>4, <4>5
      <3>3. Drained(L)'
        BY <2>1, <3>1, <3>2 DEF Drained
      <3>. QED  BY <1>4, <1>7, <3>1, <3>3
    <2>. QED  BY <2>2, <2>3
  <1>. QED  BY <1>8, <1>9, <1>10, <1>11

\* A packet is taken from its queue and given to the callback of its sink.
LEMMA ListPopped ==
  ASSUME Account, ListKept, UNCHANGED <<list, match, pc, at>>, started' \in {started, TRUE},
         NEW s \in Sinks, Called(s), Popped(s)
  PROVE  ListKept'
  <1>1. PICK L : Listing(L)
    BY DEF ListKept
  <1>2. queue \in Queues /\ queue[s] # <<>>
    BY DEF Account, Called
  <1>3. \A t \in Sinks : /\ Elements(queue'[t]) \subseteq Elements(queue[t])
                         /\ queue'[t] # <<>> => queue[t] # <<>>
    BY <1>2, PoppedLess
  <1>4. Drained(L)'
    BY <1>1, <1>3 DEF Listing, Drained
  <1>5. Listing(L)'
    BY <1>1, <1>3, <1>4, ListingStays
  <1>6. MatchKept' /\ at' \in Link
    BY MatchStays DEF ListKept
  <1>. QED  BY <1>5, <1>6 DEF ListKept

\* A packet is given to the first sink that matches it.
LEMMA ListEthPush ==
  ASSUME Account, ListKept, NEW p \in Traffic, EthPush(p)
  PROVE  ListKept'
  <1>1. UNCHANGED <<list, match, started, pc, at>> /\ pc = "card"
    BY DEF EthPush
  <1>2. CASE queue' = queue
    BY <1>1, <1>2, ListQuiet
  <1>3. CASE Taker(p) # Null /\ queue' = [queue EXCEPT ![Taker(p)] = Append(@, p)]
    <2> DEFINE s == Taker(p)
    <2>1. PICK L : Listing(L)
      BY DEF ListKept
    <2>2. Chain(L, head, next) /\ Sorted(L, match) /\ Drained(L) /\ Closest(L) /\ MatchKept
      BY <2>1 DEF Listing, ListKept
    <2> DEFINE l == Len(L)
    <2>3. /\ l \in Nat /\ \A i \in 1 .. l : L[i] \in Sinks
          /\ head \in Link /\ next \in [Sinks -> Link]
          /\ l <= Cardinality(Sinks) /\ Cardinality(Sinks) \in Nat
      BY <2>2, ChainFacts, ChainLength, SinksFinite
    <2>4. PICK n \in 0 .. Cardinality(Sinks) - 1 :
            /\ s = Nth(head, next)[n] /\ s \in Sinks /\ Matches(s, p)
            /\ \A k \in 0 .. n - 1 :
                 Nth(head, next)[k] = Null \/ ~Matches(Nth(head, next)[k], p)
      BY <1>3, <2>3, TakerSink
    <2>5. \A k \in 0 .. Cardinality(Sinks) :
            Nth(head, next)[k] = IF k < l THEN L[k + 1] ELSE Null
      BY <2>2, NthChain
    <2> HIDE DEF s, l
    <2>6. n \in 0 .. Cardinality(Sinks) /\ n + 1 \in 1 .. l /\ s = L[n + 1]
      <3>1. n \in 0 .. Cardinality(Sinks)
        BY <2>3
      <3>2. s = IF n < l THEN L[n + 1] ELSE Null
        BY <2>4, <2>5, <3>1
      <3>3. n < l /\ s = L[n + 1]
        BY <2>4, <3>2, NetStackAssumption
      <3>. QED  BY <2>3, <3>1, <3>3
    <2>7. ASSUME NEW i \in 1 .. n PROVE ~Matches(L[i], p)
      <3>1. i - 1 \in 0 .. n - 1 /\ i - 1 \in 0 .. Cardinality(Sinks) /\ i - 1 < l
            /\ (i - 1) + 1 = i /\ i \in 1 .. l
        BY <2>3, <2>6
      <3>2. Nth(head, next)[i - 1] = L[i] /\ L[i] # Null
        BY <2>3, <2>5, <3>1, NetStackAssumption
      <3>. QED  BY <2>4, <3>1, <3>2
    <2>8. ASSUME NEW r \in Elements(L), Fits(match[r], p)
          PROVE  Score(match[r]) <= Score(match[s])
      <3>1. PICK i \in 1 .. l : r = L[i]
        BY DEF Elements, l
      <3>2. CASE i <= n
        <4>1. ~Matches(r, p)
          <5>1. i \in 1 .. n
            BY <2>3, <2>6, <3>2
          <5>. QED  BY <2>7, <3>1, <5>1
        <4>2. NeedsAddress(match[r]) /\ ~NeedsAddress(match[s]) /\ Fits(match[s], p)
          BY <2>4, <2>8, <4>1 DEF Matches
        <4>3. r \in Sinks /\ s \in Sinks
          BY <2>3, <2>4, <3>1
        <4>. QED  BY <2>2, <2>8, <4>2, <4>3, AddressFree
      <3>3. CASE ~(i <= n)
        <4>1. n + 1 <= i
          BY <2>3, <2>6, <3>3
        <4>2. Score(match[s]) >= Score(match[r])
          BY <2>2, <2>6, <3>1, <4>1 DEF Sorted, l
        <4>3. Score(match[s]) \in Nat /\ Score(match[r]) \in Nat
          BY <2>2, <2>3, <2>4, <3>1, ScoresKept
        <4>. QED  BY <4>2, <4>3
      <3>. QED  BY <3>2, <3>3
    <2>9. \A t \in Sinks : queue'[t] = IF t = s THEN Append(queue[s], p) ELSE queue[t]
      BY <1>3 DEF Account, Queues, s
    <2>10. Elements(Append(queue[s], p)) \subseteq Elements(queue[s]) \cup {p}
      <3> DEFINE q == queue[s]
                 x == Append(q, p)
                 m == Len(q)
      <3>1. /\ q \in Seq(Traffic) /\ m \in Nat
            /\ Len(x) = m + 1 /\ \A i \in 1 .. m : x[i] = q[i]
            /\ x[m + 1] = p
        <4>1. q \in Seq(Traffic)
          BY <2>4 DEF Account, Queues
        <4> HIDE DEF q
        <4>. QED  BY <4>1, AppendProperties
      <3> HIDE DEF q, x, m
      <3>2. ASSUME NEW i \in 1 .. Len(x) PROVE x[i] \in {q[j] : j \in 1 .. m} \cup {p}
        <4>1. i \in 1 .. m \/ i = m + 1
          BY <3>1
        <4>. QED  BY <3>1, <4>1
      <3>. QED  BY <3>2 DEF Elements, q, x, m
    <2>11. head' = head /\ next' = next /\ match' = match /\ pc' = pc /\ at' = at
      BY <1>1 DEF list
    <2>12. Closest(L)'
      <3>1. ASSUME NEW t \in Sinks, NEW o \in Elements(queue'[t]), NEW r \in Elements(L),
                   Fits(match[r], o)
            PROVE  Score(match[r]) <= Score(match[t])
        <4>1. CASE o \in Elements(queue[t])
          BY <2>2, <3>1, <4>1 DEF Closest
        <4>2. CASE o \notin Elements(queue[t])
          <5>1. t = s /\ o = p
            BY <2>9, <2>10, <4>2
          <5>. QED  BY <2>8, <3>1, <5>1
        <4>. QED  BY <4>1, <4>2
      <3>. QED  BY <2>11, <3>1 DEF Closest
    <2>13. Drained(L)'
      <3>1. ASSUME NEW t \in Sinks, queue'[t] # <<>>
            PROVE  \E j \in 1 .. Len(L) : L[j] = t
        BY <2>2, <2>6, <2>9, <3>1 DEF Drained, l
      <3>. QED  BY <1>1, <2>11, <3>1 DEF Drained
    <2>14. Listing(L)'
      BY <2>1, <2>11, <2>12, <2>13 DEF Listing
    <2>15. MatchKept' /\ at' \in Link
      BY <1>1, <2>2, <2>11, MatchStays DEF ListKept
    <2>. QED  BY <2>14, <2>15 DEF ListKept
  <1>. QED  BY <1>2, <1>3 DEF EthPush

\* The transfer's sink does not come back where the walk has been, and what is behind it
\* in the list stays where it is.
LEMMA ListLockOn ==
  ASSUME Account, ListKept, TftpReceived, ~started
  PROVE  ListKept'
  <1> DEFINE port == Head(queue["tftp"]).remotePort
             m == WithPort(match["tftp"], port)
             out == Removed(head, next, "tftp")
             in == Added(out[1], out[2], "tftp", m, match)
             tail == Tail(queue["tftp"])
  <1>1. /\ pc = "walk" /\ pc' = pc /\ at = "tftp" /\ at' = at /\ queue["tftp"] # <<>>
        /\ Popped("tftp") /\ started' = TRUE
        /\ head' = in[1] /\ next' = in[2] /\ match' = [match EXCEPT !["tftp"] = m]
    BY DEF TftpReceived, Called, LockOn
  <1>2. PICK L : Listing(L)
    BY DEF ListKept
  <1>3. /\ Chain(L, head, next) /\ Sorted(L, match) /\ Drained(L) /\ Closest(L)
        /\ MatchKept /\ "tftp" \in Sinks /\ at \in Link /\ queue \in Queues
    BY <1>2, NetStackAssumption DEF Listing, ListKept, Account
  <1> DEFINE l == Len(L)
  <1>4. /\ L \in Seq(Sinks) /\ l \in Nat /\ \A i \in 1 .. l : L[i] \in Sinks
        /\ \A i, j \in 1 .. l : L[i] = L[j] => i = j
    BY <1>3, ChainFacts
  <1>5. \A s \in Sinks : queue[s] # <<>> =>
          \E j \in 1 .. l : L[j] = s /\ \E i \in 1 .. j : at = L[i]
    BY <1>1, <1>3 DEF Drained
  <1>6. PICK k \in 1 .. l : L[k] = "tftp"
    BY <1>1, <1>3, <1>5
  <1> DEFINE D == Del(L, k)
  <1>7. /\ D \in Seq(Sinks) /\ Len(D) = l - 1
        /\ \A i \in 1 .. k - 1 : D[i] = L[i]
        /\ \A i \in k .. l - 1 : D[i] = L[i + 1]
        /\ Elements(D) = Elements(L) \ {"tftp"}
    BY <1>4, <1>6, DelFacts DEF Deleted
  <1>8. Chain(D, out[1], out[2])
    BY <1>3, <1>6, RemovedChain
  <1>9. Sorted(D, match)
    BY <1>3, <1>6, SortedDel
  <1>10. Stricter(m) /\ Score(m) = Score(Match["tftp"]) + 1 /\ Score(m) \in Nat
    <2>1. match["tftp"] = Match["tftp"]
      BY <1>3 DEF MatchKept
    <2> HIDE DEF port
    <2>. QED  BY <2>1, PortStricter DEF Stricter
  <1> HIDE DEF m, out, l, D
  <1>11. PICK n \in 0 .. Len(D) :
           /\ Chain(Ins(D, n, "tftp"), in[1], in[2])
           /\ \A i \in 1 .. n : Score(match[D[i]]) > Score(m)
           /\ \A i \in n + 1 .. Len(D) : Score(match[D[i]]) <= Score(m)
    <2>1. "tftp" \in Sinks \ Elements(D)
      BY <1>3, <1>7
    <2>2. \A r \in Sinks : Score(match[r]) \in Nat
      BY <1>3, ScoresKept
    <2>. QED  BY <1>8, <1>9, <1>10, <2>1, <2>2, AddedChain
  <1> DEFINE M == Ins(D, n, "tftp")
  <1>12. /\ M \in Seq(Sinks) /\ Len(M) = l /\ M[n + 1] = "tftp"
         /\ \A i \in n + 1 .. l - 1 : M[i + 1] = D[i]
         /\ Elements(M) = Elements(L)
    <2>1. /\ M \in Seq(Sinks) /\ Len(M) = Len(D) + 1 /\ M[n + 1] = "tftp"
          /\ \A i \in n + 1 .. Len(D) : M[i + 1] = D[i]
          /\ Elements(M) = Elements(D) \cup {"tftp"}
      <3>1. D \in Seq(Sinks) /\ "tftp" \in Sinks /\ n \in 0 .. Len(D)
        BY <1>3, <1>7, <1>11
      <3>2. Inserted(D, n, "tftp", M)
        BY <3>1, InsFacts
      <3>. QED  BY <3>2 DEF Inserted
    <2>2. "tftp" \in Elements(L)
      BY <1>6 DEF Elements, l
    <2>3. (l - 1) + 1 = l
      BY <1>4
    <2> HIDE DEF M
    <2>. QED  BY <1>7, <2>1, <2>2, <2>3
  <1> HIDE DEF in, M
  <1>13. \A s \in Sinks : match'[s] = IF s = "tftp" THEN m ELSE match[s]
    BY <1>1, <1>3 DEF MatchKept
  <1>14. MatchKept'
    <2>1. match' = [s \in Sinks |-> match'[s]]
      BY <1>1, <1>3 DEF MatchKept
    <2>2. \A s \in Sinks \ {"tftp"} : match'[s] = Match[s]
      BY <1>3, <1>13 DEF MatchKept
    <2>3. Stricter(match'["tftp"])
      BY <1>3, <1>10, <1>13
    <2>. QED  BY <1>1, <2>1, <2>2, <2>3 DEF MatchKept
  <1>15. n + 1 <= k
    <2>1. SUFFICES ASSUME ~(n + 1 <= k) PROVE FALSE
      OBVIOUS
    <2>2. k \in 1 .. n /\ k \in k .. l - 1 /\ k + 1 \in 1 .. l
      BY <1>4, <1>6, <1>7, <1>11, <2>1
    <2>3. D[k] = L[k + 1] /\ L[k + 1] \in Sinks /\ L[k + 1] # "tftp"
      <3>1. k + 1 # k
        BY <1>6, <1>4
      <3>. QED  BY <1>4, <1>6, <1>7, <2>2, <3>1
    <2>4. Score(match[D[k]]) > Score(m)
      BY <1>11, <2>2
    <2>5. Score(match[D[k]]) < Score(Match["tftp"])
      BY <1>3, <2>3, TransferClosest
    <2>6. Score(match[D[k]]) \in Nat /\ Score(Match["tftp"]) \in Nat
      BY <1>3, <2>3, ScoresKept, MatchScores
    <2>. QED  BY <1>10, <2>4, <2>5, <2>6
  <1>16. Sorted(M, match)'
    <2>1. "tftp" \in Sinks \ Elements(D)
      BY <1>3, <1>7
    <2>2. \A t \in Sinks : Score(match'[t]) \in Nat
      BY <1>3, <1>10, <1>13, ScoresKept
    <2>3. match'["tftp"] = m /\ \A t \in Sinks \ {"tftp"} : match'[t] = match[t]
      BY <1>3, <1>13
    <2>4. Sorted(M, match')
      BY <1>7, <1>9, <1>11, <2>1, <2>2, <2>3, SortedIns DEF M
    <2>. QED  BY <2>4 DEF Sorted
  <1>17. \A t \in Sinks : /\ Elements(queue'[t]) \subseteq Elements(queue[t])
                          /\ queue'[t] # <<>> => queue[t] # <<>>
    BY <1>1, <1>3, PoppedLess
  <1>18. Drained(M)'
    <2>1. ASSUME NEW t \in Sinks, queue'[t] # <<>>
          PROVE  \E j \in 1 .. l : M[j] = t /\ \E i \in 1 .. j : at' = M[i]
      <3>1. PICK j \in 1 .. l : L[j] = t /\ \E i \in 1 .. j : at = L[i]
        BY <1>5, <1>17, <2>1
      <3>2. PICK i \in 1 .. j : at = L[i]
        BY <3>1
      <3>3. i \in 1 .. l /\ i = k
        <4>1. i \in 1 .. l
          BY <1>4
        <4>. QED  BY <1>1, <1>4, <1>6, <3>2, <4>1
      <3>4. n + 1 \in 1 .. j /\ n + 1 \in 1 .. l /\ n + 1 \in 1 .. n + 1
        BY <1>4, <1>6, <1>7, <1>11, <1>15, <3>3
      <3>5. at' = M[n + 1]
        BY <1>1, <1>12
      <3>6. CASE j = k
        BY <1>6, <1>12, <3>1, <3>4, <3>5, <3>6
      <3>7. CASE j # k
        <4>1. j - 1 \in n + 1 .. l - 1 /\ j - 1 \in k .. l - 1 /\ (j - 1) + 1 = j
          BY <1>4, <1>6, <1>7, <1>11, <1>15, <3>3, <3>7
        <4>2. M[j] = t
          BY <1>7, <1>12, <3>1, <4>1
        <4>. QED  BY <3>4, <3>5, <4>2
      <3>. QED  BY <3>6, <3>7
    <2>2. pc' # "idle"
      BY <1>1
    <2>. QED  BY <1>12, <2>1, <2>2 DEF Drained
  <1>19. Closest(M)'
    <2>1. ASSUME NEW s \in Sinks, NEW p \in Elements(queue[s]), NEW r \in Elements(L),
                 Fits(match'[r], p)
          PROVE  Score(match'[r]) <= Score(match'[s])
      <3>1. r \in Sinks /\ p \in Traffic
        <4>1. queue[s] \in Seq(Traffic)
          BY <1>3 DEF Queues
        <4>. QED  BY <1>4, <4>1 DEF Elements, l
      <3>2. Score(match'[s]) \in Nat /\ Score(match'[r]) \in Nat
        BY <1>3, <1>10, <1>13, <3>1, ScoresKept
      <3>3. CASE r = s
        BY <3>2, <3>3
      <3>4. CASE r # s /\ r # "tftp" /\ s # "tftp"
        BY <1>3, <1>13, <2>1, <3>1, <3>4 DEF Closest
      <3>5. CASE r # s /\ s = "tftp"
        <4>1. match'[r] = match[r] /\ match'[s] = m
          BY <1>13, <3>1, <3>5
        <4>2. Score(match[r]) < Score(Match["tftp"])
          BY <1>3, <3>1, <3>5, TransferClosest
        <4>3. Score(Match["tftp"]) \in Nat
          BY <1>3, MatchScores
        <4>. QED  BY <1>10, <3>2, <4>1, <4>2, <4>3
      <3>6. CASE r # s /\ r = "tftp"
        <4>1. match[r] = Match[r] /\ Fits(Match["tftp"], p) /\ match'[r] = m
          BY <1>3, <1>10, <1>13, <2>1, <3>1, <3>6 DEF MatchKept, Stricter
        <4>2. Score(match[r]) <= Score(match[s])
          BY <1>3, <3>6, <4>1 DEF Closest
        <4>3. Score(match[s]) < Score(match["tftp"])
          BY <1>3, <3>6, TransferClosest
        <4>4. Score(match[s]) \in Nat /\ Score(match[r]) \in Nat
          BY <1>3, <3>1, ScoresKept
        <4>. QED  BY <3>6, <4>2, <4>3, <4>4
      <3>. QED  BY <3>3, <3>4, <3>5, <3>6
    <2>. QED  BY <1>12, <1>17, <2>1 DEF Closest
  <1>20. Chain(M, head, next)' /\ Elements(M) \in {Sinks, Sinks \ {"tftp"}}
    <2>1. Chain(M, head', next')
      BY <1>1, <1>11 DEF M
    <2>. QED  BY <1>2, <1>12, <2>1 DEF Listing, Chain
  <1>21. Listing(M)'
    <2>1. Elements(M) \in {Sinks, Sinks \ {"tftp"}}
      BY <1>20
    <2>. QED  BY <1>16, <1>18, <1>19, <1>20, <2>1 DEF Listing
  <1>. QED  BY <1>1, <1>3, <1>14, <1>21 DEF ListKept

LEMMA NoneWaiting ==
  ASSUME NEW L, \A s \in Sinks : queue[s] = <<>>
  PROVE  Drained(L) /\ Closest(L)
  <1>1. Elements(<<>>) = {}
    BY DEF Elements
  <1>. QED  BY <1>1 DEF Drained, Closest

\* When net_pump() has ended nothing waits.
LEMMA IdleEmpty ==
  ASSUME ListKept, pc = "idle"
  PROVE  \A s \in Sinks : queue[s] = <<>>
  BY DEF ListKept, Listing, Drained

\* Between two net_pump() the transfer's sink is added and removed.
LEMMA ListTransfer ==
  ASSUME Account, ListKept, BeginTransfer \/ EndTransfer
  PROVE  ListKept'
  <1>1. pc = "idle" /\ pc' = pc /\ at' = at
    BY DEF BeginTransfer, EndTransfer
  <1>2. PICK L : Listing(L)
    BY DEF ListKept
  <1>3. /\ Chain(L, head, next) /\ Sorted(L, match) /\ Elements(L) \in {Sinks, Sinks \ {"tftp"}}
        /\ MatchKept /\ "tftp" \in Sinks /\ at \in Link /\ queue \in Queues
    BY <1>2, NetStackAssumption DEF Listing, ListKept, Account
  <1> DEFINE l == Len(L)
  <1>4. /\ L \in Seq(Sinks) /\ l \in Nat /\ \A i \in 1 .. l : L[i] \in Sinks
        /\ \A i, j \in 1 .. l : L[i] = L[j] => i = j
        /\ Listed(head, next) = Elements(L)
    BY <1>3, ChainFacts, ListedChain
  <1>5. \A s \in Sinks : queue[s] = <<>>
    BY <1>1, IdleEmpty
  <1>6. \A s \in Sinks : queue'[s] = <<>>
    BY <1>3, <1>5 DEF BeginTransfer, EndTransfer, Queues
  <1>7. \A M : Drained(M)' /\ Closest(M)'
    <2>1. Elements(<<>>) = {}
      BY DEF Elements
    <2>. QED  BY <1>6, <2>1 DEF Drained, Closest
  <1>8. CASE BeginTransfer
    <2> DEFINE in == Added(head, next, "tftp", Match["tftp"], match)
    <2>1. /\ head' = in[1] /\ next' = in[2] /\ started' = FALSE
          /\ match' = [match EXCEPT !["tftp"] = Match["tftp"]]
      BY <1>8 DEF BeginTransfer
    <2>2. "tftp" \in Sinks \ Elements(L) /\ Elements(L) = Sinks \ {"tftp"}
      BY <1>3, <1>4, <1>8 DEF BeginTransfer, Transferring
    <2>3. PICK n \in 0 .. l :
            /\ Chain(Ins(L, n, "tftp"), in[1], in[2])
            /\ \A i \in 1 .. n : Score(match[L[i]]) > Score(Match["tftp"])
            /\ \A i \in n + 1 .. l : Score(match[L[i]]) <= Score(Match["tftp"])
      <3>1. \A r \in Sinks : Score(match[r]) \in Nat
        BY <1>3, ScoresKept
      <3>2. Score(Match["tftp"]) \in Nat
        BY <1>3, MatchScores
      <3> HIDE DEF in
      <3>. QED  BY <1>3, <2>2, <3>1, <3>2, AddedChain DEF in
    <2> HIDE DEF in
    <2> DEFINE M == Ins(L, n, "tftp")
    <2>4. \A s \in Sinks : match'[s] = IF s = "tftp" THEN Match["tftp"] ELSE match[s]
      BY <1>3, <2>1 DEF MatchKept
    <2>5. MatchKept'
      <3>1. match' = [s \in Sinks |-> match'[s]]
        BY <1>3, <2>1 DEF MatchKept
      <3>2. \A s \in Sinks \ {"tftp"} : match'[s] = Match[s]
        BY <1>3, <2>4 DEF MatchKept
      <3>3. match'["tftp"] = Match["tftp"] /\ Stricter(match'["tftp"])
        BY <1>3, <2>4, MatchScores
      <3>. QED  BY <3>1, <3>2, <3>3 DEF MatchKept
    <2>6. Sorted(M, match)'
      <3>1. \A t \in Sinks : Score(match'[t]) \in Nat
        BY <1>3, <2>4, ScoresKept, MatchScores
      <3>2. match'["tftp"] = Match["tftp"] /\ \A t \in Sinks \ {"tftp"} : match'[t] = match[t]
        BY <1>3, <2>4
      <3>3. Sorted(M, match')
        BY <1>3, <1>4, <2>2, <2>3, <3>1, <3>2, SortedIns, ZenonT(60)
      <3>. QED  BY <3>3 DEF Sorted
    <2>7. Elements(M) = Sinks
      <3>1. Elements(M) = Elements(L) \cup {"tftp"}
        <4>1. Inserted(L, n, "tftp", M)
          BY <1>3, <1>4, <2>3, InsFacts
        <4> HIDE DEF M
        <4>. QED  BY <4>1 DEF Inserted
      <3> HIDE DEF M
      <3>. QED  BY <1>3, <2>2, <3>1
    <2>8. Chain(M, head, next)'
      <3>1. Chain(M, head', next')
        BY <2>1, <2>3
      <3>. QED  BY <3>1 DEF Chain
    <2> HIDE DEF M
    <2>9. Listing(M)'
      BY <1>7, <2>6, <2>7, <2>8 DEF Listing
    <2>. QED  BY <1>1, <1>3, <2>5, <2>9 DEF ListKept
  <1>9. CASE EndTransfer
    <2> DEFINE out == Removed(head, next, "tftp")
    <2>1. head' = out[1] /\ next' = out[2] /\ match' = match /\ started' = started
      BY <1>9 DEF EndTransfer
    <2>2. PICK k \in 1 .. l : L[k] = "tftp"
      BY <1>4, <1>9 DEF EndTransfer, Transferring, Elements
    <2> DEFINE D == Del(L, k)
    <2>3. Chain(D, head', next') /\ Sorted(D, match')
      BY <1>3, <2>1, <2>2, RemovedChain, SortedDel
    <2>4. Elements(D) = Sinks \ {"tftp"}
      <3>1. Elements(D) = Elements(L) \ {"tftp"}
        BY <1>4, <2>2, DelFacts DEF Deleted
      <3> HIDE DEF D
      <3>. QED  BY <1>3, <3>1
    <2>5. MatchKept'
      BY <1>3, <2>1, MatchStays
    <2> HIDE DEF D
    <2>6. Chain(D, head, next)' /\ Sorted(D, match)'
      BY <2>3 DEF Chain, Sorted
    <2>7. Listing(D)'
      BY <1>7, <2>4, <2>6 DEF Listing
    <2>. QED  BY <1>1, <1>3, <2>5, <2>7 DEF ListKept
  <1>. QED  BY <1>8, <1>9

LEMMA ListStep ==
  ASSUME Account, ListKept, [Next]_vars
  PROVE  ListKept'
  <1>1. at \in Link /\ "tftp" \in Sinks
    BY NetStackAssumption DEF ListKept
  <1>2. CASE \/ Transmitted \/ DhcpTimerExpires \/ TftpTimerExpires \/ ThrottleExpires
             \/ UNCHANGED vars
    <2>1. UNCHANGED <<list, match, queue, started, pc, at>>
      BY <1>2 DEF Transmitted, DhcpTimerExpires, TftpTimerExpires, ThrottleExpires, vars
    <2>. QED  BY <2>1, ListQuiet
  <1>3. CASE ResolverPump \/ EthPull \/ WalkOn
    <2>1. UNCHANGED <<list, match, queue, started>>
      BY <1>3 DEF ResolverPump, EthPull, WalkOn
    <2>. QED  BY <1>3, <2>1, ListQuiet
  <1>4. ASSUME NEW p \in Traffic, EthPush(p) PROVE ListKept'
    BY <1>4, ListEthPush
  <1>5. CASE ArpReceived \/ DhcpReceived \/ EchoReceived \/ UnwantedReceived
    <2>1. PICK s \in {"arp", "dhcp", "icmp", "unwanted"} : Called(s) /\ Popped(s)
      BY <1>5 DEF ArpReceived, DhcpReceived, EchoReceived, UnwantedReceived
    <2>2. s \in Sinks
      BY <1>1, <2>1 DEF Called, Link, Null
    <2>3. UNCHANGED <<list, match, pc, at>> /\ started' = started
      BY <1>5 DEF ArpReceived, DhcpReceived, EchoReceived, UnwantedReceived
    <2>. QED  BY <2>1, <2>2, <2>3, ListPopped
  <1>6. CASE BlockKept \/ BlockFreed \/ AckReceived
    <2>3. TftpReceived
      BY <1>6 DEF BlockKept, BlockFreed, AckReceived
    <2>1. CASE started
      <3>1. Called("tftp") /\ Popped("tftp") /\ UNCHANGED <<list, match, pc, at>> /\ started' = TRUE
        BY <2>1, <2>3 DEF TftpReceived
      <3>. QED  BY <1>1, <3>1, ListPopped
    <2>2. CASE ~started
      BY <2>2, <2>3, ListLockOn
    <2>. QED  BY <2>1, <2>2
  <1>7. CASE BeginTransfer \/ EndTransfer
    BY <1>7, ListTransfer
  <1>. QED  BY <1>2, <1>3, <1>4, <1>5, <1>6, <1>7 DEF Next, Step

LEMMA AddedPair ==
  ASSUME NEW h, NEW nx, NEW s, NEW m, NEW ms
  PROVE  LET a == Added(h, nx, s, m, ms) IN a = <<a[1], a[2]>>
  BY DEF Added

\* The sinks are added to an empty list one after the other.
LEMMA ListInit ==
  ASSUME Init
  PROVE  ListKept
  <1> DEFINE N == Len(Order)
             T == Link \X [Sinks -> Link]
             empty == <<Null, [s \in Sinks |-> Null]>>
             A(n, x) == Added(x[1], x[2], Order[n], Match[Order[n]], Match)
             step == [n \in 1 .. N |-> [x \in T |-> IF A(n, x) \in T THEN A(n, x) ELSE x]]
             Rule(f) == [n \in 0 .. N |-> IF n = 0 THEN empty
                          ELSE Added(f[n - 1][1], f[n - 1][2], Order[n], Match[Order[n]], Match)]
             f == CHOOSE e : e = Rule(e)
             First(n) == {Order[i] : i \in 1 .. n}
  <1>1. /\ N \in Nat /\ \A i \in 1 .. N : Order[i] \in Sinks \ {"tftp"}
        /\ \A i, j \in 1 .. N : Order[i] = Order[j] => i = j
        /\ \A s \in Sinks \ {"tftp"} : \E i \in 1 .. N : Order[i] = s
    BY NetStackAssumption
  <1>2. empty \in T
    BY DEF Link
  <1> HIDE DEF N, T, empty, A
  <1>3. step \in [1 .. N -> [T -> T]]
    OBVIOUS
  <1>4. PICK g \in [0 .. N -> T] : g[0] = empty /\ \A n \in 1 .. N : g[n] = step[n][g[n - 1]]
    <2> HIDE DEF step
    <2>. QED  BY <1>1, <1>2, <1>3, Recursion
  <1>5. \A n \in 1 .. N : g[n] = IF A(n, g[n - 1]) \in T THEN A(n, g[n - 1]) ELSE g[n - 1]
    <2>1. ASSUME NEW n \in 1 .. N PROVE g[n - 1] \in T
      <3>1. n - 1 \in 0 .. N
        BY <1>1
      <3>. QED  BY <1>4, <3>1
    <2>. QED  BY <1>4, <2>1
  <1> HIDE DEF step
  <1> DEFINE Whole(n) == \E L : /\ Chain(L, g[n][1], g[n][2])
                                /\ Elements(L) = First(n)
                                /\ Sorted(L, Match)
             D == {n \in Nat : n <= N => Whole(n) /\ (n # 0 => g[n] = A(n, g[n - 1]))}
  <1>6. 0 \in D
    <2>1. g[0][1] = Null /\ g[0][2] = [s \in Sinks |-> Null]
      BY <1>4 DEF empty
    <2>2. Len(<<>>) = 0 /\ <<>> \in Seq(Sinks) /\ Elements(<<>>) = {} /\ First(0) = {}
      BY DEF Elements
    <2>3. Chain(<<>>, g[0][1], g[0][2])
      BY <2>1, <2>2 DEF Chain, Link
    <2>4. Sorted(<<>>, Match)
      BY <2>2 DEF Sorted
    <2> HIDE DEF First
    <2>5. Whole(0)
      BY <2>2, <2>3, <2>4
    <2> HIDE DEF Whole
    <2>. QED  BY <2>5
  <1>7. ASSUME NEW n \in Nat, n \in D PROVE n + 1 \in D
    <2>1. SUFFICES ASSUME n + 1 <= N
                   PROVE  Whole(n + 1) /\ g[n + 1] = A(n + 1, g[n])
      <3>1. (n + 1) - 1 = n /\ n + 1 \in Nat
        OBVIOUS
      <3> HIDE DEF Whole
      <3>. QED  BY <2>1, <3>1
    <2>2. /\ n + 1 \in 1 .. N /\ (n + 1) - 1 = n /\ n <= N
          /\ \A i \in 1 .. n : i \in 1 .. N /\ i # n + 1 /\ i \in 1 .. n + 1
          /\ \A i \in 1 .. n + 1 : i # n + 1 => i \in 1 .. n
          /\ n + 1 \in 1 .. n + 1
      <3>1. N \in Nat /\ n \in Nat /\ n + 1 <= N
        BY <1>1, <2>1
      <3>. QED  BY <3>1
    <2>3. PICK L : /\ Chain(L, g[n][1], g[n][2])
                   /\ Elements(L) = First(n)
                   /\ Sorted(L, Match)
      BY <1>7, <2>2
    <2> DEFINE s == Order[n + 1]
               a == A(n + 1, g[n])
    <2>4. s \in Sinks \ Elements(L)
      BY <1>1, <2>2, <2>3
    <2>5. First(n + 1) = First(n) \cup {s}
      BY <2>2
    <2>6. a = Added(g[n][1], g[n][2], s, Match[s], Match)
      BY DEF A
    <2> HIDE DEF s, a, First
    <2>7. PICK k \in 0 .. Len(L) :
            /\ Chain(Ins(L, k, s), a[1], a[2])
            /\ \A i \in 1 .. k : Score(Match[L[i]]) > Score(Match[s])
            /\ \A i \in k + 1 .. Len(L) : Score(Match[L[i]]) <= Score(Match[s])
      <3>1. Score(Match[s]) \in Nat /\ \A r \in Sinks : Score(Match[r]) \in Nat
        BY <2>4, MatchScores
      <3>. QED  BY <2>3, <2>4, <2>6, <3>1, AddedChain
    <2> DEFINE M == Ins(L, k, s)
    <2>8. L \in Seq(Sinks)
      BY <2>3, ChainFacts
    <2>9. Elements(M) = First(n + 1)
      <3>1. Inserted(L, k, s, M)
        BY <2>4, <2>7, <2>8, InsFacts
      <3> HIDE DEF M
      <3>. QED  BY <2>3, <2>5, <3>1 DEF Inserted
    <2>10. Sorted(M, Match)
      BY <2>3, <2>4, <2>7, <2>8, MatchScores, SortedIns
    <2> HIDE DEF M
    <2>11. Chain(M, a[1], a[2])
      BY <2>7 DEF M
    <2>12. a = <<a[1], a[2]>>
      BY <2>6, AddedPair
    <2>13. a \in T
      <3>1. a[1] \in Link /\ a[2] \in [Sinks -> Link]
        BY <2>11, ChainFacts
      <3>. QED  BY <2>12, <3>1 DEF T
    <2>14. g[n + 1] = a
      <3>1. g[n + 1] = IF A(n + 1, g[n]) \in T THEN A(n + 1, g[n]) ELSE g[n]
        BY <1>5, <2>2
      <3>. QED  BY <2>13, <3>1 DEF a
    <2>15. Whole(n + 1)
      BY <2>9, <2>10, <2>11, <2>14
    <2>. QED  BY <2>14, <2>15 DEF a
  <1>8. \A n \in 0 .. N : Whole(n) /\ (n # 0 => g[n] = A(n, g[n - 1]))
    <2> HIDE DEF D, Whole
    <2>1. Nat \subseteq D
      BY <1>6, <1>7, Induction
    <2>. QED  BY <1>1, <2>1 DEF D
  <1>9. g = Rule(g)
    <2>1. ASSUME NEW n \in 0 .. N PROVE g[n] = Rule(g)[n]
      <3>1. CASE n = 0
        BY <1>1, <1>4, <3>1
      <3>2. CASE n # 0
        <4>1. g[n] = A(n, g[n - 1])
          <5> HIDE DEF Whole
          <5>. QED  BY <1>8, <3>2
        <4>. QED  BY <3>2, <4>1 DEF A
      <3>. QED  BY <3>1, <3>2
    <2>2. Rule(g) = [n \in 0 .. N |-> Rule(g)[n]]
      OBVIOUS
    <2> HIDE DEF Rule
    <2>. QED  BY <1>4, <2>1, <2>2
  <1>10. f = Rule(f)
    <2> HIDE DEF Rule
    <2>. QED  BY <1>9
  <1>11. head = f[N][1] /\ next = f[N][2]
    BY DEF Init, N, empty
  <1> HIDE DEF f, Whole, D
  <1>12. f[0] = g[0]
    <2>1. f[0] = empty
      BY <1>1, <1>10
    <2>. QED  BY <1>4, <2>1
  <1>13. ASSUME NEW n \in 1 .. N, f[n - 1] = g[n - 1] PROVE f[n] = g[n]
    <2>1. n \in 0 .. N /\ n # 0
      BY <1>1
    <2>2. f[n] = A(n, f[n - 1])
      <3>1. Rule(f)[n] = Added(f[n - 1][1], f[n - 1][2], Order[n], Match[Order[n]], Match)
        BY <2>1, Zenon
      <3> HIDE DEF Rule
      <3>. QED  BY <1>10, <3>1 DEF A
    <2>. QED  BY <1>8, <1>13, <2>1, <2>2
  <1>14. f[N] = g[N]
    <2> DEFINE S == {n \in Nat : n <= N => f[n] = g[n]}
    <2>1. 0 \in S
      BY <1>12
    <2>2. ASSUME NEW n \in Nat, n \in S PROVE n + 1 \in S
      <3>1. SUFFICES ASSUME n + 1 <= N PROVE f[n + 1] = g[n + 1]
        OBVIOUS
      <3>2. n + 1 \in 1 .. N /\ (n + 1) - 1 = n /\ f[n] = g[n]
        BY <1>1, <2>2, <3>1
      <3> HIDE DEF Rule
      <3>. QED  BY <1>13, <3>2
    <2> HIDE DEF S
    <2>3. Nat \subseteq S
      BY <2>1, <2>2, Induction
    <2>. QED  BY <1>1, <2>3 DEF S
  <1>15. PICK L : /\ Chain(L, head, next)
                  /\ Elements(L) = First(N)
                  /\ Sorted(L, Match)
    <2>1. Whole(N)
      BY <1>1, <1>8
    <2>. QED  BY <1>11, <1>14, <2>1 DEF Whole
  <1>16. First(N) = Sinks \ {"tftp"}
    BY <1>1
  <1>17. match = Match /\ at = Null /\ \A s \in Sinks : queue[s] = <<>>
    BY DEF Init
  <1>18. MatchKept
    BY <1>17, MatchScores, NetStackAssumption DEF MatchKept
  <1>19. Listing(L)
    <2>1. Drained(L) /\ Closest(L)
      BY <1>17, NoneWaiting
    <2>. QED  BY <1>15, <1>16, <1>17, <2>1 DEF Listing
  <1>. QED  BY <1>17, <1>18, <1>19 DEF ListKept, Link
-----------------------------------------------------------------------------
(***************************************************************************)
(* The inductive invariant, and what follows.                              *)
(***************************************************************************)
Inv == Account /\ ListKept

LEMMA InvInit ==
  ASSUME Init
  PROVE  Inv
  <1>1. /\ queue = [s \in Sinks |-> <<>>] /\ kept = 0 /\ pc = "idle"
        /\ tx = [card |-> 0, queued |-> 0, waiting |-> 0, alive |-> 0]
    BY DEF Init
  <1>2. tx \in Buffers /\ Filled(tx) /\ Held(tx) = 0
    BY <1>1 DEF Buffers, Filled, Held
  <1>3. Account
    BY <1>1, <1>2, NoneReceived DEF Account
  <1>. QED  BY <1>3, ListInit DEF Inv

LEMMA InvStep ==
  ASSUME Inv, [Next]_vars
  PROVE  Inv'
  <1>1. head \in Link /\ next \in [Sinks -> Link] /\ at \in Link
    BY ChainFacts DEF Inv, ListKept, Listing
  <1>. QED  BY <1>1, AccountStep, ListStep DEF Inv

\* The packets of every net_pump() are accounted for, and the list of sinks is sorted by
\* the number of fields they match; no packet waits for a sink that the walk has passed.
THEOREM Invariance == Spec => []Inv
  <1>1. Init => Inv
    BY InvInit
  <1>2. Inv /\ [Next]_vars => Inv'
    BY InvStep
  <1>. QED  BY <1>1, <1>2, PTL DEF Spec

\* eth_pump() fills the card from net_txqueue before net_pump() walks the list, and ToCard()
\* is how net_tx() decides: so no packet that is sent overtakes those that wait.
THEOREM NetNoOvertaking == Spec => []NoOvertaking
  <1>1. Inv => NoOvertaking
    BY DEF Inv, Account, Filled, NoOvertaking
  <1>. QED  BY <1>1, Invariance, PTL

\* packet_alive_count is the number of packets that a queue, the transfer or the resolver
\* still has: no callback loses a packet, frees it twice or keeps one it has sent.
THEOREM NetPacketsOwned == Spec => []PacketsOwned
  <1>1. ASSUME Account PROVE PacketsOwned
    <2> DEFINE a == tx.alive
               q == tx.queued
               w == tx.waiting
               k == kept
               r == Received(queue)
    <2>1. a \in Int /\ q \in Nat /\ w \in Nat /\ k \in Nat /\ r \in Nat /\ a - q - w = k + r
      BY <1>1, ReceivedNat DEF Account, Buffers, Held
    <2>2. PacketsOwned <=> a = q + w + k + r
      BY DEF PacketsOwned
    <2> HIDE DEF a, q, w, k, r
    <2>. QED  BY <2>1, <2>2
  <1>. QED  BY <1>1, Invariance, PTL DEF Inv

\* A net_pump() leaves nothing in the queues of the sinks, though tftp_client_packet_received()
\* removes its sink from the list and adds it again while net_pump() stands on it.
THEOREM NetPumpDrains == Spec => []PumpDrains
  <1>1. Inv => PumpDrains
    BY IdleEmpty DEF Inv, PumpDrains
  <1>. QED  BY <1>1, Invariance, PTL

\* net_add_packet_sink() and net_remove_packet_sink() keep the list whole and sorted, so the
\* first sink that net_eth_push() finds is the one that matches most fields; a sink that
\* gets a field more, or an address, does not change that for packets given before.
THEOREM NetMostSpecific == Spec => []MostSpecific
  <1>1. ASSUME Account, ListKept PROVE MostSpecific
    <2>1. PICK L : Listing(L)
      BY <1>1 DEF ListKept
    <2>2. /\ Chain(L, head, next) /\ Closest(L) /\ queue \in Queues
          /\ Elements(L) \in {Sinks, Sinks \ {"tftp"}} /\ Listed(head, next) = Elements(L)
      BY <1>1, <2>1, ListedChain DEF Listing, Account
    <2>3. ListWhole
      <3>1. \E s \in Sinks : s # "tftp"
        BY NetStackAssumption
      <3>2. Len(L) \in Nat /\ Len(L) # 0
        <4>1. Elements(L) # {}
          BY <2>2, <3>1
        <4>2. Len(L) \in Nat
          BY <2>2, ChainFacts
        <4>. QED  BY <4>1, <4>2 DEF Elements
      <3>3. Len(L) \in 1 .. Len(L)
        BY <3>2
      <3>4. next[L[Len(L)]] = Null /\ L[Len(L)] \in Elements(L)
        BY <2>2, <3>3 DEF Chain, Elements
      <3>5. \A s \in Sinks \ Elements(L) : next[s] = Null
        BY <2>2 DEF Chain
      <3>. QED  BY <2>2, <3>4, <3>5 DEF ListWhole
    <2>4. ASSUME NEW s \in Sinks, NEW i \in 1 .. Len(queue[s]), NEW r \in Listed(head, next),
                 Matches(r, queue[s][i])
          PROVE  Score(match[r]) <= Score(match[s])
      <3>1. queue[s][i] \in Elements(queue[s])
        BY DEF Elements
      <3>2. Fits(match[r], queue[s][i])
        BY <2>4 DEF Matches
      <3>. QED  BY <2>2, <3>1, <3>2 DEF Closest
    <2>. QED  BY <2>3, <2>4 DEF MostSpecific
  <1>. QED  BY <1>1, Invariance, PTL DEF Inv
=============================================================================
