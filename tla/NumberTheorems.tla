--------------------------- MODULE NumberTheorems ----------------------------
(***************************************************************************)
(* Facts about natural numbers that the proofs share: induction and        *)
(* recursion, quotients and remainders, and numbers that wrap.             *)
(***************************************************************************)
EXTENDS Integers, WellFoundedInduction, TLAPS

\* Every set of natural numbers that is not empty has a least element.
LEMMA SmallestExists ==
  ASSUME NEW S, S \subseteq Nat, S # {}
  PROVE  \E m \in S : \A j \in S : m <= j
  <1> DEFINE Less == {p \in Nat \X Nat : p[1] < p[2]}
  <1>1. IsWellFoundedOn(Less, Nat)
    <2>1. OpToRel(<, Nat) = Less
      BY Zenon DEF OpToRel
    <2>2. QED
      BY <2>1, NatLessThanWellFounded, Zenon
  <1>2. PICK m \in S : \A n \in S : ~ (<<n, m>> \in Less)
    <2> HIDE DEF Less
    <2>1. QED
      BY <1>1, WFMin
  <1>3. ASSUME NEW n \in S
        PROVE  m <= n
    <2> DEFINE p == <<n, m>>
    <2>1. p[1] = n /\ p[2] = m /\ p \in Nat \X Nat
      OBVIOUS
    <2>2. ~ (p \in Less)
      BY <1>2
    <2> HIDE DEF p
    <2>3. ~ (p[1] < p[2])
      BY <2>1, <2>2
    <2>4. QED
      BY <2>1, <2>3
  <1>4. QED
    BY <1>2, <1>3

\* What holds of 0, and of n + 1 if it does of n, holds of all natural numbers.
LEMMA Induction ==
  ASSUME NEW S, 0 \in S, \A n \in Nat : n \in S => n + 1 \in S
  PROVE  Nat \subseteq S
  <1> DEFINE T == Nat \ S
  <1>1. SUFFICES ASSUME T # {} PROVE FALSE
    OBVIOUS
  <1>2. PICK m \in T : \A j \in T : m <= j
    <2> HIDE DEF T
    <2>1. T \subseteq Nat
      BY DEF T
    <2>2. QED
      BY <1>1, <2>1, SmallestExists
  <1>3. m \in Nat /\ m # 0 /\ m - 1 \in Nat /\ m - 1 \notin T
    BY <1>2
  <1>4. m \in S
    <2>1. (m - 1) + 1 = m
      BY <1>3
    <2>2. QED
      BY <1>3, <2>1
  <1>5. QED
    BY <1>2, <1>4

\* A function can be defined by a first value and a step.
LEMMA Recursion ==
  ASSUME NEW S, NEW s \in S, NEW N \in Nat, NEW step \in [1 .. N -> [S -> S]]
  PROVE  \E f \in [0 .. N -> S] : f[0] = s /\ \A n \in 1 .. N : f[n] = step[n][f[n - 1]]
  <1> DEFINE Upto(n, f) == f[0] = s /\ \A i \in 1 .. n : f[i] = step[i][f[i - 1]]
             D == {n \in Nat : n <= N => \E f \in [0 .. n -> S] : Upto(n, f)}
  <1>1. 0 \in D
    <2>1. [i \in 0 .. 0 |-> s] \in [0 .. 0 -> S] /\ Upto(0, [i \in 0 .. 0 |-> s])
      OBVIOUS
    <2>2. QED
      BY <2>1
  <1>2. ASSUME NEW n \in Nat, n \in D
        PROVE  n + 1 \in D
    <2>1. SUFFICES ASSUME n + 1 <= N
                   PROVE  \E f \in [0 .. n + 1 -> S] : Upto(n + 1, f)
      OBVIOUS
    <2>2. PICK f \in [0 .. n -> S] : Upto(n, f)
      BY <1>2, <2>1
    <2> DEFINE g == [i \in 0 .. n + 1 |-> IF i = n + 1 THEN step[n + 1][f[n]] ELSE f[i]]
    <2>3. step[n + 1][f[n]] \in S
      BY <2>1, <2>2
    <2>4. g \in [0 .. n + 1 -> S]
      BY <2>2, <2>3
    <2>5. g[0] = s
      BY <2>2
    <2>6. ASSUME NEW i \in 1 .. n + 1
          PROVE  g[i] = step[i][g[i - 1]]
      <3>1. g[i - 1] = f[i - 1]
        OBVIOUS
      <3>2. CASE i = n + 1
        BY <3>1, <3>2
      <3>3. CASE i # n + 1
        <4>1. i \in 1 .. n
          BY <3>3
        <4>2. g[i] = f[i]
          BY <3>3, <4>1
        <4>3. QED
          BY <2>2, <3>1, <4>1, <4>2
      <3>4. QED
        BY <3>2, <3>3
    <2>7. QED
      BY <2>4, <2>5, <2>6
  <1>3. N \in D
    <2> HIDE DEF D
    <2>1. QED
      BY <1>1, <1>2, Induction
  <1>4. QED
    BY <1>3

-----------------------------------------------------------------------------
\* Quotient and remainder.
LEMMA Parts ==
  ASSUME NEW c \in Nat \ {0}, NEW a \in Nat
  PROVE  /\ a \div c \in Nat
         /\ a % c \in 0 .. c - 1
         /\ a = c * (a \div c) + (a % c)
  <1>1. a \div c \in Nat
    BY SMTT(30)
  <1>2. a % c \in 0 .. c - 1
    BY SMTT(30)
  <1>3. a = c * (a \div c) + (a % c)
    BY SMTT(30)
  <1>. QED  BY <1>1, <1>2, <1>3

LEMMA Multiple ==
  ASSUME NEW c \in Nat \ {0}, NEW q \in Int
  PROVE  /\ q <= -1 => c * q <= -c
         /\ q >= 1 => c * q >= c
         /\ c * q \in Int
  OBVIOUS

\* A number has one quotient and one remainder only.
LEMMA PartsUnique ==
  ASSUME NEW c \in Nat \ {0}, NEW a \in Nat, NEW q \in Nat, NEW r \in 0 .. c - 1,
         a = c * q + r
  PROVE  a % c = r
  <1> DEFINE p == a \div c
             s == a % c
  <1>1. p \in Nat /\ s \in 0 .. c - 1 /\ a = c * p + s
    BY Parts
  <1> HIDE DEF p, s
  <1>2. c * (p - q) = c * p - c * q /\ c * p \in Int /\ c * q \in Int
    BY <1>1
  <1>3. c * (p - q) = r - s
    BY <1>1, <1>2
  <1>4. p - q \in Int /\ ~(p - q <= -1) /\ ~(p - q >= 1)
    BY <1>1, <1>3, Multiple
  <1>5. p - q = 0
    BY <1>4
  <1>6. c * (p - q) = 0
    BY <1>5
  <1>7. s = r
    BY <1>1, <1>3, <1>6
  <1>. QED  BY <1>7 DEF s

LEMMA SmallRemainder ==
  ASSUME NEW c \in Nat \ {0}, NEW a \in 0 .. c - 1
  PROVE  a % c = a
  <1>1. a = c * 0 + a /\ a \in Nat
    OBVIOUS
  <1>. QED  BY <1>1, PartsUnique

LEMMA RemainderStep ==
  ASSUME NEW c \in Nat \ {0}, NEW a \in Nat, NEW n \in 0 .. c
  PROVE  (a + n) % c = IF (a % c) + n < c THEN (a % c) + n ELSE (a % c) + n - c
  <1> DEFINE q == a \div c
             r == a % c
             b == a + n
  <1>1. q \in Nat /\ r \in 0 .. c - 1 /\ a = c * q + r
    BY Parts
  <1>2. b \in Nat /\ b = a + n
    OBVIOUS
  <1> HIDE DEF q, r, b
  <1>3. c * (q + 1) = c * q + c /\ c * q \in Nat
    BY <1>1
  <1>4. CASE r + n < c
    <2>1. b = c * q + (r + n) /\ r + n \in 0 .. c - 1
      BY <1>1, <1>2, <1>3, <1>4
    <2>2. b % c = r + n
      BY <1>1, <1>2, <2>1, PartsUnique
    <2>. QED  BY <1>4, <2>2 DEF b, r
  <1>5. CASE ~(r + n < c)
    <2>1. b = c * (q + 1) + (r + n - c) /\ r + n - c \in 0 .. c - 1 /\ q + 1 \in Nat
      BY <1>1, <1>2, <1>3, <1>5
    <2>2. b % c = r + n - c
      BY <1>2, <2>1, PartsUnique
    <2>. QED  BY <1>5, <2>2 DEF b, r
  <1>. QED  BY <1>4, <1>5

-----------------------------------------------------------------------------
(***************************************************************************)
(* Numbers that wrap, as those of blocks do in net/tftp.c: i is counted    *)
(* modulo m, and after m - 1 comes r.                                      *)
(***************************************************************************)
Wrapped(i, m, r) == IF i < m THEN i ELSE ((i - m) % (m - r)) + r

LEMMA WrappedParts ==
  ASSUME NEW m \in Nat, NEW r \in Nat, r < m, NEW i \in Nat, i >= m
  PROVE  \E q \in Nat, b \in 0 .. (m - r) - 1 :
           i - m = (m - r) * q + b /\ Wrapped(i, m, r) = b + r
  <1> DEFINE a == i - m
             c == m - r
  <1>1. a \in Nat /\ c \in Nat \ {0}
    OBVIOUS
  <1>2. a \div c \in Nat /\ a % c \in 0 .. c - 1 /\ a = c * (a \div c) + (a % c)
    <2> HIDE DEF a, c
    <2>. QED  BY <1>1, Parts
  <1>3. Wrapped(i, m, r) = (a % c) + r
    BY DEF Wrapped
  <1>. QED  BY <1>2, <1>3

LEMMA WrappedType ==
  ASSUME NEW m \in Nat, NEW r \in Nat, r < m, NEW i \in Nat
  PROVE  Wrapped(i, m, r) \in Nat /\ Wrapped(i, m, r) < m
  <1>1. CASE i < m
    BY <1>1 DEF Wrapped
  <1>2. CASE ~(i < m)
    <2>0. i >= m
      BY <1>2
    <2>1. PICK q \in Nat, b \in 0 .. (m - r) - 1 :
            i - m = (m - r) * q + b /\ Wrapped(i, m, r) = b + r
      BY <2>0, WrappedParts, ZenonT(60)
    <2>. QED  BY <2>1
  <1>. QED  BY <1>1, <1>2

LEMMA WrappedOnce ==
  ASSUME NEW m \in Nat, NEW r \in Nat, r < m, NEW a \in Nat, NEW b \in Nat,
         a < b, b - a < m - r
  PROVE  Wrapped(a, m, r) # Wrapped(b, m, r)
  <1>0. SUFFICES ASSUME Wrapped(a, m, r) = Wrapped(b, m, r), b >= m
                 PROVE  FALSE
    BY DEF Wrapped
  <1>1. b >= m => \E q \in Nat, d \in 0 .. (m - r) - 1 :
          b - m = (m - r) * q + d /\ Wrapped(b, m, r) = d + r
    BY WrappedParts, ZenonT(60)
  <1>2. a >= m => \E p \in Nat, e \in 0 .. (m - r) - 1 :
          a - m = (m - r) * p + e /\ Wrapped(a, m, r) = e + r
    BY WrappedParts, ZenonT(60)
  <1> DEFINE c == m - r
  <1>3. c \in Nat \ {0} /\ m = c + r /\ b - a < c
    OBVIOUS
  <1>4. PICK q \in Nat, d \in 0 .. c - 1 : b - m = c * q + d /\ Wrapped(b, m, r) = d + r
    BY <1>0, <1>1
  <1>5. CASE a < m
    <2> HIDE DEF c
    <2>1. Wrapped(a, m, r) = a
      BY <1>5 DEF Wrapped
    <2>2. c * q >= 0 /\ c * q \in Int
      BY <1>3
    <2>. QED  BY <1>0, <1>3, <1>4, <2>1, <2>2
  <1>6. CASE ~(a < m)
    <2>1. PICK p \in Nat, e \in 0 .. c - 1 : a - m = c * p + e /\ Wrapped(a, m, r) = e + r
      BY <1>2, <1>6
    <2> HIDE DEF c
    <2>2. d = e
      BY <1>0, <1>3, <1>4, <2>1
    <2>3. c * (q - p) = c * q - c * p /\ c * q \in Int /\ c * p \in Int
      BY <1>3
    <2>4. b - a = c * (q - p)
      BY <1>4, <2>1, <2>2, <2>3
    <2>5. ~(q - p >= 1) /\ ~(q - p <= -1)
      BY <1>3, <2>4, Multiple
    <2>6. c * (q - p) = 0
      BY <1>3, <2>5
    <2>. QED  BY <2>4, <2>6
  <1>. QED  BY <1>5, <1>6

\* Numbers that are equal once wrapped are equal, or at least m - r apart.
LEMMA SameWrapped ==
  ASSUME NEW m \in Nat, NEW r \in Nat, r < m, NEW i \in Nat, NEW j \in Nat,
         Wrapped(i, m, r) = Wrapped(j, m, r),
         j - i < m - r, i - j < m - r
  PROVE  i = j
  <1>1. ~(i < j) /\ ~(j < i)
    BY WrappedOnce
  <1>. QED  BY <1>1

\* Counting on by less than m - r: the sum, or as much beyond m as there is, and r.
LEMMA WrappedSum ==
  ASSUME NEW m \in Nat, NEW r \in Nat, r < m, NEW i \in Nat, NEW n \in Nat, n < m - r
  PROVE  Wrapped(i + n, m, r) = IF Wrapped(i, m, r) + n < m THEN Wrapped(i, m, r) + n
                                ELSE Wrapped(i, m, r) + n - m + r
  <1> DEFINE c == m - r
  <1>0. c \in Nat \ {0} /\ c = m - r /\ m = c + r /\ n \in 0 .. c
    OBVIOUS
  <1>1. CASE i + n < m
    BY <1>1 DEF Wrapped
  <1>2. CASE i < m /\ ~(i + n < m)
    <2>1. (i + n) - m \in 0 .. c - 1
      BY <1>2
    <2> DEFINE d == (i + n) - m
    <2>2. d % c = d
      <3>1. d \in 0 .. c - 1
        BY <2>1
      <3> HIDE DEF c, d
      <3>. QED  BY <1>0, <3>1, SmallRemainder
    <2>3. Wrapped(i + n, m, r) = (d % c) + r
      BY <1>2 DEF Wrapped
    <2>4. Wrapped(i, m, r) = i
      BY <1>2 DEF Wrapped
    <2>. QED  BY <1>2, <2>2, <2>3, <2>4
  <1>3. CASE ~(i < m)
    <2> DEFINE a == i - m
               d == (i + n) - m
               w == a % c
               v == d % c
    <2>1. a \in Nat /\ d = a + n
      BY <1>3
    <2>2. Wrapped(i, m, r) = w + r
      BY <1>3 DEF Wrapped
    <2>3. Wrapped(i + n, m, r) = v + r
      BY <1>3 DEF Wrapped
    <2>4. v = (a + n) % c
      <3> HIDE DEF c, a
      <3>. QED  BY <2>1, Zenon
    <2>5. v = IF w + n < c THEN w + n ELSE w + n - c
      <3> HIDE DEF c, a, v
      <3>. QED  BY <1>0, <2>1, <2>4, RemainderStep
    <2>6. w \in 0 .. c - 1
      <3> HIDE DEF c, a
      <3>. QED  BY <1>0, <2>1, Parts
    <2> HIDE DEF c, a, d, w, v
    <2>. QED  BY <1>0, <2>2, <2>3, <2>5, <2>6
  <1>. QED  BY <1>1, <1>2, <1>3
=============================================================================
