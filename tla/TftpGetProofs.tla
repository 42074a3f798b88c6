---------------------------- MODULE TftpGetProofs ----------------------------
(***************************************************************************)
(* Receiving a file, for every size of the file, the windows, the wire     *)
(* numbers and the disk: blocks are taken once and in order, the server    *)
(* never gets ahead of the client, and the transfer keeps its promise.     *)
(*                                                                         *)
(* The argument: client and server never disagree on which block a number  *)
(* stands for (Numbered), because the blocks that can be under way are less *)
(* than a period apart (Windows); so what is queued and written is in      *)
(* order (Data), and while no write failed the disk has all of it (Flags). *)
(***************************************************************************)
EXTENDS TftpGet, NumberTheorems, SequenceTheorems

-----------------------------------------------------------------------------
Types ==
  /\ completed \in BOOLEAN /\ success \in BOOLEAN /\ diskBroken \in BOOLEAN
  /\ started \in BOOLEAN
  /\ queue \in Seq(Nat) /\ transferred \in Nat
  /\ disk \in Seq(Nat)
  /\ session \in Sessions \cup {NoSession}
  /\ base \in Nat /\ sent \in Nat

\* Client and server agree on the number after the highest one: before the server
\* has answered, and from the first block or acknowledgement on.
Agreed ==
  /\ rollover \in Rollovers
  /\ started \/ failing \/ sent > 0 \/ acks # {} => session # NoSession
  /\ session = NoSession \/ (started /\ ~completed) \/ sent > 0 \/ acks # {}
       => rollover = session.rollover

\* The numbers that the client goes by, and that it sends.
Numbered ==
  /\ lastBlock = WireNumber(Accepted, rollover)
  /\ \A a \in acks : /\ a.index \in 0 .. Accepted
                      /\ a.num = WireNumber(a.index, rollover)

\* The server's window and the client are less than a window apart.
Windows ==
  /\ base <= Accepted /\ Accepted <= sent /\ sent <= Size
  /\ sent <= base + session.window

\* Once the disk is full or fails, nothing more gets there.
Data ==
  /\ InOrder
  /\ Len(disk) <= transferred /\ Len(disk) <= Space
  /\ Len(disk) = transferred \/ Len(disk) = Space \/ diskBroken

GetInv == Types /\ Agreed /\ Numbered /\ Windows /\ Data

\* What is reported: of a disk that is large enough.
Flags ==
  /\ diskBroken => completed
  /\ success => Len(disk) = Size

TransferInv == GetInv /\ Flags
-----------------------------------------------------------------------------
LEMMA Parameters ==
  /\ {Size, Modulus, MaxWindow} \subseteq Nat \ {0}
  /\ MaxRetransmits \in Nat
  /\ Modulus > 2 * MaxWindow + 1
  BY TftpAssumption

LEMMA PeriodType ==
  ASSUME NEW r \in Rollovers
  PROVE  /\ r \in {0, 1} /\ r < Modulus
         /\ Period(r) = Modulus - r
         /\ Period(r) \in Nat \ {0}
         /\ Period(r) > 2 * MaxWindow
  BY Parameters DEF Rollovers, Period

LEMMA FirstNumber ==
  ASSUME NEW r \in Rollovers
  PROVE  WireNumber(0, r) = 0
  BY Parameters DEF WireNumber

\* Blocks with the same number are a period apart (as RecentData assumes of the
\* datagrams, an equal number tells an equal block).
THEOREM GetSameNumber ==
  ASSUME NEW r \in Rollovers, NEW i \in Nat, NEW j \in Nat,
         WireNumber(i, r) = WireNumber(j, r),
         j - i < Period(r), i - j < Period(r)
  PROVE  i = j
  <1>1. Wrapped(i, Modulus, r) = Wrapped(j, Modulus, r)
    BY DEF WireNumber, Wrapped
  <1>. QED  BY <1>1, PeriodType, Parameters, SameWrapped

\* expected_block_number() is right about the number n blocks later, beyond a
\* wrap of the numbers too.
THEOREM GetNextNumber ==
  ASSUME NEW r \in Rollovers, NEW i \in Nat, NEW n \in 0 .. MaxWindow
  PROVE  ExpectedBlock(WireNumber(i, r), n, r) = WireNumber(i + n, r)
  <1> DEFINE w == Wrapped(i, Modulus, r)
             v == Wrapped(i + n, Modulus, r)
  <1>1. /\ r \in {0, 1} /\ r < Modulus /\ Modulus \in Nat
        /\ n \in Nat /\ n < Modulus - r
    BY PeriodType, Parameters
  <1>2. w \in Nat /\ w < Modulus
    BY <1>1, WrappedType
  <1>3. v = IF w + n < Modulus THEN w + n ELSE w + n - Modulus + r
    BY <1>1, WrappedSum
  <1>4. WireNumber(i, r) = w /\ WireNumber(i + n, r) = v
    BY DEF WireNumber, Wrapped
  <1> HIDE DEF w, v
  <1>. QED  BY <1>1, <1>2, <1>3, <1>4 DEF ExpectedBlock

LEMMA Disk ==
  Space \in Nat /\ DiskFails \in BOOLEAN
  BY DiskAssumption

LEMMA SessionType ==
  ASSUME NEW s \in Sessions
  PROVE  /\ s # NoSession /\ s.rollover \in Rollovers
         /\ s.window \in 1 .. MaxWindow /\ s.options \in BOOLEAN
         /\ ~s.options => s.rollover = 0
  <1>1. CASE s \in [window : 1 .. MaxWindow, rollover : Rollovers, options : {TRUE}]
    <2>1. /\ s.rollover \in Rollovers /\ s.window \in 1 .. MaxWindow
          /\ s.options \in {TRUE}
      BY <1>1
    <2>2. s.window # 0
      BY <2>1, Parameters
    <2>3. NoSession.window = 0
      BY DEF NoSession
    <2>. QED  BY <2>1, <2>2, <2>3, Zenon
  <1>2. CASE s = [window |-> 1, rollover |-> 0, options |-> FALSE]
    <2>1. s.window = 1 /\ s.rollover = 0 /\ s.options = FALSE
      BY <1>2
    <2>2. NoSession.window = 0
      BY DEF NoSession
    <2>3. 1 \in 1 .. MaxWindow
      BY Parameters
    <2>4. 0 \in Rollovers /\ s.window # 0
      BY <2>1 DEF Rollovers
    <2>. QED  BY <2>1, <2>2, <2>3, <2>4, Zenon
  <1>. QED  BY <1>1, <1>2 DEF Sessions

\* The part of a queue that is written goes behind what the disk has.
LEMMA Written ==
  ASSUME NEW d \in Seq(Nat), NEW q \in Seq(Nat), NEW n \in 0 .. Len(q),
         \A k \in 1 .. Len(d) : d[k] = k,
         n > 0 => \A k \in 1 .. Len(q) : q[k] = Len(d) + k
  PROVE  /\ d \o SubSeq(q, 1, n) \in Seq(Nat)
         /\ Len(d \o SubSeq(q, 1, n)) = Len(d) + n
         /\ \A k \in 1 .. Len(d \o SubSeq(q, 1, n)) : (d \o SubSeq(q, 1, n))[k] = k
  <1> DEFINE t == SubSeq(q, 1, n)
             e == d \o t
  <1>1. t \in Seq(Nat) /\ Len(t) = n /\ \A k \in 1 .. n : t[k] = q[k]
    OBVIOUS
  <1> HIDE DEF t
  <1>2. /\ e \in Seq(Nat) /\ Len(d) \in Nat /\ Len(e) = Len(d) + n
        /\ \A k \in 1 .. Len(d) : e[k] = d[k]
        /\ \A k \in Len(d) + 1 .. Len(d) + n : e[k] = t[k - Len(d)]
    <2>1. t \in Seq(Nat) /\ Len(t) = n
      BY <1>1
    <2>2. d \o t \in Seq(Nat) /\ Len(d \o t) = Len(d) + Len(t)
      BY <2>1, ConcatProperties
    <2>3. \A k \in 1 .. Len(d) + Len(t) :
            (d \o t)[k] = IF k <= Len(d) THEN d[k] ELSE t[k - Len(d)]
      BY <2>1, ConcatProperties
    <2>. QED  BY <2>1, <2>2, <2>3, LenProperties
  <1>3. ASSUME NEW k \in 1 .. Len(e)
        PROVE  e[k] = k
    <2>1. CASE k <= Len(d)
      BY <1>2, <2>1
    <2>2. CASE ~(k <= Len(d))
      <3> DEFINE m == k - Len(d)
      <3>1. m \in 1 .. n /\ e[k] = t[m] /\ k = Len(d) + m
        BY <1>2, <2>2
      <3>2. m \in 1 .. Len(q) /\ n > 0 /\ t[m] = q[m]
        BY <1>1, <3>1, LenProperties
      <3> HIDE DEF m
      <3>. QED  BY <3>1, <3>2
    <2>. QED  BY <2>1, <2>2
  <1>. QED  BY <1>2, <1>3 DEF t

\* A write of n of m blocks to a disk that has l of t blocks, and room for s.
LEMMA Room ==
  ASSUME NEW l \in Nat, NEW m \in Nat, NEW n \in 0 .. m, NEW s \in Nat, NEW t \in Nat,
         n <= s - l, l = t \/ l = s, ~(n < m /\ n < s - l)
  PROVE  l + n = t + m \/ l + n = s
  OBVIOUS

\* A queue of the blocks that follow those it was emptied of.
Follows(q) == q \in Seq(Nat) /\ \A k \in 1 .. Len(q) : q[k] = transferred + k

LEMMA WriteQueueData ==
  ASSUME Types, Data, NEW q, Follows(q),
         NEW done \in BOOLEAN, NEW good \in BOOLEAN, WriteQueue(q, done, good)
  PROVE  /\ Data'
         /\ queue' = <<>> /\ transferred' = transferred + Len(q)
         /\ disk' \in Seq(Nat)
         /\ diskBroken' \in BOOLEAN /\ completed' \in BOOLEAN /\ success' \in BOOLEAN
  <1>1. PICK n \in Writable(q) :
          /\ disk' = disk \o SubSeq(q, 1, n)
          /\ LET error == n < Len(q) /\ (diskBroken \/ n < Space - Len(disk))
             IN  /\ diskBroken' = (diskBroken \/ error)
                 /\ completed' = (done \/ error)
                 /\ success' = (good /\ ~error)
    BY DEF WriteQueue
  <1>2. /\ Len(disk) \in Nat /\ Len(q) \in Nat /\ transferred \in Nat
        /\ Len(disk) <= transferred /\ Len(disk) <= Space
    BY LenProperties DEF Types, Data, Follows
  <1>3. n \in 0 .. Len(q) /\ n <= Space - Len(disk)
    BY <1>2, Disk DEF Writable
  <1>9. diskBroken \in BOOLEAN /\ (diskBroken => n = 0)
    BY DEF Types, Writable
  <1>4. n > 0 => Len(disk) = transferred
    BY <1>2, <1>3, <1>9, Disk DEF Data
  <1>5. queue' = <<>> /\ transferred' = transferred + Len(q)
    BY DEF WriteQueue
  <1>6. /\ disk' \in Seq(Nat) /\ Len(disk') = Len(disk) + n
        /\ \A k \in 1 .. Len(disk') : disk'[k] = k
    <2>1. disk \in Seq(Nat) /\ q \in Seq(Nat)
      BY DEF Types, Follows
    <2>2. n > 0 => \A k \in 1 .. Len(q) : q[k] = Len(disk) + k
      BY <1>4 DEF Follows
    <2>. QED  BY <1>1, <1>3, <2>1, <2>2, Written DEF Data, InOrder
  <1>7. /\ diskBroken' = (diskBroken \/ (n < Len(q) /\ n < Space - Len(disk)))
        /\ diskBroken' \in BOOLEAN /\ completed' \in BOOLEAN /\ success' \in BOOLEAN
    BY <1>1, <1>2
  <1>8. Len(disk') = transferred' \/ Len(disk') = Space \/ diskBroken'
    <2>1. CASE diskBroken'
      BY <2>1
    <2>2. CASE ~diskBroken'
      <3>1. ~(n < Len(q) /\ n < Space - Len(disk))
        BY <1>7, <2>2
      <3>2. Len(disk) = transferred \/ Len(disk) = Space
        BY <1>7, <2>2 DEF Data
      <3>3. Len(disk) + n = transferred + Len(q) \/ Len(disk) + n = Space
        BY <1>2, <1>3, <3>1, <3>2, Disk, Room
      <3>. QED  BY <1>5, <1>6, <3>3
    <2>. QED  BY <2>1, <2>2
  <1>. QED  BY <1>2, <1>3, <1>5, <1>6, <1>7, <1>8, Disk DEF Data, InOrder

LEMMA Ranges ==
  ASSUME GetInv
  PROVE  /\ Accepted \in Nat /\ transferred \in Nat /\ Len(queue) \in Nat
         /\ base \in Nat /\ sent \in Nat /\ Follows(queue)
         /\ rollover \in Rollovers
  BY LenProperties DEF GetInv, Types, Accepted, Agreed, Data, InOrder, Follows

\* Once the server has sent a block or the client an acknowledgement, they have the
\* same options, and no block further ahead than a window.
LEMMA Session ==
  ASSUME GetInv, session # NoSession
  PROVE  /\ session.rollover \in Rollovers
         /\ session.window \in Nat /\ session.window <= MaxWindow
         /\ session.window < Period(session.rollover)
  <1>1. session \in Sessions
    BY DEF GetInv, Types
  <1>. QED  BY <1>1, SessionType, PeriodType, Parameters

\* Writing the queue q out and acknowledging it keeps all that GetInv says of the
\* client's blocks and their numbers.
LEMMA FlushKeeps ==
  ASSUME GetInv, NEW q, Follows(q), NEW num, NEW done \in BOOLEAN, NEW good \in BOOLEAN,
         FlushDataAndAck(q, num, done, good), lastBlock' = num, rollover' = rollover,
         num = WireNumber(transferred + Len(q), rollover),
         Accepted <= transferred + Len(q)
  PROVE  /\ Data' /\ Numbered'
         /\ Accepted' = transferred + Len(q)
         /\ queue' \in Seq(Nat) /\ transferred' \in Nat /\ disk' \in Seq(Nat)
         /\ diskBroken' \in BOOLEAN /\ completed' \in BOOLEAN /\ success' \in BOOLEAN
         /\ acks' # {}
  <1>1. /\ WriteQueue(q, done, good)
        /\ acks' = acks \cup {[num |-> num, index |-> transferred + Len(q)]}
    BY DEF FlushDataAndAck, SendAck
  <1>2. Types /\ Data
    BY DEF GetInv
  <1>3. /\ Data' /\ queue' = <<>> /\ transferred' = transferred + Len(q)
        /\ disk' \in Seq(Nat)
        /\ diskBroken' \in BOOLEAN /\ completed' \in BOOLEAN /\ success' \in BOOLEAN
    BY <1>1, <1>2, WriteQueueData
  <1>4. Len(q) \in Nat /\ transferred \in Nat /\ Accepted \in Nat
    BY Ranges, LenProperties DEF Follows
  <1>5. queue' \in Seq(Nat) /\ Len(queue') = 0
    BY <1>3
  <1>6. Accepted' = transferred + Len(q)
    BY <1>3, <1>4, <1>5 DEF Accepted
  <1>7. Numbered'
    <2>1. ASSUME NEW a \in acks'
          PROVE  a.index \in 0 .. Accepted' /\ a.num = WireNumber(a.index, rollover)
      <3>1. CASE a \in acks
        BY <1>4, <1>6, <3>1 DEF GetInv, Numbered
      <3>2. CASE a = [num |-> num, index |-> transferred + Len(q)]
        <4>1. a.num = num /\ a.index = transferred + Len(q)
          BY <3>2
        <4>2. transferred + Len(q) \in 0 .. Accepted'
          BY <1>4, <1>6
        <4>. QED  BY <4>1, <4>2
      <3>. QED  BY <1>1, <2>1, <3>1, <3>2
    <2>2. lastBlock' = WireNumber(Accepted', rollover')
      BY <1>6
    <2>. QED  BY <2>1, <2>2 DEF Numbered
  <1>8. transferred' \in Nat
    BY <1>3, <1>4
  <1>. QED  BY <1>1, <1>3, <1>5, <1>6, <1>7, <1>8
-----------------------------------------------------------------------------
LEMMA InitGetInv == Init => GetInv
  <1> SUFFICES ASSUME Init PROVE GetInv
    OBVIOUS
  <1> USE DEF Init
  <1>1. Len(queue) = 0 /\ Len(disk) = 0 /\ Accepted = 0
    BY DEF Accepted
  <1>2. Types
    <2>1. queue \in Seq(Nat) /\ transferred \in Nat /\ disk \in Seq(Nat)
          /\ base \in Nat /\ sent \in Nat
      OBVIOUS
    <2>2. session \in Sessions \cup {NoSession}
      BY Zenon
    <2>3. started \in BOOLEAN /\ completed \in BOOLEAN /\ success \in BOOLEAN
          /\ diskBroken \in BOOLEAN
      BY Zenon
    <2>. QED  BY <2>1, <2>2, <2>3, Zenon DEF Types
  <1>3. Agreed
    BY DEF Agreed, Rollovers, NoSession
  <1>4. WireNumber(0, 0) = 0
    BY FirstNumber DEF Rollovers
  <1>5. Numbered
    BY <1>1, <1>4 DEF Numbered
  <1>6. Windows
    BY <1>1, Parameters DEF Windows, NoSession
  <1>7. Data
    BY <1>1, Disk DEF Data, InOrder
  <1>. QED  BY <1>2, <1>3, <1>5, <1>6, <1>7 DEF GetInv

LEMMA OptionsAckKeeps ==
  ASSUME GetInv, ProcessOptionsAck
  PROVE  GetInv'
  <1> USE DEF ProcessOptionsAck, Started, SendAck, serverVars
  <1>1. session # NoSession
    BY DEF NoSession
  <1>2. session.rollover \in Rollovers /\ Accepted \in Nat /\ sent \in Nat /\ rollover \in Rollovers
    BY <1>1, Session, Ranges
  <1>3. Types' /\ Agreed' /\ Data'
    BY <1>1, <1>2 DEF GetInv, Types, Agreed, Data, InOrder
  <1>4. Accepted' = Accepted
    BY DEF Accepted
  <1>5. Windows'
    BY <1>4 DEF GetInv, Windows
  <1>6. lastBlock = WireNumber(Accepted, session.rollover)
    <2>1. CASE rollover = session.rollover
      BY <2>1 DEF GetInv, Numbered
    <2>2. CASE rollover # session.rollover
      <3>1. sent = 0
        BY <1>2, <2>2 DEF GetInv, Agreed
      <3>2. Accepted = 0
        BY <1>2, <3>1 DEF GetInv, Windows
      <3>3. lastBlock = WireNumber(0, rollover)
        BY <3>2 DEF GetInv, Numbered
      <3>. QED  BY <1>2, <3>2, <3>3, FirstNumber
    <2>. QED  BY <2>1, <2>2
  <1>7. ASSUME NEW a \in acks'
        PROVE  a.index \in 0 .. Accepted /\ a.num = WireNumber(a.index, session.rollover)
    <2>1. CASE a \in acks
      BY <2>1 DEF GetInv, Numbered, Agreed
    <2>2. CASE a = [num |-> lastBlock, index |-> Accepted]
      <3>1. a.num = lastBlock /\ a.index = Accepted
        BY <2>2
      <3>. QED  BY <1>2, <1>6, <3>1
    <2>. QED  BY <1>7, <2>1, <2>2
  <1>8. Numbered'
    BY <1>4, <1>6, <1>7 DEF Numbered
  <1>. QED  BY <1>3, <1>5, <1>8 DEF GetInv

\* The block taken for the one after the last is that one.
LEMMA ExpectedIsNext ==
  ASSUME GetInv, NEW i \in 1 .. sent, RecentData(i),
         IsExpected(WireNumber(i, session.rollover))
  PROVE  i = Accepted + 1
  <1>1. sent \in Nat /\ sent > 0 /\ i \in Nat /\ i <= sent /\ Accepted \in Nat /\ Accepted + 1 \in Nat
    BY Ranges
  <1>2. rollover = session.rollover /\ session # NoSession
    BY <1>1 DEF GetInv, Agreed
  <1>3. /\ rollover \in Rollovers /\ session.window \in Nat
        /\ session.window < Period(rollover) /\ Period(rollover) \in Nat
    BY <1>2, Session, PeriodType
  <1>4. WireNumber(i, rollover) = WireNumber(Accepted + 1, rollover)
    <2>1. lastBlock = WireNumber(Accepted, rollover)
      BY DEF GetInv, Numbered
    <2>2. 1 \in 0 .. MaxWindow
      BY Parameters
    <2>. QED  BY <1>1, <1>2, <1>3, <2>1, <2>2, GetNextNumber DEF IsExpected
  <1>5. Accepted + 1 - i < Period(rollover)
    BY <1>2 DEF RecentData
  <1>6. i - (Accepted + 1) < Period(rollover)
    <2>1. base <= Accepted /\ sent <= base + session.window /\ base \in Nat
      BY Ranges DEF GetInv, Windows
    <2>. QED  BY <1>1, <1>3, <2>1
  <1>. QED  BY <1>1, <1>3, <1>4, <1>5, <1>6, GetSameNumber

LEMMA DataKeeps ==
  ASSUME GetInv, NEW i \in 1 .. Size, ProcessData(i)
  PROVE  GetInv'
  <1> DEFINE num == WireNumber(i, session.rollover)
  <1>1. /\ i \in 1 .. sent /\ RecentData(i)
        /\ started' = TRUE
        /\ AcceptBlock(i, num) \/ RefuseBlock(num)
        /\ UNCHANGED <<rollover, session, base, sent, failing>>
    BY DEF ProcessData, Started, serverVars
  <1>2. sent \in Nat /\ sent > 0 /\ i \in Nat /\ i <= sent /\ Accepted \in Nat
    BY <1>1, Ranges
  <1>3. rollover = session.rollover /\ session # NoSession /\ rollover \in Rollovers
    BY <1>2, Ranges DEF GetInv, Agreed
  <1>4. Agreed'
    BY <1>1, <1>3 DEF Agreed
  <1>5. completed \in BOOLEAN /\ success \in BOOLEAN
    BY DEF GetInv, Types
  \* What follows when all that is queued has been written and acknowledged.
  <1>6. ASSUME Data', Numbered', Accepted <= Accepted', Accepted' <= sent,
               Accepted' \in Nat,
               queue' \in Seq(Nat), transferred' \in Nat, disk' \in Seq(Nat),
               diskBroken' \in BOOLEAN, completed' \in BOOLEAN, success' \in BOOLEAN
        PROVE  GetInv'
    <2>1. Types'
      BY <1>1, <1>6 DEF GetInv, Types
    <2>2. base <= Accepted'
      BY <1>2, <1>6, Ranges DEF GetInv, Windows
    <2>3. Windows'
      BY <1>1, <1>6, <2>2 DEF GetInv, Windows
    <2>. QED  BY <1>4, <1>6, <2>1, <2>3 DEF GetInv
  <1>7. CASE AcceptBlock(i, num)
    <2> DEFINE q == Append(queue, i)
               last == i = Size /\ ~completed
    <2>1. IsExpected(num) /\ lastBlock' = num
      BY <1>7 DEF AcceptBlock
    <2>2. i = Accepted + 1
      BY <1>1, <2>1, ExpectedIsNext
    <2>3. Len(q) = Len(queue) + 1 /\ transferred + Len(q) = i
      BY <1>2, <2>2, Ranges DEF Accepted, Follows
    <2>4. Follows(q)
      <3>1. queue \in Seq(Nat) /\ q \in Seq(Nat)
        BY <1>2, Ranges DEF Follows
      <3>2. ASSUME NEW k \in 1 .. Len(queue) + 1
            PROVE  q[k] = transferred + k
        <4>1. CASE k = Len(queue) + 1
          <5>1. q[k] = i
            BY <1>2, <3>1, <4>1
          <5>. QED  BY <2>2, <4>1, <5>1, Ranges DEF Accepted
        <4>2. CASE k # Len(queue) + 1
          <5>1. k \in 1 .. Len(queue)
            BY <4>2, Ranges
          <5>2. q[k] = queue[k]
            BY <1>2, <3>1, <5>1
          <5>. QED  BY <5>1, <5>2, Ranges DEF Follows
        <4>. QED  BY <4>1, <4>2
      <3>. QED  BY <2>3, <3>1, <3>2 DEF Follows
    <2> HIDE DEF q, last
    <2>5. num = WireNumber(transferred + Len(q), rollover)
      BY <1>3, <2>3
    <2>6. CASE last \/ WindowFull(num)
      <3>1. FlushDataAndAck(q, num, completed \/ last, success \/ last)
        BY <1>7, <2>6 DEF AcceptBlock, q, last
      <3>2. (completed \/ last) \in BOOLEAN /\ (success \/ last) \in BOOLEAN
        BY <1>5 DEF last
      <3>3. Accepted <= transferred + Len(q)
        BY <1>2, <2>2, <2>3
      <3>4. rollover' = rollover
        BY <1>1
      <3>5. /\ Data' /\ Numbered'
            /\ Accepted' = transferred + Len(q)
            /\ queue' \in Seq(Nat) /\ transferred' \in Nat /\ disk' \in Seq(Nat)
            /\ diskBroken' \in BOOLEAN /\ completed' \in BOOLEAN /\ success' \in BOOLEAN
        BY <2>1, <2>4, <2>5, <3>1, <3>2, <3>3, <3>4, FlushKeeps
      <3>6. Accepted' = i /\ Accepted <= Accepted' /\ Accepted' <= sent /\ Accepted' \in Nat
        BY <1>2, <2>2, <2>3, <3>5
      <3>. QED  BY <1>6, <3>5, <3>6
    <2>7. CASE ~(last \/ WindowFull(num))
      <3>1. /\ queue' = q
            /\ UNCHANGED <<completed, success, transferred, disk, diskBroken, acks>>
        BY <1>7, <2>7 DEF AcceptBlock, q, last
      <3>2. Accepted' = i
        BY <2>3, <3>1 DEF Accepted
      <3>3. Data'
        BY <2>4, <3>1 DEF GetInv, Data, InOrder, Follows
      <3>4. lastBlock' = WireNumber(Accepted', rollover')
        BY <1>1, <1>3, <2>1, <3>2
      <3>5. \A a \in acks : a.index \in 0 .. Accepted'
        BY <1>2, <2>2, <3>2 DEF GetInv, Numbered
      <3>6. Numbered'
        BY <1>1, <3>1, <3>4, <3>5 DEF GetInv, Numbered
      <3>7. queue' \in Seq(Nat)
        BY <2>4, <3>1 DEF Follows
      <3>8. Accepted <= Accepted' /\ Accepted' <= sent /\ Accepted' \in Nat
        BY <1>2, <2>2, <3>2
      <3>. QED  BY <1>6, <3>1, <3>3, <3>6, <3>7, <3>8 DEF GetInv, Types
    <2>. QED  BY <2>6, <2>7
  <1>8. CASE RefuseBlock(num)
    <2>1. lastBlock' = lastBlock /\ rollover' = rollover
      BY <1>1, <1>8 DEF RefuseBlock
    <2>2. Accepted <= sent
      BY DEF GetInv, Windows
    <2>3. CASE WindowFull(lastBlock)
      <3>1. FlushDataAndAck(queue, lastBlock, completed, success)
        BY <1>8, <2>3 DEF RefuseBlock
      <3>2. Follows(queue) /\ lastBlock = WireNumber(transferred + Len(queue), rollover)
        BY Ranges DEF GetInv, Numbered, Accepted
      <3>3. Accepted = transferred + Len(queue) /\ Accepted <= Accepted
        BY <1>2 DEF Accepted
      <3>4. /\ Data' /\ Numbered'
            /\ Accepted' = Accepted
            /\ queue' \in Seq(Nat) /\ transferred' \in Nat /\ disk' \in Seq(Nat)
            /\ diskBroken' \in BOOLEAN /\ completed' \in BOOLEAN /\ success' \in BOOLEAN
        BY <1>5, <2>1, <3>1, <3>2, <3>3, FlushKeeps
      <3>. QED  BY <1>2, <1>6, <2>2, <3>3, <3>4
    <2>4. CASE ~WindowFull(lastBlock)
      <3>1. UNCHANGED <<completed, success, queue, transferred, disk, diskBroken, acks>>
        BY <1>8, <2>4 DEF RefuseBlock
      <3>2. Accepted' = Accepted /\ Accepted <= Accepted
        BY <1>2, <3>1 DEF Accepted
      <3>3. Data'
        BY <3>1 DEF GetInv, Data, InOrder
      <3>4. Numbered'
        BY <2>1, <3>1, <3>2 DEF GetInv, Numbered
      <3>. QED  BY <1>2, <1>6, <2>2, <3>1, <3>2, <3>3, <3>4 DEF GetInv, Types
    <2>. QED  BY <2>3, <2>4
  <1>. QED  BY <1>1, <1>7, <1>8

LEMMA AckAgainKeeps ==
  ASSUME GetInv, AckAgain, UNCHANGED <<started, lastBlock, rollover, serverVars>>
  PROVE  GetInv'
  <1>1. /\ started /\ ~completed
        /\ FlushDataAndAck(queue, lastBlock, completed, success)
    BY DEF AckAgain
  <1>2. completed \in BOOLEAN /\ success \in BOOLEAN
    BY DEF GetInv, Types
  <1>3. /\ Follows(queue) /\ lastBlock = WireNumber(transferred + Len(queue), rollover)
        /\ Accepted = transferred + Len(queue) /\ Accepted <= Accepted
    BY Ranges DEF GetInv, Numbered, Accepted
  <1>4. /\ Data' /\ Numbered'
        /\ Accepted' = Accepted
        /\ queue' \in Seq(Nat) /\ transferred' \in Nat /\ disk' \in Seq(Nat)
        /\ diskBroken' \in BOOLEAN /\ completed' \in BOOLEAN /\ success' \in BOOLEAN
    BY <1>1, <1>2, <1>3, FlushKeeps
  <1>5. Types'
    BY <1>4 DEF GetInv, Types, serverVars
  <1>6. Windows'
    BY <1>4 DEF GetInv, Windows, serverVars
  <1>7. Agreed'
    BY <1>1 DEF GetInv, Agreed, serverVars
  <1>. QED  BY <1>4, <1>5, <1>6, <1>7 DEF GetInv

\* Nothing but flags and the timer changes.
LEMMA FlagsKeep ==
  ASSUME GetInv,
         UNCHANGED <<lastBlock, rollover, queue, transferred, disk, diskBroken, acks,
                     serverVars>>,
         started' \in BOOLEAN, completed' \in BOOLEAN, success' \in BOOLEAN,
         started' => session # NoSession,
         started' /\ ~completed' => started /\ ~completed
  PROVE  GetInv'
  <1>1. Accepted' = Accepted
    BY DEF Accepted
  <1>2. Types'
    BY DEF GetInv, Types, serverVars
  <1>3. Agreed'
    BY DEF GetInv, Agreed, serverVars
  <1>4. Numbered'
    BY <1>1 DEF GetInv, Numbered
  <1>5. Windows'
    BY <1>1 DEF GetInv, Windows, serverVars
  <1>6. Data'
    BY DEF GetInv, Data, InOrder
  <1>. QED  BY <1>2, <1>3, <1>4, <1>5, <1>6 DEF GetInv

LEMMA TimerKeeps ==
  ASSUME GetInv, TimerExpired
  PROVE  GetInv'
  <1>1. /\ started \in BOOLEAN /\ completed \in BOOLEAN /\ success \in BOOLEAN
        /\ started => session # NoSession
    BY DEF GetInv, Types, Agreed
  <1>2. UNCHANGED <<started, lastBlock, rollover, serverVars>>
    BY DEF TimerExpired
  <1>3. CASE GiveUp
    BY <1>1, <1>2, <1>3, FlagsKeep DEF GiveUp
  <1>4. CASE TooLate
    BY <1>1, <1>2, <1>4, FlagsKeep DEF TooLate
  <1>5. CASE RequestAgain
    BY <1>1, <1>2, <1>5, FlagsKeep DEF RequestAgain
  <1>6. CASE AckAgain
    BY <1>2, <1>6, AckAgainKeeps
  <1>. QED  BY <1>3, <1>4, <1>5, <1>6 DEF TimerExpired

LEMMA ClientKeeps ==
  ASSUME GetInv, Client
  PROVE  GetInv'
  <1>1. /\ started \in BOOLEAN /\ completed \in BOOLEAN /\ success \in BOOLEAN
        /\ started \/ failing => session # NoSession
    BY DEF GetInv, Types, Agreed
  <1>2. CASE ProcessOptionsAck
    BY <1>2, OptionsAckKeeps
  <1>3. CASE \E i \in 1 .. Size : ProcessData(i)
    BY <1>3, DataKeeps
  <1>4. CASE ProcessError
    BY <1>1, <1>4, FlagsKeep DEF ProcessError, Started
  <1>5. CASE TimerExpired
    BY <1>5, TimerKeeps
  <1>6. CASE Leave
    BY <1>1, <1>6, FlagsKeep DEF Leave
  <1>. QED  BY <1>2, <1>3, <1>4, <1>5, <1>6 DEF Client

\* The server's steps leave the client alone.
LEMMA ServerLeaves ==
  ASSUME GetInv, UNCHANGED <<clientVars, acks>>
  PROVE  /\ Data' /\ Numbered' /\ Accepted' = Accepted
         /\ UNCHANGED <<started, completed, rollover, acks>>
         /\ UNCHANGED <<success, diskBroken, queue, transferred, disk>>
  BY DEF GetInv, Data, InOrder, Numbered, Accepted, clientVars

LEMMA OpensKeeps ==
  ASSUME GetInv, NEW s \in Sessions, ServerOpens(s)
  PROVE  GetInv'
  <1>1. /\ session = NoSession /\ session' = s
        /\ sent' = IF s.options THEN 0 ELSE 1
        /\ base' = base /\ failing' = failing
        /\ UNCHANGED <<clientVars, acks>>
    BY DEF ServerOpens
  <1>2. /\ Data' /\ Numbered' /\ Accepted' = Accepted
        /\ UNCHANGED <<started, completed, rollover, acks>>
        /\ UNCHANGED <<success, diskBroken, queue, transferred, disk>>
    BY <1>1, ServerLeaves
  <1>3. /\ s # NoSession /\ s.window \in 1 .. MaxWindow /\ s.options \in BOOLEAN
        /\ ~s.options => s.rollover = 0
    BY SessionType
  <1>4. ~started /\ ~(sent > 0) /\ acks = {} /\ rollover = 0
    BY <1>1 DEF GetInv, Agreed, NoSession
  <1>5. sent = 0 /\ base = 0 /\ Accepted = 0
    BY <1>4, Ranges DEF GetInv, Windows
  <1>6. sent' \in 0 .. 1 /\ (sent' > 0 => ~s.options)
    BY <1>1
  <1>7. Types'
    BY <1>1, <1>2, <1>6 DEF GetInv, Types
  <1>8. Agreed'
    <2>1. sent' > 0 => s.rollover = 0
      BY <1>3, <1>6
    <2>2. s.window # 0 /\ s # NoSession
      BY <1>3, Parameters
    <2>. QED  BY <1>1, <1>2, <1>4, <2>1, <2>2 DEF GetInv, Agreed
  <1>9. Windows'
    BY <1>1, <1>2, <1>3, <1>5, <1>6, Parameters DEF Windows
  <1>. QED  BY <1>2, <1>7, <1>8, <1>9 DEF GetInv

LEMMA ReceivesKeeps ==
  ASSUME GetInv, NEW a \in acks, ServerReceives(a)
  PROVE  GetInv'
  <1>1. PICK j \in base .. sent :
          /\ WireNumber(j, session.rollover) = a.num
          /\ base' = j
          /\ sent' = IF sent < UpTo(j + session.window) THEN UpTo(j + session.window)
                     ELSE sent
    BY DEF ServerReceives
  <1>2. /\ UNCHANGED <<clientVars, acks>> /\ UNCHANGED <<session, failing>>
        /\ base - a.index < Period(session.rollover) - session.window
    BY DEF ServerReceives, RecentAck
  <1>3. /\ Data' /\ Numbered' /\ Accepted' = Accepted
        /\ UNCHANGED <<started, completed, rollover, acks>>
        /\ UNCHANGED <<success, diskBroken, queue, transferred, disk>>
    BY <1>2, ServerLeaves
  <1>4. rollover = session.rollover /\ session # NoSession
    BY DEF GetInv, Agreed
  <1>5. /\ session.rollover \in Rollovers /\ session.window \in Nat
        /\ session.window < Period(session.rollover) /\ Period(session.rollover) \in Nat
    BY <1>4, Session, PeriodType
  <1>6. /\ a.index \in Nat /\ a.index <= Accepted /\ Accepted \in Nat
        /\ a.num = WireNumber(a.index, session.rollover)
        /\ base \in Nat /\ sent \in Nat
    BY <1>4, Ranges DEF GetInv, Numbered
  <1>7. base <= Accepted /\ Accepted <= sent /\ sent <= Size /\ sent <= base + session.window
    BY DEF GetInv, Windows
  <1>8. j \in Nat /\ base <= j /\ j <= sent
    BY <1>1, <1>6
  <1>9. j - a.index < Period(session.rollover)
    BY <1>2, <1>5, <1>6, <1>7, <1>8
  <1>10. a.index - j < Period(session.rollover)
    BY <1>5, <1>6, <1>7, <1>8
  <1>11. j = a.index
    BY <1>1, <1>5, <1>6, <1>8, <1>9, <1>10, GetSameNumber
  <1>12. UpTo(j + session.window) \in Nat /\ UpTo(j + session.window) <= Size
         /\ UpTo(j + session.window) <= j + session.window
    BY <1>5, <1>8, Parameters DEF UpTo
  <1>13. sent' \in Nat /\ sent <= sent' /\ sent' <= Size /\ sent' <= j + session.window
    BY <1>1, <1>5, <1>6, <1>7, <1>8, <1>12, Parameters
  <1>14. Types'
    BY <1>1, <1>2, <1>3, <1>8, <1>13 DEF GetInv, Types
  <1>15. Agreed'
    BY <1>2, <1>3, <1>4 DEF GetInv, Agreed
  <1>16. Windows'
    BY <1>1, <1>2, <1>3, <1>6, <1>7, <1>11, <1>13 DEF Windows
  <1>. QED  BY <1>3, <1>14, <1>15, <1>16 DEF GetInv

LEMMA ServerKeeps ==
  ASSUME GetInv, Server
  PROVE  GetInv'
  <1>1. CASE \E s \in Sessions : ServerOpens(s)
    BY <1>1, OpensKeeps
  <1>2. CASE \E a \in acks : ServerReceives(a)
    BY <1>2, ReceivesKeeps
  <1>3. CASE ServerFails
    <2>1. UNCHANGED <<clientVars, acks>> /\ UNCHANGED <<session, base, sent>>
          /\ session # NoSession
      BY <1>3 DEF ServerFails
    <2>2. /\ Data' /\ Numbered' /\ Accepted' = Accepted
          /\ UNCHANGED <<started, completed, rollover, acks>>
          /\ UNCHANGED <<success, diskBroken, queue, transferred, disk>>
      BY <2>1, ServerLeaves
    <2>3. Types'
      BY <2>1, <2>2 DEF GetInv, Types
    <2>4. Agreed'
      BY <2>1, <2>2 DEF GetInv, Agreed
    <2>5. Windows'
      BY <2>1, <2>2 DEF GetInv, Windows
    <2>. QED  BY <2>2, <2>3, <2>4, <2>5 DEF GetInv
  <1>. QED  BY <1>1, <1>2, <1>3 DEF Server

LEMMA StepGetInv == GetInv /\ [Next]_vars => GetInv'
  <1> SUFFICES ASSUME GetInv, [Next]_vars
               PROVE  GetInv'
    OBVIOUS
  <1>1. CASE Client
    BY <1>1, ClientKeeps
  <1>2. CASE Server
    BY <1>2, ServerKeeps
  <1>3. CASE UNCHANGED vars
    BY <1>3 DEF vars, clientVars, serverVars, GetInv, Types, Agreed, Numbered, Windows,
                Data, InOrder, Accepted
  <1>. QED  BY <1>1, <1>2, <1>3 DEF Next

\* What the download rests on, for every file, window and modulus: both sides go by the
\* same numbers, are less than a window apart, and the disk has what was written to it.
THEOREM TftpGetInvariant == Spec => []GetInv
  BY InitGetInv, StepGetInv, PTL DEF Spec

\* Every block that the program takes for the next one is: the disk has the file's
\* beginning and the queue what follows, for every file, window and modulus.
THEOREM TftpGetInOrder == Spec => []InOrder
  <1>1. GetInv => InOrder
    BY DEF GetInv, Data
  <1>. QED  BY <1>1, TftpGetInvariant, PTL

\* What the server concludes from an acknowledgement's number is so: the client has
\* the blocks up to there.
THEOREM TftpGetServerNotAhead == Spec => []ServerNotAhead
  <1>1. GetInv => ServerNotAhead
    BY DEF GetInv, Windows, ServerNotAhead
  <1>. QED  BY <1>1, TftpGetInvariant, PTL
-----------------------------------------------------------------------------
\* What is reported, while the disk has space for the file.
LEMMA WriteQueueFlags ==
  ASSUME Types, Data, NEW q, Follows(q),
         NEW done \in BOOLEAN, NEW good \in BOOLEAN, WriteQueue(q, done, good)
  PROVE  /\ Len(disk) <= Len(disk')
         /\ diskBroken' => diskBroken \/ completed'
         /\ done => completed'
         /\ success' => good
         /\ success' /\ diskBroken' => diskBroken
  <1>1. PICK n \in Writable(q) :
          /\ disk' = disk \o SubSeq(q, 1, n)
          /\ LET error == n < Len(q) /\ (diskBroken \/ n < Space - Len(disk))
             IN  /\ diskBroken' = (diskBroken \/ error)
                 /\ completed' = (done \/ error)
                 /\ success' = (good /\ ~error)
    BY DEF WriteQueue
  <1>2. Len(disk) \in Nat /\ Len(q) \in Nat /\ Len(disk) <= Space
    BY LenProperties DEF Types, Data, Follows
  <1>3. n \in 0 .. Len(q)
    BY <1>2, Disk DEF Writable
  <1>4. Len(disk') = Len(disk) + n
    <2>1. disk \in Seq(Nat) /\ SubSeq(q, 1, n) \in Seq(Nat) /\ Len(SubSeq(q, 1, n)) = n
      BY <1>3 DEF Types, Follows
    <2>. QED  BY <1>1, <2>1, ConcatProperties
  <1>5. Len(disk) <= Len(disk')
    BY <1>2, <1>3, <1>4
  <1>6. PICK error : /\ diskBroken' = (diskBroken \/ error)
                     /\ completed' = (done \/ error)
                     /\ success' = (good /\ ~error)
    BY <1>1
  <1>. QED  BY <1>5, <1>6, Zenon

\* One step of the client or the server: the copy grows, or none of it goes, and
\* success is reported when it is all there.
Progress ==
  /\ Len(disk) <= Len(disk')
  /\ diskBroken' => completed'
  /\ success' /\ ~success => Len(disk') = Size

LEMMA Copied ==
  GetInv => /\ Len(disk) \in Nat /\ Len(disk) <= transferred /\ transferred <= Accepted
            /\ Accepted <= Size /\ Len(disk) <= Size
  <1> SUFFICES ASSUME GetInv
               PROVE  /\ Len(disk) \in Nat /\ Len(disk) <= transferred
                      /\ transferred <= Accepted
                      /\ Accepted <= Size /\ Len(disk) <= Size
    OBVIOUS
  <1>1. Len(disk) \in Nat /\ Len(disk) <= transferred
    BY LenProperties DEF GetInv, Types, Data
  <1>2. transferred <= Accepted
    BY Ranges DEF Accepted
  <1>3. Accepted <= Size
    BY Ranges, Parameters DEF GetInv, Windows
  <1>4. Len(disk) <= Size
    BY <1>1, <1>2, <1>3, Ranges, Parameters
  <1>. QED  BY <1>1, <1>2, <1>3, <1>4

LEMMA CopiedNext ==
  GetInv' => (Len(disk) \in Nat /\ Len(disk) <= Size)'
  <1>1. GetInv => Len(disk) \in Nat /\ Len(disk) <= Size
    BY Copied
  <1>. QED  BY <1>1, PTL

LEMMA DataProgress ==
  ASSUME TransferInv, GetInv', Size <= Space, NEW i \in 1 .. Size, ProcessData(i)
  PROVE  Progress
  <1> DEFINE num == WireNumber(i, session.rollover)
  <1>1. /\ GetInv /\ Types /\ Data /\ Flags
        /\ completed \in BOOLEAN /\ success \in BOOLEAN
    BY DEF TransferInv, GetInv, Types
  <1>2. i \in 1 .. sent /\ RecentData(i) /\ (AcceptBlock(i, num) \/ RefuseBlock(num))
    BY DEF ProcessData
  <1>3. CASE UNCHANGED <<completed, success, disk, diskBroken>>
    BY <1>1, <1>3, Copied DEF Flags, Progress
  <1>4. CASE FlushDataAndAck(queue, lastBlock, completed, success)
    BY <1>1, <1>4, WriteQueueFlags, Ranges, Zenon DEF Flags, Progress, FlushDataAndAck
  <1>5. CASE AcceptBlock(i, num)
    <2> DEFINE q == Append(queue, i)
               last == i = Size /\ ~completed
    <2>1. IsExpected(num)
      BY <1>5 DEF AcceptBlock
    <2>2. i = Accepted + 1
      BY <1>1, <1>2, <2>1, ExpectedIsNext
    <2>3. CASE UNCHANGED <<completed, success, disk, diskBroken>>
      BY <1>3, <2>3
    <2>4. CASE FlushDataAndAck(q, num, completed \/ last, success \/ last)
      <3>1. Follows(q)
        BY <1>1, <2>2, Ranges DEF Follows, Accepted
      <3> HIDE DEF q, last
      <3>2. WriteQueue(q, completed \/ last, success \/ last)
        BY <2>4 DEF FlushDataAndAck
      <3>3. (completed \/ last) \in BOOLEAN /\ (success \/ last) \in BOOLEAN
        BY <1>1 DEF last
      <3>4. /\ Len(disk) <= Len(disk')
            /\ diskBroken' => diskBroken \/ completed'
            /\ completed \/ last => completed'
            /\ success' => success \/ last
            /\ success' /\ diskBroken' => diskBroken
        BY <1>1, <3>1, <3>2, <3>3, WriteQueueFlags
      <3>5. ASSUME success', ~success
            PROVE  Len(disk') = Size
        <4>1. i = Size /\ ~completed
          BY <3>4, <3>5 DEF last
        <4>2. ~diskBroken'
          BY <1>1, <3>4, <3>5, <4>1 DEF Flags
        <4>3. Len(disk') = transferred' \/ Len(disk') = Space
          BY <4>2 DEF GetInv, Data
        <4>4. transferred' = transferred + Len(q)
          BY <3>2 DEF WriteQueue
        <4>5. transferred' = Size
          BY <1>1, <2>2, <4>1, <4>4, Ranges DEF q, Accepted, Follows
        <4>6. Len(disk') \in Nat /\ Len(disk') <= transferred'
          BY Copied, LenProperties DEF GetInv, Types, Data
        <4>. QED  BY <4>3, <4>5, <4>6, Parameters, Disk
      <3>. QED  BY <1>1, <3>4, <3>5 DEF Flags, Progress
    <2>. QED  BY <1>5, <2>3, <2>4 DEF AcceptBlock
  <1>6. CASE RefuseBlock(num)
    BY <1>3, <1>4, <1>6 DEF RefuseBlock
  <1>. QED  BY <1>2, <1>5, <1>6

LEMMA StepProgress ==
  ASSUME TransferInv, GetInv', Size <= Space, Next
  PROVE  Progress
  <1>1. /\ GetInv /\ Types /\ Data /\ Flags
        /\ completed \in BOOLEAN /\ success \in BOOLEAN
        /\ Len(disk) \in Nat
    BY Copied DEF TransferInv, GetInv, Types
  <1>2. ASSUME UNCHANGED <<disk, diskBroken>>, completed => completed', success' => success
        PROVE  Progress
    BY <1>1, <1>2 DEF Flags, Progress
  <1>3. CASE ProcessOptionsAck
    BY <1>2, <1>3 DEF ProcessOptionsAck
  <1>4. CASE \E i \in 1 .. Size : ProcessData(i)
    BY <1>4, DataProgress
  <1>5. CASE ProcessError
    BY <1>2, <1>5 DEF ProcessError
  <1>6. CASE TimerExpired
    <2>1. CASE GiveUp
      BY <1>2, <2>1 DEF GiveUp
    <2>2. CASE TooLate
      BY <1>2, <2>2 DEF TooLate
    <2>3. CASE RequestAgain
      BY <1>2, <2>3 DEF RequestAgain
    <2>4. CASE AckAgain
      BY <1>1, <2>4, WriteQueueFlags, Ranges, Zenon DEF Flags, Progress, AckAgain, FlushDataAndAck
    <2>. QED  BY <1>6, <2>1, <2>2, <2>3, <2>4 DEF TimerExpired
  <1>7. CASE Leave
    BY <1>2, <1>7 DEF Leave
  <1>8. CASE Server
    <2>1. UNCHANGED clientVars
      BY <1>8 DEF Server, ServerOpens, ServerReceives, ServerFails
    <2>. QED  BY <1>2, <2>1 DEF clientVars
  <1>. QED  BY <1>3, <1>4, <1>5, <1>6, <1>7, <1>8 DEF Next, Client

LEMMA StepTransferInv ==
  ASSUME Size <= Space, TransferInv, [Next]_vars
  PROVE  TransferInv'
  <1>1. GetInv'
    BY StepGetInv DEF TransferInv
  <1>2. CASE Next
    <2>1. Progress
      BY <1>1, <1>2, StepProgress
    <2>2. /\ Len(disk) \in Nat /\ Len(disk') \in Nat
          /\ Len(disk') <= Size
      <3>1. Len(disk) \in Nat
        BY Copied DEF TransferInv
      <3>2. (Len(disk) \in Nat /\ Len(disk) <= Size)'
        BY <1>1, CopiedNext
      <3>. QED  BY <3>1, <3>2
    <2>3. success' => Len(disk') = Size
      BY <2>1, <2>2, Parameters DEF Progress, TransferInv, Flags
    <2>. QED  BY <1>1, <2>1, <2>3 DEF Progress, TransferInv, Flags
  <1>3. CASE UNCHANGED vars
    BY <1>1, <1>3 DEF TransferInv, Flags, vars, clientVars
  <1>. QED  BY <1>2, <1>3

LEMMA StepTransfer ==
  ASSUME TransferInv, TransferInv', Size <= Space, [Next]_vars
  PROVE  [Abs!Next]_(Abs!vars)
  <1>1. /\ Len(disk) \in Nat /\ Len(disk') \in Nat
        /\ Len(disk') <= Size
    <2>1. Len(disk) \in Nat
      BY Copied DEF TransferInv
    <2>2. (Len(disk) \in Nat /\ Len(disk) <= Size)'
      BY CopiedNext DEF TransferInv
    <2>. QED  BY <2>1, <2>2
  <1> USE DEF Abs!Next, Abs!vars
  <1>2. CASE Next /\ UNCHANGED outcome
    <2>1. Len(disk) <= Len(disk')
      BY <1>2, StepProgress DEF TransferInv, Progress
    <2>2. CASE Len(disk) = Len(disk')
      BY <1>2, <2>2
    <2>3. CASE Len(disk) # Len(disk')
      <3>1. Len(disk') \in Len(disk) + 1 .. Size
        BY <1>1, <2>1, <2>3, Parameters
      <3>. QED  BY <1>2, <3>1 DEF Abs!Store
    <2>. QED  BY <2>2, <2>3
  <1>3. CASE Leave
    <2>1. CASE success
      <3>1. Len(disk) = Size
        BY <2>1 DEF TransferInv, Flags
      <3>. QED  BY <1>3, <2>1, <3>1 DEF Leave, Running, Abs!Succeed
    <2>2. CASE ~success
      BY <1>3, <2>2 DEF Leave, Running, Abs!Fail
    <2>. QED  BY <2>1, <2>2
  <1>4. CASE UNCHANGED vars
    BY <1>4 DEF vars, clientVars
  <1>5. CASE Next /\ ~Leave
    <2>1. UNCHANGED outcome
      BY <1>5 DEF Next, Client, Server, ProcessOptionsAck, ProcessData, ProcessError,
                  TimerExpired, ServerOpens, ServerReceives, ServerFails, clientVars
    <2>. QED  BY <1>2, <1>5, <2>1
  <1>. QED  BY <1>3, <1>4, <1>5

\* While the disk has space for the file, the program reports success of complete
\* copies only, whatever the network, the server and a failing disk do.  (Without the
\* space it does not: f_write()'s count is not looked at.)
THEOREM TftpGetTransfers ==
  ASSUME Size <= Space
  PROVE  Spec => ImplementsTransfer
  <1>1. Init => TransferInv
    BY InitGetInv DEF TransferInv, Flags, Init
  <1>2. TransferInv /\ [Next]_vars => TransferInv'
    BY StepTransferInv
  <1>3. Init => Abs!Init
    BY DEF Init, Abs!Init
  <1>4. TransferInv /\ TransferInv' /\ [Next]_vars => [Abs!Next]_(Abs!vars)
    BY StepTransfer
  <1>. QED  BY <1>1, <1>2, <1>3, <1>4, PTL DEF Spec, ImplementsTransfer, Abs!Spec
=============================================================================
