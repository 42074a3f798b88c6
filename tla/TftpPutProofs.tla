---------------------------- MODULE TftpPutProofs ----------------------------
(***************************************************************************)
(* Sending a file, for every size of the file, the windows and the wire    *)
(* numbers: the server's copy is in order, the client never gets ahead of  *)
(* it, and the transfer keeps its promise.                                 *)
(*                                                                         *)
(* The argument: what is under way is less than a period apart (Windows),  *)
(* so that a number means the same block to both sides (Numbered), once    *)
(* they have the same options (Agreed).                                    *)
(***************************************************************************)
EXTENDS TftpPut, NumberTheorems, SequenceTheorems

-----------------------------------------------------------------------------
Types ==
  /\ started \in BOOLEAN /\ completed \in BOOLEAN
  /\ transferred \in Nat
  /\ stored \in Seq(Nat)
  /\ session \in Sessions \cup {NoSession}

\* Client and server go by the same options.
Settled ==
  session # NoSession /\ rollover = session.rollover /\ window = session.window

\* They do from the first block on, and while the client sends blocks again; without
\* options they do so from the start.
Agreed ==
  /\ rollover \in Rollovers
  /\ ~session.options => rollover = 0 /\ window = 1
  /\ data # {} \/ (started /\ ~completed) => Settled
  /\ stored # <<>> => data # {}

\* The numbers that the client goes by, and that it sends.
Numbered ==
  /\ lastBlock = WireNumber(transferred, rollover)
  /\ \A d \in data : /\ d.index \in 1 .. transferred + session.window
                      /\ d.num = WireNumber(d.index, rollover)

\* The client and the server's copy are no more than a window apart.
Windows ==
  /\ transferred <= Len(stored)
  /\ Len(stored) <= transferred + session.window
  /\ Len(stored) <= Size

PutInv ==
  /\ Types /\ Agreed /\ Numbered /\ Windows
  /\ InOrder
  /\ success => transferred = Size
-----------------------------------------------------------------------------
LEMMA Parameters ==
  /\ {Size, Modulus, MaxWindow} \subseteq Nat \ {0}
  /\ MaxRetransmits \in Nat
  /\ Modulus > 2 * MaxWindow + 1
  BY TftpAssumption

LEMMA PeriodType ==
  ASSUME NEW r \in Rollovers
  PROVE  /\ r \in {0, 1} /\ r < Modulus
         /\ Period(r) = Modulus - r
         /\ Period(r) \in Nat \ {0}
         /\ Period(r) > 2 * MaxWindow
  BY Parameters DEF Rollovers, Period

LEMMA FirstNumber ==
  ASSUME NEW r \in Rollovers
  PROVE  WireNumber(0, r) = 0
  BY Parameters DEF WireNumber

\* Blocks with the same number are a period apart (as RecentAck assumes of the
\* datagrams, an equal number tells an equal block).
THEOREM PutSameNumber ==
  ASSUME NEW r \in Rollovers, NEW i \in Nat, NEW j \in Nat,
         WireNumber(i, r) = WireNumber(j, r),
         j - i < Period(r), i - j < Period(r)
  PROVE  i = j
  <1>1. Wrapped(i, Modulus, r) = Wrapped(j, Modulus, r)
    BY DEF WireNumber, Wrapped
  <1>. QED  BY <1>1, PeriodType, Parameters, SameWrapped

\* expected_block_number() is right about the last block of a window too, beyond a
\* wrap of the numbers.
THEOREM PutNextNumber ==
  ASSUME NEW r \in Rollovers, NEW i \in Nat, NEW n \in 0 .. MaxWindow
  PROVE  ExpectedBlock(WireNumber(i, r), n, r) = WireNumber(i + n, r)
  <1> DEFINE w == Wrapped(i, Modulus, r)
             v == Wrapped(i + n, Modulus, r)
  <1>1. /\ r \in {0, 1} /\ r < Modulus /\ Modulus \in Nat
        /\ n \in Nat /\ n < Modulus - r
    BY PeriodType, Parameters
  <1>2. w \in Nat /\ w < Modulus
    BY <1>1, WrappedType
  <1>3. v = IF w + n < Modulus THEN w + n ELSE w + n - Modulus + r
    BY <1>1, WrappedSum
  <1>4. WireNumber(i, r) = w /\ WireNumber(i + n, r) = v
    BY DEF WireNumber, Wrapped
  <1> HIDE DEF w, v
  <1>. QED  BY <1>1, <1>2, <1>3, <1>4 DEF ExpectedBlock

LEMMA SessionType ==
  ASSUME NEW s \in Sessions
  PROVE  /\ s # NoSession /\ s.rollover \in Rollovers
         /\ s.window \in 1 .. MaxWindow /\ s.options \in BOOLEAN
         /\ ~s.options => s.rollover = 0 /\ s.window = 1
  <1>1. CASE s \in [window : 1 .. MaxWindow, rollover : Rollovers, options : {TRUE}]
    <2>1. /\ s.rollover \in Rollovers /\ s.window \in 1 .. MaxWindow
          /\ s.options \in {TRUE}
      BY <1>1
    <2>2. s.window # 0
      BY <2>1, Parameters
    <2>3. NoSession.window = 0
      BY DEF NoSession
    <2>. QED  BY <2>1, <2>2, <2>3, Zenon
  <1>2. CASE s = [window |-> 1, rollover |-> 0, options |-> FALSE]
    <2>1. s.window = 1 /\ s.rollover = 0 /\ s.options = FALSE
      BY <1>2
    <2>2. NoSession.window = 0
      BY DEF NoSession
    <2>3. 1 \in 1 .. MaxWindow
      BY Parameters
    <2>4. 0 \in Rollovers /\ s.window # 0
      BY <2>1 DEF Rollovers
    <2>. QED  BY <2>1, <2>2, <2>3, <2>4, Zenon
  <1>. QED  BY <1>1, <1>2 DEF Sessions

LEMMA Ranges ==
  ASSUME PutInv
  PROVE  /\ transferred \in Nat /\ Len(stored) \in Nat
         /\ session.window \in Nat /\ session.window <= MaxWindow
         /\ session.rollover \in Rollovers
  <1>1. CASE session = NoSession
    <2>1. session.window = 0 /\ session.rollover = 0
      BY <1>1 DEF NoSession
    <2>. QED  BY <2>1, LenProperties, Parameters DEF PutInv, Types, Rollovers
  <1>2. CASE session \in Sessions
    <2>1. session.window \in 1 .. MaxWindow /\ session.rollover \in Rollovers
      BY <1>2, SessionType
    <2>. QED  BY <2>1, LenProperties, Parameters DEF PutInv, Types
  <1>. QED  BY <1>1, <1>2 DEF PutInv, Types

\* tftp_put_send_data() numbers the blocks as the server does, and sends no more of
\* them than it is told to.
LEMMA SendNumbers ==
  ASSUME NEW at \in Nat, NEW count \in 0 .. MaxWindow, NEW last, NEW timer,
         SendData(last, at, count, timer),
         rollover' \in Rollovers, last = WireNumber(at, rollover')
  PROVE  /\ data \subseteq data'
         /\ \A d \in data' \ data : /\ d.index \in at + 1 .. at + count
                                    /\ d.num = WireNumber(d.index, rollover')
         /\ completed \in BOOLEAN => completed' \in BOOLEAN
         /\ completed => completed'
         /\ success' => success
  <1>1. PICK n \in 0 .. Readable(at, count) :
          /\ data' = data \cup {Block(last, at, k) : k \in 1 .. n}
          /\ diskBroken' = (n < Readable(at, count))
          /\ completed' = (completed \/ diskBroken')
          /\ success' = (success /\ ~diskBroken')
    BY DEF SendData
  <1>2. Readable(at, count) \in 0 .. count
    BY Parameters DEF Readable
  <1>3. ASSUME NEW d \in data' \ data
        PROVE  /\ d.index \in at + 1 .. at + count
               /\ d.num = WireNumber(d.index, rollover')
    <2>1. PICK k \in 1 .. n : d = Block(last, at, k)
      BY <1>1, <1>3
    <2>2. k \in 0 .. MaxWindow /\ k \in 1 .. count
      BY <1>1, <1>2, <2>1, Parameters
    <2>3. d.index = at + k /\ d.num = ExpectedBlock(last, k, rollover')
      BY <2>1 DEF Block
    <2>. QED  BY <2>2, <2>3, PutNextNumber, Parameters
  <1>4. data \subseteq data'
    BY <1>1
  <1>5. diskBroken' \in BOOLEAN
    BY <1>1
  <1>6. /\ completed \in BOOLEAN => completed' \in BOOLEAN
        /\ completed => completed'
        /\ success' => success
    BY <1>1, <1>5, Zenon
  <1>. QED  BY <1>3, <1>4, <1>6

\* Sending from the block at on, which is the first that the server may lack.
LEMMA SendKeeps ==
  ASSUME PutInv, NEW at \in Nat, NEW count \in Nat, count <= session.window,
         NEW last, NEW timer, SendData(last, at, count, timer),
         transferred' = at, transferred <= at, at <= Len(stored),
         lastBlock' = last, last = WireNumber(at, rollover'),
         Settled', data # {} => rollover' = rollover,
         UNCHANGED serverVars, started' \in BOOLEAN
  PROVE  PutInv'
  <1>1. /\ session' = session /\ stored' = stored
    BY DEF serverVars
  <1>2. /\ rollover' = session.rollover /\ window' = session.window /\ session # NoSession
        /\ rollover' \in Rollovers
    BY <1>1, Ranges DEF Settled
  <1>3. /\ transferred \in Nat /\ Len(stored) \in Nat /\ session.window \in Nat
        /\ count \in 0 .. MaxWindow
    BY Ranges, Parameters
  <1>4. /\ data \subseteq data'
        /\ \A d \in data' \ data : /\ d.index \in at + 1 .. at + count
                                   /\ d.num = WireNumber(d.index, rollover')
        /\ completed \in BOOLEAN => completed' \in BOOLEAN
        /\ success' => success
    BY <1>2, <1>3, SendNumbers
  <1>5. Types'
    BY <1>1, <1>4 DEF PutInv, Types
  <1>6. Agreed'
    <2>1. session \in Sessions
      BY <1>2 DEF PutInv, Types
    <2>2. ~session.options => session.rollover = 0 /\ session.window = 1
      BY <2>1, SessionType
    <2>3. stored # <<>> => data' # {}
      BY <1>4 DEF PutInv, Agreed
    <2>. QED  BY <1>1, <1>2, <2>2, <2>3 DEF Agreed
  <1>7. Numbered'
    <2>1. ASSUME NEW d \in data'
          PROVE  /\ d.index \in 1 .. transferred' + session'.window
                 /\ d.num = WireNumber(d.index, rollover')
      <3>1. CASE d \in data
        <4>1. /\ d.index \in 1 .. transferred + session.window
              /\ d.num = WireNumber(d.index, rollover) /\ rollover' = rollover
          BY <3>1 DEF PutInv, Numbered
        <4>. QED  BY <1>1, <1>3, <4>1
      <3>2. CASE d \notin data
        <4>1. /\ d.index \in at + 1 .. at + count
              /\ d.num = WireNumber(d.index, rollover')
          BY <1>4, <2>1, <3>2
        <4>. QED  BY <1>1, <1>3, <4>1
      <3>. QED  BY <3>1, <3>2
    <2>. QED  BY <2>1 DEF Numbered
  <1>8. Windows'
    BY <1>1, <1>3 DEF PutInv, Windows
  <1>9. InOrder'
    BY <1>1 DEF PutInv, InOrder
  <1>10. success' => transferred' = Size
    BY <1>3, <1>4, Parameters DEF PutInv, Windows
  <1>. QED  BY <1>5, <1>6, <1>7, <1>8, <1>9, <1>10 DEF PutInv

\* Nothing is sent, and nothing but flags and the timer changes.
LEMMA FlagsKeep ==
  ASSUME PutInv,
         UNCHANGED <<lastBlock, window, rollover, transferred, data, serverVars>>,
         started' \in BOOLEAN, completed' \in BOOLEAN,
         started' /\ ~completed' => started /\ ~completed,
         success' => success
  PROVE  PutInv'
  BY DEF PutInv, Types, Agreed, Settled, Numbered, Windows, InOrder, serverVars
-----------------------------------------------------------------------------
LEMMA InitPutInv == Init => PutInv
  <1> SUFFICES ASSUME Init PROVE PutInv
    OBVIOUS
  <1> USE DEF Init
  <1>1. Len(stored) = 0
    OBVIOUS
  <1>2. Types
    <2>1. transferred \in Nat /\ stored \in Seq(Nat)
      OBVIOUS
    <2>2. session \in Sessions \cup {NoSession}
      BY Zenon
    <2>3. started \in BOOLEAN /\ completed \in BOOLEAN
      BY Zenon
    <2>. QED  BY <2>1, <2>2, <2>3, Zenon DEF Types
  <1>3. Agreed
    BY DEF Agreed, Rollovers, NoSession
  <1>4. WireNumber(0, 0) = 0
    BY FirstNumber DEF Rollovers
  <1>5. Numbered
    BY <1>4 DEF Numbered
  <1>6. Windows
    BY <1>1, Parameters DEF Windows, NoSession
  <1>. QED  BY <1>1, <1>2, <1>3, <1>5, <1>6 DEF PutInv, InOrder

LEMMA OptionsAckKeeps ==
  ASSUME PutInv, ProcessOptionsAck
  PROVE  PutInv'
  <1> USE DEF ProcessOptionsAck
  <1>1. session # NoSession
    BY DEF NoSession
  <1>2. /\ transferred \in Nat /\ Len(stored) \in Nat /\ session.window \in Nat
        /\ session.rollover \in Rollovers
    BY Ranges
  <1>3. Settled' /\ started' \in BOOLEAN
    BY <1>1 DEF Settled, serverVars
  <1>4. transferred <= transferred /\ transferred <= Len(stored) /\ session.window <= session.window
    BY <1>2 DEF PutInv, Windows
  <1>5. data # {} => rollover' = rollover
    BY DEF PutInv, Agreed, Settled
  <1>6. lastBlock = WireNumber(transferred, rollover')
    <2>1. CASE data # {}
      BY <1>5, <2>1 DEF PutInv, Numbered
    <2>2. CASE data = {}
      <3>1. Len(stored) = 0
        BY <2>2 DEF PutInv, Agreed
      <3>2. transferred = 0
        BY <1>2, <1>4, <3>1
      <3>3. lastBlock = WireNumber(0, rollover) /\ rollover \in Rollovers
        BY <3>2 DEF PutInv, Numbered, Agreed
      <3>4. WireNumber(0, rollover) = 0 /\ WireNumber(0, session.rollover) = 0
        BY <1>2, <3>3, FirstNumber
      <3>. QED  BY <3>2, <3>3, <3>4
    <2>. QED  BY <2>1, <2>2
  <1>7. /\ SendData(lastBlock, transferred, session.window, armed)
        /\ transferred' = transferred /\ lastBlock' = lastBlock /\ UNCHANGED serverVars
    OBVIOUS
  <1>. QED  BY <1>2, <1>3, <1>4, <1>5, <1>6, <1>7, SendKeeps

\* An acknowledgement is taken for the block it is of.
LEMMA AckIsOf ==
  ASSUME PutInv, Settled, NEW j \in Nat, j <= Len(stored), RecentAck(j),
         NEW n \in Acknowledged(WireNumber(j, session.rollover))
  PROVE  n \in Nat /\ n <= session.window /\ j = transferred + n
  <1>1. /\ transferred \in Nat /\ Len(stored) \in Nat
        /\ session.window \in Nat /\ session.window <= MaxWindow
        /\ session.rollover \in Rollovers
    BY Ranges
  <1>2. rollover = session.rollover /\ window = session.window
    BY DEF Settled
  <1>3. /\ n \in Nat /\ n <= session.window /\ n \in 0 .. MaxWindow
        /\ WireNumber(j, rollover) = ExpectedBlock(lastBlock, n, rollover)
    BY <1>1, <1>2, Parameters DEF Acknowledged
  <1>4. lastBlock = WireNumber(transferred, rollover)
    BY DEF PutInv, Numbered
  <1>5. WireNumber(j, rollover) = WireNumber(transferred + n, rollover)
    BY <1>1, <1>2, <1>3, <1>4, PutNextNumber
  <1>6. transferred - j < Period(session.rollover) - session.window
    BY DEF RecentAck
  <1>7. Period(session.rollover) \in Nat /\ session.window < Period(session.rollover)
    BY <1>1, PeriodType, Parameters
  <1>8. transferred + n \in Nat /\ (transferred + n) - j < Period(session.rollover)
    BY <1>1, <1>3, <1>6, <1>7
  <1>9. j - (transferred + n) < Period(session.rollover)
    <2>1. Len(stored) <= transferred + session.window
      BY DEF PutInv, Windows
    <2>. QED  BY <1>1, <1>3, <1>7, <2>1
  <1>10. j = transferred + n
    BY <1>1, <1>2, <1>5, <1>8, <1>9, PutSameNumber
  <1>. QED  BY <1>3, <1>10

LEMMA AckKeeps ==
  ASSUME PutInv, NEW j \in 0 .. Size, ProcessAck(j)
  PROVE  PutInv'
  <1> DEFINE num == WireNumber(j, session.rollover)
             S == Acknowledged(num)
  <1>1. /\ session # NoSession /\ j <= Len(stored) /\ RecentAck(j)
        /\ j = 0 => ~session.options \/ data # {}
        /\ started' = TRUE
        /\ UNCHANGED <<window, rollover, outcome, serverVars>>
        /\ AckUnexpected(num) \/ AckExpected(num)
    BY DEF ProcessAck
  <1>2. /\ transferred \in Nat /\ Len(stored) \in Nat /\ j \in Nat
        /\ session.window \in Nat
        /\ completed \in BOOLEAN /\ stored \in Seq(Nat) /\ session \in Sessions
    BY <1>1, Ranges, Parameters DEF PutInv, Types
  <1>3. Settled
    <2>1. CASE data # {}
      BY <2>1 DEF PutInv, Agreed
    <2>2. CASE data = {}
      <3>1. Len(stored) = 0
        BY <2>2 DEF PutInv, Agreed
      <3>2. j = 0
        BY <1>1, <1>2, <3>1
      <3>3. ~session.options
        BY <1>1, <2>2, <3>2
      <3>. QED  BY <1>1, <1>2, <3>3, SessionType DEF PutInv, Agreed, Settled
    <2>. QED  BY <2>1, <2>2
  <1>4. CASE AckUnexpected(num)
    <2>1. Agreed'
      BY <1>1, <1>3, <1>4 DEF PutInv, Agreed, Settled, AckUnexpected, serverVars
    <2>2. Types'
      BY <1>1, <1>4 DEF PutInv, Types, AckUnexpected, serverVars
    <2>3. Numbered' /\ Windows' /\ InOrder' /\ (success' => transferred' = Size)
      BY <1>1, <1>4 DEF PutInv, Numbered, Windows, InOrder, AckUnexpected, serverVars
    <2>. QED  BY <2>1, <2>2, <2>3 DEF PutInv
  <1>5. CASE AckExpected(num)
    <2> DEFINE n == Largest(S)
               at == transferred + n
    <2>1. \A m \in S : m \in Nat /\ m <= session.window /\ j = transferred + m
      BY <1>1, <1>2, <1>3, AckIsOf
    <2>2. n \in S
      <3>1. PICK m \in S : TRUE
        BY <1>5 DEF AckExpected
      <3>2. \A k \in S : k <= m
        BY <1>2, <2>1
      <3>. QED  BY <3>1, <3>2 DEF Largest
    <2>3. n \in Nat /\ n <= session.window /\ at = j
      BY <2>1, <2>2
    <2>4. /\ lastBlock' = num /\ transferred' = at
          /\ IF Complete(at)
             THEN /\ completed' = TRUE /\ success' = TRUE
                  /\ UNCHANGED <<armed, diskBroken, data>>
             ELSE SendData(num, at, IF n = window THEN window ELSE 1, armed)
      BY <1>5 DEF AckExpected
    <2> HIDE DEF n, S
    <2>5. at \in Nat /\ transferred <= at /\ at <= Len(stored) /\ at = j
      BY <1>1, <1>2, <2>3
    <2> HIDE DEF at
    <2>6. num = WireNumber(at, rollover) /\ num = WireNumber(at, rollover')
      BY <1>1, <1>3, <2>5 DEF Settled
    <2> HIDE DEF num
    <2>7. Settled'
      BY <1>1, <1>3 DEF Settled, serverVars
    <2>8. CASE Complete(at)
      <3>1. /\ completed' = TRUE /\ success' = TRUE /\ data' = data
            /\ stored' = stored /\ session' = session /\ rollover' = rollover
            /\ window' = window
        BY <1>1, <2>4, <2>8 DEF serverVars
      <3>2. Types'
        BY <1>1, <2>4, <2>5, <3>1 DEF PutInv, Types
      <3>3. Agreed'
        BY <2>7, <3>1 DEF PutInv, Agreed
      <3>4. Numbered'
        <4>1. ASSUME NEW d \in data
              PROVE  /\ d.index \in 1 .. at + session.window
                     /\ d.num = WireNumber(d.index, rollover)
          <5>1. /\ d.index \in 1 .. transferred + session.window
                /\ d.num = WireNumber(d.index, rollover)
            BY DEF PutInv, Numbered
          <5>. QED  BY <1>2, <2>5, <5>1
        <4>. QED  BY <2>4, <2>6, <3>1, <4>1 DEF Numbered
      <3>5. Windows' /\ transferred' = Size
        BY <1>2, <2>4, <2>5, <2>8, <3>1, Parameters DEF PutInv, Windows, Complete
      <3>6. InOrder'
        BY <3>1 DEF PutInv, InOrder
      <3>. QED  BY <3>2, <3>3, <3>4, <3>5, <3>6 DEF PutInv
    <2>9. CASE ~Complete(at)
      <3> DEFINE count == IF n = window THEN window ELSE 1
      <3>1. count \in Nat /\ count <= session.window
        BY <1>2, <1>3, SessionType, Parameters DEF Settled
      <3>2. SendData(num, at, count, armed)
        BY <2>4, <2>9
      <3> HIDE DEF count
      <3>3. started' \in BOOLEAN /\ UNCHANGED serverVars /\ rollover' = rollover
        BY <1>1
      <3>. QED  BY <2>4, <2>5, <2>6, <2>7, <3>1, <3>2, <3>3, SendKeeps
    <2>. QED  BY <2>8, <2>9
  <1>. QED  BY <1>1, <1>4, <1>5

LEMMA DataAgainKeeps ==
  ASSUME PutInv, DataAgain,
         UNCHANGED <<started, lastBlock, window, rollover, transferred, serverVars>>
  PROVE  PutInv'
  <1>1. /\ started /\ ~completed
        /\ SendData(lastBlock, transferred, 1, FALSE)
    BY DEF DataAgain
  <1>2. Settled /\ Settled'
    BY <1>1 DEF PutInv, Agreed, Settled, serverVars
  <1>3. 1 \in Nat /\ 1 <= session.window /\ transferred \in Nat /\ transferred <= transferred
    BY <1>2, Ranges, SessionType, Parameters DEF PutInv, Types, Settled
  <1>4. /\ transferred <= Len(stored) /\ lastBlock = WireNumber(transferred, rollover')
        /\ started' \in BOOLEAN
    BY DEF PutInv, Types, Windows, Numbered
  <1>. QED  BY <1>1, <1>2, <1>3, <1>4, SendKeeps

LEMMA TimerKeeps ==
  ASSUME PutInv, TimerExpired
  PROVE  PutInv'
  <1>1. started \in BOOLEAN /\ completed \in BOOLEAN
    BY DEF PutInv, Types
  <1>2. UNCHANGED <<started, lastBlock, window, rollover, transferred, serverVars>>
    BY DEF TimerExpired
  <1>3. CASE GiveUp
    BY <1>1, <1>2, <1>3, FlagsKeep DEF GiveUp
  <1>4. CASE TooLate
    BY <1>1, <1>2, <1>4, FlagsKeep DEF TooLate
  <1>5. CASE RequestAgain
    BY <1>1, <1>2, <1>5, FlagsKeep DEF RequestAgain
  <1>6. CASE DataAgain
    BY <1>2, <1>6, DataAgainKeeps
  <1>. QED  BY <1>3, <1>4, <1>5, <1>6 DEF TimerExpired

LEMMA ClientKeeps ==
  ASSUME PutInv, Client
  PROVE  PutInv'
  <1>1. started \in BOOLEAN /\ completed \in BOOLEAN
    BY DEF PutInv, Types
  <1>2. CASE ProcessOptionsAck
    BY <1>2, OptionsAckKeeps
  <1>3. CASE \E j \in 0 .. Size : ProcessAck(j)
    BY <1>3, AckKeeps
  <1>4. CASE ProcessError
    BY <1>1, <1>4, FlagsKeep DEF ProcessError
  <1>5. CASE TimerExpired
    BY <1>5, TimerKeeps
  <1>6. CASE Leave
    BY <1>1, <1>6, FlagsKeep DEF Leave
  <1>. QED  BY <1>2, <1>3, <1>4, <1>5, <1>6 DEF Client

\* The server stores the block that is next.
LEMMA StoresNext ==
  ASSUME PutInv, NEW d \in data, RecentData(d), Len(stored) < Size,
         d.num = WireNumber(Len(stored) + 1, session.rollover)
  PROVE  d.index = Len(stored) + 1 /\ Len(stored) + 1 <= transferred + session.window
  <1>1. /\ transferred \in Nat /\ Len(stored) \in Nat /\ Len(stored) + 1 \in Nat
        /\ session.window \in Nat /\ session.window <= MaxWindow
        /\ session.rollover \in Rollovers
    BY Ranges
  <1>2. rollover = session.rollover
    BY DEF PutInv, Agreed, Settled
  <1>3. /\ d.index \in Nat /\ d.index <= transferred + session.window
        /\ d.num = WireNumber(d.index, rollover)
    BY <1>1 DEF PutInv, Numbered
  <1>4. Period(session.rollover) \in Nat /\ session.window < Period(session.rollover)
    BY <1>1, PeriodType, Parameters
  <1>5. Len(stored) + 1 - d.index < Period(session.rollover)
    BY DEF RecentData
  <1>6. d.index - (Len(stored) + 1) < Period(session.rollover)
    <2>1. transferred <= Len(stored)
      BY DEF PutInv, Windows
    <2>. QED  BY <1>1, <1>3, <1>4, <2>1
  <1>7. WireNumber(d.index, session.rollover) = WireNumber(Len(stored) + 1, session.rollover)
    BY <1>2, <1>3
  <1>8. d.index = Len(stored) + 1
    <2> DEFINE i == d.index
               next == Len(stored) + 1
               r == session.rollover
    <2>1. /\ r \in Rollovers /\ i \in Nat /\ next \in Nat
          /\ WireNumber(i, r) = WireNumber(next, r)
          /\ next - i < Period(r) /\ i - next < Period(r)
      BY <1>1, <1>3, <1>5, <1>6, <1>7
    <2> HIDE DEF i, next, r
    <2>2. i = next
      BY <2>1, PutSameNumber
    <2>. QED  BY <2>2 DEF i, next
  <1>. QED  BY <1>3, <1>8

LEMMA ServerKeeps ==
  ASSUME PutInv, Server
  PROVE  PutInv'
  <1>1. CASE \E s \in Sessions : ServerOpens(s)
    <2>1. PICK s \in Sessions : ServerOpens(s)
      BY <1>1
    <2>2. /\ session = NoSession /\ session' = s /\ stored' = stored
          /\ UNCHANGED clientVars
      BY <2>1 DEF ServerOpens
    <2>3. ~session.options /\ session.window = 0
      BY <2>2 DEF NoSession
    <2>4. data = {} /\ ~(started /\ ~completed) /\ rollover = 0 /\ window = 1
      BY <2>2, <2>3 DEF PutInv, Agreed, Settled
    <2>5. s.window \in Nat
      BY SessionType, Parameters
    <2>6. Types'
      BY <2>2 DEF PutInv, Types, clientVars
    <2>7. Agreed'
      BY <2>2, <2>4 DEF PutInv, Agreed, clientVars
    <2>8. Numbered'
      BY <2>2, <2>4 DEF PutInv, Numbered, clientVars
    <2>9. Windows'
      <3>1. transferred \in Nat /\ Len(stored) \in Nat
        BY Ranges
      <3>. QED  BY <2>2, <2>3, <2>5, <3>1 DEF PutInv, Windows, clientVars
    <2>10. InOrder' /\ (success' => transferred' = Size)
      BY <2>2 DEF PutInv, InOrder, clientVars
    <2>. QED  BY <2>6, <2>7, <2>8, <2>9, <2>10 DEF PutInv
  <1>2. CASE \E d \in data : ServerStores(d)
    <2>1. PICK d \in data : ServerStores(d)
      BY <1>2
    <2>2. /\ Len(stored) < Size /\ stored' = Append(stored, d.index)
          /\ session' = session /\ UNCHANGED clientVars
      BY <2>1 DEF ServerStores
    <2>3. d.index = Len(stored) + 1 /\ Len(stored) + 1 <= transferred + session.window
      BY <2>1, StoresNext DEF ServerStores
    <2>4. /\ transferred \in Nat /\ Len(stored) \in Nat /\ session.window \in Nat
      BY Ranges
    <2>5. stored \in Seq(Nat) /\ d.index \in Nat
      BY <2>3, <2>4 DEF PutInv, Types
    <2>6. /\ stored' \in Seq(Nat) /\ Len(stored') = Len(stored) + 1
          /\ \A k \in 1 .. Len(stored) : stored'[k] = stored[k]
          /\ stored'[Len(stored) + 1] = d.index
      BY <2>2, <2>5, AppendProperties
    <2>7. Types'
      BY <2>2, <2>6 DEF PutInv, Types, clientVars
    <2>8. Agreed'
      BY <2>1, <2>2 DEF PutInv, Agreed, Settled, clientVars
    <2>9. Numbered'
      BY <2>2 DEF PutInv, Numbered, clientVars
    <2>10. Windows'
      BY <2>2, <2>3, <2>4, <2>6, Parameters DEF PutInv, Windows, clientVars
    <2>11. InOrder'
      BY <2>3, <2>4, <2>6 DEF PutInv, InOrder
    <2>12. success' => transferred' = Size
      BY <2>2 DEF PutInv, clientVars
    <2>. QED  BY <2>7, <2>8, <2>9, <2>10, <2>11, <2>12 DEF PutInv
  <1>3. CASE ServerFails
    BY <1>3 DEF ServerFails, PutInv, Types, Agreed, Settled, Numbered, Windows, InOrder,
                clientVars
  <1>. QED  BY <1>1, <1>2, <1>3 DEF Server

LEMMA StepPutInv == PutInv /\ [Next]_vars => PutInv'
  <1> SUFFICES ASSUME PutInv, [Next]_vars
               PROVE  PutInv'
    OBVIOUS
  <1>1. CASE Client
    BY <1>1, ClientKeeps
  <1>2. CASE Server
    BY <1>2, ServerKeeps
  <1>3. CASE UNCHANGED vars
    BY <1>3 DEF vars, clientVars, serverVars, PutInv, Types, Agreed, Settled, Numbered,
                Windows, InOrder
  <1>. QED  BY <1>1, <1>2, <1>3 DEF Next

\* What the upload rests on, for every file, window and modulus: both sides go by the
\* same options and numbers, and the server is ahead by no more than a window.
THEOREM TftpPutInvariant == Spec => []PutInv
  BY InitPutInv, StepPutInv, PTL DEF Spec

\* The server stores the file's blocks once and in their places, for every file, window
\* and modulus, whatever is lost, repeated or late: each is sent with its own number.
THEOREM TftpPutInOrder == Spec => []InOrder
  <1>1. PutInv => InOrder
    BY DEF PutInv
  <1>. QED  BY <1>1, TftpPutInvariant, PTL

\* What the program takes for stored by an acknowledgement's number, the server has.
THEOREM TftpPutClientNotAhead == Spec => []ClientNotAhead
  <1>1. PutInv => ClientNotAhead
    BY DEF PutInv, Windows, ClientNotAhead
  <1>. QED  BY <1>1, TftpPutInvariant, PTL
-----------------------------------------------------------------------------
\* Every step stores blocks, reports what is so, or does neither.
LEMMA StepTransfer ==
  ASSUME PutInv, PutInv', [Next]_vars
  PROVE  [Abs!Next]_(Abs!vars)
  <1> USE DEF Abs!Next, Abs!vars
  <1>1. /\ Len(stored) \in Nat /\ Len(stored) <= Size /\ transferred \in Nat
        /\ transferred <= Len(stored)
    BY Ranges DEF PutInv, Windows
  <1>2. CASE UNCHANGED <<stored, outcome>>
    BY <1>2
  <1>3. CASE Leave
    <2>1. CASE success
      <3>1. Len(stored) = Size
        BY <1>1, <2>1, Parameters DEF PutInv
      <3>. QED  BY <1>3, <2>1, <3>1 DEF Leave, Running, serverVars, Abs!Succeed
    <2>2. CASE ~success
      BY <1>3, <2>2 DEF Leave, Running, serverVars, Abs!Fail
    <2>. QED  BY <2>1, <2>2
  <1>4. CASE \E d \in data : ServerStores(d)
    <2>1. PICK d \in data : ServerStores(d)
      BY <1>4
    <2>2. /\ Len(stored) < Size /\ stored' = Append(stored, d.index)
          /\ outcome' = outcome
      BY <2>1 DEF ServerStores, clientVars
    <2>3. stored \in Seq(Nat) /\ d.index \in Nat
      BY <1>1, <2>1, StoresNext DEF PutInv, Types, ServerStores
    <2>4. Len(stored') = Len(stored) + 1
      BY <2>2, <2>3
    <2>5. Len(stored') \in Len(stored) + 1 .. Size
      BY <1>1, <2>2, <2>4, Parameters
    <2>. QED  BY <2>2, <2>5 DEF Abs!Store
  <1>5. CASE UNCHANGED vars
    BY <1>2, <1>5 DEF vars, clientVars, serverVars
  <1>6. CASE Next /\ ~Leave /\ ~(\E d \in data : ServerStores(d))
    BY <1>2, <1>6 DEF Next, Client, Server, ProcessOptionsAck, ProcessAck, ProcessError,
                      TimerExpired, ServerOpens, ServerFails, clientVars, serverVars
  <1>. QED  BY <1>3, <1>4, <1>5, <1>6

\* The program reports success only when the server holds the complete file, whatever the
\* network, the server and a failing disk do.
THEOREM TftpPutTransfers == Spec => ImplementsTransfer
  <1>1. Init => Abs!Init
    BY DEF Init, Abs!Init
  <1>2. PutInv /\ PutInv' /\ [Next]_vars => [Abs!Next]_(Abs!vars)
    BY StepTransfer
  <1>. QED  BY <1>1, <1>2, TftpPutInvariant, PTL DEF Spec, ImplementsTransfer, Abs!Spec
=============================================================================
