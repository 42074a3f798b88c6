--------------------------- MODULE HardwareProofs ---------------------------
(***************************************************************************)
(* What the program makes of its hardware.  The wrapping timer of a packet *)
(* sink is never late by more than the time since the last net_pump(), and *)
(* implements the countdown of Countdown, for every word size, every set   *)
(* of durations and every latency.  The Ethernet driver and its card are a *)
(* link (Link), for every ring, every size of frames and every order of    *)
(* the card's events.  The memory is found as it is fitted, and the loader *)
(* starts what the file says and leaves gogoboot alone until then, for     *)
(* every size of memory and every image that is as the code expects.  And  *)
(* the count of free clusters that FatFs goes by is that of the FAT of the *)
(* disk, for every size of disk and every sequence of commands.            *)
(***************************************************************************)
EXTENDS SinkTimer, Ne2000, Loader, Fat, NumberTheorems, SequenceTheorems, FiniteSetTheorems

\* The top bit of a word splits the words into two halves.
LEMMA TopBitHalf == TopBit \in Nat /\ TopBit >= 2 /\ Word = 2 * TopBit
  BY WordAssumption DEF TopBit

\* Truncation to a word: it does nothing to a word, and wraps a number that is
\* less than one word out of range (timer_t arithmetic of core/timer.c).
LEMMA TruncateCases ==
  ASSUME NEW x \in Int
  PROVE  /\ Truncate(x) \in Words
         /\ x \in Words => Truncate(x) = x
         /\ x \in Word .. 2 * Word - 1 => Truncate(x) = x - Word
         /\ x \in -Word .. -1 => Truncate(x) = x + Word
  BY WordAssumption, SMTT(30) DEF Truncate, Words

\* The countdown that a timer value stands for, seen from clock.
Ahead(t, now) == Signed(Truncate(t - now))

\* The timer reads as a number between one half word late and one half word
\* early, and timer_expired() tells whether it is late.
LEMMA AheadRange ==
  ASSUME NEW t \in Words, NEW now \in Words
  PROVE  /\ Ahead(t, now) \in -TopBit .. TopBit - 1
         /\ TimerExpired(t, now) <=> Ahead(t, now) < 0
  <1>1. Truncate(t - now) \in Words
    BY WordAssumption, TruncateCases DEF Words
  <1>2. QED
    BY <1>1, TopBitHalf, WordAssumption DEF Ahead, Signed, TimerExpired, Words

\* One tick of the clock takes one off the countdown, unless it is half a word
\* late already (then it would wrap to the far future).
LEMMA AheadTick ==
  ASSUME NEW t \in Words, NEW now \in Words, Ahead(t, now) > -TopBit
  PROVE  Ahead(t, Truncate(now + 1)) = Ahead(t, now) - 1
  <1> DEFINE next == Truncate(now + 1)
  <1>1. next \in Words /\ next = IF now = Word - 1 THEN 0 ELSE now + 1
    BY WordAssumption, TruncateCases DEF Words
  <1>2. Truncate(t - now) = IF t >= now THEN t - now ELSE t - now + Word
    BY WordAssumption, TruncateCases DEF Words
  <1>3. Truncate(t - next) = IF t >= next THEN t - next ELSE t - next + Word
    BY <1>1, WordAssumption, TruncateCases DEF Words
  <1>4. QED
    BY <1>1, <1>2, <1>3, TopBitHalf, WordAssumption DEF Ahead, Signed, Words

\* A timer that was just armed is its duration ahead of the clock.
LEMMA AheadArm ==
  ASSUME NEW now \in Words, NEW d \in 1 .. TopBit - 1
  PROVE  /\ SetTimerTicks(now, d) \in Words
         /\ Ahead(SetTimerTicks(now, d), now) = d
  <1>1. d \in Nat /\ ClampTicks(d) = d
    BY TopBitHalf DEF ClampTicks
  <1>2. SetTimerTicks(now, d) = IF now + d < Word THEN now + d ELSE now + d - Word
    BY <1>1, TopBitHalf, WordAssumption, TruncateCases DEF SetTimerTicks, Words
  <1>3. SetTimerTicks(now, d) \in Words
    BY <1>1, <1>2, TopBitHalf, WordAssumption DEF Words
  <1>4. Truncate(SetTimerTicks(now, d) - now) = d
    <2> DEFINE t == SetTimerTicks(now, d)
    <2>1. t - now \in {d, d - Word}
      BY <1>1, <1>2, WordAssumption DEF Words
    <2>2. t - now = d => Truncate(t - now) = d
      BY <1>1, TopBitHalf, TruncateCases DEF Words
    <2>3. t - now = d - Word => Truncate(t - now) = d
      BY <1>1, TopBitHalf, WordAssumption, TruncateCases DEF Words
    <2>4. QED
      BY <2>1, <2>2, <2>3
  <1>5. QED
    BY <1>1, <1>3, <1>4, TopBitHalf DEF Ahead, Signed

-----------------------------------------------------------------------------
\* Inductive: an armed timer is late by no more than the ticks since the last
\* net_pump() looked at it.
IInv == TypeOK /\ (Armed => Ahead(timer, clock) >= -idle)

LEMMA InitIInv == SinkInit => IInv
  BY WordAssumption, SinkAssumption DEF SinkInit, IInv, TypeOK, Armed, Words

LEMMA NextIInv == IInv /\ [SinkNext]_sinkVars => IInv'
  <1> SUFFICES ASSUME IInv, [SinkNext]_sinkVars PROVE IInv'
    OBVIOUS
  <1> USE SinkAssumption DEF IInv, TypeOK, Armed
  <1>1. CASE TimerInterrupt
    <2>1. clock' \in Words /\ idle' \in 0 .. Latency
      BY <1>1, TruncateCases, WordAssumption DEF TimerInterrupt, Words
    <2>2. Armed => Ahead(timer, clock') = Ahead(timer, clock) - 1
      BY <1>1, AheadTick, AheadRange, TopBitHalf DEF TimerInterrupt
    <2>3. QED
      BY <1>1, <2>1, <2>2, AheadRange, TopBitHalf DEF TimerInterrupt
  <1>2. ASSUME NEW d \in Durations, Arm(d) PROVE IInv'
    BY <1>2, AheadArm, TopBitHalf DEF Arm
  <1>3. CASE PumpFires
    BY <1>3, WordAssumption DEF PumpFires, Words
  <1>4. CASE PumpSkips
    BY <1>4, AheadRange, TopBitHalf DEF PumpSkips
  <1>5. CASE UNCHANGED sinkVars
    BY <1>5 DEF sinkVars
  <1>6. QED
    BY <1>1, <1>2, <1>3, <1>4, <1>5 DEF SinkNext, Pump

\* The clock, the timer and the pump interval stay in their ranges.
THEOREM SinkTimerTypeOK == SinkSpec => []TypeOK
  <1>1. IInv => TypeOK
    BY DEF IInv
  <1>2. QED
    BY InitIInv, NextIInv, <1>1, PTL DEF SinkSpec

\* net_pump() finds a timer late by at most the time since its last call.
THEOREM SinkTimerNeverLate == SinkSpec => []NeverLate
  <1>1. IInv => NeverLate
    BY AheadRange, TopBitHalf, SinkAssumption
    DEF IInv, TypeOK, NeverLate, AbsCountdown!Punctual, Left, Ahead, Armed
  <1>2. QED
    BY InitIInv, NextIInv, <1>1, PTL DEF SinkSpec

\* Every step of the wrapping timer is a step of the countdown, provided no
\* arming computes the reserved value 0.
LEMMA StepSimulation ==
  IInv /\ [SinkNext /\ ~ArmsToZero]_sinkVars => [AbsCountdown!Next]_(AbsCountdown!vars)
  <1> SUFFICES ASSUME IInv, [SinkNext /\ ~ArmsToZero]_sinkVars
               PROVE  [AbsCountdown!Next]_(AbsCountdown!vars)
    OBVIOUS
  <1> USE SinkAssumption DEF IInv, TypeOK
  <1>1. Left = IF Armed THEN Ahead(timer, clock) ELSE 0
    BY DEF Left, Ahead
  <1>2. Left' = IF timer' # 0 THEN Ahead(timer', clock') ELSE 0
    BY DEF Left, Ahead, Armed
  <1>3. CASE TimerInterrupt
    <2>1. CASE Armed
      <3>1. Left' = Left - 1 /\ Left > -Latency
        BY <1>1, <1>2, <1>3, <2>1, AheadTick, AheadRange, TopBitHalf
        DEF TimerInterrupt, Armed
      <3>2. AbsCountdown!Tick
        BY <1>3, <2>1, <3>1 DEF TimerInterrupt, AbsCountdown!Tick, Armed
      <3>3. QED
        BY <3>2 DEF AbsCountdown!Next
    <2>2. CASE ~Armed
      BY <1>1, <1>2, <1>3, <2>2 DEF TimerInterrupt, AbsCountdown!vars, Armed
    <2>3. QED
      BY <2>1, <2>2
  <1>4. ASSUME NEW d \in Durations, Arm(d), ~ArmsToZero PROVE AbsCountdown!Next
    <2>1. timer' # 0
      BY <1>4 DEF ArmsToZero
    <2>2. Left' = d
      BY <1>2, <1>4, <2>1, AheadArm DEF Arm
    <2>3. AbsCountdown!Arm(d)
      BY <2>1, <2>2 DEF AbsCountdown!Arm, Armed
    <2>4. QED
      BY <2>3 DEF AbsCountdown!Next
  <1>5. CASE PumpFires
    <2>1. AbsCountdown!Fire
      BY <1>1, <1>2, <1>5, AheadRange DEF PumpFires, AbsCountdown!Fire, Armed
    <2>2. QED
      BY <2>1 DEF AbsCountdown!Next
  <1>6. CASE PumpSkips
    BY <1>1, <1>2, <1>6 DEF PumpSkips, AbsCountdown!vars, Armed
  <1>7. CASE UNCHANGED sinkVars
    BY <1>1, <1>2, <1>7 DEF sinkVars, AbsCountdown!vars, Armed
  <1>8. QED
    BY <1>3, <1>4, <1>5, <1>6, <1>7 DEF SinkNext, Pump

\* The safety part of ImplementsCountdown: the timer of net_pump() fires after
\* its duration and not more than Latency ticks late, however often the clock
\* wraps meanwhile.
THEOREM SinkTimerImplementsCountdown ==
  SinkSpecNoZero => AbsCountdown!Init /\ [][AbsCountdown!Next]_(AbsCountdown!vars)
  <1>1. SinkInit => AbsCountdown!Init
    BY DEF SinkInit, AbsCountdown!Init, Left, Armed
  <1>2. IInv /\ [SinkNext /\ ~ArmsToZero]_sinkVars => IInv'
    BY NextIInv
  <1>3. QED
    BY InitIInv, <1>1, <1>2, StepSimulation, PTL DEF SinkSpecNoZero
-----------------------------------------------------------------------------
(***************************************************************************)
(* The Ethernet driver.                                                    *)
(***************************************************************************)
\* A transmission that has ended, and that dp83902a_TxEvent() was not called for yet.
Reported == "Tx" \in isr \/ ("Tx" \in seen /\ pc = "tx")

\* The buffers are filled in turn, and emptied in the order they were filled.
Turns ==
  /\ tx \subseteq {1, 2} /\ txNext \in {1, 2} /\ txStarted \in BOOLEAN
  /\ xmit \in {"idle", "sending", "aborted"}
  /\ txStarted => txInt \in tx
  /\ ~txStarted => tx = {} /\ txInt = 0 /\ xmit = "idle"
  /\ xmit # "idle" => tpsr = txInt
  /\ tx = {txInt} => txNext = 3 - txInt
  /\ tx = {1, 2} => txNext = txInt

\* The driver hears of the end of each transmission it began, once.
Heard ==
  /\ txStarted => (xmit = "idle" <=> Reported)
  /\ pc = "ack" => seen \subseteq isr
  /\ pc = "restart" /\ txStarted => (xmit = "idle" <=> "Tx" \in seen)

CardInv == Turns /\ Heard

LEMMA InitCardInv == CardInit => CardInv
  <1> SUFFICES ASSUME CardInit PROVE CardInv
    OBVIOUS
  <1>1. tx = {} /\ txNext = 1 /\ txInt = 0 /\ txStarted = FALSE /\ xmit = "idle" /\ pc = "idle"
    BY DEF CardInit
  <1>. QED  BY <1>1 DEF CardInv, Turns, Heard

\* The buffer that is not b has the number 3 - b.
LEMMA TwoBuffers ==
  ASSUME NEW b \in {1, 2}
  PROVE  /\ 3 - b \in {1, 2} /\ 3 - b # b /\ 3 - (3 - b) = b
         /\ {b} # {1, 2} /\ {1, 2} \ {b} = {3 - b} /\ {b} \cup {3 - b} = {1, 2}
         /\ \A t \in SUBSET {1, 2} : b \in t => t = {b} \/ t = {1, 2}
  <1>1. 3 - b \in {1, 2} /\ 3 - b # b /\ 3 - (3 - b) = b
    OBVIOUS
  <1>2. {1, 2} = {b, 3 - b}
    <2>1. CASE b = 1
      BY <2>1
    <2>2. CASE b = 2
      BY <2>2
    <2>. QED  BY <2>1, <2>2
  <1> DEFINE c == 3 - b
  <1> HIDE DEF c
  <1>3. c # b /\ {1, 2} = {b, c}
    BY <1>1, <1>2 DEF c
  <1>4. /\ {b} # {1, 2} /\ {1, 2} \ {b} = {c} /\ {b} \cup {c} = {1, 2}
        /\ \A t \in SUBSET {1, 2} : b \in t => t = {b} \/ t = {1, 2}
    <2>1. ASSUME NEW t \in SUBSET {b, c}, b \in t
          PROVE  t = {b} \/ t = {b, c}
      <3>1. CASE c \in t
        BY <2>1, <3>1
      <3>2. CASE c \notin t
        BY <2>1, <3>2
      <3>. QED  BY <3>1, <3>2
    <2>2. {b} # {b, c} /\ {b, c} \ {b} = {c} /\ {b} \cup {c} = {b, c}
      BY <1>3
    <2>. QED  BY <1>3, <2>1, <2>2
  <1>. QED  BY <1>1, <1>4 DEF c

\* A frame is put into the free buffer, and sent at once if the other is free too.
LEMMA SendCard ==
  ASSUME CardInv, Send
  PROVE  CardInv'
  <1> USE DEF CardInv, Turns, Heard, Reported
  <1>1. /\ pc = "idle" /\ pc' = "idle" /\ tx # {1, 2}
        /\ tx' = tx \cup {txNext} /\ txNext' = 3 - txNext /\ seen' = seen
    BY DEF Send
  <1>2. CASE txStarted
    <2>1. UNCHANGED <<isr, tpsr, xmit, txStarted, txInt>>
      BY <1>2 DEF Send
    <2>2. tx = {txInt} /\ txInt \in {1, 2} /\ txNext = 3 - txInt
      BY <1>1, <1>2
    <2>3. tx' = {1, 2} /\ txNext' = txInt'
      BY <1>1, <2>1, <2>2
    <2>. QED  BY <1>1, <1>2, <2>1, <2>2, <2>3
  <1>3. CASE ~txStarted
    <2>1. /\ isr' = isr \ {"Tx"} /\ tpsr' = txNext /\ xmit' = "sending"
          /\ txStarted' = TRUE /\ txInt' = txNext
      BY <1>3 DEF Send, StartXmit
    <2>2. tx' = {txInt'} /\ txNext' = 3 - txInt' /\ txInt' \in {1, 2}
      BY <1>1, <1>3, <2>1
    <2>3. tx' # {1, 2} /\ txNext' \in {1, 2}
      BY <2>2, TwoBuffers
    <2>. QED  BY <1>1, <2>1, <2>2, <2>3
  <1>. QED  BY <1>2, <1>3

\* An event ends the transmission it is about, and begins that of the other buffer.
LEMMA HandleTxCard ==
  ASSUME CardInv, HandleTx
  PROVE  CardInv'
  <1> USE DEF CardInv, Turns, Heard, Reported
  <1>1. pc = "tx" /\ pc' = "rx" /\ seen' = seen
    BY DEF HandleTx
  <1>2. CASE "Tx" \in seen /\ txStarted
    <2>1. xmit = "idle" /\ txInt \in tx /\ UNCHANGED <<txNext, buffer>>
      BY <1>1, <1>2 DEF HandleTx
    <2>2. tx' = tx \ {txInt}
      BY <1>2 DEF HandleTx, TxEvent
    <2>3. CASE tx' = {}
      <3>1. txStarted' = FALSE /\ txInt' = 0 /\ UNCHANGED <<isr, tpsr, xmit>>
        BY <1>2, <2>3 DEF HandleTx, TxEvent
      <3>. QED  BY <1>1, <2>1, <2>3, <3>1
    <2>4. CASE tx' # {}
      <3> DEFINE b == CHOOSE c \in tx' : TRUE
      <3>1. b \in tx'
        BY <2>4
      <3>2. /\ isr' = isr \ {"Tx"} /\ tpsr' = b /\ xmit' = "sending"
            /\ txStarted' = TRUE /\ txInt' = b
        BY <1>2, <2>4 DEF HandleTx, TxEvent, StartXmit
      <3> HIDE DEF b
      <3>3. tx = {1, 2} /\ txNext = txInt /\ b = 3 - txInt /\ tx' = {b} /\ b \in {1, 2}
        <4>1. tx \in SUBSET {1, 2} /\ txInt \in tx /\ txInt \in {1, 2}
          BY <2>1
        <4>2. tx = {1, 2}
          BY <2>2, <3>1, <4>1, TwoBuffers
        <4>3. txNext = txInt /\ tx' = {3 - txInt}
          BY <2>2, <4>1, <4>2, TwoBuffers
        <4>. QED  BY <3>1, <4>1, <4>2, <4>3, TwoBuffers
      <3>4. tx' = {txInt'} /\ txNext' = 3 - txInt' /\ tx' # {1, 2}
        BY <2>1, <3>2, <3>3, TwoBuffers
      <3>. QED  BY <1>1, <2>1, <3>2, <3>3, <3>4
    <2>. QED  BY <2>3, <2>4
  <1>3. CASE ~("Tx" \in seen /\ txStarted)
    <2>1. UNCHANGED <<tx, txNext, txInt, txStarted, tpsr, xmit, isr>>
      BY <1>3 DEF HandleTx, sender
    <2>. QED  BY <1>1, <1>3, <2>1
  <1>. QED  BY <1>2, <1>3

\* The other steps of dp83902a_poll().
LEMMA DriverCard ==
  ASSUME CardInv, Driver
  PROVE  CardInv'
  <1> USE DEF CardInv, Turns, Heard, Reported
  <1>1. CASE Poll
    BY <1>1 DEF Poll, sender
  <1>2. CASE ReadIsr
    BY <1>2 DEF ReadIsr, sender
  <1>3. CASE Acknowledge
    BY <1>3 DEF Acknowledge, sender
  <1>4. CASE HandleTx
    BY <1>4, HandleTxCard
  <1>5. CASE RxFrame
    BY <1>5 DEF RxFrame, sender
  <1>6. CASE RxDone
    BY <1>6 DEF RxDone, sender
  <1>7. CASE EnterOverflow
    BY <1>7 DEF EnterOverflow, sender
  <1>8. CASE LeaveOverflow
    <2>1. pc = "leave" /\ pc' = "look" /\ isr' = isr \ {"Rx", "OFLW"} /\ UNCHANGED <<sender, seen>>
      BY <1>8 DEF LeaveOverflow
    <2>. QED  BY <2>1 DEF sender
  <1>9. CASE LookForTx
    BY <1>9 DEF LookForTx, sender
  <1>10. CASE RestartXmit
    <2>1. /\ pc = "restart" /\ pc' = "read" /\ UNCHANGED <<tx, txNext, txInt, txStarted, tpsr, isr>>
          /\ xmit' = IF txStarted /\ "Tx" \notin seen THEN "sending" ELSE xmit
      BY <1>10 DEF RestartXmit
    <2>. QED  BY <2>1
  <1>. QED
    BY <1>1, <1>2, <1>3, <1>4, <1>5, <1>6, <1>7, <1>8, <1>9, <1>10 DEF Driver

\* What the card does by itself.
LEMMA CardCard ==
  ASSUME CardInv, Card, Undisturbed
  PROVE  CardInv'
  <1> USE DEF CardInv, Turns, Heard, Reported
  <1>1. CASE Transmitted
    BY <1>1 DEF Undisturbed, Transmitted, driverVars
  <1>2. CASE Aborted
    BY <1>2 DEF Aborted, driverVars
  <1>3. CASE Spurious
    BY <1>3 DEF Spurious, driverVars
  <1>4. CASE ReceiveBad
    BY <1>4 DEF ReceiveBad, driverVars
  <1>5. ASSUME NEW size \in Sizes, Receive(size)
        PROVE  CardInv'
    <2>1. isr' \in {isr \cup {"OFLW"}, isr \cup {"Rx"}} /\ UNCHANGED <<driverVars, tpsr, xmit>>
      BY <1>5 DEF Receive
    <2>. QED  BY <2>1 DEF driverVars
  <1>. QED
    BY <1>1, <1>2, <1>3, <1>4, <1>5 DEF Card

LEMMA NextCardInv == CardInv /\ [CardNext /\ Undisturbed]_(cardVars) => CardInv'
  <1> SUFFICES ASSUME CardInv, [CardNext /\ Undisturbed]_(cardVars) PROVE CardInv'
    OBVIOUS
  <1>1. CASE UNCHANGED cardVars
    BY <1>1 DEF cardVars, driverVars, CardInv, Turns, Heard, Reported
  <1>. QED  BY <1>1, SendCard, DriverCard, CardCard DEF CardNext

\* dp83902a_start_xmit() is given the buffer whose end dp83902a_TxEvent() will take the
\* next event for, and eth_attempt_tx() fills the other one: for every ring and traffic,
\* and every order of the card's events, spurious ones and overflows among them, but for a
\* transmission that ends while dp83902a_Overflow() makes up its mind to restart it.
THEOREM Ne2000BufferKept == CardSpecUndisturbed => []BufferKept
  <1>1. ASSUME CardInv, xmit # "idle"
        PROVE  tpsr = txInt /\ (tx # {1, 2} => txNext # tpsr)
    <2>1. /\ tpsr = txInt /\ txInt \in tx /\ tx \in SUBSET {1, 2}
          /\ tx = {txInt} => txNext = 3 - txInt
      BY <1>1 DEF CardInv, Turns
    <2>2. txInt \in {1, 2}
      BY <2>1
    <2>. QED  BY <2>1, <2>2, TwoBuffers
  <1>2. CardInv => BufferKept
    BY <1>1 DEF BufferKept
  <1>. QED  BY <1>2, InitCardInv, NextCardInv, PTL DEF CardSpecUndisturbed
-----------------------------------------------------------------------------
(***************************************************************************)
(* The receive ring.                                                       *)
(***************************************************************************)
Length == RxEnd - RxStart

\* How far page p is ahead of page b in the ring.
Distance(b, p) == IF p >= b THEN p - b ELSE p - b + Length

LEMMA RingNumbers ==
  ASSUME RingLargeEnough
  PROVE  /\ {RxStart, RxEnd, Length, MaxRx} \subseteq Nat /\ Length >= 3
         /\ RxEnd = RxStart + Length /\ Pages = RxStart .. RxStart + Length - 1
         /\ Sizes \subseteq 1 .. Length
  BY DEF RingLargeEnough, Length, Pages

LEMMA DistanceFacts ==
  ASSUME RingLargeEnough, NEW b \in Pages, NEW p \in Pages, NEW q \in Pages
  PROVE  /\ Distance(b, p) \in 0 .. Length - 1 /\ Distance(b, p) \in Int
         /\ Distance(b, b) = 0
         /\ Distance(b, p) = Distance(b, q) => p = q
         /\ Distance(b, q) <= Distance(b, p) => Distance(q, p) = Distance(b, p) - Distance(b, q)
  <1>1. /\ {RxStart, Length} \subseteq Nat /\ Length >= 3
        /\ Pages = RxStart .. RxStart + Length - 1
    BY RingNumbers
  <1> HIDE DEF Pages, Length
  <1>. QED  BY <1>1, SMTT(60) DEF Distance

\* The boundary that goes with a page is the last one before it comes round again.
LEMMA BoundaryFacts ==
  ASSUME RingLargeEnough, NEW b \in Pages
  PROVE  Boundary(b) \in Pages /\ Distance(b, Boundary(b)) = Length - 1
  <1>1. /\ {RxStart, Length} \subseteq Nat /\ Length >= 3 /\ RxEnd = RxStart + Length
        /\ Pages = RxStart .. RxStart + Length - 1
    BY RingNumbers
  <1> HIDE DEF Pages, Length
  <1>. QED  BY <1>1 DEF Distance, Boundary

LEMMA AfterFacts ==
  ASSUME RingLargeEnough, NEW b \in Pages, NEW p \in Pages, NEW n \in 0 .. Length
  PROVE  /\ After(p, n) \in Pages
         /\ Distance(b, After(p, n)) =
              IF Distance(b, p) + n < Length THEN Distance(b, p) + n
              ELSE Distance(b, p) + n - Length
  <1> DEFINE a == p - RxStart
             q == After(p, n)
  <1>1. /\ {RxStart, Length} \subseteq Nat /\ Length >= 3
        /\ Pages = RxStart .. RxStart + Length - 1
    BY RingNumbers
  <1>2. a \in 0 .. Length - 1
    BY <1>1
  <1>3. q = RxStart + ((a + n) % Length)
    BY DEF After, Length
  <1> HIDE DEF Pages, Length, q
  <1>4. a % Length = a /\ a \in Nat /\ Length \in Nat \ {0}
    BY <1>1, <1>2, SmallRemainder
  <1>5. (a + n) % Length = IF a + n < Length THEN a + n ELSE a + n - Length
    BY <1>4, RemainderStep
  <1>6. q = IF p + n < RxStart + Length THEN p + n ELSE p + n - Length
    <2> DEFINE m == (a + n) % Length
    <2>1. p = RxStart + a /\ p \in Int /\ n \in Int
      BY <1>1
    <2>2. q = RxStart + m /\ m = IF a + n < Length THEN a + n ELSE a + n - Length
      BY <1>3, <1>5
    <2> HIDE DEF a, m
    <2>. QED  BY <1>1, <1>2, <2>1, <2>2, SMTT(60)
  <1>7. q \in Pages
    BY <1>1, <1>6
  <1>8. Distance(b, q) = IF Distance(b, p) + n < Length THEN Distance(b, p) + n
                         ELSE Distance(b, p) + n - Length
    BY <1>1, <1>6, SMTT(60) DEF Distance
  <1>. QED  BY <1>7, <1>8 DEF q

\* The frames stored begin on pages P[1] to P[k], one after the other; P[k + 1] is where the
\* next one will.  Less than once round, so that none is written over.
Course(P, k, hd, b, c) ==
  /\ k \in Nat /\ P \in [1 .. k + 1 -> Pages]
  /\ P[1] = b /\ P[k + 1] = c
  /\ \A i \in 1 .. k : hd[P[i]].next = P[i + 1]
  /\ \A i, j \in 1 .. k + 1 : i < j => Distance(b, P[i]) < Distance(b, P[j])

Headers == [Pages -> [frame : Nat, size : Nat, next : Pages]]

RingInv ==
  /\ header \in Headers
  /\ rxNext \in Pages /\ curp \in Pages /\ bndry = Boundary(rxNext)
  /\ received \in 0 .. MaxRx
  /\ \E k \in 0 .. received : \E P \in [1 .. k + 1 -> Pages] : Course(P, k, header, rxNext, curp)

LEMMA InitRingInv ==
  ASSUME RingLargeEnough, CardInit
  PROVE  RingInv
  <1>1. /\ {RxStart, Length, MaxRx} \subseteq Nat /\ Length >= 3 /\ RxEnd = RxStart + Length
        /\ Pages = RxStart .. RxStart + Length - 1
    BY RingNumbers
  <1>2. /\ rxNext = RxStart + 1 /\ curp = RxStart + 1 /\ bndry = RxStart /\ received = 0
        /\ header = [p \in Pages |-> NoFrame]
    BY DEF CardInit, Pages
  <1> HIDE DEF Pages, Length
  <1>3. rxNext \in Pages /\ curp \in Pages /\ bndry = Boundary(rxNext)
    BY <1>1, <1>2 DEF Boundary
  <1>4. RxStart \in Pages
    BY <1>1
  <1>5. header \in Headers
    BY <1>2, <1>4 DEF Headers, NoFrame
  <1> DEFINE P == [i \in 1 .. 0 + 1 |-> curp]
  <1>6. P \in [1 .. 0 + 1 -> Pages] /\ Course(P, 0, header, rxNext, curp)
    BY <1>2, <1>3 DEF Course
  <1>7. 0 \in 0 .. received /\ received \in 0 .. MaxRx
    BY <1>1, <1>2
  <1>. QED  BY <1>3, <1>5, <1>6, <1>7 DEF RingInv

\* The first frame is handed up: what was second is now first.
LEMMA RxFrameRing ==
  ASSUME RingLargeEnough, RingInv, RxFrame,
         NEW k \in 0 .. received, NEW P \in [1 .. k + 1 -> Pages],
         Course(P, k, header, rxNext, curp)
  PROVE  LET Q == [i \in 1 .. k |-> P[i + 1]]
         IN  /\ k >= 1 /\ RingInv'
             /\ Course(Q, k - 1, header', rxNext', curp')
  <1> DEFINE Q == [i \in 1 .. k |-> P[i + 1]]
  <1>1. /\ rxNext # curp /\ rxNext' = header[rxNext].next /\ bndry' = Boundary(rxNext')
        /\ header' = header /\ curp' = curp /\ received' = received
    BY DEF RxFrame, ring
  <1>2. k \in Nat /\ received \in 0 .. MaxRx /\ MaxRx \in Nat
    BY RingNumbers DEF Course, RingInv
  <1>3. k >= 1
    BY <1>1, <1>2 DEF Course
  <1>4. rxNext' = P[2] /\ P[2] \in Pages
    BY <1>1, <1>2, <1>3 DEF Course
  <1>5. Q \in [1 .. (k - 1) + 1 -> Pages] /\ k - 1 \in Nat /\ k - 1 \in 0 .. received
    BY <1>2, <1>3
  <1>6. Q[1] = rxNext' /\ Q[(k - 1) + 1] = curp'
    BY <1>1, <1>2, <1>3, <1>4 DEF Course
  <1>7. ASSUME NEW i \in 1 .. k - 1
        PROVE  header'[Q[i]].next = Q[i + 1]
    <2>1. i \in 1 .. k /\ i + 1 \in 1 .. k
      BY <1>2
    <2>. QED  BY <1>1, <2>1 DEF Course
  <1>8. ASSUME NEW i \in 1 .. k, NEW j \in 1 .. k, i < j
        PROVE  Distance(rxNext', Q[i]) < Distance(rxNext', Q[j])
    <2> DEFINE b == rxNext
               c == P[2]
               d == P[i + 1]
               e == P[j + 1]
    <2>1. /\ 2 \in 1 .. k + 1 /\ i + 1 \in 1 .. k + 1 /\ j + 1 \in 1 .. k + 1
          /\ i + 1 < j + 1 /\ (i + 1 = 2 \/ 2 < i + 1)
      BY <1>2, <1>3, <1>8
    <2>2. b \in Pages /\ c \in Pages /\ d \in Pages /\ e \in Pages
      BY <2>1 DEF RingInv
    <2>3. /\ Distance(b, d) < Distance(b, e)
          /\ d = c \/ Distance(b, c) < Distance(b, d)
      BY <2>1 DEF Course
    <2>4. rxNext' = c /\ Q[i] = d /\ Q[j] = e
      BY <1>4
    <2>5. /\ Distance(b, c) \in Int /\ Distance(b, d) \in Int /\ Distance(b, e) \in Int
      BY <2>2, DistanceFacts
    <2> HIDE DEF b, c, d, e, Q
    <2>6. Distance(b, c) <= Distance(b, d) /\ Distance(b, c) <= Distance(b, e)
      BY <2>3, <2>5
    <2>7. /\ Distance(c, d) = Distance(b, d) - Distance(b, c)
          /\ Distance(c, e) = Distance(b, e) - Distance(b, c)
      BY <2>2, <2>6, DistanceFacts
    <2>. QED  BY <2>3, <2>4, <2>5, <2>7
  <1> HIDE DEF Q
  <1>9. Course(Q, k - 1, header', rxNext', curp')
    <2>1. (k - 1) + 1 = k
      BY <1>2
    <2>. QED  BY <1>5, <1>6, <1>7, <1>8, <2>1 DEF Course
  <1>10. RingInv'
    <2>1. header' \in Headers /\ rxNext' \in Pages /\ curp' \in Pages /\ received' \in 0 .. MaxRx
      BY <1>1, <1>4 DEF RingInv
    <2>2. /\ k - 1 \in 0 .. received' /\ Q \in [1 .. (k - 1) + 1 -> Pages]
          /\ Course(Q, k - 1, header', rxNext', curp')
      BY <1>1, <1>5, <1>9
    <2>. QED  BY <1>1, <2>1, <2>2 DEF RingInv, Pages, Headers
  <1>. QED  BY <1>3, <1>9, <1>10 DEF Q

\* A frame that was stored, after those that were: the boundary keeps it from the first.
Storing(size) ==
  /\ received < MaxRx /\ received' = received + 1
  /\ \A n \in 0 .. size - 1 : After(curp, n) # bndry
  /\ header' = [header EXCEPT ![curp] = [frame |-> received + 1, size |-> size,
                                         next |-> After(curp, size)]]
  /\ curp' = After(curp, size)
  /\ rxNext' = rxNext /\ bndry' = bndry

LEMMA StoringRoom ==
  ASSUME RingLargeEnough, RingInv, NEW size \in Sizes, Storing(size)
  PROVE  /\ After(curp, size) \in Pages
         /\ Distance(rxNext, curp) < Distance(rxNext, After(curp, size))
  <1> DEFINE a == Distance(rxNext, curp)
             n == Length - 1 - a
  <1>1. /\ Length \in Nat /\ Length >= 3 /\ size \in 1 .. Length
    BY RingNumbers
  <1>2. /\ rxNext \in Pages /\ curp \in Pages /\ bndry = Boundary(rxNext)
    BY DEF RingInv
  <1>3. a \in 0 .. Length - 1
    BY <1>2, DistanceFacts
  <1>4. a + size < Length
    <2>1. SUFFICES ASSUME a + size >= Length PROVE FALSE
      BY <1>1, <1>3
    <2>2. n \in 0 .. size - 1 /\ n \in 0 .. Length /\ a + n = Length - 1
      BY <1>1, <1>3, <2>1
    <2>3. After(curp, n) \in Pages /\ Distance(rxNext, After(curp, n)) = Length - 1
      BY <1>1, <1>2, <2>2, AfterFacts
    <2>4. bndry \in Pages /\ Distance(rxNext, bndry) = Length - 1
      BY <1>2, BoundaryFacts
    <2>5. After(curp, n) = bndry
      BY <1>2, <2>3, <2>4, DistanceFacts
    <2>. QED  BY <2>2, <2>5 DEF Storing
  <1>5. /\ After(curp, size) \in Pages
        /\ Distance(rxNext, After(curp, size)) = a + size
    BY <1>1, <1>2, <1>4, AfterFacts
  <1> HIDE DEF a
  <1>6. a < a + size
    BY <1>1, <1>3
  <1>. QED  BY <1>5, <1>6 DEF a

LEMMA StoringRing ==
  ASSUME RingLargeEnough, RingInv, NEW size \in Sizes, Storing(size),
         NEW k \in 0 .. received, NEW P \in [1 .. k + 1 -> Pages],
         Course(P, k, header, rxNext, curp)
  PROVE  LET Q == [i \in 1 .. (k + 1) + 1 |-> IF i <= k + 1 THEN P[i] ELSE curp']
         IN  /\ RingInv'
             /\ Course(Q, k + 1, header', rxNext', curp')
             /\ \A i \in 1 .. k : header'[P[i]] = header[P[i]]
  <1> DEFINE Q == [i \in 1 .. (k + 1) + 1 |-> IF i <= k + 1 THEN P[i] ELSE curp']
  <1>1. /\ curp' \in Pages /\ Distance(rxNext, curp) < Distance(rxNext, curp')
        /\ curp' = After(curp, size) /\ rxNext' = rxNext /\ bndry' = bndry
    BY StoringRoom DEF Storing
  <1>2. k \in Nat /\ received \in 0 .. MaxRx /\ MaxRx \in Nat /\ rxNext \in Pages /\ curp \in Pages
    BY RingNumbers DEF Course, RingInv
  <1>3. /\ received' \in 0 .. MaxRx /\ k + 1 \in 0 .. received' /\ k + 1 \in Nat
    BY <1>2 DEF Storing
  <1>4. Q \in [1 .. (k + 1) + 1 -> Pages]
    BY <1>1, <1>2
  <1>5. Q[1] = rxNext' /\ Q[(k + 1) + 1] = curp'
    BY <1>1, <1>2 DEF Course
  <1>6. size \in Nat /\ received + 1 \in Nat
    BY <1>2, RingNumbers
  <1>7. header' \in Headers
    <2>1. [frame |-> received + 1, size |-> size, next |-> curp']
            \in [frame : Nat, size : Nat, next : Pages]
      BY <1>1, <1>6
    <2>2. header \in Headers /\ header' = [header EXCEPT ![curp] =
            [frame |-> received + 1, size |-> size, next |-> curp']]
      BY <1>1 DEF RingInv, Storing
    <2>. QED  BY <2>1, <2>2 DEF Headers
  <1>8. ASSUME NEW i \in 1 .. k
        PROVE  header'[P[i]] = header[P[i]]
    <2>1. i \in 1 .. k + 1 /\ k + 1 \in 1 .. k + 1 /\ i < k + 1
      BY <1>2
    <2>2. Distance(rxNext, P[i]) < Distance(rxNext, curp) /\ P[i] \in Pages
      BY <2>1 DEF Course
    <2>3. Distance(rxNext, curp) \in Int
      BY <1>2, DistanceFacts
    <2>4. P[i] # curp
      BY <2>2, <2>3
    <2>. QED  BY <2>2, <2>4 DEF RingInv, Storing, Headers
  <1>9. ASSUME NEW i \in 1 .. k + 1
        PROVE  header'[Q[i]].next = Q[i + 1]
    <2>1. CASE i <= k
      <3>1. i \in 1 .. k /\ Q[i] = P[i] /\ Q[i + 1] = P[i + 1]
        BY <1>2, <2>1
      <3>. QED  BY <1>8, <3>1 DEF Course
    <2>2. CASE ~(i <= k)
      <3>1. i = k + 1 /\ Q[i] = P[k + 1] /\ Q[i + 1] = curp'
        BY <1>2, <2>2
      <3>2. P[k + 1] = curp
        BY DEF Course
      <3>3. header'[curp].next = After(curp, size)
        BY <1>2 DEF RingInv, Storing, Headers
      <3>. QED  BY <1>1, <3>1, <3>2, <3>3
    <2>. QED  BY <2>1, <2>2
  <1>10. ASSUME NEW i \in 1 .. (k + 1) + 1, NEW j \in 1 .. (k + 1) + 1, i < j
         PROVE  Distance(rxNext', Q[i]) < Distance(rxNext', Q[j])
    <2>1. i \in 1 .. k + 1 /\ Q[i] = P[i]
      BY <1>2, <1>10
    <2>2. CASE j <= k + 1
      <3>1. j \in 1 .. k + 1 /\ Q[j] = P[j]
        BY <1>2, <2>2
      <3>. QED  BY <1>1, <1>10, <2>1, <3>1 DEF Course
    <2>3. CASE ~(j <= k + 1)
      <3> DEFINE d == Distance(rxNext, P[i])
                 e == Distance(rxNext, curp)
                 f == Distance(rxNext, curp')
      <3>1. Q[j] = curp'
        BY <2>3
      <3>2. d < e \/ d = e
        <4>1. k + 1 \in 1 .. k + 1 /\ P[k + 1] = curp /\ (i = k + 1 \/ i < k + 1)
          BY <1>2, <2>1 DEF Course
        <4>. QED  BY <2>1, <4>1 DEF Course
      <3>3. d \in Int /\ e \in Int /\ f \in Int /\ e < f
        <4>1. P[i] \in Pages
          BY <2>1
        <4>. QED  BY <1>1, <1>2, <4>1, DistanceFacts
      <3>4. Q[i] = P[i]
        BY <2>1
      <3> HIDE DEF Q
      <3>5. d < f
        <4> HIDE DEF d, e, f
        <4>. QED  BY <3>2, <3>3
      <3>. QED  BY <1>1, <3>1, <3>4, <3>5
    <2>. QED  BY <2>2, <2>3
  <1> HIDE DEF Q
  <1>11. Course(Q, k + 1, header', rxNext', curp')
    BY <1>3, <1>4, <1>5, <1>9, <1>10 DEF Course
  <1>12. RingInv'
    <2>1. rxNext' \in Pages /\ bndry' = Boundary(rxNext')
      BY <1>1, <1>2 DEF RingInv, Boundary
    <2>. QED
      BY <1>1, <1>3, <1>4, <1>7, <1>11, <2>1 DEF RingInv, Pages, Headers
  <1>. QED  BY <1>8, <1>11, <1>12 DEF Q

LEMMA QuietRing ==
  ASSUME RingInv, UNCHANGED <<rxNext, header, curp, bndry, received>>
  PROVE  RingInv' /\ Stored' = Stored
  <1>1. Stored' = Stored
    BY Zenon DEF Stored, Pages
  <1>2. \A k, P : Course(P, k, header', rxNext', curp') <=> Course(P, k, header, rxNext, curp)
    BY Zenon
  <1>3. RingInv'
    BY <1>2, Zenon DEF RingInv, Pages, Headers, Boundary
  <1>4. QED
    BY <1>1, <1>3

\* What Stored computes, for these headers and this current page.
Rule(f, hd, c) ==
  f = [n \in 0 .. MaxRx |-> [p \in Pages |->
        IF p = c \/ n = 0 THEN <<>> ELSE <<hd[p].frame>> \o f[n - 1][hd[p].next]]]

LEMMA RuleExists ==
  ASSUME RingLargeEnough, NEW hd \in Headers, NEW c \in Pages
  PROVE  \E f : Rule(f, hd, c)
  <1> DEFINE Rows == [Pages -> Seq(Nat)]
             blank == [p \in Pages |-> <<>>]
             Row(g) == [p \in Pages |-> IF p = c THEN <<>> ELSE <<hd[p].frame>> \o g[hd[p].next]]
             step == [n \in 1 .. MaxRx |-> [g \in Rows |-> Row(g)]]
  <1>1. blank \in Rows /\ MaxRx \in Nat
    BY RingNumbers
  <1>2. ASSUME NEW g \in Rows
        PROVE  Row(g) \in Rows
    <2>1. ASSUME NEW p \in Pages
          PROVE  (IF p = c THEN <<>> ELSE <<hd[p].frame>> \o g[hd[p].next]) \in Seq(Nat)
      <3>1. hd[p].frame \in Nat /\ hd[p].next \in Pages
        BY DEF Headers
      <3>2. <<hd[p].frame>> \in Seq(Nat) /\ g[hd[p].next] \in Seq(Nat)
        BY <3>1
      <3>. QED  BY <3>2
    <2>. QED  BY <2>1
  <1>3. step \in [1 .. MaxRx -> [Rows -> Rows]]
    <2> HIDE DEF Rows, Row
    <2>. QED  BY <1>2
  <1>4. PICK f \in [0 .. MaxRx -> Rows] :
          f[0] = blank /\ \A n \in 1 .. MaxRx : f[n] = step[n][f[n - 1]]
    <2> HIDE DEF Rows, blank, step, Row
    <2> DEFINE N == MaxRx
    <2>1. N \in Nat /\ blank \in Rows /\ step \in [1 .. N -> [Rows -> Rows]]
      BY <1>1, <1>3
    <2> HIDE DEF N
    <2>2. \E g \in [0 .. N -> Rows] : g[0] = blank /\ \A n \in 1 .. N : g[n] = step[n][g[n - 1]]
      BY <2>1, Recursion, Z3
    <2>. QED  BY <2>2 DEF N
  <1>5. ASSUME NEW n \in 0 .. MaxRx
        PROVE  f[n] = [p \in Pages |->
                 IF p = c \/ n = 0 THEN <<>> ELSE <<hd[p].frame>> \o f[n - 1][hd[p].next]]
    <2>1. CASE n = 0
      BY <1>4, <2>1
    <2>2. CASE n # 0
      <3>1. n \in 1 .. MaxRx /\ n - 1 \in 0 .. MaxRx
        BY <1>1, <2>2
      <3>2. f[n - 1] \in Rows
        BY <1>4, <3>1
      <3>3. f[n] = Row(f[n - 1])
        <4> HIDE DEF Rows, Row
        <4>. QED  BY <1>4, <3>1, <3>2
      <3>. QED  BY <2>2, <3>3
    <2>. QED  BY <2>1, <2>2
  <1>6. f = [n \in 0 .. MaxRx |-> f[n]]
    <2> HIDE DEF Rows
    <2>. QED  BY <1>4
  <1>7. Rule(f, hd, c)
    BY <1>5, <1>6 DEF Rule
  <1>. QED  BY <1>7

LEMMA StoredRule ==
  ASSUME RingLargeEnough, header \in Headers, curp \in Pages
  PROVE  Rule(Stored, header, curp)
  <1>1. \E f : Rule(f, header, curp)
    BY RuleExists
  <1>2. Stored = CHOOSE f : Rule(f, header, curp)
    BY DEF Stored, Rule, Pages
  <1>. QED  BY <1>1, <1>2

LEMMA StoredRuleNext ==
  ASSUME RingLargeEnough, header' \in Headers, curp' \in Pages
  PROVE  Rule(Stored', header', curp')
  <1>1. \E f : Rule(f, header', curp')
    BY RuleExists
  <1>2. Stored' = CHOOSE f : Rule(f, header', curp')
    BY DEF Stored, Rule, Pages
  <1>. QED  BY <1>1, <1>2

Frames(hd, P, k) == [i \in 1 .. k |-> hd[P[i]].frame]

LEMMA FramesStored ==
  ASSUME RingLargeEnough, NEW hd \in Headers, NEW c \in Pages, NEW b \in Pages,
         NEW f, Rule(f, hd, c), NEW k \in 0 .. MaxRx, NEW P \in [1 .. k + 1 -> Pages],
         Course(P, k, hd, b, c)
  PROVE  f[MaxRx][b] = Frames(hd, P, k)
  <1> DEFINE From(j) == [i \in 1 .. k + 1 - j |-> hd[P[j + i - 1]].frame]
             D == {n \in Nat : n <= MaxRx =>
                     \A j \in 1 .. k + 1 : k + 1 - j <= n => f[n][P[j]] = From(j)}
  <1>1. MaxRx \in Nat /\ k \in Nat
    BY RingNumbers
  <1>2. ASSUME NEW n \in 0 .. MaxRx, NEW p \in Pages
        PROVE  f[n][p] = IF p = c \/ n = 0 THEN <<>> ELSE <<hd[p].frame>> \o f[n - 1][hd[p].next]
    <2> DEFINE V(m, q) == IF q = c \/ m = 0 THEN <<>> ELSE <<hd[q].frame>> \o f[m - 1][hd[q].next]
    <2>1. f = [m \in 0 .. MaxRx |-> [q \in Pages |-> V(m, q)]]
      BY DEF Rule
    <2> HIDE DEF V
    <2>2. f[n] = [q \in Pages |-> V(n, q)]
      BY <2>1
    <2>3. f[n][p] = V(n, p)
      BY <2>2
    <2>. QED  BY <2>3 DEF V
  <1>3. From(k + 1) = <<>> /\ P[k + 1] = c
    BY <1>1 DEF Course
  <1>4. ASSUME NEW j \in 1 .. k
        PROVE  P[j] \in Pages /\ P[j] # c /\ hd[P[j]].next = P[j + 1]
    <2>1. j \in 1 .. k + 1 /\ k + 1 \in 1 .. k + 1 /\ j < k + 1
      BY <1>1
    <2>2. P[j] \in Pages /\ Distance(b, P[j]) < Distance(b, c)
      BY <2>1 DEF Course
    <2>3. Distance(b, c) \in Int
      BY DistanceFacts
    <2>. QED  BY <2>2, <2>3 DEF Course
  <1>5. ASSUME NEW j \in 1 .. k
        PROVE  <<hd[P[j]].frame>> \o From(j + 1) = From(j)
    <2> DEFINE g == hd[P[j]].frame
               rest == From(j + 1)
               all == From(j)
    <2>1. ASSUME NEW i \in 1 .. k + 1
          PROVE  hd[P[i]].frame \in Nat
      BY DEF Headers
    <2>2. g \in Nat /\ rest \in Seq(Nat) /\ Len(rest) = k - j
      <3>1. j \in 1 .. k + 1
        BY <1>1
      <3>2. ASSUME NEW i \in 1 .. k + 1 - (j + 1)
            PROVE  (j + 1) + i - 1 \in 1 .. k + 1
        BY <1>1
      <3>3. k + 1 - (j + 1) = k - j /\ k - j \in Nat
        BY <1>1
      <3>4. rest \in [1 .. k - j -> Nat]
        BY <2>1, <3>2, <3>3
      <3>5. g \in Nat
        BY <2>1, <3>1
      <3> DEFINE m == k - j
      <3>6. rest \in [1 .. m -> Nat] /\ m \in Nat
        BY <3>3, <3>4
      <3> HIDE DEF g, rest, m
      <3>7. rest \in Seq(Nat) /\ Len(rest) = m
        BY <3>6
      <3>. QED  BY <3>5, <3>7 DEF m
    <2>3. all = [i \in 1 .. k + 1 - j |-> hd[P[j + i - 1]].frame]
      OBVIOUS
    <2>4. \A i \in 1 .. k + 1 - j : all[i] = IF i = 1 THEN g ELSE rest[i - 1]
      <3>1. ASSUME NEW i \in 1 .. k + 1 - j, i # 1
            PROVE  i - 1 \in 1 .. k + 1 - (j + 1) /\ (j + 1) + (i - 1) - 1 = j + i - 1
        BY <1>1, <3>1
      <3>2. j + 1 - 1 = j
        BY <1>1
      <3>. QED  BY <3>1, <3>2
    <2> HIDE DEF g, rest, all
    <2>5. <<g>> \o rest = [i \in 1 .. 1 + (k - j) |-> IF i <= 1 THEN <<g>>[i] ELSE rest[i - 1]]
      BY <2>2
    <2>6. 1 + (k - j) = k + 1 - j
      BY <1>1
    <2>7. \A i \in 1 .. k + 1 - j : (IF i <= 1 THEN <<g>>[i] ELSE rest[i - 1]) = all[i]
      <3>1. <<g>>[1] = g
        OBVIOUS
      <3>2. \A i \in 1 .. k + 1 - j : i <= 1 <=> i = 1
        BY <1>1
      <3>. QED  BY <2>4, <3>1, <3>2
    <2>8. all = [i \in 1 .. k + 1 - j |-> all[i]]
      BY <2>3
    <2>. QED  BY <2>5, <2>6, <2>7, <2>8 DEF g, rest, all
  <1> HIDE DEF From
  <1>6. 0 \in D
    <2>1. ASSUME NEW j \in 1 .. k + 1, k + 1 - j <= 0
          PROVE  f[0][P[j]] = From(j)
      <3>1. j = k + 1
        BY <1>1, <2>1
      <3>2. f[0][P[j]] = <<>>
        <4>1. P[j] \in Pages /\ 0 \in 0 .. MaxRx
          BY <1>1
        <4>. QED  BY <1>2, <4>1
      <3>. QED  BY <1>3, <3>1, <3>2
    <2>. QED  BY <2>1
  <1>7. ASSUME NEW n \in Nat, n \in D
        PROVE  n + 1 \in D
    <2>1. ASSUME n + 1 <= MaxRx, NEW j \in 1 .. k + 1, k + 1 - j <= n + 1
          PROVE  f[n + 1][P[j]] = From(j)
      <3>1. n + 1 \in 0 .. MaxRx /\ n <= MaxRx /\ n + 1 # 0 /\ (n + 1) - 1 = n
        BY <1>1, <2>1
      <3>2. CASE j = k + 1
        BY <1>2, <1>3, <3>1, <3>2
      <3>3. CASE j # k + 1
        <4>1. j \in 1 .. k /\ j + 1 \in 1 .. k + 1 /\ k + 1 - (j + 1) <= n
          BY <1>1, <2>1, <3>3
        <4>2. f[n][P[j + 1]] = From(j + 1)
          BY <1>7, <3>1, <4>1
        <4>3. f[n + 1][P[j]] = <<hd[P[j]].frame>> \o f[n][P[j + 1]]
          BY <1>2, <1>4, <3>1, <4>1, ZenonT(60)
        <4>. QED  BY <1>5, <4>1, <4>2, <4>3
      <3>. QED  BY <3>2, <3>3
    <2>. QED  BY <2>1
  <1>8. MaxRx \in D
    <2> HIDE DEF D
    <2>. QED  BY <1>1, <1>6, <1>7, Induction
  <1>9. 1 \in 1 .. k + 1 /\ k + 1 - 1 <= MaxRx /\ MaxRx <= MaxRx
    BY <1>1
  <1>10. f[MaxRx][P[1]] = From(1)
    BY <1>8, <1>9
  <1>11. From(1) = Frames(hd, P, k)
    <2>1. k + 1 - 1 = k /\ \A i \in 1 .. k : 1 + i - 1 = i
      BY <1>1
    <2>. QED  BY <2>1 DEF From, Frames
  <1>. QED  BY <1>10, <1>11 DEF Course
-----------------------------------------------------------------------------
(***************************************************************************)
(* Each step of driver and card is a step of a link.                       *)
(***************************************************************************)
In == Stored[MaxRx][rxNext]

LEMMA InFrames ==
  ASSUME RingLargeEnough, RingInv, NEW k \in 0 .. MaxRx, NEW P \in [1 .. k + 1 -> Pages],
         Course(P, k, header, rxNext, curp)
  PROVE  In = Frames(header, P, k)
  <1>1. header \in Headers /\ curp \in Pages /\ rxNext \in Pages
    BY DEF RingInv
  <1>2. Rule(Stored, header, curp)
    BY <1>1, StoredRule
  <1>. QED  BY <1>1, <1>2, FramesStored DEF In

LEMMA InFramesNext ==
  ASSUME RingLargeEnough, RingInv', NEW k \in 0 .. MaxRx, NEW P \in [1 .. k + 1 -> Pages],
         Course(P, k, header', rxNext', curp')
  PROVE  In' = Frames(header', P, k)
  <1>1. header' \in Headers /\ curp' \in Pages /\ rxNext' \in Pages
    BY DEF RingInv, Headers, Pages
  <1>2. Rule(Stored', header', curp')
    BY <1>1, StoredRuleNext
  <1>. QED  BY <1>1, <1>2, FramesStored DEF In

LEMMA FramesSeq ==
  ASSUME NEW hd \in Headers, NEW k \in Nat, NEW P \in [1 .. k + 1 -> Pages]
  PROVE  /\ Frames(hd, P, k) \in Seq(Nat) /\ Len(Frames(hd, P, k)) = k
         /\ \A i \in 1 .. k : Frames(hd, P, k)[i] = hd[P[i]].frame
  <1> DEFINE s == Frames(hd, P, k)
  <1>1. ASSUME NEW i \in 1 .. k
        PROVE  hd[P[i]].frame \in Nat
    BY DEF Headers
  <1>2. s \in [1 .. k -> Nat] /\ \A i \in 1 .. k : s[i] = hd[P[i]].frame
    BY <1>1 DEF Frames
  <1> HIDE DEF s
  <1>3. s \in Seq(Nat) /\ Len(s) = k
    BY <1>2
  <1>. QED  BY <1>2, <1>3 DEF s

\* A sequence that has what comes after the first element of another is its tail.
LEMMA TailOf ==
  ASSUME NEW S, NEW s \in Seq(S), NEW t \in Seq(S), Len(s) >= 1, Len(t) = Len(s) - 1,
         \A i \in 1 .. Len(t) : t[i] = s[i + 1]
  PROVE  s # <<>> /\ t = Tail(s)
  <1>1. s # <<>>
    BY EmptySeq
  <1>2. Tail(s) \in Seq(S) /\ Len(Tail(s)) = Len(s) - 1
        /\ \A i \in 1 .. Len(Tail(s)) : Tail(s)[i] = s[i + 1]
    BY <1>1, HeadTailProperties
  <1>3. t = Tail(s)
    BY <1>2, SeqEqual
  <1>. QED  BY <1>1, <1>3

LEMMA RxFrameHandsUp ==
  ASSUME RingLargeEnough, RingInv, RxFrame
  PROVE  RingInv' /\ AbsLink!HandUp
  <1>1. PICK k \in 0 .. received : \E P \in [1 .. k + 1 -> Pages] :
             Course(P, k, header, rxNext, curp)
    BY DEF RingInv
  <1>p. PICK P \in [1 .. k + 1 -> Pages] : Course(P, k, header, rxNext, curp)
    BY <1>1
  <1> DEFINE Q == [i \in 1 .. k |-> P[i + 1]]
  <1>2. k >= 1 /\ RingInv' /\ Course(Q, k - 1, header', rxNext', curp')
    BY <1>p, <1>1, RxFrameRing
  <1>3. k \in 0 .. MaxRx /\ k - 1 \in 0 .. MaxRx /\ (k - 1) + 1 = k /\ k \in Nat /\ k - 1 \in Nat
    <2>1. received \in 0 .. MaxRx /\ MaxRx \in Nat /\ k \in 0 .. received /\ k >= 1
      BY <1>1, <1>2, RingNumbers DEF RingInv
    <2>. QED  BY <2>1
  <1>4. Q \in [1 .. (k - 1) + 1 -> Pages]
    BY <1>3
  <1>5. header' = header /\ header \in Headers
    BY DEF RxFrame, ring, RingInv
  <1> DEFINE s == Frames(header, P, k)
             t == Frames(header, Q, k - 1)
  <1>6. In = s /\ In' = t
    <2> HIDE DEF Q
    <2>. QED  BY <1>p, <1>1, <1>2, <1>3, <1>4, <1>5, InFrames, InFramesNext
  <1>7. /\ s \in Seq(Nat) /\ Len(s) = k /\ \A i \in 1 .. k : s[i] = header[P[i]].frame
        /\ t \in Seq(Nat) /\ Len(t) = k - 1 /\ \A i \in 1 .. k - 1 : t[i] = header[Q[i]].frame
    <2> HIDE DEF Q
    <2>. QED  BY <1>p, <1>1, <1>3, <1>4, <1>5, FramesSeq
  <1>8. \A i \in 1 .. k - 1 : t[i] = s[i + 1]
    <2>1. ASSUME NEW i \in 1 .. k - 1
          PROVE  i \in 1 .. k /\ i + 1 \in 1 .. k
      BY <1>3
    <2>. QED  BY <1>7, <2>1
  <1> HIDE DEF s, t, Q
  <1>9. s # <<>> /\ t = Tail(s)
    <2>1. Len(s) >= 1 /\ Len(t) = Len(s) - 1 /\ \A i \in 1 .. Len(t) : t[i] = s[i + 1]
      BY <1>2, <1>3, <1>7, <1>8
    <2>. QED  BY <1>7, <2>1, TailOf
  <1>10. Head(s) = header[rxNext].frame
    <2>1. 1 \in 1 .. k /\ P[1] = rxNext
      BY <1>p, <1>1, <1>2, <1>3 DEF Course
    <2>. QED  BY <1>7, <1>9, <2>1
  <1>11. up' \in {up, Append(up, Head(s))}
    BY <1>10 DEF RxFrame
  <1>12. Held' = Held /\ wire' = wire
    BY DEF RxFrame, sender, Held
  <1>. QED
    BY <1>2, <1>6, <1>9, <1>11, <1>12 DEF AbsLink!HandUp, In

LEMMA StoringReceives ==
  ASSUME RingLargeEnough, RingInv, NEW size \in Sizes, Storing(size)
  PROVE  RingInv' /\ Len(In') = Len(In) + 1 /\ AbsLink!Front(In') = In
  <1>1. PICK k \in 0 .. received : \E P \in [1 .. k + 1 -> Pages] :
             Course(P, k, header, rxNext, curp)
    BY DEF RingInv
  <1>p. PICK P \in [1 .. k + 1 -> Pages] : Course(P, k, header, rxNext, curp)
    BY <1>1
  <1> DEFINE Q == [i \in 1 .. (k + 1) + 1 |-> IF i <= k + 1 THEN P[i] ELSE curp']
  <1>2. /\ RingInv' /\ Course(Q, k + 1, header', rxNext', curp')
        /\ \A i \in 1 .. k : header'[P[i]] = header[P[i]]
    BY <1>p, <1>1, StoringRing
  <1>3. k \in 0 .. MaxRx /\ k + 1 \in 0 .. MaxRx /\ k \in Nat /\ k + 1 \in Nat
    <2>1. received \in 0 .. MaxRx /\ received < MaxRx /\ MaxRx \in Nat /\ k \in 0 .. received
      BY <1>1, RingNumbers DEF RingInv, Storing
    <2>. QED  BY <2>1
  <1>4. header \in Headers /\ header' \in Headers /\ curp' \in Pages
    BY <1>2 DEF RingInv, Headers, Pages
  <1>5. Q \in [1 .. (k + 1) + 1 -> Pages]
    BY <1>3, <1>4
  <1>6. \A i \in 1 .. k : Q[i] = P[i]
    BY <1>3
  <1> HIDE DEF Q
  <1> DEFINE s == Frames(header, P, k)
             t == Frames(header', Q, k + 1)
  <1>7. In = s /\ In' = t
    BY <1>p, <1>1, <1>2, <1>3, <1>5, InFrames, InFramesNext
  <1>8. /\ s \in Seq(Nat) /\ Len(s) = k /\ \A i \in 1 .. k : s[i] = header[P[i]].frame
        /\ t \in Seq(Nat) /\ Len(t) = k + 1 /\ \A i \in 1 .. k + 1 : t[i] = header'[Q[i]].frame
    BY <1>p, <1>1, <1>3, <1>4, <1>5, FramesSeq
  <1>9. \A i \in 1 .. k : t[i] = s[i]
    <2>1. ASSUME NEW i \in 1 .. k
          PROVE  t[i] = s[i]
      <3>1. i \in 1 .. k + 1
        BY <1>3
      <3>2. t[i] = header'[Q[i]].frame /\ s[i] = header[P[i]].frame
        BY <1>8, <3>1
      <3>3. Q[i] = P[i] /\ header'[P[i]] = header[P[i]]
        BY <1>2, <1>6
      <3>. QED  BY <3>2, <3>3
    <2> HIDE DEF s, t
    <2>. QED  BY <2>1
  <1> HIDE DEF s, t
  <1>10. AbsLink!Front(t) = SubSeq(t, 1, k)
    <2>1. Len(t) - 1 = k
      BY <1>3, <1>8
    <2>. QED  BY <2>1 DEF AbsLink!Front
  <1>11. SubSeq(t, 1, k) = s
    BY <1>3, <1>8, <1>9
  <1>. QED  BY <1>2, <1>7, <1>8, <1>10, <1>11

LinkInv ==
  /\ CardInv /\ RingInv
  /\ buffer \in [{1, 2} -> Nat] /\ taken \in Nat

\* The frames in the driver's buffers t: that of buffer i, unless it has left, and the other.
Outgoing(x, i, t, b) ==
  (IF x # "idle" THEN <<b[i]>> ELSE <<>>)
    \o (IF t \ {i} # {} THEN <<b[CHOOSE c \in t \ {i} : TRUE]>> ELSE <<>>)

LEMMA OutgoingCases ==
  ASSUME NEW x, NEW i, NEW t, NEW b
  PROVE  /\ t \ {i} = {} => Outgoing(x, i, t, b) = IF x # "idle" THEN <<b[i]>> ELSE <<>>
         /\ \A c : t \ {i} = {c} =>
              Outgoing(x, i, t, b) = IF x # "idle" THEN <<b[i], b[c]>> ELSE <<b[c]>>
  <1> DEFINE d == CHOOSE c \in t \ {i} : TRUE
             first == IF x # "idle" THEN <<b[i]>> ELSE <<>>
             second == IF t \ {i} # {} THEN <<b[d]>> ELSE <<>>
  <1>1. ASSUME t \ {i} = {}
        PROVE  first \o second = first
    <2>1. second = <<>> /\ \A c : t \ {i} # {c}
      BY <1>1
    <2>2. first \o <<>> = first
      BY DEF first
    <2>. QED  BY <1>1, <2>1, <2>2
  <1>2. ASSUME NEW c, t \ {i} = {c}
        PROVE  first \o second = IF x # "idle" THEN <<b[i], b[c]>> ELSE <<b[c]>>
    <2>1. d = c /\ t \ {i} # {}
      BY <1>2
    <2>2. second = <<b[c]>>
      BY <2>1
    <2> DEFINE e == b[c]
               f == b[i]
    <2> HIDE DEF e, f
    <2>3. <<f>> \o <<e>> = <<f, e>>
      <3>1. <<f>> \o <<e>> = [n \in 1 .. 1 + 1 |-> IF n <= 1 THEN <<f>>[n] ELSE <<e>>[n - 1]]
        OBVIOUS
      <3>2. \A n \in 1 .. 1 + 1 : (IF n <= 1 THEN <<f>>[n] ELSE <<e>>[n - 1]) = <<f, e>>[n]
        OBVIOUS
      <3>3. <<f, e>> = [n \in 1 .. 1 + 1 |-> <<f, e>>[n]]
        OBVIOUS
      <3>. QED  BY <3>1, <3>2, <3>3
    <2>4. <<>> \o <<e>> = <<e>>
      OBVIOUS
    <2> HIDE DEF second
    <2>. QED  BY <2>2, <2>3, <2>4 DEF e, f
  <1>3. t \ {i} = {} => first \o second = first
    BY <1>1
  <1>. QED  BY <1>2, <1>3 DEF Outgoing

LEMMA HeldOutgoing ==
  /\ Held = Outgoing(xmit, txInt, tx, buffer)
  /\ Held' = Outgoing(xmit', txInt', tx', buffer')
  BY DEF Held, Outgoing

\* What the sequences of at most two frames have to do with each other.
LEMMA OneFrame ==
  ASSUME NEW f
  PROVE  /\ Len(<<>>) = 0 /\ Len(<<f>>) = 1 /\ <<f>> # <<>>
         /\ Tail(<<f>>) = <<>> /\ Head(<<f>>) = f /\ AbsLink!Front(<<f>>) = <<>>
  <1>1. AbsLink!Front(<<f>>) = <<>>
    BY DEF AbsLink!Front
  <1>. QED  BY <1>1

LEMMA TwoFrames ==
  ASSUME NEW f, NEW g
  PROVE  /\ Len(<<f, g>>) = 2 /\ <<f, g>> # <<>>
         /\ Tail(<<f, g>>) = <<g>> /\ Head(<<f, g>>) = f
         /\ AbsLink!Front(<<f, g>>) = <<f>>
  <1>1. Len(<<f, g>>) = 2 /\ <<f, g>> # <<>> /\ Head(<<f, g>>) = f
    OBVIOUS
  <1>2. Tail(<<f, g>>) = <<g>>
    OBVIOUS
  <1>3. AbsLink!Front(<<f, g>>) = SubSeq(<<f, g>>, 1, 1)
    BY DEF AbsLink!Front
  <1>4. SubSeq(<<f, g>>, 1, 1) = [n \in 1 .. 1 |-> <<f, g>>[n]]
    OBVIOUS
  <1>5. <<f>> = [n \in 1 .. 1 |-> <<f>>[n]]
    OBVIOUS
  <1>6. \A n \in 1 .. 1 : <<f, g>>[n] = <<f>>[n]
    OBVIOUS
  <1>7. SubSeq(<<f, g>>, 1, 1) = <<f>>
    BY <1>4, <1>5, <1>6
  <1>. QED  BY <1>1, <1>2, <1>3, <1>7

LEMMA SendTakes ==
  ASSUME LinkInv, Send
  PROVE  LinkInv' /\ AbsLink!Take
  <1>1. CardInv'
    BY SendCard DEF LinkInv
  <1>2. UNCHANGED <<rxNext, header, curp, bndry, received>> /\ wire' = wire /\ up' = up
    BY DEF Send, ring
  <1>3. RingInv' /\ Stored' = Stored
    BY <1>2, QuietRing DEF LinkInv
  <1>4. /\ tx # {1, 2} /\ tx' = tx \cup {txNext} /\ taken' = taken + 1
        /\ buffer' = [buffer EXCEPT ![txNext] = taken + 1]
    BY DEF Send
  <1>5. /\ tx \in SUBSET {1, 2} /\ txNext \in {1, 2} /\ taken \in Nat
        /\ buffer \in [{1, 2} -> Nat]
    BY DEF LinkInv, CardInv, Turns
  <1>6. taken' \in Nat /\ buffer' \in [{1, 2} -> Nat] /\ buffer'[txNext] = taken + 1
    BY <1>4, <1>5
  <1> DEFINE new == taken + 1
             now == Outgoing(xmit, txInt, tx, buffer)
             next == Outgoing(xmit', txInt', tx', buffer')
  <1>7. Len(now) < 2 /\ Len(next) = Len(now) + 1 /\ AbsLink!Front(next) = now
    <2>1. CASE txStarted
      <3>1. UNCHANGED <<xmit, txInt>>
        BY <2>1 DEF Send
      <3>2. txInt \in tx /\ txInt \in {1, 2} /\ (tx = {txInt} => txNext = 3 - txInt)
        BY <1>5, <2>1 DEF LinkInv, CardInv, Turns
      <3>3. tx = {txInt} /\ txNext = 3 - txInt /\ txNext # txInt
        BY <1>4, <1>5, <3>2, TwoBuffers
      <3>4. tx \ {txInt} = {} /\ tx' \ {txInt} = {txNext}
        BY <1>4, <3>3
      <3>5. buffer'[txInt] = buffer[txInt]
        BY <1>4, <1>5, <3>2, <3>3
      <3>6. now = IF xmit # "idle" THEN <<buffer[txInt]>> ELSE <<>>
        BY <3>4, OutgoingCases
      <3>7. next = IF xmit # "idle" THEN <<buffer[txInt], new>> ELSE <<new>>
        <4>1. next = IF xmit' # "idle" THEN <<buffer'[txInt'], buffer'[txNext]>>
                     ELSE <<buffer'[txNext]>>
          BY <3>1, <3>4, OutgoingCases
        <4>. QED  BY <1>6, <3>1, <3>5, <4>1
      <3> HIDE DEF now, next, new
      <3>8. CASE xmit # "idle"
        <4> DEFINE f == buffer[txInt]
        <4>1. now = <<f>> /\ next = <<f, new>>
          BY <3>6, <3>7, <3>8
        <4> HIDE DEF f
        <4>2. Len(now) = 1
          BY <4>1, OneFrame
        <4>3. Len(next) = 2 /\ AbsLink!Front(next) = now
          BY <4>1, TwoFrames
        <4>. QED  BY <4>2, <4>3
      <3>9. CASE xmit = "idle"
        BY <3>6, <3>7, <3>9, OneFrame
      <3>. QED  BY <3>8, <3>9
    <2>2. CASE ~txStarted
      <3>1. tx = {} /\ txInt = 0 /\ xmit = "idle"
        BY <2>2 DEF LinkInv, CardInv, Turns
      <3>2. xmit' = "sending" /\ txInt' = txNext
        BY <2>2 DEF Send, StartXmit
      <3>3. tx \ {txInt} = {} /\ tx' \ {txInt'} = {}
        BY <1>4, <3>1, <3>2
      <3>4. now = <<>>
        BY <3>1, <3>3, OutgoingCases
      <3>5. next = <<new>>
        BY <1>6, <3>2, <3>3, OutgoingCases
      <3> HIDE DEF now, next, new
      <3>. QED  BY <3>4, <3>5, OneFrame
    <2>. QED  BY <2>1, <2>2
  <1>8. Held = now /\ Held' = next
    BY HeldOutgoing
  <1> HIDE DEF now, next
  <1>9. AbsLink!Take
    BY <1>2, <1>3, <1>7, <1>8 DEF AbsLink!Take
  <1>. QED  BY <1>1, <1>3, <1>6, <1>9 DEF LinkInv

LEMMA TransmittedLeaves ==
  ASSUME LinkInv, Transmitted, Undisturbed
  PROVE  LinkInv' /\ AbsLink!Leave
  <1>1. CardInv'
    BY CardCard DEF LinkInv, Card
  <1>2. /\ UNCHANGED <<rxNext, header, curp, bndry, received, tx, txInt, buffer, taken>>
        /\ up' = up /\ xmit = "sending" /\ xmit' = "idle"
        /\ wire' \in {wire, Append(wire, buffer[tpsr])}
    BY DEF Transmitted, ring, driverVars
  <1>3. RingInv' /\ Stored' = Stored
    BY <1>2, QuietRing DEF LinkInv
  <1>4. tpsr = txInt /\ txInt \in tx /\ tx \in SUBSET {1, 2}
    BY <1>2 DEF LinkInv, CardInv, Turns
  <1> DEFINE now == Outgoing(xmit, txInt, tx, buffer)
             next == Outgoing(xmit', txInt', tx', buffer')
             first == buffer[txInt]
  <1>5. now # <<>> /\ next = Tail(now) /\ Head(now) = first
    <2>1. txInt \in {1, 2}
      BY <1>4
    <2>2. CASE tx = {txInt}
      <3>1. tx \ {txInt} = {} /\ tx' \ {txInt'} = {}
        BY <1>2, <2>2
      <3>2. now = <<first>> /\ next = <<>>
        BY <1>2, <3>1, OutgoingCases
      <3> HIDE DEF now, next, first
      <3>. QED  BY <3>2, OneFrame
    <2>3. CASE tx = {1, 2}
      <3> DEFINE c == 3 - txInt
      <3>1. tx \ {txInt} = {c} /\ tx' \ {txInt'} = {c}
        BY <1>2, <2>1, <2>3, TwoBuffers
      <3>2. now = <<first, buffer[c]>> /\ next = <<buffer[c]>>
        <4> HIDE DEF c
        <4>1. now = IF xmit # "idle" THEN <<first, buffer[c]>> ELSE <<buffer[c]>>
          BY <3>1, OutgoingCases
        <4>2. next = IF xmit' # "idle" THEN <<buffer'[txInt'], buffer'[c]>> ELSE <<buffer'[c]>>
          BY <3>1, OutgoingCases
        <4>3. xmit # "idle" /\ xmit' = "idle" /\ buffer' = buffer
          BY <1>2
        <4> HIDE DEF now, next
        <4>. QED  BY <4>1, <4>2, <4>3
      <3> HIDE DEF now, next, first
      <3>. QED  BY <3>2, TwoFrames
    <2>. QED  BY <1>4, <2>1, <2>2, <2>3, TwoBuffers
  <1>6. Held = now /\ Held' = next
    BY HeldOutgoing
  <1>7. wire' \in {wire, Append(wire, Head(now))}
    BY <1>2, <1>4, <1>5
  <1> HIDE DEF now, next
  <1>8. AbsLink!Leave
    BY <1>2, <1>3, <1>5, <1>6, <1>7 DEF AbsLink!Leave
  <1>. QED  BY <1>1, <1>2, <1>3, <1>8 DEF LinkInv

\* The event of a transmission that has ended is taken: the frames that have not left
\* are the same.
LEMMA HandleTxStutters ==
  ASSUME LinkInv, HandleTx
  PROVE  LinkInv' /\ UNCHANGED AbsLink!vars
  <1>1. CardInv'
    BY HandleTxCard DEF LinkInv
  <1>2. /\ UNCHANGED <<rxNext, header, curp, bndry, received, taken>>
        /\ up' = up /\ wire' = wire /\ pc = "tx" /\ buffer' = buffer
    BY DEF HandleTx, ring, sender
  <1>3. RingInv' /\ Stored' = Stored
    BY <1>2, QuietRing DEF LinkInv
  <1> DEFINE now == Outgoing(xmit, txInt, tx, buffer)
             next == Outgoing(xmit', txInt', tx', buffer')
  <1>4. next = now
    <2>1. CASE "Tx" \in seen /\ txStarted
      <3>1. /\ xmit = "idle" /\ txInt \in tx /\ tx \in SUBSET {1, 2} /\ txInt \in {1, 2}
        BY <1>2, <2>1 DEF LinkInv, CardInv, Turns, Heard, Reported
      <3>2. tx' = tx \ {txInt}
        BY <2>1 DEF HandleTx, TxEvent
      <3>3. CASE tx' = {}
        <4>1. xmit' = xmit /\ tx \ {txInt} = {} /\ tx' \ {txInt'} = {}
          BY <2>1, <3>2, <3>3 DEF HandleTx, TxEvent
        <4>2. now = <<>>
          <5>1. now = IF xmit # "idle" THEN <<buffer[txInt]>> ELSE <<>>
            BY <4>1, OutgoingCases
          <5>2. xmit = "idle"
            BY <3>1
          <5> HIDE DEF now
          <5>. QED  BY <5>1, <5>2
        <4>3. xmit' = "idle"
          BY <3>1, <4>1
        <4>4. next = <<>>
          BY <4>1, <4>3, OutgoingCases
        <4>. QED  BY <4>2, <4>4
      <3>4. CASE tx' # {}
        <4> DEFINE c == 3 - txInt
        <4>1. tx \ {txInt} = {c} /\ tx' = {c}
          BY <3>1, <3>2, <3>4, TwoBuffers
        <4>2. xmit' = "sending" /\ txInt' \in tx'
          BY <2>1, <3>4 DEF HandleTx, TxEvent, StartXmit
        <4>3. txInt' = c /\ tx' \ {txInt'} = {}
          BY <4>1, <4>2
        <4> HIDE DEF c
        <4>4. now = <<buffer[c]>>
          BY <3>1, <4>1, OutgoingCases
        <4>5. next = <<buffer[c]>>
          BY <1>2, <4>2, <4>3, OutgoingCases
        <4>. QED  BY <4>4, <4>5
      <3>. QED  BY <3>3, <3>4
    <2>2. CASE ~("Tx" \in seen /\ txStarted)
      <3>1. UNCHANGED <<xmit, txInt, tx, buffer>>
        BY <2>2 DEF HandleTx, sender
      <3>. QED  BY <3>1
    <2>. QED  BY <2>1, <2>2
  <1>5. Held = now /\ Held' = next
    BY HeldOutgoing
  <1> HIDE DEF now, next
  <1>6. UNCHANGED AbsLink!vars
    BY <1>2, <1>3, <1>4, <1>5 DEF AbsLink!vars
  <1>. QED  BY <1>1, <1>2, <1>3, <1>6 DEF LinkInv

\* All other steps but the arrival of a frame leave the buffers and the ring alone.
LEMMA OthersStutter ==
  ASSUME LinkInv, CardInv', UNCHANGED <<rxNext, header, curp, bndry, received, taken>>,
         UNCHANGED <<tx, txInt, buffer, wire, up>>, xmit' # "idle" <=> xmit # "idle"
  PROVE  LinkInv' /\ UNCHANGED AbsLink!vars
  <1>1. RingInv' /\ Stored' = Stored
    BY QuietRing DEF LinkInv
  <1>2. Held' = Held
    BY DEF Held
  <1>3. UNCHANGED AbsLink!vars
    BY <1>1, <1>2 DEF AbsLink!vars
  <1>. QED  BY <1>1, <1>3 DEF LinkInv

\* The end of an overflow begins a transmission again only if it did not end.
LEMMA RestartStutters ==
  ASSUME LinkInv, RestartXmit
  PROVE  LinkInv' /\ UNCHANGED AbsLink!vars
  <1>1. CardInv'
    BY DriverCard DEF LinkInv, Driver
  <1>2. /\ UNCHANGED <<rxNext, header, curp, bndry, received, taken, tx, txInt, buffer, wire, up>>
        /\ pc = "restart" /\ xmit' = IF txStarted /\ "Tx" \notin seen THEN "sending" ELSE xmit
    BY DEF RestartXmit, ring
  <1>3. xmit' # "idle" <=> xmit # "idle"
    BY <1>2 DEF LinkInv, CardInv, Heard
  <1>. QED  BY <1>1, <1>2, <1>3, OthersStutter

LEMMA ReceiveStep ==
  ASSUME RingLargeEnough, LinkInv, NEW size \in Sizes, Receive(size), CardInv'
  PROVE  LinkInv' /\ [AbsLink!Next]_(AbsLink!vars)
  <1>1. CardInv'
    OBVIOUS
  <1>2. /\ UNCHANGED <<rxNext, bndry, tx, txInt, buffer, xmit, wire, up, taken>>
    BY DEF Receive, driverVars
  <1>3. CASE "OFLW" \in isr \/ \E n \in 0 .. size - 1 : After(curp, n) = bndry
    <2>1. UNCHANGED <<header, curp, received>>
      BY <1>3 DEF Receive, ring
    <2>. QED  BY <1>1, <1>2, <2>1, OthersStutter
  <1>4. CASE ~("OFLW" \in isr \/ \E n \in 0 .. size - 1 : After(curp, n) = bndry)
    <2>1. Storing(size)
      BY <1>2, <1>4 DEF Receive, Storing
    <2>2. RingInv' /\ Len(In') = Len(In) + 1 /\ AbsLink!Front(In') = In
      BY <2>1, StoringReceives DEF LinkInv
    <2>3. Held' = Held
      BY <1>2 DEF Held
    <2>4. AbsLink!Receive
      BY <1>2, <2>2, <2>3 DEF AbsLink!Receive, In
    <2>5. LinkInv'
      BY <1>1, <1>2, <2>2 DEF LinkInv
    <2>. QED  BY <2>4, <2>5 DEF AbsLink!Next
  <1>. QED  BY <1>3, <1>4

LEMMA LinkStep ==
  ASSUME RingLargeEnough, LinkInv, [CardNext /\ Undisturbed]_(cardVars)
  PROVE  LinkInv' /\ [AbsLink!Next]_(AbsLink!vars)
  <1> USE DEF driverVars, sender, ring
  <1>0. CardInv'
    BY NextCardInv DEF LinkInv
  <1>1. CASE Send
    BY <1>1, SendTakes DEF AbsLink!Next
  <1>2. CASE Poll
    BY <1>0, <1>2, OthersStutter DEF Poll
  <1>3. CASE ReadIsr
    BY <1>0, <1>3, OthersStutter DEF ReadIsr
  <1>4. CASE Acknowledge
    BY <1>0, <1>4, OthersStutter DEF Acknowledge
  <1>5. CASE HandleTx
    BY <1>5, HandleTxStutters
  <1>6. CASE RxFrame
    <2>1. RingInv' /\ AbsLink!HandUp
      BY <1>6, RxFrameHandsUp DEF LinkInv
    <2>2. UNCHANGED <<buffer, taken>>
      BY <1>6 DEF RxFrame
    <2>. QED  BY <1>0, <2>1, <2>2 DEF LinkInv, AbsLink!Next
  <1>7. CASE RxDone
    BY <1>0, <1>7, OthersStutter DEF RxDone
  <1>8. CASE EnterOverflow
    BY <1>0, <1>8, OthersStutter DEF EnterOverflow
  <1>9. CASE LeaveOverflow
    BY <1>0, <1>9, OthersStutter DEF LeaveOverflow
  <1>16. CASE LookForTx
    BY <1>0, <1>16, OthersStutter DEF LookForTx
  <1>17. CASE RestartXmit
    BY <1>17, RestartStutters
  <1>10. CASE Transmitted /\ Undisturbed
    BY <1>10, TransmittedLeaves DEF AbsLink!Next
  <1>11. CASE Aborted
    BY <1>0, <1>11, OthersStutter DEF Aborted
  <1>12. CASE Spurious
    BY <1>0, <1>12, OthersStutter DEF Spurious
  <1>13. CASE ReceiveBad
    BY <1>0, <1>13, OthersStutter DEF ReceiveBad
  <1>14. ASSUME NEW size \in Sizes, Receive(size)
         PROVE  LinkInv' /\ [AbsLink!Next]_(AbsLink!vars)
    BY <1>0, <1>14, ReceiveStep
  <1>15. CASE UNCHANGED cardVars
    BY <1>0, <1>15, OthersStutter DEF cardVars
  <1>. QED
    BY <1>1, <1>2, <1>3, <1>4, <1>5, <1>6, <1>7, <1>8, <1>9, <1>10, <1>11, <1>12, <1>13, <1>14,
       <1>15, <1>16, <1>17 DEF CardNext, Driver, Card

LEMMA InitLink ==
  ASSUME RingLargeEnough, CardInit
  PROVE  LinkInv /\ AbsLink!Init
  <1>1. CardInv /\ RingInv
    BY InitCardInv, InitRingInv
  <1>2. /\ buffer = [b \in {1, 2} |-> 0] /\ taken = 0 /\ wire = <<>> /\ up = <<>>
        /\ xmit = "idle" /\ tx = {} /\ rxNext = curp
    BY DEF CardInit
  <1>3. Held = <<>>
    <2>1. Outgoing(xmit, txInt, tx, buffer) = <<>>
      BY <1>2, OutgoingCases
    <2>. QED  BY <2>1, HeldOutgoing
  <1>4. In = <<>>
    <2> DEFINE P == [i \in 1 .. 0 + 1 |-> curp]
    <2>1. curp \in Pages /\ 0 \in 0 .. MaxRx /\ header \in Headers
      BY <1>1, RingNumbers DEF RingInv
    <2>2. P \in [1 .. 0 + 1 -> Pages] /\ Course(P, 0, header, rxNext, curp)
      BY <1>2, <2>1 DEF Course
    <2>3. In = Frames(header, P, 0)
      <3> HIDE DEF P
      <3>. QED  BY <1>1, <2>1, <2>2, InFrames
    <2>. QED  BY <2>3 DEF Frames
  <1>. QED  BY <1>1, <1>2, <1>3, <1>4 DEF LinkInv, AbsLink!Init, In

\* The safety part of ImplementsLink, for every ring, every size of frames and every
\* order of the card's events: frames leave in the order they were taken, none torn or
\* twice (dp83902a_send(), dp83902a_TxEvent(), and dp83902a_Overflow() if no transmission
\* ends between its last look and the restart), and are handed up in the order they were
\* stored, none written over before (dp83902a_RxEvent()).
THEOREM Ne2000ImplementsLink ==
  CardSpecUndisturbed => AbsLink!Init /\ [][AbsLink!Next]_(AbsLink!vars)
  <1>1. CardInit => LinkInv /\ AbsLink!Init
    BY InitLink, Ne2000Assumption
  <1>2. LinkInv /\ [CardNext /\ Undisturbed]_(cardVars) => LinkInv' /\ [AbsLink!Next]_(AbsLink!vars)
    BY LinkStep, Ne2000Assumption
  <1>. QED  BY <1>1, <1>2, PTL DEF CardSpecUndisturbed
-----------------------------------------------------------------------------
(***************************************************************************)
(* The memory that is fitted (core/mem.c).                                 *)
(***************************************************************************)
\* Each unit that is fitted answers at its own place, and the place after the last
\* one answers with nothing or with the first unit.
LEMMA AnswersCases ==
  ASSUME NEW fitted \in 1 .. MaxUnits, NEW mirrored \in BOOLEAN, NEW u \in 1 .. MaxUnits
  PROVE  /\ u <= fitted => Answers(u, fitted, mirrored) = u
         /\ u = fitted + 1 =>
              Answers(u, fitted, mirrored) = IF mirrored THEN 1 ELSE 0
         /\ u > fitted /\ ~mirrored => Answers(u, fitted, mirrored) = 0
  <1>1. MaxUnits \in Nat \ {0}
    BY MemoryAssumption
  <1>2. fitted \in Nat \ {0} /\ u \in Nat \ {0}
    BY <1>1
  <1>3. fitted % fitted = 0
    <2>1. fitted = fitted * 1 + 0 /\ 0 \in 0 .. fitted - 1
      BY <1>2
    <2>2. QED
      BY <2>1, <1>2, PartsUnique
  <1>4. u = fitted + 1 => (u - 1) % fitted = 0
    BY <1>2, <1>3
  <1>5. QED
    BY <1>2, <1>4 DEF Answers

\* The mark that stays in a unit is the one written last: its own.
LEMMA OwnMarkStays ==
  ASSUME NEW fitted \in 1 .. MaxUnits, NEW mirrored \in BOOLEAN, NEW u \in 1 .. fitted
  PROVE  LastWritten(u, fitted, mirrored) = u
  <1> DEFINE At(w) == Answers(w, fitted, mirrored) = u
             Lowest(w) == At(w) /\ \A v \in 1 .. MaxUnits : At(v) => v >= w
  <1>1. u \in 1 .. MaxUnits /\ u \in Nat /\ u # 0 /\ fitted \in Nat
    BY MemoryAssumption
  <1>2. At(u)
    BY <1>1, AnswersCases
  <1>3. ASSUME NEW v \in 1 .. MaxUnits, At(v)
        PROVE  v >= u
    <2>1. v <= fitted => v = u
      BY <1>3, AnswersCases
    <2>2. QED
      BY <2>1, <1>1, MemoryAssumption
  <1>4. \A w \in 1 .. MaxUnits : Lowest(w) => w = u
    <2>1. ASSUME NEW w \in 1 .. MaxUnits, Lowest(w)
          PROVE  w = u
      <3>1. u >= w
        BY <2>1, <1>1, <1>2
      <3>2. w >= u
        BY <2>1, <1>3
      <3>3. QED
        BY <3>1, <3>2, <1>1, MemoryAssumption
    <2>2. QED
      BY <2>1
  <1>5. Lowest(u)
    BY <1>2, <1>3
  <1>6. LastWritten(u, fitted, mirrored) = CHOOSE w \in 1 .. MaxUnits : Lowest(w)
    BY DEF LastWritten
  <1> HIDE DEF Lowest
  <1>7. QED
    BY <1>1, <1>4, <1>5, <1>6

\* measure_ram_size() finds the units that are fitted, mirrored or not.
LEMMA MeasuredIsFitted ==
  ASSUME NEW fitted \in 1 .. MaxUnits, NEW mirrored \in BOOLEAN
  PROVE  MeasureRamSize(fitted, mirrored) = Unit * fitted
  <1> DEFINE Good(n) == \A u \in 1 .. n : ReadsBack(u, fitted, mirrored)
             good == {n \in 0 .. MaxUnits : Good(n)}
  <1>1. MaxUnits \in Nat /\ fitted \in Nat /\ fitted # 0
    BY MemoryAssumption
  <1>2. Good(fitted)
    <2>1. ASSUME NEW u \in 1 .. fitted
          PROVE  ReadsBack(u, fitted, mirrored)
      <3>1. u \in 1 .. MaxUnits /\ u <= fitted /\ u # 0
        BY <1>1
      <3>2. Answers(u, fitted, mirrored) = u
        BY <3>1, AnswersCases
      <3>3. QED
        BY <3>1, <3>2, OwnMarkStays DEF ReadsBack
    <2>2. QED
      BY <2>1
  <1>3. ASSUME NEW n \in 0 .. MaxUnits, Good(n)
        PROVE  n <= fitted
    <2>1. SUFFICES ASSUME n > fitted
                   PROVE  FALSE
      BY <1>1
    <2>2. fitted + 1 \in 1 .. n /\ fitted + 1 \in 1 .. MaxUnits
      BY <1>1, <2>1
    <2>3. ReadsBack(fitted + 1, fitted, mirrored)
      BY <1>3, <2>2
    <2>4. Answers(fitted + 1, fitted, mirrored) = IF mirrored THEN 1 ELSE 0
      BY <2>2, AnswersCases
    <2>5. LastWritten(1, fitted, mirrored) = 1
      <3>1. 1 \in 1 .. fitted
        BY <1>1
      <3>2. QED
        BY <3>1, OwnMarkStays
    <2>6. QED
      BY <2>3, <2>4, <2>5, <1>1 DEF ReadsBack
  <1>4. fitted \in good /\ \A m \in good : m <= fitted
    BY <1>1, <1>2, <1>3
  <1>5. \A n \in good : (\A m \in good : m <= n) => n = fitted
    BY <1>1, <1>4
  <1>6. MeasureRamSize(fitted, mirrored) = Unit * (CHOOSE n \in good : \A m \in good : m <= n)
    BY DEF MeasureRamSize
  <1> HIDE DEF good
  <1>7. (CHOOSE n \in good : \A m \in good : m <= n) = fitted
    BY <1>4, <1>5
  <1>8. QED
    BY <1>6, <1>7

\* gogoboot starts on the memory that is fitted.
LEMMA InitRam ==
  ASSUME Init
  PROVE  /\ ram \in {Unit * units : units \in 1 .. MaxUnits}
         /\ DOMAIN mem = 0 .. ram - 1
         /\ mem = [a \in DOMAIN mem |-> IF IsOwn(a) THEN Own ELSE Free]
  <1>1. PICK fitted \in 1 .. MaxUnits, mirrored \in BOOLEAN :
          /\ ram = MeasureRamSize(fitted, mirrored)
          /\ mem = [a \in 0 .. fitted * Unit - 1 |-> IF IsOwn(a) THEN Own ELSE Free]
    BY DEF Init
  <1>2. ram = Unit * fitted
    BY <1>1, MeasuredIsFitted
  <1>3. Unit * fitted = fitted * Unit
    BY MemoryAssumption
  <1>4. DOMAIN mem = 0 .. ram - 1
    BY <1>1, <1>2, <1>3
  <1>5. QED
    BY <1>1, <1>2, <1>4

\* Every write to memory is to memory that there is.
LEMMA StepKeepsMemory ==
  ASSUME [Next]_vars
  PROVE  ram' = ram /\ DOMAIN mem' = DOMAIN mem
  <1>1. CASE \E f \in DOMAIN Images : ScanElf(f) \/ ScanM68k(f)
    BY <1>1 DEF ScanElf, ScanM68k
  <1>2. CASE LoadSegment
    <2> DEFINE paddr == Segments(file)[progheadNum].paddr + offset
    <2>1. ram' = ram
      BY <1>2 DEF LoadSegment
    <2>2. \/ LoadData(file, progheadNum, paddr)
          \/ LoadDataFails(file, progheadNum, paddr)
          \/ UNCHANGED mem
      BY <1>2 DEF LoadSegment
    <2>3. LoadData(file, progheadNum, paddr) => DOMAIN mem' = DOMAIN mem
      BY DEF LoadData, Put
    <2>4. LoadDataFails(file, progheadNum, paddr) => DOMAIN mem' = DOMAIN mem
      BY DEF LoadDataFails, Put
    <2>5. QED
      BY <2>1, <2>2, <2>3, <2>4
  <1>3. CASE Execute
    BY <1>3 DEF Execute, MachineExecute
  <1>4. CASE \E n \in InitrdSizes : Inform(n)
    BY <1>4 DEF Inform, Fill
  <1>5. CASE RefuseKernel
    BY <1>5 DEF RefuseKernel
  <1>6. CASE UNCHANGED vars
    BY <1>6 DEF vars
  <1>7. QED
    BY <1>1, <1>2, <1>3, <1>4, <1>5, <1>6 DEF Next

\* gogoboot uses the memory that is fitted, all of it and no more, whatever is
\* loaded, for any number of units and mirrored or not (measure_ram_size() of
\* core/mem.c).
THEOREM LoaderRamMeasured == Spec => []RamMeasured
  <1>1. Init => RamMeasured
    BY InitRam DEF RamMeasured
  <1>2. RamMeasured /\ [Next]_vars => RamMeasured'
    BY StepKeepsMemory DEF RamMeasured
  <1>3. QED
    BY <1>1, <1>2, PTL DEF Spec
-----------------------------------------------------------------------------
(***************************************************************************)
(* Where an image goes (core/loader.c).                                    *)
(***************************************************************************)
\* A finite set of addresses has a least and a greatest member.
LEMMA LeastGreatest ==
  ASSUME NEW S, S # {}, S \subseteq Nat, \A n \in S : n < AddressSpace
  PROVE  /\ Least(S) \in S /\ \A n \in S : Least(S) <= n
         /\ Greatest(S) \in S /\ \A n \in S : n <= Greatest(S)
  <1>1. AddressSpace \in Nat
    BY MemoryAssumption
  <1>2. \E m \in S : \A n \in S : m <= n
    BY SmallestExists
  <1>3. \E m \in S : \A n \in S : n <= m
    <2> DEFINE R == {AddressSpace - n : n \in S}
    <2>1. R \subseteq Nat /\ R # {}
      <3>1. \A n \in S : AddressSpace - n \in Nat
        BY <1>1
      <3>2. QED
        BY <3>1
    <2>2. PICK r \in R : \A q \in R : r <= q
      BY <2>1, SmallestExists
    <2>3. PICK m \in S : r = AddressSpace - m
      BY <2>2
    <2>4. ASSUME NEW n \in S
          PROVE  n <= m
      <3>1. AddressSpace - m <= AddressSpace - n
        BY <2>2, <2>3
      <3>2. QED
        BY <3>1, <1>1
    <2>5. QED
      BY <2>4
  <1>4. QED
    BY <1>2, <1>3 DEF Least, Greatest

\* The sizes of the machine and of its images are numbers.
LEMMA LoaderTypes ==
  /\ AddressSpace \in Nat \ {0} /\ Unit \in Nat \ {0} /\ MaxUnits \in Nat \ {0}
  /\ MaxHeap \in Nat \ {0} /\ RomBelow \in Nat /\ BssEnd \in Nat
  /\ Align \in Nat \ {0} /\ Page \in Nat \ {0}
  /\ LoadOffset \in Nat /\ RawAddress \in Nat /\ InitrdGap \in Nat
  /\ InitrdSizes \subseteq Nat
  BY MemoryAssumption, LoaderAssumption

LEMMA SegmentTypes ==
  ASSUME NEW f \in DOMAIN Images
  PROVE  /\ Segments(f) \in Seq([paddr : Nat, filesz : Nat, memsz : Nat])
         /\ Segments(f) # <<>>
         /\ DOMAIN Segments(f) # {}
         /\ \A s \in DOMAIN Segments(f) :
              /\ Segments(f)[s].paddr \in Nat
              /\ Segments(f)[s].filesz \in Nat
              /\ Segments(f)[s].memsz \in Nat
              /\ Segments(f)[s].filesz <= Segments(f)[s].memsz
              /\ Segments(f)[s].paddr + Segments(f)[s].memsz < AddressSpace
  <1>1. /\ Segments(f) \in Seq([paddr : Nat, filesz : Nat, memsz : Nat])
        /\ Segments(f) # <<>>
    BY LoaderAssumption DEF Segments
  <1>2. DOMAIN Segments(f) = 1 .. Len(Segments(f)) /\ Len(Segments(f)) \in Nat \ {0}
    BY <1>1
  <1>3. \A s \in DOMAIN Segments(f) : Segments(f)[s] \in [paddr : Nat, filesz : Nat, memsz : Nat]
    BY <1>1, <1>2, ElementOfSeq
  <1>4. \A s \in DOMAIN Segments(f) :
          /\ Segments(f)[s].filesz <= Segments(f)[s].memsz
          /\ Segments(f)[s].paddr + Segments(f)[s].memsz < AddressSpace
    BY LoaderAssumption DEF Segments
  <1>5. QED
    BY <1>1, <1>2, <1>3, <1>4

\* An image covers the range that its segments span, and its offset moves it to
\* addresses.
LEMMA ImageRange ==
  ASSUME NEW f \in DOMAIN Images
  PROVE  /\ MinLoadAddr(f) \in Nat /\ MaxLoadAddr(f) \in Nat /\ OffsetOf(f) \in Int
         /\ MinLoadAddr(f) + OffsetOf(f) \in Nat
         /\ \E s \in DOMAIN Segments(f) :
              MaxLoadAddr(f) = Segments(f)[s].paddr + Segments(f)[s].memsz
         /\ \E s \in DOMAIN Segments(f) : MinLoadAddr(f) = Segments(f)[s].paddr
         /\ \A s \in DOMAIN Segments(f) :
              /\ MinLoadAddr(f) <= Segments(f)[s].paddr
              /\ Segments(f)[s].paddr + Segments(f)[s].memsz <= MaxLoadAddr(f)
              /\ Place(f, s) \in Nat
  <1> DEFINE starts == {Segments(f)[s].paddr : s \in DOMAIN Segments(f)}
             ends == {Segments(f)[s].paddr + Segments(f)[s].memsz : s \in DOMAIN Segments(f)}
  <1>1. /\ starts # {} /\ starts \subseteq Nat /\ \A n \in starts : n < AddressSpace
        /\ ends # {} /\ ends \subseteq Nat /\ \A n \in ends : n < AddressSpace
    <2>1. DOMAIN Segments(f) # {}
      BY SegmentTypes
    <2>2. \A s \in DOMAIN Segments(f) :
            /\ Segments(f)[s].paddr \in Nat /\ Segments(f)[s].memsz \in Nat
            /\ Segments(f)[s].paddr + Segments(f)[s].memsz < AddressSpace
      BY SegmentTypes
    <2>3. \A s \in DOMAIN Segments(f) : Segments(f)[s].paddr < AddressSpace
      BY <2>2, LoaderTypes
    <2>4. QED
      BY <2>1, <2>2, <2>3
  <1>2. MinLoadAddr(f) \in starts /\ \A n \in starts : MinLoadAddr(f) <= n
    <2> HIDE DEF starts, ends
    <2>1. Least(starts) \in starts /\ \A n \in starts : Least(starts) <= n
      BY <1>1, LeastGreatest
    <2>2. MinLoadAddr(f) = Least(starts)
      BY DEF MinLoadAddr, starts
    <2>3. QED
      BY <2>1, <2>2
  <1>3. MaxLoadAddr(f) \in ends /\ \A n \in ends : n <= MaxLoadAddr(f)
    <2> HIDE DEF starts, ends
    <2>1. Greatest(ends) \in ends /\ \A n \in ends : n <= Greatest(ends)
      BY <1>1, LeastGreatest
    <2>2. MaxLoadAddr(f) = Greatest(ends)
      BY DEF MaxLoadAddr, ends
    <2>3. QED
      BY <2>1, <2>2
  <1>4. MinLoadAddr(f) \in Nat /\ MaxLoadAddr(f) \in Nat
    BY <1>1, <1>2, <1>3
  <1>5. OffsetOf(f) \in Int /\ MinLoadAddr(f) + OffsetOf(f) \in Nat
    BY <1>4, LoaderTypes DEF OffsetOf
  <1>6. \A s \in DOMAIN Segments(f) :
          /\ MinLoadAddr(f) <= Segments(f)[s].paddr
          /\ Segments(f)[s].paddr + Segments(f)[s].memsz <= MaxLoadAddr(f)
    BY <1>2, <1>3
  <1>7. ASSUME NEW s \in DOMAIN Segments(f)
        PROVE  Place(f, s) \in Nat
    <2>1. Segments(f)[s].paddr \in Nat
      BY SegmentTypes
    <2>2. QED
      BY <2>1, <1>4, <1>5, <1>6 DEF Place
  <1>8. QED
    BY <1>2, <1>3, <1>4, <1>5, <1>6, <1>7

\* The memory is smaller than the address space, and the heap is within it.
LEMMA RamBounds ==
  ASSUME NEW r \in {Unit * units : units \in 1 .. MaxUnits}
  PROVE  r \in Nat /\ r < AddressSpace /\ HeapBase(r) \in Nat /\ HeapBase(r) <= r
  <1>1. PICK units \in 1 .. MaxUnits : r = Unit * units
    OBVIOUS
  <1>2. units \in Nat /\ r \in Nat
    BY <1>1, LoaderTypes
  <1>3. r <= MaxUnits * Unit
    BY <1>1, <1>2, LoaderTypes, SMTT(30)
  <1>4. MaxUnits * Unit < AddressSpace
    BY MemoryAssumption
  <1>5. r < AddressSpace
    <2>1. MaxUnits * Unit \in Nat
      BY LoaderTypes
    <2>2. QED
      BY <2>1, <1>2, <1>3, <1>4, LoaderTypes
  <1>6. HeapBase(r) \in Nat /\ HeapBase(r) <= r
    <2>1. r \div 4 \in Nat /\ r \div 4 <= r
      BY <1>2
    <2>2. QED
      BY <2>1, <1>2, LoaderTypes DEF HeapBase, AtMost
  <1>7. QED
    BY <1>2, <1>5, <1>6

\* What check_writable_range() lets through ends below the heap, if the sum of its
\* arguments does not wrap.
LEMMA CheckedRange ==
  ASSUME NEW r \in {Unit * units : units \in 1 .. MaxUnits},
         NEW base \in Nat, NEW length \in Nat, base + length < AddressSpace,
         CheckWritableRange(base, length, TRUE, r)
  PROVE  base + length <= HeapBase(r) /\ base + length <= r
  <1>1. (base + length) % AddressSpace = base + length
    <2>1. base + length \in 0 .. AddressSpace - 1
      BY LoaderTypes
    <2>2. QED
      BY <2>1, LoaderTypes, SmallRemainder
  <1>2. QED
    BY <1>1 DEF CheckWritableRange

\* How far the part of a segment reaches that goes to the bounce buffer.
LEMMA BounceSizeCases ==
  ASSUME NEW paddr \in Nat, NEW size \in Nat, NEW limit \in Nat, limit = BounceBelow
  PROVE  BounceSize(paddr, size) = IF paddr >= limit THEN 0
                                   ELSE IF paddr + size <= limit THEN size ELSE limit - paddr
  BY DEF BounceSize, Positive, AtMost

\* Rounding up to a multiple.
LEMMA RoundedUp ==
  ASSUME NEW c \in Nat \ {0}, NEW n \in Nat
  PROVE  /\ RoundUp(n, c) \in Nat
         /\ n <= RoundUp(n, c) /\ RoundUp(n, c) < n + c
         /\ RoundUp(n, c) = c * ((n + c - 1) \div c)
         /\ (n + c - 1) \div c \in Nat
  <1> DEFINE a == n + c - 1
             q == a \div c
             p == a % c
  <1>1. a \in Nat
    OBVIOUS
  <1>2. q \in Nat /\ p \in 0 .. c - 1 /\ a = c * q + p
    BY <1>1, Parts
  <1>3. RoundUp(n, c) = q * c
    BY DEF RoundUp
  <1> HIDE DEF q, p
  <1>4. q * c = c * q /\ c * q \in Nat
    BY <1>2
  <1>5. n <= c * q /\ c * q < n + c
    BY <1>2, <1>4
  <1>6. QED
    BY <1>2, <1>3, <1>4, <1>5 DEF q

LEMMA BounceBelowType == BounceBelow \in Nat
  BY LoaderTypes, RoundedUp DEF BounceBelow
-----------------------------------------------------------------------------
(***************************************************************************)
(* What gogoboot keeps to itself.                                          *)
(***************************************************************************)
\* The image that is being loaded, or that runs, is one of the files; it is loaded
\* at its offset, and if it is an ELF file it was found to end below the heap.
ImageState ==
  /\ running # 0 => file = 0 /\ running \in DOMAIN Images
  /\ file # 0 =>
       /\ file \in DOMAIN Images /\ running = 0
       /\ progheadNum \in Nat \ {0} /\ offset = OffsetOf(file)
       /\ Images[file].elf => MaxLoadAddr(file) + offset <= HeapBase(ram)

LoadState ==
  /\ ram \in {Unit * units : units \in 1 .. MaxUnits}
  /\ DOMAIN mem = 0 .. ram - 1
  /\ ImageState

LEMMA InitLoadState == Init => LoadState
  BY InitRam DEF Init, LoadState, ImageState

\* load_segment: what a step of it may do to the loader's state.
LEMMA LoadSegmentCases ==
  ASSUME LoadState, LoadSegment, NoWrap
  PROVE  /\ file \in DOMAIN Images /\ progheadNum \in DOMAIN Segments(file)
         /\ Segments(file)[progheadNum].paddr + offset = Place(file, progheadNum)
         /\ \/ /\ \/ /\ LoadData(file, progheadNum, Place(file, progheadNum))
                     /\ progheadNum' = progheadNum + 1
                     /\ UNCHANGED <<ram, running, file, offset, informed>>
                  \/ /\ LoadDataFails(file, progheadNum, Place(file, progheadNum))
                     /\ GiveUp /\ UNCHANGED <<ram, running>>
               /\ Place(file, progheadNum) + Segments(file)[progheadNum].memsz <= HeapBase(ram)
               /\ Place(file, progheadNum) + Segments(file)[progheadNum].memsz <= ram
            \/ GiveUp /\ UNCHANGED <<ram, running, mem, bounce>>
  <1> DEFINE s == progheadNum
             size == Segments(file)[s].memsz
  <1>1. file # 0 /\ s <= Len(Segments(file))
    BY DEF LoadSegment
  <1>2. file \in DOMAIN Images /\ s \in Nat \ {0} /\ offset = OffsetOf(file)
    BY <1>1 DEF LoadState, ImageState
  <1>3. s \in DOMAIN Segments(file)
    BY <1>1, <1>2, SegmentTypes
  <1>4. Segments(file)[s].paddr + offset = Place(file, s)
    BY <1>2 DEF Place
  <1>5. \/ /\ \/ /\ LoadData(file, s, Place(file, s)) /\ s' = s + 1
                 /\ UNCHANGED <<ram, running, file, offset, informed>>
              \/ /\ LoadDataFails(file, s, Place(file, s))
                 /\ GiveUp /\ UNCHANGED <<ram, running>>
           /\ CheckWritableRange(Place(file, s), size, TRUE, ram)
        \/ GiveUp /\ UNCHANGED <<ram, running, mem, bounce>>
    BY <1>4, Zenon DEF LoadSegment
  <1>6. Place(file, s) \in Nat /\ size \in Nat /\ Place(file, s) + size < AddressSpace
    BY <1>2, <1>3, ImageRange, SegmentTypes DEF NoWrap
  <1>7. CheckWritableRange(Place(file, s), size, TRUE, ram) =>
          Place(file, s) + size <= HeapBase(ram) /\ Place(file, s) + size <= ram
    BY <1>6, CheckedRange DEF LoadState
  <1>8. QED
    BY <1>2, <1>3, <1>4, <1>5, <1>7

LEMMA StepLoadState ==
  ASSUME LoadState, [Next]_vars, NoWrap
  PROVE  LoadState'
  <1>1. ram' = ram /\ DOMAIN mem' = DOMAIN mem
    BY StepKeepsMemory
  <1>2. ram' \in {Unit * units : units \in 1 .. MaxUnits} /\ DOMAIN mem' = 0 .. ram' - 1
    BY <1>1 DEF LoadState
  <1> SUFFICES ImageState'
    BY <1>2 DEF LoadState
  <1>3. ImageState
    BY DEF LoadState
  <1>4. ASSUME NEW f \in DOMAIN Images, ScanElf(f)
        PROVE  ImageState'
    <2>1. /\ file' = f /\ progheadNum' = 1 /\ running' = 0 /\ offset' = OffsetOf(f)
          /\ CheckWritableRange(MinLoadAddr(f) + OffsetOf(f), MaxLoadAddr(f) - MinLoadAddr(f),
               TRUE, ram)
      BY <1>4 DEF ScanElf, OffsetOf, Idle
    <2>2. PICK s \in DOMAIN Segments(f) :
            MaxLoadAddr(f) = Segments(f)[s].paddr + Segments(f)[s].memsz
      BY ImageRange
    <2>3. /\ Segments(f)[s].paddr \in Nat /\ Segments(f)[s].memsz \in Nat
          /\ MinLoadAddr(f) <= Segments(f)[s].paddr
          /\ Segments(f)[s].paddr + OffsetOf(f) + Segments(f)[s].memsz < AddressSpace
      BY ImageRange, SegmentTypes DEF NoWrap, Place
    <2>4. MinLoadAddr(f) \in Nat /\ OffsetOf(f) \in Int /\ MinLoadAddr(f) + OffsetOf(f) \in Nat
      BY ImageRange
    <2> DEFINE base == MinLoadAddr(f) + OffsetOf(f)
               length == MaxLoadAddr(f) - MinLoadAddr(f)
    <2>5. base \in Nat /\ length \in Nat /\ base + length = MaxLoadAddr(f) + OffsetOf(f)
      BY <2>2, <2>3, <2>4
    <2>6. base + length < AddressSpace
      BY <2>2, <2>3, <2>4
    <2>7. base + length <= HeapBase(ram)
      <3>1. CheckWritableRange(base, length, TRUE, ram)
        BY <2>1
      <3> HIDE DEF base, length
      <3>2. QED
        BY <3>1, <2>5, <2>6, CheckedRange DEF LoadState
    <2>8. MaxLoadAddr(f) + OffsetOf(f) <= HeapBase(ram)
      BY <2>5, <2>7
    <2>9. QED
      BY <2>1, <2>8, <1>1 DEF ImageState
  <1>5. ASSUME NEW f \in DOMAIN Images, ScanM68k(f)
        PROVE  ImageState'
    BY <1>1, <1>5 DEF ScanM68k, OffsetOf, Idle, ImageState
  <1>6. CASE LoadSegment
    <2>1. /\ file \in DOMAIN Images /\ running' = running
          /\ \/ progheadNum' = progheadNum + 1 /\ file' = file /\ offset' = offset
             \/ GiveUp
      BY <1>6, LoadSegmentCases
    <2>2. CASE GiveUp
      BY <2>1, <2>2, <1>3 DEF GiveUp, ImageState
    <2>3. CASE progheadNum' = progheadNum + 1 /\ file' = file /\ offset' = offset
      BY <2>1, <2>3, <1>1, <1>3 DEF ImageState
    <2>4. QED
      BY <2>1, <2>2, <2>3
  <1>7. CASE Execute
    BY <1>1, <1>7, <1>3 DEF Execute, Loaded, ImageState
  <1>8. CASE \E n \in InitrdSizes : Inform(n)
    BY <1>1, <1>8, <1>3 DEF Inform, ImageState
  <1>9. CASE RefuseKernel
    BY <1>1, <1>9, <1>3 DEF RefuseKernel, GiveUp, Loaded, ImageState
  <1>10. CASE UNCHANGED vars
    BY <1>10, <1>3 DEF vars, ImageState
  <1>11. QED
    BY <1>4, <1>5, <1>6, <1>7, <1>8, <1>9, <1>10 DEF Next
\* Where the records of a kernel and its initrd go: from the page above the kernel
\* up, and below the heap if they fit there.
LEMMA InformPlaces ==
  ASSUME LoadState, NEW n \in InitrdSizes, Inform(n)
  PROVE  /\ file \in DOMAIN Images /\ n \in Nat
         /\ BootInfoAt(file) \in Nat /\ InitrdAt(file) \in Nat
         /\ BounceBelow <= BootInfoAt(file)
         /\ MaxLoadAddr(file) + offset <= BootInfoAt(file)
         /\ BootInfoAt(file) < InitrdAt(file)
         /\ InformationFits => InitrdAt(file) + n <= HeapBase(ram)
  <1> DEFINE end == MaxLoadAddr(file) + OffsetOf(file)
             page == RoundUp(end, Page)
  <1>1. file # 0 /\ Images[file].elf /\ Images[file].kernel /\ BootInfoAt(file) >= BounceBelow
    BY DEF Inform, Loaded, SeenAsKernel
  <1>2. /\ file \in DOMAIN Images /\ offset = OffsetOf(file) /\ end <= HeapBase(ram)
        /\ n \in Nat
    BY <1>1, LoaderTypes DEF LoadState, ImageState
  <1>3. PICK units \in 1 .. MaxUnits : ram = Unit * units
    BY DEF LoadState
  <1>4. units * Unit = ram
    BY <1>3, LoaderTypes
  <1>5. end \in Nat
    <2>1. MinLoadAddr(file) + OffsetOf(file) \in Nat /\ MaxLoadAddr(file) \in Nat
      BY <1>2, ImageRange
    <2>2. PICK s \in DOMAIN Segments(file) : MinLoadAddr(file) = Segments(file)[s].paddr
      BY <1>2, ImageRange
    <2>3. /\ MinLoadAddr(file) + Segments(file)[s].memsz <= MaxLoadAddr(file)
          /\ Segments(file)[s].memsz \in Nat /\ MinLoadAddr(file) \in Nat
          /\ OffsetOf(file) \in Int
      BY <1>2, <2>2, ImageRange, SegmentTypes
    <2>4. QED
      BY <2>1, <2>3
  <1>6. page \in Nat /\ end <= page
    BY <1>5, LoaderTypes, RoundedUp
  <1>7. RoundUp(page + 1, Page) \in Nat /\ page + 1 <= RoundUp(page + 1, Page)
    <2> HIDE DEF page
    <2>1. QED
      BY <1>6, LoaderTypes, RoundedUp
  <1>8. BootInfoAt(file) = page /\ InitrdAt(file) = RoundUp(page + 1, Page) + InitrdGap
    BY <1>2 DEF BootInfoAt, InitrdAt
  <1>9. InformationFits => RoundUp(page + 1, Page) + InitrdGap + n <= HeapBase(ram)
    BY <1>1, <1>2, <1>4 DEF InformationFits
  <1> HIDE DEF page
  <1>10. InitrdAt(file) \in Nat /\ BootInfoAt(file) < InitrdAt(file)
    BY <1>6, <1>7, <1>8, LoaderTypes
  <1>11. InformationFits => InitrdAt(file) + n <= HeapBase(ram)
    BY <1>7, <1>8, <1>9
  <1>12. MaxLoadAddr(file) + offset <= BootInfoAt(file)
    BY <1>2, <1>6, <1>8
  <1>13. QED
    BY <1>1, <1>2, <1>6, <1>8, <1>10, <1>11, <1>12

\* What is loaded in place is put above gogoboot and below its heap.
LEMMA DirectPart ==
  ASSUME NEW paddr \in Nat, NEW size \in Nat, NEW a \in Nat,
         a - paddr \in BounceSize(paddr, size) .. size - 1
  PROVE  BounceBelow <= a /\ a < paddr + size
  <1> DEFINE n == BounceSize(paddr, size)
  <1>1. BounceBelow \in Nat
    BY BounceBelowType
  <1>2. n = IF paddr >= BounceBelow THEN 0
            ELSE IF paddr + size <= BounceBelow THEN size ELSE BounceBelow - paddr
    BY <1>1, BounceSizeCases
  <1> HIDE DEF n
  <1>3. n \in Nat
    BY <1>1, <1>2
  <1>4. n <= a - paddr /\ a - paddr <= size - 1
    BY <1>3 DEF n
  <1>5. QED
    BY <1>1, <1>2, <1>3, <1>4

\* Loading a segment, all of it or what the disk gives, leaves the rest of the
\* memory alone.
LEMMA LoadSegmentWrites ==
  ASSUME LoadState, NoWrap, LoadSegment,
         NEW a \in DOMAIN mem, mem'[a] # mem[a]
  PROVE  /\ BounceBelow <= a /\ a < HeapBase(ram)
         /\ a - Place(file, progheadNum) \in 0 .. Segments(file)[progheadNum].memsz - 1
  <1> DEFINE paddr == Place(file, progheadNum)
             seg == Segments(file)[progheadNum]
             n == BounceSize(paddr, seg.memsz)
  <1>1. file \in DOMAIN Images /\ progheadNum \in DOMAIN Segments(file)
    BY LoadSegmentCases
  <1>2. /\ paddr \in Nat /\ seg.memsz \in Nat /\ seg.filesz \in Nat
        /\ seg.filesz <= seg.memsz
    BY <1>1, ImageRange, SegmentTypes
  <1>3. a \in Nat /\ HeapBase(ram) \in Nat
    BY RamBounds DEF LoadState
  <1>4. ~UNCHANGED mem
    OBVIOUS
  <1>5. paddr + seg.memsz <= HeapBase(ram)
    BY <1>4, LoadSegmentCases
  <1>6. \/ LoadData(file, progheadNum, paddr)
        \/ LoadDataFails(file, progheadNum, paddr)
    BY <1>4, LoadSegmentCases
  <1>7. n \in Nat
    BY <1>2, BounceBelowType, BounceSizeCases
  <1>8. a - paddr \in n .. seg.memsz - 1
    <2>1. CASE LoadData(file, progheadNum, paddr)
      <3>1. mem' = Put(mem, paddr, Content(file, progheadNum), n, seg.memsz)
        BY <2>1 DEF LoadData
      <3>2. QED
        BY <3>1 DEF Put
    <2>2. CASE LoadDataFails(file, progheadNum, paddr)
      <3>1. PICK k \in 0 .. seg.filesz - 1 :
              mem' = Put(mem, paddr, Content(file, progheadNum), n, k)
        BY <2>2 DEF LoadDataFails
      <3>2. a - paddr \in n .. k - 1
        BY <3>1 DEF Put
      <3>3. k \in Nat /\ k <= seg.memsz
        BY <1>2
      <3> HIDE DEF paddr, seg, n
      <3>4. QED
        BY <1>2, <1>3, <1>7, <3>2, <3>3
    <2>3. QED
      BY <1>6, <2>1, <2>2
  <1>9. BounceBelow <= a /\ a < paddr + seg.memsz
    <2> HIDE DEF paddr, seg
    <2>1. QED
      BY <1>2, <1>3, <1>8, DirectPart
  <1> HIDE DEF paddr, seg, n
  <1>10. a - paddr \in 0 .. seg.memsz - 1
    BY <1>2, <1>3, <1>7, <1>8
  <1>11. a < HeapBase(ram)
    BY <1>2, <1>3, <1>5, <1>9
  <1>12. QED
    BY <1>9, <1>10, <1>11 DEF paddr, seg

LEMMA StepOwnIntact ==
  ASSUME LoadState, OwnIntact, [Next]_vars, NoWrap, InformationFits
  PROVE  OwnIntact'
  <1>1. ram' = ram /\ DOMAIN mem' = DOMAIN mem
    BY StepKeepsMemory
  <1>2. SUFFICES ASSUME running' = 0, NEW a \in DOMAIN mem, IsOwn(a)
                 PROVE  mem'[a] = Own
    BY <1>1 DEF OwnIntact, IsOwn
  <1>3. a \in Nat /\ HeapBase(ram) \in Nat /\ BounceBelow \in Nat
    BY RamBounds, BounceBelowType DEF LoadState
  <1>4. running = 0 => mem[a] = Own
    BY <1>2 DEF OwnIntact
  <1>5. CASE \E f \in DOMAIN Images : ScanElf(f) \/ ScanM68k(f)
    BY <1>2, <1>4, <1>5 DEF ScanElf, ScanM68k
  <1>6. CASE LoadSegment
    <2>1. running = 0
      BY <1>2, <1>6, LoadSegmentCases
    <2>2. mem'[a] = mem[a]
      BY <1>2, <1>3, <1>6, LoadSegmentWrites DEF IsOwn
    <2>3. QED
      BY <1>4, <2>1, <2>2
  <1>7. CASE Execute
    <2>1. running' # 0
      BY <1>7 DEF Execute, Loaded
    <2>2. QED
      BY <1>2, <2>1
  <1>8. CASE \E n \in InitrdSizes : Inform(n)
    <2>1. PICK n \in InitrdSizes : Inform(n)
      BY <1>8
    <2> DEFINE records == BootInfoAt(file)
               initrd == InitrdAt(file)
    <2>2. /\ mem' = Fill(Fill(mem, records, 1, BootInfo), initrd, n, Initrd)
          /\ running = 0
      BY <1>2, <2>1 DEF Inform
    <2>3. /\ n \in Nat /\ records \in Nat /\ initrd \in Nat
          /\ BounceBelow <= records /\ records < initrd /\ initrd + n <= HeapBase(ram)
      BY <2>1, InformPlaces
    <2> HIDE DEF records, initrd
    <2>4. a - records \notin 0 .. 1 - 1 /\ a - initrd \notin 0 .. n - 1
      BY <1>2, <1>3, <2>3 DEF IsOwn
    <2>5. mem'[a] = mem[a]
      BY <1>2, <2>2, <2>4 DEF Fill
    <2>6. QED
      BY <1>4, <2>2, <2>5
  <1>9. CASE RefuseKernel
    BY <1>2, <1>4, <1>9 DEF RefuseKernel
  <1>10. CASE UNCHANGED vars
    BY <1>2, <1>4, <1>10 DEF vars
  <1>11. QED
    BY <1>5, <1>6, <1>7, <1>8, <1>9, <1>10 DEF Next

\* While gogoboot runs, no step of loading any image writes to its code, data, heap
\* or stack, however it fails, in a memory of any size (check_writable_range() of
\* core/mem.c, load_data() of core/loader.c): if no segment wraps around the end of
\* the address space, and the records and the initrd of a kernel, which the code
\* writes unchecked, fit below the heap where the kernel does.
THEOREM LoaderOwnIntact ==
  ASSUME NoWrap, InformationFits
  PROVE  Spec => []OwnIntact
  <1> DEFINE Inv == LoadState /\ OwnIntact
  <1>1. Init => Inv
    <2>1. Init => LoadState
      BY InitLoadState
    <2>2. Init => OwnIntact
      BY InitRam DEF OwnIntact
    <2>3. QED
      BY <2>1, <2>2
  <1>2. Inv /\ [Next]_vars => Inv'
    BY StepLoadState, StepOwnIntact
  <1>3. QED
    BY <1>1, <1>2, PTL DEF Spec
-----------------------------------------------------------------------------
(***************************************************************************)
(* The bounce buffer: whole longwords, below the limit.                    *)
(***************************************************************************)
Aligned(n) == \E q \in Nat : n = Align * q

LEMMA AlignedSum ==
  ASSUME NEW m \in Nat, NEW n \in Nat, Aligned(m), Aligned(n)
  PROVE  m + n \in Nat /\ Aligned(m + n)
  <1>1. PICK p \in Nat, q \in Nat : m = Align * p /\ n = Align * q
    BY DEF Aligned
  <1>2. m + n = Align * (p + q) /\ p + q \in Nat
    BY <1>1, LoaderTypes
  <1>3. QED
    BY <1>2 DEF Aligned

LEMMA AlignedDifference ==
  ASSUME NEW m \in Nat, NEW n \in Nat, Aligned(m), Aligned(n), n <= m
  PROVE  m - n \in Nat /\ Aligned(m - n)
  <1>1. PICK p \in Nat, q \in Nat : m = Align * p /\ n = Align * q
    BY DEF Aligned
  <1>2. m - n = Align * (p - q)
    BY <1>1, LoaderTypes
  <1>3. p - q \in Nat
    <2>1. CASE p < q
      <3>1. p - q <= -1 /\ p - q \in Int
        BY <2>1
      <3>2. Align * (p - q) <= -Align
        BY <3>1, LoaderTypes, Multiple
      <3>3. QED
        BY <3>2, <1>2, LoaderTypes
    <2>2. QED
      BY <2>1
  <1>4. QED
    BY <1>2, <1>3 DEF Aligned

LEMMA AlignedUp ==
  ASSUME NEW n \in Nat
  PROVE  /\ RoundUp(n, Align) \in Nat /\ Aligned(RoundUp(n, Align)) /\ n <= RoundUp(n, Align)
         /\ \A m \in Nat : Aligned(m) /\ n <= m => RoundUp(n, Align) <= m
  <1> DEFINE q == (n + Align - 1) \div Align
  <1>1. /\ RoundUp(n, Align) \in Nat /\ n <= RoundUp(n, Align) /\ RoundUp(n, Align) < n + Align
        /\ RoundUp(n, Align) = Align * q /\ q \in Nat
    BY LoaderTypes, RoundedUp
  <1> HIDE DEF q
  <1>2. ASSUME NEW m \in Nat, Aligned(m), n <= m
        PROVE  RoundUp(n, Align) <= m
    <2>1. PICK p \in Nat : m = Align * p
      BY <1>2 DEF Aligned
    <2>2. CASE q > p
      <3>1. q - p >= 1 /\ q - p \in Int
        BY <2>2, <1>1
      <3>2. Align * (q - p) >= Align
        BY <3>1, LoaderTypes, Multiple
      <3>3. Align * (q - p) = RoundUp(n, Align) - m
        BY <1>1, <2>1, LoaderTypes
      <3>4. QED
        BY <1>1, <1>2, <3>2, <3>3, LoaderTypes
    <2>3. CASE q <= p
      <3>1. Align * q <= Align * p
        BY <2>3, <1>1, LoaderTypes, SMTT(30)
      <3>2. QED
        BY <3>1, <1>1, <2>1
    <2>4. QED
      BY <2>2, <2>3, <1>1
  <1>3. QED
    BY <1>1, <1>2 DEF Aligned

LEMMA AlignedDown ==
  ASSUME NEW n \in Nat
  PROVE  /\ RoundDown(n, Align) \in Nat /\ Aligned(RoundDown(n, Align))
         /\ RoundDown(n, Align) <= n /\ n % Align = n - RoundDown(n, Align)
         /\ \A m \in Nat : Aligned(m) /\ m <= n => m <= RoundDown(n, Align)
  <1> DEFINE q == n \div Align
             r == n % Align
  <1>1. q \in Nat /\ r \in 0 .. Align - 1 /\ n = Align * q + r
    BY LoaderTypes, Parts
  <1>2. RoundDown(n, Align) = q * Align
    BY DEF RoundDown
  <1> HIDE DEF q, r
  <1>3. q * Align = Align * q /\ Align * q \in Nat
    BY <1>1, LoaderTypes
  <1>4. ASSUME NEW m \in Nat, Aligned(m), m <= n
        PROVE  m <= Align * q
    <2>1. PICK p \in Nat : m = Align * p
      BY <1>4 DEF Aligned
    <2>2. CASE p > q
      <3>1. p - q >= 1 /\ p - q \in Int
        BY <2>2, <1>1
      <3>2. Align * (p - q) >= Align
        BY <3>1, LoaderTypes, Multiple
      <3>3. Align * (p - q) = m - Align * q
        BY <1>1, <2>1, LoaderTypes
      <3>4. QED
        BY <1>1, <1>3, <1>4, <3>2, <3>3, LoaderTypes
    <2>3. CASE p <= q
      BY <2>3, <2>1, <1>1, LoaderTypes, SMTT(30)
    <2>4. QED
      BY <2>2, <2>3, <1>1
  <1>5. n % Align = n - Align * q
    BY <1>1, <1>3 DEF r
  <1>6. QED
    BY <1>1, <1>2, <1>3, <1>4, <1>5 DEF Aligned

LEMMA AlignedLimit == Aligned(BounceBelow) /\ Aligned(0)
  <1>1. Aligned(BounceBelow)
    BY LoaderTypes, AlignedUp DEF BounceBelow
  <1>2. 0 \in Nat /\ 0 = Align * 0
    BY LoaderTypes
  <1>3. QED
    BY <1>1, <1>2 DEF Aligned

\* A buffer of n bytes.
BounceShape(b, n) ==
  /\ b = [target |-> b.target, data |-> b.data]
  /\ b.target \in Nat /\ Aligned(b.target)
  /\ n \in Nat /\ Aligned(n)
  /\ DOMAIN b.data = 0 .. n - 1
  /\ b.target + n <= BounceBelow

LEMMA BufferSize ==
  ASSUME NEW b, NEW n, BounceShape(b, n)
  PROVE  Size(b) = n
  <1>1. n \in Nat /\ DOMAIN b.data = 0 .. n - 1
    BY DEF BounceShape
  <1> DEFINE m == n - 1
  <1>2. m \in Int /\ m + 1 = n /\ m >= -1
    BY <1>1
  <1> HIDE DEF m
  <1>3. Cardinality(0 .. m) = IF 0 > m THEN 0 ELSE m - 0 + 1
    BY <1>2, FS_Interval
  <1>4. Cardinality(0 .. m) = n
    BY <1>1, <1>2, <1>3
  <1>5. QED
    BY <1>1, <1>4 DEF Size, m

\* A new buffer is just large enough.
LEMMA NewBounceShape ==
  ASSUME NEW paddr \in Nat, NEW size \in Nat, paddr + size <= BounceBelow
  PROVE  \E n \in Nat :
           /\ BounceShape(NewBounce(paddr, size), n)
           /\ NewBounce(paddr, size).target = RoundDown(paddr, Align)
           /\ paddr + size <= RoundDown(paddr, Align) + n
  <1> DEFINE target == RoundDown(paddr, Align)
             wanted == size + (paddr % Align)
             n == RoundUp(wanted, Align)
  <1>1. target \in Nat /\ Aligned(target) /\ target <= paddr /\ paddr % Align = paddr - target
    BY AlignedDown
  <1>2. wanted \in Nat /\ wanted = size + paddr - target
    BY <1>1
  <1>3. /\ n \in Nat /\ Aligned(n) /\ wanted <= n
        /\ \A m \in Nat : Aligned(m) /\ wanted <= m => n <= m
    <2> HIDE DEF wanted
    <2>1. QED
      BY <1>2, AlignedUp
  <1>4. /\ BounceBelow - target \in Nat /\ Aligned(BounceBelow - target)
        /\ wanted <= BounceBelow - target
    BY <1>1, <1>2, BounceBelowType, AlignedLimit, AlignedDifference
  <1>5. n <= BounceBelow - target
    BY <1>3, <1>4
  <1>6. NewBounce(paddr, size) = [target |-> target, data |-> [k \in 0 .. n - 1 |-> Junk]]
    BY DEF NewBounce
  <1> HIDE DEF target, n, wanted
  <1>7. target + n <= BounceBelow /\ paddr + size <= target + n
    BY <1>1, <1>2, <1>3, <1>5, BounceBelowType
  <1>8. BounceShape(NewBounce(paddr, size), n) /\ NewBounce(paddr, size).target = target
    BY <1>1, <1>3, <1>6, <1>7 DEF BounceShape
  <1>9. QED
    BY <1>3, <1>7, <1>8 DEF target

\* A buffer that grows takes in the new range, and keeps what it holds where it is
\* unless it grows downwards.
LEMMA GrowBounceShape ==
  ASSUME NEW b, NEW n, BounceShape(b, n),
         NEW paddr \in Nat, NEW size \in Nat, paddr + size <= BounceBelow
  PROVE  \E m \in Nat :
           /\ BounceShape(GrowBounce(b, paddr, size), m)
           /\ GrowBounce(b, paddr, size).target <= paddr
           /\ paddr + size <= GrowBounce(b, paddr, size).target + m
           /\ \A x \in Nat : Aligned(x) /\ x <= paddr /\ x <= b.target =>
                x <= GrowBounce(b, paddr, size).target
           /\ b.target <= paddr =>
                /\ GrowBounce(b, paddr, size).target = b.target
                /\ \A i \in DOMAIN b.data :
                     /\ i \in DOMAIN GrowBounce(b, paddr, size).data
                     /\ GrowBounce(b, paddr, size).data[i] = b.data[i]
  <1> DEFINE under == Positive(b.target - paddr)
             over == Positive(paddr + size - (b.target + n))
             below == RoundUp(under, Align)
             above == RoundUp(over, Align)
             m == n + below + above
             grown == Grown(b.data, n, m)
             data == IF below > 0 THEN Moved(grown, n, below) ELSE grown
             e == GrowBounce(b, paddr, size)
  <1>1. /\ b.target \in Nat /\ Aligned(b.target) /\ n \in Nat /\ Aligned(n)
        /\ DOMAIN b.data = 0 .. n - 1 /\ b.target + n <= BounceBelow /\ Size(b) = n
    BY BufferSize DEF BounceShape
  <1>2. e = [target |-> b.target - below, data |-> data]
    BY <1>1 DEF GrowBounce
  <1>3. /\ under \in Nat /\ under = IF b.target < paddr THEN 0 ELSE b.target - paddr
        /\ over \in Nat
        /\ over = IF paddr + size < b.target + n THEN 0 ELSE paddr + size - (b.target + n)
    BY <1>1 DEF Positive
  <1>4. /\ below \in Nat /\ Aligned(below) /\ under <= below
        /\ \A x \in Nat : Aligned(x) /\ under <= x => below <= x
        /\ above \in Nat /\ Aligned(above) /\ over <= above
        /\ \A x \in Nat : Aligned(x) /\ over <= x => above <= x
    <2> HIDE DEF over, under
    <2>1. QED
      BY <1>3, AlignedUp
  <1>5. DOMAIN data = 0 .. m - 1
    BY DEF Grown, Moved
  <1>6. below <= b.target
    BY <1>1, <1>3, <1>4
  <1>7. above <= BounceBelow - (b.target + n)
    <2> DEFINE room == BounceBelow - (b.target + n)
    <2>1. b.target + n \in Nat /\ Aligned(b.target + n)
      BY <1>1, AlignedSum
    <2>2. room \in Nat /\ Aligned(room)
      BY <1>1, <2>1, BounceBelowType, AlignedLimit, AlignedDifference
    <2>3. over <= room
      <3>1. b.target \in Nat /\ n \in Nat /\ BounceBelow \in Nat /\ b.target + n <= BounceBelow
        BY <1>1, BounceBelowType
      <3>2. QED
        BY <1>3, <3>1, SMTT(30)
    <2> HIDE DEF room, over
    <2>4. above <= room
      BY <1>4, <2>2, <2>3
    <2>5. QED
      BY <2>4 DEF room
  <1>8. b.target <= paddr => below = 0
    <2>1. ASSUME b.target <= paddr
          PROVE  below = 0
      <3>1. under <= 0 /\ 0 \in Nat /\ Aligned(0)
        BY <1>1, <1>3, <2>1, AlignedLimit
      <3>2. below <= 0
        BY <1>4, <3>1
      <3>3. QED
        BY <1>4, <3>2
    <2>2. QED
      BY <2>1
  <1>9. ASSUME NEW x \in Nat, Aligned(x), x <= paddr, x <= b.target
        PROVE  x <= b.target - below
    <2>1. b.target - x \in Nat /\ Aligned(b.target - x)
      BY <1>1, <1>9, AlignedDifference
    <2>2. under <= b.target - x
      BY <1>1, <1>3, <1>9
    <2>3. below <= b.target - x
      BY <1>4, <2>1, <2>2
    <2>4. QED
      BY <1>1, <1>4, <2>3
  <1>10. ASSUME b.target <= paddr, NEW i \in DOMAIN b.data
         PROVE  i \in DOMAIN data /\ data[i] = b.data[i]
    <2>1. below = 0 /\ i \in 0 .. n - 1
      BY <1>1, <1>8, <1>10
    <2>2. data = grown /\ i \in 0 .. m - 1 /\ i < n
      BY <1>1, <1>4, <2>1
    <2>3. QED
      BY <2>2 DEF Grown
  <1> HIDE DEF under, over, below, above, data, grown, e
  <1>11. /\ b.target - below \in Nat /\ Aligned(b.target - below)
         /\ m \in Nat /\ Aligned(m) /\ b.target - below + m <= BounceBelow
    <2>1. b.target - below \in Nat /\ Aligned(b.target - below)
      BY <1>1, <1>4, <1>6, AlignedDifference
    <2>2. n + below \in Nat /\ Aligned(n + below)
      BY <1>1, <1>4, AlignedSum
    <2>3. m \in Nat /\ Aligned(m)
      BY <1>4, <2>2, AlignedSum
    <2>4. b.target - below + m <= BounceBelow
      <3>1. /\ b.target \in Nat /\ n \in Nat /\ below \in Nat /\ above \in Nat
            /\ BounceBelow \in Nat
        BY <1>1, <1>4, BounceBelowType
      <3>2. QED
        BY <3>1, <1>7
    <2>5. QED
      BY <2>1, <2>3, <2>4
  <1>12. b.target - below <= paddr /\ paddr + size <= b.target - below + m
    <2>1. under >= b.target - paddr /\ over >= paddr + size - (b.target + n)
      BY <1>1, <1>3
    <2>2. /\ under \in Nat /\ over \in Nat /\ below \in Nat /\ above \in Nat
          /\ under <= below /\ over <= above /\ b.target \in Nat /\ n \in Nat
      BY <1>1, <1>3, <1>4
    <2>3. QED
      BY <2>1, <2>2
  <1> HIDE DEF m
  <1>13. BounceShape(e, m)
    BY <1>2, <1>5, <1>11 DEF BounceShape
  <1>14. e.target = b.target - below /\ e.data = data
    BY <1>2
  <1>15. b.target <= paddr => e.target = b.target
    BY <1>1, <1>8, <1>14
  <1>16. QED
    BY <1>9, <1>10, <1>11, <1>12, <1>13, <1>14, <1>15 DEF e

\* bounce_expand() in both cases.
LEMMA BounceExpandShape ==
  ASSUME NEW b, NEW n, BounceShape(b, n),
         NEW paddr \in Nat, NEW size \in Nat, paddr + size <= BounceBelow
  PROVE  \E m \in Nat :
           /\ BounceShape(BounceExpand(b, paddr, size), m)
           /\ BounceExpand(b, paddr, size).target <= paddr
           /\ paddr + size <= BounceExpand(b, paddr, size).target + m
           /\ \A x \in Nat : Aligned(x) /\ x <= paddr /\ (b = NoBounce \/ x <= b.target) =>
                x <= BounceExpand(b, paddr, size).target
           /\ b # NoBounce /\ b.target <= paddr =>
                /\ BounceExpand(b, paddr, size).target = b.target
                /\ \A i \in DOMAIN b.data :
                     /\ i \in DOMAIN BounceExpand(b, paddr, size).data
                     /\ BounceExpand(b, paddr, size).data[i] = b.data[i]
  <1>1. CASE b = NoBounce
    <2>1. BounceExpand(b, paddr, size) = NewBounce(paddr, size)
      BY <1>1 DEF BounceExpand
    <2>2. PICK m \in Nat :
            /\ BounceShape(NewBounce(paddr, size), m)
            /\ NewBounce(paddr, size).target = RoundDown(paddr, Align)
            /\ paddr + size <= RoundDown(paddr, Align) + m
      BY NewBounceShape
    <2>3. /\ RoundDown(paddr, Align) <= paddr
          /\ \A x \in Nat : Aligned(x) /\ x <= paddr => x <= RoundDown(paddr, Align)
      BY AlignedDown
    <2>4. QED
      BY <1>1, <2>1, <2>2, <2>3
  <1>2. CASE b # NoBounce
    <2>1. BounceExpand(b, paddr, size) = GrowBounce(b, paddr, size)
      BY <1>2 DEF BounceExpand
    <2>2. PICK m \in Nat :
            /\ BounceShape(GrowBounce(b, paddr, size), m)
            /\ GrowBounce(b, paddr, size).target <= paddr
            /\ paddr + size <= GrowBounce(b, paddr, size).target + m
            /\ \A x \in Nat : Aligned(x) /\ x <= paddr /\ x <= b.target =>
                 x <= GrowBounce(b, paddr, size).target
            /\ b.target <= paddr =>
                 /\ GrowBounce(b, paddr, size).target = b.target
                 /\ \A i \in DOMAIN b.data :
                      /\ i \in DOMAIN GrowBounce(b, paddr, size).data
                      /\ GrowBounce(b, paddr, size).data[i] = b.data[i]
      BY GrowBounceShape
    <2>3. QED
      BY <1>2, <2>1, <2>2
  <1>3. QED
    BY <1>1, <1>2
-----------------------------------------------------------------------------
(***************************************************************************)
(* What is loaded is in its place.                                         *)
(***************************************************************************)
BounceInv == \E n \in Nat : BounceShape(bounce, n)

\* A program runs for good: the loader is no more.
LEMMA RunningIsFinal ==
  ASSUME LoadState, running # 0, [Next]_vars
  PROVE  UNCHANGED vars
  <1>1. file = 0
    BY DEF LoadState, ImageState
  <1>2. ~Loaded /\ ~Idle /\ ~LoadSegment
    BY <1>1 DEF Loaded, Idle, LoadSegment
  <1>3. ~Next
    BY <1>2 DEF Next, ScanElf, ScanM68k, Execute, Inform, RefuseKernel
  <1>4. QED
    BY <1>3

\* The buffer as load_data() finds it once it has room for its part of a segment.
LEMMA BouncedShape ==
  ASSUME BounceInv, NEW f, NEW s, NEW paddr \in Nat, NEW size \in Nat,
         size = Segments(f)[s].memsz, NEW b, b = Bounced(f, s, paddr)
  PROVE  \E m \in Nat :
           /\ BounceShape(b, m)
           /\ BounceSize(paddr, size) \in Nat
           /\ BounceSize(paddr, size) > 0 =>
                b.target <= paddr /\ paddr + BounceSize(paddr, size) <= b.target + m
           /\ \A x \in Nat :
                Aligned(x) /\ x <= paddr /\ (bounce = NoBounce \/ x <= bounce.target) =>
                  b = NoBounce \/ x <= b.target
           /\ bounce # NoBounce /\ bounce.target <= paddr =>
                /\ b.target = bounce.target
                /\ \A i \in DOMAIN bounce.data :
                     i \in DOMAIN b.data /\ b.data[i] = bounce.data[i]
  <1> DEFINE n == BounceSize(paddr, size)
  <1>1. PICK k \in Nat : BounceShape(bounce, k)
    BY DEF BounceInv
  <1>2. BounceBelow \in Nat
    BY BounceBelowType
  <1>3. n = IF paddr >= BounceBelow THEN 0
            ELSE IF paddr + size <= BounceBelow THEN size ELSE BounceBelow - paddr
    BY <1>2, BounceSizeCases
  <1> HIDE DEF n
  <1>4. n \in Nat /\ (n > 0 => paddr + n <= BounceBelow)
    BY <1>2, <1>3
  <1>5. CASE n > 0
    <2>1. b = BounceExpand(bounce, paddr, n)
      BY <1>5 DEF Bounced, n
    <2>2. paddr + n <= BounceBelow
      BY <1>4, <1>5
    <2>3. PICK m \in Nat :
            /\ BounceShape(BounceExpand(bounce, paddr, n), m)
            /\ BounceExpand(bounce, paddr, n).target <= paddr
            /\ paddr + n <= BounceExpand(bounce, paddr, n).target + m
            /\ \A x \in Nat :
                 Aligned(x) /\ x <= paddr /\ (bounce = NoBounce \/ x <= bounce.target) =>
                   x <= BounceExpand(bounce, paddr, n).target
            /\ bounce # NoBounce /\ bounce.target <= paddr =>
                 /\ BounceExpand(bounce, paddr, n).target = bounce.target
                 /\ \A i \in DOMAIN bounce.data :
                      /\ i \in DOMAIN BounceExpand(bounce, paddr, n).data
                      /\ BounceExpand(bounce, paddr, n).data[i] = bounce.data[i]
      BY <1>1, <1>4, <2>2, BounceExpandShape
    <2>4. QED
      BY <1>4, <2>1, <2>3 DEF n
  <1>6. CASE ~(n > 0)
    <2>1. b = bounce
      BY <1>6 DEF Bounced, n
    <2>2. QED
      BY <1>1, <1>4, <1>6, <2>1 DEF n
  <1>7. QED
    BY <1>5, <1>6

\* The buffer with bytes put into it.
Filled(b, at, c, to) == [b EXCEPT !.data = Put(b.data, at, c, 0, to)]

\* Bytes put into a buffer leave its shape as it is.
LEMMA PutShape ==
  ASSUME NEW b, NEW m, BounceShape(b, m), NEW at, NEW c, NEW to, NEW e,
         e = Filled(b, at, c, to)
  PROVE  /\ BounceShape(e, m) /\ e.target = b.target /\ DOMAIN e.data = DOMAIN b.data
         /\ \A i \in DOMAIN b.data :
              e.data[i] = IF i - at \in 0 .. to - 1 THEN c[i - at] ELSE b.data[i]
         /\ b = NoBounce => e = NoBounce
  <1>1. b = [target |-> b.target, data |-> b.data]
    BY DEF BounceShape
  <1>2. e = [target |-> b.target, data |-> Put(b.data, at, c, 0, to)]
    BY <1>1 DEF Filled
  <1>3. e.target = b.target /\ e.data = Put(b.data, at, c, 0, to)
    BY <1>2
  <1>4. e = [target |-> e.target, data |-> e.data]
    BY <1>2, <1>3
  <1>5. /\ DOMAIN e.data = DOMAIN b.data
        /\ \A i \in DOMAIN b.data :
              e.data[i] = IF i - at \in 0 .. to - 1 THEN c[i - at] ELSE b.data[i]
    BY <1>3 DEF Put
  <1>6. BounceShape(e, m)
    BY <1>3, <1>4, <1>5 DEF BounceShape
  <1>7. ASSUME b = NoBounce
        PROVE  e = NoBounce
    <2>1. b.data = <<>> /\ b.target = 0
      BY <1>7 DEF NoBounce
    <2>2. DOMAIN <<>> = {}
      OBVIOUS
    <2>3. Put(b.data, at, c, 0, to) = <<>>
      BY <2>1, <2>2 DEF Put
    <2>4. QED
      BY <1>2, <2>1, <2>3 DEF NoBounce
  <1>8. QED
    BY <1>3, <1>5, <1>6, <1>7

\* What a segment that is loaded, or only begun, does to the buffer.
LEMMA LoadSegmentBounce ==
  ASSUME LoadState, BounceInv, NoWrap, LoadSegment
  PROVE  \/ UNCHANGED bounce
         \/ \E to :
              bounce' = Filled(Bounced(file, progheadNum, Place(file, progheadNum)),
                               Place(file, progheadNum)
                                 - Bounced(file, progheadNum, Place(file, progheadNum)).target,
                               Content(file, progheadNum), to)
  <1>1. \/ LoadData(file, progheadNum, Place(file, progheadNum))
        \/ LoadDataFails(file, progheadNum, Place(file, progheadNum))
        \/ UNCHANGED bounce
    BY LoadSegmentCases
  <1>2. QED
    BY <1>1 DEF LoadData, LoadDataFails, Filled

\* A step leaves the buffer whole, and does not take it below an aligned address
\* at or above which it starts and the segments are.
LEMMA StepBounce ==
  ASSUME LoadState, BounceInv, NoWrap, [Next]_vars
  PROVE  /\ BounceInv'
         /\ \A x \in Nat :
              /\ Aligned(x) /\ (bounce = NoBounce \/ x <= bounce.target)
              /\ \A f \in DOMAIN Images : \A s \in DOMAIN Segments(f) : x <= Place(f, s)
              => bounce' = NoBounce \/ x <= bounce'.target
  <1>1. CASE UNCHANGED bounce
    BY <1>1 DEF BounceInv, BounceShape
  <1>2. CASE LoadSegment
    <2> DEFINE s == progheadNum
               paddr == Place(file, s)
               size == Segments(file)[s].memsz
               b == Bounced(file, s, paddr)
    <2>1. file \in DOMAIN Images /\ s \in DOMAIN Segments(file)
      BY <1>2, LoadSegmentCases
    <2>2. paddr \in Nat /\ size \in Nat
      BY <2>1, ImageRange, SegmentTypes
    <2>3. SUFFICES ASSUME NEW to,
                          bounce' = Filled(b, paddr - b.target, Content(file, s), to)
                   PROVE  /\ BounceInv'
                          /\ \A x \in Nat :
                               /\ Aligned(x) /\ (bounce = NoBounce \/ x <= bounce.target)
                               /\ x <= paddr
                               => bounce' = NoBounce \/ x <= bounce'.target
      BY <1>1, <1>2, <2>1, LoadSegmentBounce
    <2> HIDE DEF paddr, size, s
    <2>4. PICK m \in Nat :
            /\ BounceShape(b, m)
            /\ \A x \in Nat :
                 Aligned(x) /\ x <= paddr /\ (bounce = NoBounce \/ x <= bounce.target) =>
                   b = NoBounce \/ x <= b.target
      BY <2>2, BouncedShape DEF size
    <2> HIDE DEF b
    <2>5. /\ BounceShape(bounce', m) /\ bounce'.target = b.target
          /\ b = NoBounce => bounce' = NoBounce
      BY <2>3, <2>4, PutShape
    <2>6. BounceInv'
      BY <2>5 DEF BounceInv, BounceShape
    <2>7. QED
      BY <2>4, <2>5, <2>6
  <1>3. LoadSegment \/ UNCHANGED bounce
    BY DEF Next, ScanElf, ScanM68k, Execute, Inform, RefuseKernel, vars
  <1>4. QED
    BY <1>1, <1>2, <1>3

\* Segment t of file f is in memory or, below the limit, in the buffer.
InPlace(f, t) ==
  \A k \in DOMAIN Content(f, t) :
    LET a == Place(f, t) + k IN
    /\ a \in DOMAIN mem
    /\ IF a < BounceBelow
       THEN /\ a - bounce.target \in DOMAIN bounce.data
            /\ bounce.data[a - bounce.target] = Content(f, t)[k]
       ELSE mem[a] = Content(f, t)[k]

LoadedInv ==
  file # 0 => \A t \in DOMAIN Segments(file) : t < progheadNum => InPlace(file, t)

LEMMA ContentDomain ==
  ASSUME NEW f \in DOMAIN Images, NEW t \in DOMAIN Segments(f)
  PROVE  \A k \in DOMAIN Content(f, t) : k \in Nat /\ k < Segments(f)[t].memsz
  <1>1. DOMAIN Content(f, t) = 0 .. Segments(f)[t].memsz - 1
    BY DEF Content
  <1>2. Segments(f)[t].memsz \in Nat
    BY SegmentTypes
  <1>3. QED
    BY <1>1, <1>2

\* A segment that was loaded stays when the next one is.
LEMMA EarlierInPlace ==
  ASSUME LoadState, BounceInv, NoWrap, Ascending, LoadSegment,
         NEW f, f = file, NEW t \in DOMAIN Segments(f), t < progheadNum, InPlace(f, t)
  PROVE  InPlace(f, t)'
  <1> DEFINE s == progheadNum
             paddr == Place(file, s)
             size == Segments(file)[s].memsz
             b == Bounced(file, s, paddr)
             byte(k) == Content(file, t)[k]
  <1>1. file \in DOMAIN Images /\ s \in DOMAIN Segments(file)
    BY LoadSegmentCases
  <1>2. paddr \in Nat /\ size \in Nat
    BY <1>1, ImageRange, SegmentTypes
  <1>3. Place(file, t) \in Nat /\ Place(file, t) + Segments(file)[t].memsz <= paddr
    <2>1. Segments(file)[t].paddr + Segments(file)[t].memsz <= Segments(file)[s].paddr
      BY <1>1 DEF Ascending
    <2>2. /\ Segments(file)[t].paddr \in Nat /\ Segments(file)[t].memsz \in Nat
          /\ Segments(file)[s].paddr \in Nat
      BY <1>1, SegmentTypes
    <2>3. OffsetOf(file) \in Int /\ Place(file, t) \in Nat
      BY <1>1, ImageRange
    <2>4. QED
      BY <2>1, <2>2, <2>3 DEF Place
  <1>4. BounceBelow \in Nat
    BY BounceBelowType
  <1> SUFFICES ASSUME NEW k \in DOMAIN Content(file, t)
               PROVE  LET a == Place(file, t) + k IN
                      /\ a \in DOMAIN mem'
                      /\ IF a < BounceBelow
                         THEN /\ a - bounce'.target \in DOMAIN bounce'.data
                              /\ bounce'.data[a - bounce'.target] = byte(k)
                         ELSE mem'[a] = byte(k)
    BY DEF InPlace
  <1> DEFINE a == Place(file, t) + k
  <1>5. /\ a \in DOMAIN mem
        /\ IF a < BounceBelow
           THEN a - bounce.target \in DOMAIN bounce.data /\ bounce.data[a - bounce.target] = byte(k)
           ELSE mem[a] = byte(k)
    BY DEF InPlace
  <1>6. a \in Nat /\ a < paddr
    <2>1. k \in Nat /\ k < Segments(file)[t].memsz /\ Segments(file)[t].memsz \in Nat
      BY <1>1, ContentDomain, SegmentTypes
    <2>2. QED
      BY <2>1, <1>2, <1>3
  <1>7. DOMAIN mem' = DOMAIN mem
    BY StepKeepsMemory DEF Next
  <1> HIDE DEF a, byte
  <1>8. CASE a >= BounceBelow
    <2>1. mem'[a] = mem[a]
      <3>1. a - paddr \notin 0 .. size - 1
        BY <1>2, <1>6
      <3>2. QED
        BY <3>1, <1>5, LoadSegmentWrites
    <2>2. QED
      BY <1>4, <1>5, <1>6, <1>7, <1>8, <2>1 DEF a
  <1>9. CASE a < BounceBelow
    <2> DEFINE i == a - bounce.target
    <2>1. i \in DOMAIN bounce.data /\ bounce.data[i] = byte(k)
      BY <1>5, <1>9
    <2>2. PICK n \in Nat : BounceShape(bounce, n)
      BY DEF BounceInv
    <2>3. i \in 0 .. n - 1 /\ bounce.target \in Nat
      BY <2>1, <2>2 DEF BounceShape
    <2>4. bounce.target <= paddr
      BY <1>2, <1>6, <2>3
    <2>5. bounce # NoBounce
      BY <2>1 DEF NoBounce
    <2>6. ASSUME NEW to,
                 bounce' = Filled(b, paddr - b.target, Content(file, s), to)
          PROVE  bounce'.target = bounce.target /\ i \in DOMAIN bounce'.data
                 /\ bounce'.data[i] = bounce.data[i]
      <3> HIDE DEF paddr, s, i, size
      <3>1. PICK m \in Nat :
              /\ BounceShape(b, m)
              /\ bounce # NoBounce /\ bounce.target <= paddr =>
                   /\ b.target = bounce.target
                   /\ \A j \in DOMAIN bounce.data :
                        j \in DOMAIN b.data /\ b.data[j] = bounce.data[j]
        BY <1>2, BouncedShape DEF size
      <3>2. /\ b.target = bounce.target /\ i \in DOMAIN b.data
            /\ b.data[i] = bounce.data[i]
        BY <2>1, <2>4, <2>5, <3>1
      <3> HIDE DEF b
      <3>3. /\ bounce'.target = b.target /\ DOMAIN bounce'.data = DOMAIN b.data
            /\ \A j \in DOMAIN b.data : bounce'.data[j] =
                 IF j - (paddr - b.target) \in 0 .. to - 1
                 THEN Content(file, s)[j - (paddr - b.target)] ELSE b.data[j]
        BY <2>6, <3>1, PutShape
      <3>4. i - (paddr - b.target) \notin 0 .. to - 1
        <4>1. i - (paddr - b.target) = a - paddr
          BY <1>2, <1>6, <2>3, <3>2 DEF i
        <4>2. a - paddr < 0 /\ a - paddr \in Int
          BY <1>2, <1>6
        <4>3. QED
          BY <4>1, <4>2
      <3>5. QED
        BY <3>2, <3>3, <3>4
    <2>7. /\ bounce'.target = bounce.target /\ i \in DOMAIN bounce'.data
          /\ bounce'.data[i] = bounce.data[i]
      BY <2>1, <2>6, LoadSegmentBounce
    <2>8. QED
      BY <1>5, <1>7, <1>9, <2>1, <2>7 DEF a
  <1>10. QED
    BY <1>4, <1>6, <1>8, <1>9
\* The segment that load_data() was asked for is in its place.
LEMMA SegmentInPlace ==
  ASSUME LoadState, BounceInv, NoWrap, LoadSegment,
         NEW f, f = file, NEW t, t = progheadNum,
         LoadData(f, t, Place(f, t)), file' = file
  PROVE  InPlace(f, t)'
  <1> DEFINE paddr == Place(f, t)
             size == Segments(f)[t].memsz
             b == Bounced(f, t, paddr)
             n == BounceSize(paddr, size)
  <1>1. f \in DOMAIN Images /\ t \in DOMAIN Segments(f)
    BY LoadSegmentCases
  <1>2. paddr \in Nat /\ size \in Nat
    BY <1>1, ImageRange, SegmentTypes
  <1>3. /\ bounce' = Filled(b, paddr - b.target, Content(f, t), n)
        /\ mem' = Put(mem, paddr, Content(f, t), n, size)
    BY DEF LoadData, Filled
  <1>4. BounceBelow \in Nat
    BY BounceBelowType
  <1>5. n = IF paddr >= BounceBelow THEN 0
            ELSE IF paddr + size <= BounceBelow THEN size ELSE BounceBelow - paddr
    BY <1>2, <1>4, BounceSizeCases
  <1> SUFFICES ASSUME NEW k \in DOMAIN Content(f, t)
               PROVE  LET a == paddr + k IN
                      /\ a \in DOMAIN mem'
                      /\ IF a < BounceBelow
                         THEN /\ a - bounce'.target \in DOMAIN bounce'.data
                              /\ bounce'.data[a - bounce'.target] = Content(f, t)[k]
                         ELSE mem'[a] = Content(f, t)[k]
    BY DEF InPlace
  <1> DEFINE a == paddr + k
  <1>6. k \in Nat /\ k < size
    BY <1>1, ContentDomain
  <1>7. a \in DOMAIN mem
    <2>1. ~GiveUp
      BY DEF GiveUp, LoadSegment
    <2>2. Place(file, progheadNum) + Segments(file)[progheadNum].memsz <= ram
      BY <2>1, LoadSegmentCases
    <2>3. paddr + size <= ram
      BY <2>2
    <2>4. ram \in Nat /\ DOMAIN mem = 0 .. ram - 1
      BY RamBounds DEF LoadState
    <2> HIDE DEF paddr, size
    <2>5. QED
      BY <1>2, <1>6, <2>3, <2>4
  <1>8. DOMAIN mem' = DOMAIN mem
    BY StepKeepsMemory DEF Next
  <1> HIDE DEF n, size, paddr
  <1>9. CASE a >= BounceBelow
    <2>1. a - paddr = k /\ k \in n .. size - 1
      BY <1>2, <1>4, <1>5, <1>6, <1>9
    <2>2. mem'[a] = Content(f, t)[k]
      BY <1>3, <1>7, <2>1 DEF Put
    <2>3. ~(a < BounceBelow)
      BY <1>2, <1>4, <1>6, <1>9
    <2>4. QED
      BY <1>7, <1>8, <2>2, <2>3
  <1>10. CASE a < BounceBelow
    <2>1. n \in Nat /\ k < n
      BY <1>2, <1>4, <1>5, <1>6, <1>10
    <2>2. PICK m \in Nat :
            /\ BounceShape(b, m)
            /\ n > 0 => b.target <= paddr /\ paddr + n <= b.target + m
      BY <1>2, BouncedShape DEF size, n
    <2> HIDE DEF b
    <2>3. /\ bounce'.target = b.target /\ DOMAIN bounce'.data = DOMAIN b.data
          /\ \A i \in DOMAIN b.data : bounce'.data[i] =
               IF i - (paddr - b.target) \in 0 .. n - 1
               THEN Content(f, t)[i - (paddr - b.target)] ELSE b.data[i]
      BY <1>3, <2>2, PutShape
    <2> DEFINE i == a - b.target
    <2>4. b.target \in Nat /\ DOMAIN b.data = 0 .. m - 1
      BY <2>2 DEF BounceShape
    <2>5. i \in 0 .. m - 1 /\ i - (paddr - b.target) = k /\ k \in 0 .. n - 1
      <3>1. b.target <= paddr /\ paddr + n <= b.target + m /\ m \in Nat
        BY <1>6, <2>1, <2>2
      <3>2. i - (paddr - b.target) = k /\ k \in 0 .. n - 1
        BY <1>2, <1>6, <2>1, <2>4
      <3>3. i \in 0 .. m - 1
        BY <1>2, <1>6, <2>1, <2>4, <3>1
      <3>4. QED
        BY <3>2, <3>3
    <2>6. i \in DOMAIN bounce'.data /\ bounce'.data[i] = Content(f, t)[k]
      BY <2>3, <2>4, <2>5
    <2>7. QED
      BY <1>7, <1>8, <1>10, <2>3, <2>6
  <1>11. QED
    BY <1>2, <1>4, <1>6, <1>9, <1>10

\* Only loading a segment and writing the records of a kernel change the memory of
\* an image that stays loaded.
LEMMA StepLoaded ==
  ASSUME LoadState, BounceInv, LoadedInv, NoWrap, Ascending, [Next]_vars
  PROVE  LoadedInv'
  <1> SUFFICES ASSUME file' # 0, NEW f, f = file', NEW t \in DOMAIN Segments(f),
                      t < progheadNum'
               PROVE  InPlace(f, t)'
    BY DEF LoadedInv
  <1>1. f = file => f \in DOMAIN Images /\ progheadNum \in Nat
    BY DEF LoadState, ImageState
  <1>2. f = file /\ t < progheadNum => InPlace(f, t)
    BY DEF LoadedInv
  <1>3. CASE \E g \in DOMAIN Images : ScanElf(g) \/ ScanM68k(g)
    <2>1. f \in DOMAIN Images /\ progheadNum' = 1
      BY <1>3 DEF ScanElf, ScanM68k
    <2>2. DOMAIN Segments(f) \subseteq Nat \ {0}
      BY <2>1, SegmentTypes
    <2>3. QED
      BY <2>1, <2>2
  <1>4. CASE LoadSegment
    <2>1. ~GiveUp
      BY DEF GiveUp
    <2>2. /\ LoadData(file, progheadNum, Place(file, progheadNum))
          /\ progheadNum' = progheadNum + 1 /\ file' = file
      BY <1>4, <2>1, LoadSegmentCases
    <2>3. DOMAIN Segments(f) \subseteq Nat
      <3>1. f \in DOMAIN Images
        BY <1>1, <2>2
      <3>2. Segments(f) \in Seq([paddr : Nat, filesz : Nat, memsz : Nat])
        BY <3>1, SegmentTypes
      <3>3. QED
        BY <3>2
    <2>4. CASE t = progheadNum
      BY <1>4, <2>2, <2>4, SegmentInPlace
    <2>5. CASE t # progheadNum
      <3>1. t < progheadNum
        BY <1>1, <2>2, <2>3, <2>5
      <3>2. QED
        BY <1>2, <1>4, <2>2, <3>1, EarlierInPlace
    <2>6. QED
      BY <2>4, <2>5
  <1>5. CASE Execute
    BY <1>5 DEF Execute
  <1>6. CASE \E n \in InitrdSizes : Inform(n)
    <2>1. PICK n \in InitrdSizes : Inform(n)
      BY <1>6
    <2> DEFINE records == BootInfoAt(file)
               initrd == InitrdAt(file)
    <2>2. /\ mem' = Fill(Fill(mem, records, 1, BootInfo), initrd, n, Initrd)
          /\ file = f /\ bounce' = bounce /\ progheadNum' = progheadNum /\ offset = OffsetOf(f)
      BY <2>1 DEF Inform, LoadState, ImageState
    <2>3. /\ n \in Nat /\ records \in Nat /\ initrd \in Nat
          /\ MaxLoadAddr(f) + OffsetOf(f) <= records /\ records < initrd
      BY <2>1, <2>2, InformPlaces
    <2>4. InPlace(f, t)
      BY <1>2, <2>2
    <2> HIDE DEF records, initrd
    <2>5. ASSUME NEW k \in DOMAIN Content(f, t)
          PROVE  mem'[Place(f, t) + k] = mem[Place(f, t) + k]
      <3> DEFINE a == Place(f, t) + k
      <3>1. /\ k \in Nat /\ k < Segments(f)[t].memsz /\ Segments(f)[t].memsz \in Nat
            /\ Segments(f)[t].paddr \in Nat
        BY <1>1, <2>2, ContentDomain, SegmentTypes
      <3>2. /\ Segments(f)[t].paddr + Segments(f)[t].memsz <= MaxLoadAddr(f)
            /\ MaxLoadAddr(f) \in Nat /\ OffsetOf(f) \in Int
            /\ Place(f, t) = Segments(f)[t].paddr + OffsetOf(f)
        BY <1>1, <2>2, ImageRange DEF Place
      <3>3. a \in Int /\ a < records
        BY <2>3, <3>1, <3>2
      <3>4. a \in DOMAIN mem
        BY <2>4 DEF InPlace
      <3> HIDE DEF a
      <3>5. a - records \notin 0 .. 1 - 1 /\ a - initrd \notin 0 .. n - 1
        BY <2>3, <3>3
      <3>6. mem'[a] = mem[a]
        BY <2>2, <3>4, <3>5 DEF Fill
      <3>7. QED
        BY <3>6 DEF a
    <2>6. DOMAIN mem' = DOMAIN mem
      BY StepKeepsMemory
    <2>7. QED
      BY <2>2, <2>4, <2>5, <2>6 DEF InPlace
  <1>7. CASE RefuseKernel
    BY <1>7 DEF RefuseKernel, GiveUp
  <1>8. CASE UNCHANGED vars
    BY <1>2, <1>8 DEF vars, InPlace
  <1>9. QED
    BY <1>3, <1>4, <1>5, <1>6, <1>7, <1>8 DEF Next

\* machine_execute() brings what is in the buffer to its place, and leaves what is
\* above the limit alone.
LEMMA ExecutedMemory ==
  ASSUME BounceInv, NEW m, NEW a \in DOMAIN m, a \in Nat
  PROVE  /\ a - bounce.target \in DOMAIN bounce.data =>
              MachineExecute(m)[a] = bounce.data[a - bounce.target]
         /\ a >= BounceBelow => MachineExecute(m)[a] = m[a]
  <1>1. PICK n \in Nat : BounceShape(bounce, n)
    BY DEF BounceInv
  <1>2. bounce.target \in Nat /\ DOMAIN bounce.data = 0 .. n - 1 /\ bounce.target + n <= BounceBelow
    BY <1>1 DEF BounceShape
  <1>3. a >= BounceBelow => a - bounce.target \notin DOMAIN bounce.data
    BY <1>2, BounceBelowType
  <1>4. QED
    BY <1>3 DEF MachineExecute

LEMMA StepImageLoaded ==
  ASSUME LoadState, BounceInv, LoadedInv, ImageLoaded, NoWrap, Ascending, [Next]_vars
  PROVE  ImageLoaded'
  <1>1. CASE running # 0
    <2>1. UNCHANGED vars
      BY <1>1, RunningIsFinal
    <2>2. QED
      BY <2>1 DEF vars, ImageLoaded
  <1>2. CASE Execute
    <2> SUFFICES ASSUME NEW f, f = file, NEW s \in DOMAIN Segments(f),
                        NEW k \in DOMAIN Content(f, s)
                 PROVE  mem'[Segments(f)[s].paddr + offset + k] = Content(f, s)[k]
      BY <1>2 DEF Execute, ImageLoaded
    <2>1. /\ f \in DOMAIN Images /\ offset = OffsetOf(f) /\ mem' = MachineExecute(mem)
          /\ progheadNum > Len(Segments(f)) /\ progheadNum \in Nat
      BY <1>2 DEF Execute, Loaded, LoadState, ImageState
    <2>2. s < progheadNum
      BY <2>1, SegmentTypes
    <2>3. InPlace(f, s)
      BY <1>2, <2>2 DEF LoadedInv, Execute, Loaded
    <2> DEFINE a == Place(f, s) + k
    <2>4. Segments(f)[s].paddr + offset + k = a
      BY <2>1 DEF Place
    <2>5. /\ a \in DOMAIN mem
          /\ IF a < BounceBelow
             THEN /\ a - bounce.target \in DOMAIN bounce.data
                  /\ bounce.data[a - bounce.target] = Content(f, s)[k]
             ELSE mem[a] = Content(f, s)[k]
      BY <2>3 DEF InPlace
    <2>6. a \in Nat
      BY <2>1, ImageRange, ContentDomain
    <2> HIDE DEF a
    <2>7. mem'[a] = Content(f, s)[k]
      BY <2>1, <2>5, <2>6, BounceBelowType, ExecutedMemory
    <2>8. QED
      BY <2>4, <2>7
  <1>3. CASE running = 0 /\ ~Execute
    <2>1. running' = running
      <3>1. LoadSegment => running' = running
        BY DEF LoadSegment
      <3>2. QED
        BY <1>3, <3>1 DEF Next, vars, ScanElf, ScanM68k, Inform, RefuseKernel
    <2>2. QED
      BY <1>3, <2>1 DEF ImageLoaded
  <1>4. QED
    BY <1>1, <1>2, <1>3

LEMMA InitBounce == Init => BounceInv /\ LoadedInv /\ bounce = NoBounce
  <1>1. SUFFICES ASSUME Init
                 PROVE  BounceInv /\ LoadedInv /\ bounce = NoBounce
    OBVIOUS
  <1>2. bounce = NoBounce /\ file = 0
    BY <1>1 DEF Init
  <1>3. NoBounce = [target |-> 0, data |-> <<>>] /\ DOMAIN <<>> = 0 .. 0 - 1
    BY DEF NoBounce
  <1>4. BounceShape(bounce, 0)
    BY <1>2, <1>3, AlignedLimit, BounceBelowType DEF BounceShape
  <1>5. QED
    BY <1>2, <1>4 DEF BounceInv, LoadedInv

\* A program that is started finds every byte of its file where it wants it, and
\* zeros in the rest, whether that was loaded in place or by way of the bounce
\* buffer and whatever was left in that by images that failed to load (load_data(),
\* bounce_expand() and machine_execute()), for every image and memory: if the
\* segments are in ascending order, as bounce_expand() does not move what it holds
\* when it grows downwards, and none wraps around the end of the address space.
THEOREM LoaderImageLoaded ==
  ASSUME NoWrap, Ascending
  PROVE  Spec => []ImageLoaded
  <1> DEFINE Inv == LoadState /\ BounceInv /\ LoadedInv /\ ImageLoaded
  <1>1. Init => Inv
    <2>1. Init => ImageLoaded
      BY DEF Init, ImageLoaded
    <2>2. QED
      BY <2>1, InitLoadState, InitBounce
  <1>2. Inv /\ [Next]_vars => Inv'
    BY StepLoadState, StepBounce, StepLoaded, StepImageLoaded
  <1>3. QED
    BY <1>1, <1>2, PTL DEF Spec
-----------------------------------------------------------------------------
(***************************************************************************)
(* A kernel is told about the machine.                                     *)
(***************************************************************************)
\* The buffer does not start below a kernel that starts below the limit.
LowestInv ==
  \A f \in DOMAIN Images :
    Images[f].kernel /\ MinLoadAddr(f) + OffsetOf(f) < BounceBelow =>
      bounce = NoBounce \/ MinLoadAddr(f) + OffsetOf(f) <= bounce.target

LEMMA StepLowest ==
  ASSUME LoadState, BounceInv, LowestInv, NoWrap, KernelsMarked, [Next]_vars
  PROVE  LowestInv'
  <1> SUFFICES ASSUME NEW f \in DOMAIN Images, Images[f].kernel,
                      MinLoadAddr(f) + OffsetOf(f) < BounceBelow
               PROVE  bounce' = NoBounce \/ MinLoadAddr(f) + OffsetOf(f) <= bounce'.target
    BY DEF LowestInv
  <1> DEFINE x == MinLoadAddr(f) + OffsetOf(f)
  <1>1. /\ x \in Nat /\ x % Align = 0
        /\ \A g \in DOMAIN Images : \A t \in DOMAIN Segments(g) : x <= Place(g, t)
    BY ImageRange DEF KernelsMarked
  <1>2. bounce = NoBounce \/ x <= bounce.target
    BY DEF LowestInv
  <1> HIDE DEF x
  <1>3. Aligned(x)
    <2>1. x \div Align \in Nat /\ x = Align * (x \div Align) + (x % Align)
      BY <1>1, LoaderTypes, Parts
    <2>2. Align * (x \div Align) \in Nat
      BY <2>1, LoaderTypes
    <2>3. QED
      BY <1>1, <2>1, <2>2 DEF Aligned
  <1>4. bounce' = NoBounce \/ x <= bounce'.target
    BY <1>1, <1>2, <1>3, StepBounce
  <1>5. QED
    BY <1>4 DEF x

\* A kernel that is loaded is recognised: its mark is where the code looks for it.
LEMMA KernelSeen ==
  ASSUME LoadState, BounceInv, LoadedInv, LowestInv, KernelsMarked,
         Loaded, Images[file].kernel
  PROVE  SeenAsKernel
  <1>1. /\ file # 0 /\ file \in DOMAIN Images /\ offset = OffsetOf(file)
        /\ progheadNum \in Nat /\ progheadNum > Len(Segments(file))
    BY DEF Loaded, LoadState, ImageState
  <1>2. PICK s \in DOMAIN Segments(file) :
          Segments(file)[s].paddr = MinLoadAddr(file) /\ Segments(file)[s].filesz > 0
    BY <1>1 DEF KernelsMarked
  <1>3. Images[file].elf
    BY <1>1 DEF KernelsMarked
  <1>4. s < progheadNum
    BY <1>1, SegmentTypes
  <1>5. InPlace(file, s)
    BY <1>1, <1>4 DEF LoadedInv
  <1>6. 0 \in DOMAIN Content(file, s) /\ Content(file, s)[0] = <<file, s, 0>>
    <2>1. /\ Segments(file)[s].memsz \in Nat /\ Segments(file)[s].filesz \in Nat
          /\ Segments(file)[s].filesz <= Segments(file)[s].memsz
      BY <1>1, SegmentTypes
    <2>2. 0 \in 0 .. Segments(file)[s].memsz - 1 /\ 0 < Segments(file)[s].filesz
      BY <1>2, <2>1
    <2>3. QED
      BY <2>2 DEF Content
  <1> DEFINE min == MinLoadAddr(file) + offset
  <1>7. min \in Nat /\ Place(file, s) + 0 = min
    BY <1>1, <1>2, ImageRange DEF Place
  <1>8. IF min < BounceBelow
        THEN /\ min - bounce.target \in DOMAIN bounce.data
             /\ bounce.data[min - bounce.target] = <<file, s, 0>>
        ELSE mem[min] = <<file, s, 0>>
    BY <1>5, <1>6, <1>7 DEF InPlace
  <1>9. min < BounceBelow => bounce = NoBounce \/ min <= bounce.target
    BY <1>1 DEF LowestInv
  <1> HIDE DEF min
  <1>10. min < BounceBelow => min - bounce.target = 0
    <2>1. SUFFICES ASSUME min < BounceBelow
                   PROVE  min - bounce.target = 0
      OBVIOUS
    <2>2. PICK n \in Nat : BounceShape(bounce, n)
      BY DEF BounceInv
    <2>3. min - bounce.target \in 0 .. n - 1 /\ bounce.target \in Nat
      BY <1>8, <2>1, <2>2 DEF BounceShape
    <2>4. bounce # NoBounce
      BY <1>8, <2>1 DEF NoBounce
    <2>5. min <= bounce.target
      BY <1>9, <2>1, <2>4
    <2>6. QED
      BY <1>7, <2>3, <2>5
  <1>11. First = <<file, s, 0>>
    BY <1>8, <1>10 DEF First, min
  <1>12. QED
    BY <1>2, <1>3, <1>11 DEF SeenAsKernel

\* The records of the kernel that is about to start are in memory.
InformedInv ==
  /\ file = 0 /\ running = 0 => ~informed
  /\ file # 0 /\ informed =>
       /\ Loaded
       /\ BootInfoAt(file) \in DOMAIN mem /\ BounceBelow <= BootInfoAt(file)
       /\ mem[BootInfoAt(file)] = BootInfo

LEMMA StepInformed ==
  ASSUME LoadState, InformedInv, NoWrap, InformationFits, [Next]_vars
  PROVE  InformedInv'
  <1>1. CASE \E f \in DOMAIN Images : ScanElf(f) \/ ScanM68k(f)
    <2>1. ~informed /\ informed' = informed
      BY <1>1 DEF ScanElf, ScanM68k, Idle, InformedInv
    <2>2. QED
      BY <2>1 DEF InformedInv
  <1>2. CASE LoadSegment
    <2>1. ~Loaded /\ ~informed /\ file # 0
      BY <1>2 DEF InformedInv, LoadSegment, Loaded, LoadState, ImageState
    <2>2. ~informed'
      BY <1>2, <2>1, LoadSegmentCases DEF GiveUp
    <2>3. QED
      BY <2>2 DEF InformedInv
  <1>3. CASE Execute
    BY <1>3 DEF Execute, Loaded, InformedInv
  <1>4. CASE \E n \in InitrdSizes : Inform(n)
    <2>1. PICK n \in InitrdSizes : Inform(n)
      BY <1>4
    <2> DEFINE records == BootInfoAt(file)
               initrd == InitrdAt(file)
    <2>2. /\ mem' = Fill(Fill(mem, records, 1, BootInfo), initrd, n, Initrd)
          /\ Loaded /\ file # 0 /\ informed'
          /\ UNCHANGED <<file, progheadNum, offset>>
      BY <2>1 DEF Inform, Loaded
    <2>3. /\ n \in Nat /\ records \in Nat /\ initrd \in Nat
          /\ BounceBelow <= records /\ records < initrd /\ initrd + n <= HeapBase(ram)
      BY <2>1, InformPlaces
    <2>4. BootInfoAt(file)' = records
      BY <2>2 DEF BootInfoAt
    <2> HIDE DEF records, initrd
    <2>5. records \in DOMAIN mem
      <3>1. /\ ram \in Nat /\ HeapBase(ram) \in Nat /\ HeapBase(ram) <= ram
            /\ DOMAIN mem = 0 .. ram - 1
        BY RamBounds DEF LoadState
      <3>2. QED
        BY <2>3, <3>1
    <2>6. records - records \in 0 .. 1 - 1 /\ records - initrd \notin 0 .. n - 1
      BY <2>3
    <2>7. records \in DOMAIN mem' /\ mem'[records] = BootInfo
      BY <2>2, <2>5, <2>6 DEF Fill
    <2>8. QED
      BY <2>2, <2>3, <2>4, <2>7 DEF InformedInv, Loaded
  <1>5. CASE RefuseKernel
    BY <1>5 DEF RefuseKernel, GiveUp, InformedInv
  <1>6. CASE UNCHANGED vars
    BY <1>6 DEF vars, InformedInv, Loaded, BootInfoAt
  <1>7. QED
    BY <1>1, <1>2, <1>3, <1>4, <1>5, <1>6 DEF Next

LEMMA StepKernelInformed ==
  ASSUME LoadState, BounceInv, LoadedInv, LowestInv, InformedInv, KernelInformed,
         KernelsMarked, [Next]_vars
  PROVE  KernelInformed'
  <1>1. CASE running # 0
    <2>1. UNCHANGED vars
      BY <1>1, RunningIsFinal
    <2>2. QED
      BY <2>1 DEF vars, KernelInformed, BootInfoAt
  <1>2. CASE Execute
    <2>1. /\ Loaded /\ file # 0 /\ (SeenAsKernel => informed) /\ mem' = MachineExecute(mem)
          /\ running' = file /\ offset' = offset
      BY <1>2 DEF Execute, Loaded
    <2> SUFFICES ASSUME NEW f, f = file, Images[f].kernel
                 PROVE  mem'[BootInfoAt(f)'] = BootInfo
      BY <2>1 DEF KernelInformed, BootInfoAt
    <2> DEFINE records == BootInfoAt(file)
    <2>2. BootInfoAt(f)' = records
      BY <2>1 DEF BootInfoAt
    <2>3. informed
      BY <2>1, KernelSeen
    <2>4. records \in DOMAIN mem /\ BounceBelow <= records /\ mem[records] = BootInfo
      BY <2>1, <2>3 DEF InformedInv
    <2>5. records \in Nat
      <3>1. ram \in Nat /\ DOMAIN mem = 0 .. ram - 1
        BY RamBounds DEF LoadState
      <3>2. QED
        BY <2>4, <3>1
    <2> HIDE DEF records
    <2>6. mem'[records] = mem[records]
      BY <2>1, <2>4, <2>5, BounceBelowType, ExecutedMemory
    <2>7. QED
      BY <2>2, <2>4, <2>6
  <1>3. CASE running = 0 /\ ~Execute
    <2>1. running' = running
      <3>1. LoadSegment => running' = running
        BY DEF LoadSegment
      <3>2. QED
        BY <1>3, <3>1 DEF Next, vars, ScanElf, ScanM68k, Inform, RefuseKernel
    <2>2. QED
      BY <1>3, <2>1 DEF KernelInformed
  <1>4. QED
    BY <1>1, <1>2, <1>3

\* A kernel that is started has its records on the page above it, undamaged by its
\* initrd and by the copy of the bounce buffer, wherever it starts (the second half
\* of load_elf_executable() of core/loader.c): if the records fit in memory, and if
\* a kernel whose mark goes to the bounce buffer is the lowest image, since the code
\* looks for the mark at the start of the buffer, which may be older.
THEOREM LoaderKernelInformed ==
  ASSUME NoWrap, Ascending, InformationFits, KernelsMarked
  PROVE  Spec => []KernelInformed
  <1> DEFINE Inv == /\ LoadState /\ BounceInv /\ LoadedInv /\ LowestInv
                    /\ InformedInv /\ KernelInformed
  <1>1. Init => Inv
    <2>1. Init => LowestInv /\ InformedInv /\ KernelInformed
      BY DEF Init, LowestInv, InformedInv, KernelInformed
    <2>2. QED
      BY <2>1, InitLoadState, InitBounce
  <1>2. Inv /\ [Next]_vars => Inv'
    BY StepLoadState, StepBounce, StepLoaded, StepLowest, StepInformed, StepKernelInformed
  <1>3. QED
    BY <1>1, <1>2, PTL DEF Spec
-----------------------------------------------------------------------------
(***************************************************************************)
(* The FAT and the count of free clusters (fatfs/ff.c).                    *)
(***************************************************************************)
\* The numbers of clusters are those of the FAT's entries; none stands for a free
\* cluster or for the end of a chain.
LEMMA ClusterTypes ==
  /\ Count \in Nat \ {0} /\ Clusters \subseteq Nat /\ Clusters = 2 .. Count + 1
  /\ 0 \notin Clusters /\ EOC \notin Clusters /\ EOC # 0
  BY FatAssumption DEF Count, Clusters, EOC

\* Cells of different kinds are different, and so are those of different clusters.
LEMMA CellsApart ==
  /\ \A c, d : FatOf(c) = FatOf(d) => c = d
  /\ \A c, d : FatOf(c) # DataOf(d) /\ FatOf(c) # DirOf(d) /\ FatOf(c) # Info
  /\ \A c \in Clusters : FatOf(c) \in Cells
  BY DEF FatOf, DataOf, DirOf, Info, Cells

\* The free clusters of a FAT, and how many.
FreeIn(fat) == {c \in Clusters : fat[c] = 0}
FreeCount(fat) == Cardinality(FreeIn(fat))

\* A FAT with one entry changed.
WithEntry(fat, x, v) == [c \in Clusters |-> IF c = x THEN v ELSE fat[c]]

LEMMA FreeFinite ==
  ASSUME NEW fat
  PROVE  IsFiniteSet(FreeIn(fat)) /\ FreeCount(fat) \in 0 .. Count
  <1>1. IsFiniteSet(Clusters) /\ Cardinality(Clusters) = Count
    <2>1. Cardinality(2 .. Count + 1) = IF 2 > Count + 1 THEN 0 ELSE Count + 1 - 2 + 1
      BY ClusterTypes, FS_Interval
    <2>2. IsFiniteSet(2 .. Count + 1)
      BY ClusterTypes, FS_Interval
    <2>3. QED
      BY <2>1, <2>2, ClusterTypes
  <1>2. FreeIn(fat) \subseteq Clusters
    BY DEF FreeIn
  <1>3. IsFiniteSet(FreeIn(fat)) /\ Cardinality(FreeIn(fat)) <= Cardinality(Clusters)
    BY <1>1, <1>2, FS_Subset
  <1>4. Cardinality(FreeIn(fat)) \in Nat
    BY <1>3, FS_CardinalityType
  <1>5. QED
    BY <1>1, <1>3, <1>4, ClusterTypes DEF FreeCount

LEMMA EntryFreed ==
  ASSUME NEW fat, NEW x \in Clusters, NEW v, v = 0
  PROVE  FreeCount(WithEntry(fat, x, v)) = IF fat[x] = 0 THEN FreeCount(fat) ELSE FreeCount(fat) + 1
  <1>1. FreeIn(WithEntry(fat, x, v)) = FreeIn(fat) \cup {x}
    BY DEF FreeIn, WithEntry
  <1>2. IsFiniteSet(FreeIn(fat))
    BY FreeFinite
  <1>3. Cardinality(FreeIn(fat) \cup {x}) =
          IF x \in FreeIn(fat) THEN Cardinality(FreeIn(fat)) ELSE Cardinality(FreeIn(fat)) + 1
    BY <1>2, FS_AddElement
  <1>4. x \in FreeIn(fat) <=> fat[x] = 0
    BY DEF FreeIn
  <1>5. QED
    BY <1>1, <1>3, <1>4 DEF FreeCount

LEMMA EntryTaken ==
  ASSUME NEW fat, NEW x \in Clusters, NEW v, v # 0
  PROVE  FreeCount(WithEntry(fat, x, v)) = IF fat[x] = 0 THEN FreeCount(fat) - 1 ELSE FreeCount(fat)
  <1>1. FreeIn(WithEntry(fat, x, v)) = FreeIn(fat) \ {x}
    BY DEF FreeIn, WithEntry
  <1>2. IsFiniteSet(FreeIn(fat))
    BY FreeFinite
  <1>3. Cardinality(FreeIn(fat) \ {x}) =
          IF x \in FreeIn(fat) THEN Cardinality(FreeIn(fat)) - 1 ELSE Cardinality(FreeIn(fat))
    BY <1>2, FS_RemoveElement
  <1>4. x \in FreeIn(fat) <=> fat[x] = 0
    BY DEF FreeIn
  <1>5. QED
    BY <1>1, <1>3, <1>4 DEF FreeCount

-----------------------------------------------------------------------------
\* Following a chain never comes back to where it was: each cluster is further from
\* the end than the next one.
Acyclic(fat) ==
  \E rank \in [Clusters -> Nat] :
    \A c \in Clusters : fat[c] \in Clusters => rank[fat[c]] < rank[c]

LEMMA CutAcyclic ==
  ASSUME NEW fat, Acyclic(fat), NEW x, NEW v, v \notin Clusters
  PROVE  Acyclic(WithEntry(fat, x, v))
  <1>1. PICK rank \in [Clusters -> Nat] :
          \A c \in Clusters : fat[c] \in Clusters => rank[fat[c]] < rank[c]
    BY DEF Acyclic
  <1>2. \A c \in Clusters : WithEntry(fat, x, v)[c] \in Clusters => WithEntry(fat, x, v)[c] = fat[c]
    BY DEF WithEntry
  <1>3. QED
    BY <1>1, <1>2 DEF Acyclic

\* A link to a cluster that ends a chain, or is free, makes no circle.
LEMMA LinkAcyclic ==
  ASSUME NEW fat, Acyclic(fat), NEW x \in Clusters, NEW y \in Clusters, x # y,
         fat[y] \notin Clusters
  PROVE  Acyclic(WithEntry(fat, x, y))
  <1>1. PICK rank \in [Clusters -> Nat] :
          \A c \in Clusters : fat[c] \in Clusters => rank[fat[c]] < rank[c]
    BY DEF Acyclic
  <1> DEFINE above == [c \in Clusters |-> IF c = y THEN 0 ELSE rank[c] + 1]
             g == WithEntry(fat, x, y)
  <1>2. above \in [Clusters -> Nat]
    BY <1>1
  <1>3. ASSUME NEW c \in Clusters, g[c] \in Clusters
        PROVE  above[g[c]] < above[c]
    <2>1. c # y
      BY <1>3 DEF WithEntry
    <2>2. CASE g[c] = y
      BY <1>1, <2>1, <2>2
    <2>3. CASE g[c] # y
      <3>1. c # x /\ g[c] = fat[c]
        BY <2>3 DEF WithEntry
      <3>2. rank[g[c]] < rank[c] /\ rank[g[c]] \in Nat /\ rank[c] \in Nat
        BY <1>1, <1>3, <3>1
      <3>3. above[g[c]] = rank[g[c]] + 1 /\ above[c] = rank[c] + 1
        BY <1>3, <2>1, <2>3
      <3>4. QED
        BY <3>2, <3>3
    <2>4. QED
      BY <2>2, <2>3
  <1>4. QED
    BY <1>2, <1>3 DEF Acyclic
-----------------------------------------------------------------------------
(***************************************************************************)
(* What a plan does to the books: the FAT as it is in view, the count of   *)
(* free clusters, the file that is written, and whether the window was     *)
(* just written.                                                           *)
(***************************************************************************)
Book(fat, count, fp, clean) == [fat |-> fat, count |-> count, fp |-> fp, clean |-> clean]

IsBook(b) ==
  b = Book(b.fat, b.count, b.fp, b.clean) /\ b.fat = [c \in Clusters |-> b.fat[c]]

\* The books after an access of a plan, which must fit them: FSInfo is written only
\* right after the window, and nothing writes to the FAT past it.
FatAfter(s, fat) ==
  IF s.access = "put" THEN [c \in Clusters |-> IF FatOf(c) = s.cell THEN s.val ELSE fat[c]] ELSE fat

CountAfter(s, count) == IF "free_clst" \in DOMAIN s.change THEN s.change.free_clst ELSE count

FpAfter(s, fp) == IF "fp" \in DOMAIN s.change THEN s.change.fp ELSE fp

Effect(s, b) ==
  Book(FatAfter(s, b.fat), CountAfter(s, b.count), FpAfter(s, b.fp), s.access = "sync")

Allowed(s, b) ==
  /\ s.access \in {"write", "clear"} => \A c : s.cell # FatOf(c)
  /\ s.access = "info" => b.clean

\* No cluster is free that is not counted; and if nothing failed so far no chain is a
\* circle, and the file that is written ends in a cluster that is taken.
Sound(b) ==
  /\ IsBook(b)
  /\ b.count \in Nat /\ (b.count <= Count => FreeCount(b.fat) <= b.count)
  /\ "clust" \in DOMAIN b.fp /\ b.fp.clust \in Clusters \cup {0}

Tidy(b) == Acyclic(b.fat) /\ (b.fp.clust # 0 => b.fat[b.fp.clust] # 0)

Proper(b, ok) == Sound(b) /\ (ok => Tidy(b))

\* The count is right, if it is believed.
Exact(b) == b.count <= Count => FreeCount(b.fat) = b.count

Plan(t) == \E S : t \in Seq(S)

\* The plan t leads from the book b to the book e, and the books are proper on the way.
Leads(t, b, ok, e) ==
  /\ Plan(t)
  /\ \E P :
       /\ P[0] = b /\ P[Len(t)] = e
       /\ \A i \in 0 .. Len(t) : Proper(P[i], ok)
       /\ \A i \in 1 .. Len(t) : Allowed(t[i], P[i - 1]) /\ P[i] = Effect(t[i], P[i - 1])

LEMMA LeadsEmpty ==
  ASSUME NEW b, NEW ok, Proper(b, ok)
  PROVE  Leads(<<>>, b, ok, b)
  <1>1. Plan(<<>>)
    BY EmptySeq DEF Plan
  <1>2. Len(<<>>) = 0
    OBVIOUS
  <1> DEFINE P == [i \in 0 .. 0 |-> b]
  <1>3. P[0] = b /\ \A i \in 0 .. 0 : P[i] = b
    OBVIOUS
  <1> HIDE DEF P
  <1>4. QED
    BY <1>1, <1>2, <1>3 DEF Leads

LEMMA LeadsEmptyEnd ==
  ASSUME NEW b, NEW ok, NEW e, Leads(<<>>, b, ok, e)
  PROVE  e = b /\ Proper(b, ok)
  BY DEF Leads

LEMMA LeadsOne ==
  ASSUME NEW s, NEW b, NEW ok, Proper(b, ok), Allowed(s, b), Proper(Effect(s, b), ok)
  PROVE  Leads(<<s>>, b, ok, Effect(s, b))
  <1>1. Plan(<<s>>) /\ Len(<<s>>) = 1 /\ <<s>>[1] = s
    <2>1. <<s>> \in Seq({s})
      OBVIOUS
    <2>2. QED
      BY <2>1 DEF Plan
  <1> DEFINE P == [i \in 0 .. 1 |-> IF i = 0 THEN b ELSE Effect(s, b)]
  <1>2. P[0] = b /\ P[1] = Effect(s, b)
    OBVIOUS
  <1> HIDE DEF P
  <1>3. \A i \in 0 .. 1 : Proper(P[i], ok)
    <2>1. 0 .. 1 = {0, 1}
      OBVIOUS
    <2>2. QED
      BY <1>2, <2>1
  <1>4. \A i \in 1 .. 1 : Allowed(<<s>>[i], P[i - 1]) /\ P[i] = Effect(<<s>>[i], P[i - 1])
    BY <1>1, <1>2
  <1>5. QED
    BY <1>1, <1>2, <1>3, <1>4, Zenon DEF Leads

\* Plans one after the other.
LEMMA PlanConcat ==
  ASSUME NEW t, NEW u, Plan(t), Plan(u)
  PROVE  /\ Plan(t \o u)
         /\ Len(t) \in Nat /\ Len(u) \in Nat /\ Len(t \o u) = Len(t) + Len(u)
         /\ \A i \in 1 .. Len(t) : (t \o u)[i] = t[i]
         /\ \A i \in 1 .. Len(u) : (t \o u)[Len(t) + i] = u[i]
  <1>1. PICK A : t \in Seq(A)
    BY DEF Plan
  <1>2. PICK B : u \in Seq(B)
    BY DEF Plan
  <1>3. t \in Seq(A \cup B) /\ u \in Seq(A \cup B)
    BY <1>1, <1>2
  <1>4. t \o u \in Seq(A \cup B) /\ Len(t \o u) = Len(t) + Len(u)
    BY <1>3, ConcatProperties
  <1>5. \A i \in 1 .. Len(t) + Len(u) : (t \o u)[i] = IF i <= Len(t) THEN t[i] ELSE u[i - Len(t)]
    BY <1>3, ConcatProperties
  <1>6. Len(t) \in Nat /\ Len(u) \in Nat
    BY <1>3, LenProperties
  <1>7. \A i \in 1 .. Len(t) : (t \o u)[i] = t[i]
    BY <1>5, <1>6
  <1>8. ASSUME NEW i \in 1 .. Len(u)
        PROVE  (t \o u)[Len(t) + i] = u[i]
    <2>1. Len(t) + i \in 1 .. Len(t) + Len(u) /\ ~(Len(t) + i <= Len(t)) /\ Len(t) + i - Len(t) = i
      BY <1>6
    <2>2. QED
      BY <1>5, <2>1
  <1>9. QED
    BY <1>4, <1>6, <1>7, <1>8 DEF Plan

LEMMA LeadsThen ==
  ASSUME NEW t, NEW u, NEW b, NEW e, NEW f, NEW ok, Leads(t, b, ok, e), Leads(u, e, ok, f)
  PROVE  Leads(t \o u, b, ok, f)
  <1>1. Plan(t) /\ Plan(u)
    BY DEF Leads
  <1>2. /\ Plan(t \o u) /\ Len(t) \in Nat /\ Len(u) \in Nat /\ Len(t \o u) = Len(t) + Len(u)
        /\ \A i \in 1 .. Len(t) : (t \o u)[i] = t[i]
        /\ \A i \in 1 .. Len(u) : (t \o u)[Len(t) + i] = u[i]
    BY <1>1, PlanConcat
  <1>3. PICK P :
          /\ P[0] = b /\ P[Len(t)] = e
          /\ \A i \in 0 .. Len(t) : Proper(P[i], ok)
          /\ \A i \in 1 .. Len(t) : Allowed(t[i], P[i - 1]) /\ P[i] = Effect(t[i], P[i - 1])
    BY Zenon DEF Leads
  <1>4. PICK Q :
          /\ Q[0] = e /\ Q[Len(u)] = f
          /\ \A i \in 0 .. Len(u) : Proper(Q[i], ok)
          /\ \A i \in 1 .. Len(u) : Allowed(u[i], Q[i - 1]) /\ Q[i] = Effect(u[i], Q[i - 1])
    BY Zenon DEF Leads
  <1> DEFINE n == Len(t)
             m == Len(u)
             R == [i \in 0 .. n + m |-> IF i <= n THEN P[i] ELSE Q[i - n]]
  <1>5. /\ n \in Nat /\ m \in Nat
        /\ \A i \in 0 .. n : R[i] = P[i]
        /\ \A i \in 0 .. m : R[n + i] = Q[i]
    <2>1. n \in Nat /\ m \in Nat /\ P[n] = Q[0]
      BY <1>2, <1>3, <1>4
    <2> HIDE DEF n, m
    <2>2. \A i \in 0 .. n : R[i] = P[i]
      BY <2>1
    <2>3. ASSUME NEW i \in 0 .. m
          PROVE  R[n + i] = Q[i]
      <3>1. CASE i = 0
        BY <2>1, <3>1
      <3>2. CASE i # 0
        <4>1. n + i \in 0 .. n + m /\ ~(n + i <= n) /\ n + i - n = i
          BY <2>1, <3>2
        <4>2. \A k \in 0 .. n + m : ~(k <= n) => R[k] = Q[k - n]
          OBVIOUS
        <4> HIDE DEF R
        <4>3. QED
          BY <2>1, <4>1, <4>2
      <3>3. QED
        BY <3>1, <3>2
    <2>4. QED
      BY <2>1, <2>2, <2>3
  <1> HIDE DEF R
  <1>6. R[0] = b /\ R[Len(t \o u)] = f
    BY <1>2, <1>3, <1>4, <1>5
  <1>7. \A i \in 0 .. Len(t \o u) : i \in 0 .. n \/ \E j \in 1 .. m : i = n + j
    <2>1. ASSUME NEW i \in 0 .. n + m, i \notin 0 .. n
          PROVE  \E j \in 1 .. m : i = n + j
      <3>1. i - n \in 1 .. m /\ i = n + (i - n)
        BY <1>5, <2>1
      <3>2. QED
        BY <3>1
    <2>2. QED
      BY <1>2, <2>1
  <1>8. ASSUME NEW i \in 0 .. Len(t \o u)
        PROVE  Proper(R[i], ok)
    <2>1. CASE i \in 0 .. n
      BY <1>3, <1>5, <2>1
    <2>2. CASE \E j \in 1 .. m : i = n + j
      BY <1>4, <1>5, <2>2
    <2>3. QED
      BY <1>7, <2>1, <2>2
  <1>9. ASSUME NEW i \in 1 .. Len(t \o u)
        PROVE  Allowed((t \o u)[i], R[i - 1]) /\ R[i] = Effect((t \o u)[i], R[i - 1])
    <2>1. i \in 0 .. Len(t \o u) /\ i # 0
      BY <1>2
    <2>2. CASE i \in 0 .. n
      <3>1. i \in 1 .. n /\ i - 1 \in 0 .. n
        BY <1>5, <2>1, <2>2
      <3>2. R[i - 1] = P[i - 1] /\ R[i] = P[i] /\ (t \o u)[i] = t[i]
        BY <1>2, <1>5, <2>2, <3>1
      <3>3. QED
        BY <1>3, <3>1, <3>2
    <2>3. CASE \E j \in 1 .. m : i = n + j
      <3>1. PICK j \in 1 .. m : i = n + j
        BY <2>3
      <3>2. j - 1 \in 0 .. m /\ j \in 0 .. m /\ i - 1 = n + (j - 1)
        BY <1>5, <3>1
      <3>3. R[i - 1] = Q[j - 1] /\ R[i] = Q[j] /\ (t \o u)[i] = u[j]
        BY <1>2, <1>5, <3>1, <3>2
      <3>4. QED
        BY <1>4, <3>1, <3>3
    <2>4. QED
      BY <1>7, <2>1, <2>2, <2>3
  <1>10. QED
    BY <1>2, <1>6, <1>8, <1>9, Zenon DEF Leads

\* The first access of a plan, and the rest of it.
LEMMA LeadsOn ==
  ASSUME NEW t, NEW b, NEW e, NEW ok, Leads(t, b, ok, e), t # <<>>
  PROVE  /\ Proper(b, ok) /\ Allowed(Head(t), b)
         /\ Leads(Tail(t), Effect(Head(t), b), ok, e)
  <1>1. PICK S : t \in Seq(S)
    BY DEF Leads, Plan
  <1>2. /\ Tail(t) \in Seq(S) /\ Head(t) = t[1]
        /\ Len(t) \in Nat \ {0} /\ Len(Tail(t)) = Len(t) - 1
        /\ \A i \in 1 .. Len(Tail(t)) : Tail(t)[i] = t[i + 1]
    <2>1. Tail(t) \in Seq(S) /\ Len(Tail(t)) = Len(t) - 1 /\ Head(t) = t[1]
      BY <1>1, HeadTailProperties
    <2>2. Len(t) \in Nat \ {0}
      BY <1>1, LenProperties, EmptySeq
    <2>3. \A i \in 1 .. Len(Tail(t)) : Tail(t)[i] = t[i + 1]
      BY <1>1, HeadTailProperties
    <2>4. QED
      BY <2>1, <2>2, <2>3
  <1>3. PICK P :
          /\ P[0] = b /\ P[Len(t)] = e
          /\ \A i \in 0 .. Len(t) : Proper(P[i], ok)
          /\ \A i \in 1 .. Len(t) : Allowed(t[i], P[i - 1]) /\ P[i] = Effect(t[i], P[i - 1])
    BY Zenon DEF Leads
  <1>4. P[1] = Effect(Head(t), b) /\ Proper(b, ok) /\ Allowed(Head(t), b)
    <2>1. 0 \in 0 .. Len(t) /\ 1 \in 1 .. Len(t) /\ 1 - 1 = 0
      BY <1>2
    <2>2. QED
      BY <1>2, <1>3, <2>1
  <1> DEFINE n == Len(Tail(t))
             R == [i \in 0 .. n |-> P[i + 1]]
  <1>5. n \in Nat /\ n + 1 = Len(t) /\ 0 + 1 = 1
    BY <1>2
  <1>6. \A i \in 0 .. n : R[i] = P[i + 1]
    OBVIOUS
  <1> HIDE DEF R
  <1>7. R[0] = Effect(Head(t), b) /\ R[n] = e
    BY <1>3, <1>4, <1>5, <1>6
  <1>8. ASSUME NEW i \in 0 .. n
        PROVE  Proper(R[i], ok)
    <2>1. i + 1 \in 0 .. Len(t)
      BY <1>5
    <2>2. QED
      BY <1>3, <1>6, <2>1
  <1>9. ASSUME NEW i \in 1 .. n
        PROVE  Allowed(Tail(t)[i], R[i - 1]) /\ R[i] = Effect(Tail(t)[i], R[i - 1])
    <2>1. i + 1 \in 1 .. Len(t) /\ (i + 1) - 1 = i /\ i - 1 \in 0 .. n /\ i \in 0 .. n
          /\ (i - 1) + 1 = i
      BY <1>5
    <2>2. R[i - 1] = P[i] /\ R[i] = P[i + 1] /\ Tail(t)[i] = t[i + 1]
      BY <1>2, <1>6, <2>1
    <2>3. Allowed(t[i + 1], P[(i + 1) - 1]) /\ P[i + 1] = Effect(t[i + 1], P[(i + 1) - 1])
      BY <1>3, <2>1
    <2>4. QED
      BY <2>1, <2>2, <2>3
  <1>10. Leads(Tail(t), Effect(Head(t), b), ok, e)
    BY <1>2, <1>7, <1>8, <1>9, Zenon DEF Leads, Plan
  <1>11. QED
    BY <1>4, <1>10
-----------------------------------------------------------------------------
\* The books as they are.
Now(clean) == Book([c \in Clusters |-> view[FatOf(c)]], fs.free_clst, fs.fp, clean)

\* An access that is of no consequence for the books but for the file that is written.
Plain(s) ==
  /\ s.access \in {"look", "put", "write", "clear", "none"}
  /\ s.access \in {"put", "write", "clear"} => \A c : s.cell # FatOf(c)
  /\ "free_clst" \notin DOMAIN s.change

LEMMA PlainEffect ==
  ASSUME NEW s, NEW b, Plain(s), Sound(b)
  PROVE  /\ Allowed(s, b)
         /\ Effect(s, b) = Book(b.fat, b.count, FpAfter(s, b.fp), FALSE)
  <1>1. b.fat = [c \in Clusters |-> b.fat[c]]
    BY DEF Sound, IsBook
  <1>2. FatAfter(s, b.fat) = b.fat
    <2>1. CASE s.access = "put"
      <3>1. \A c \in Clusters : FatOf(c) # s.cell
        BY <2>1 DEF Plain
      <3>2. FatAfter(s, b.fat) = [c \in Clusters |-> b.fat[c]]
        BY <2>1, <3>1 DEF FatAfter
      <3>3. QED
        BY <1>1, <3>2
    <2>2. CASE s.access # "put"
      BY <2>2 DEF FatAfter
    <2>3. QED
      BY <2>1, <2>2
  <1>3. CountAfter(s, b.count) = b.count /\ s.access # "sync" /\ s.access # "info"
    BY DEF Plain, CountAfter
  <1>4. Allowed(s, b)
    BY <1>3 DEF Plain, Allowed
  <1>5. QED
    BY <1>2, <1>3, <1>4 DEF Effect

\* Accesses that leave the books as they are.
LEMMA LeadsNowhere ==
  ASSUME NEW t, Plan(t), NEW b, NEW ok, Proper(b, ok), b.clean = FALSE,
         \A i \in 1 .. Len(t) : Plain(t[i]) /\ "fp" \notin DOMAIN t[i].change
  PROVE  Leads(t, b, ok, b)
  <1>1. Len(t) \in Nat
    BY PlanConcat
  <1>2. Sound(b) /\ b = Book(b.fat, b.count, b.fp, FALSE)
    BY DEF Proper, Sound, IsBook
  <1>3. ASSUME NEW i \in 1 .. Len(t)
        PROVE  Allowed(t[i], b) /\ b = Effect(t[i], b)
    <2>1. FpAfter(t[i], b.fp) = b.fp
      BY DEF FpAfter
    <2>2. QED
      BY <1>2, <2>1, PlainEffect
  <1> DEFINE P == [i \in 0 .. Len(t) |-> b]
  <1>4. \A i \in 0 .. Len(t) : P[i] = b
    OBVIOUS
  <1> HIDE DEF P
  <1>5. P[0] = b /\ P[Len(t)] = b
    BY <1>1, <1>4
  <1>6. ASSUME NEW i \in 1 .. Len(t)
        PROVE  Allowed(t[i], P[i - 1]) /\ P[i] = Effect(t[i], P[i - 1])
    <2>1. i \in 0 .. Len(t) /\ i - 1 \in 0 .. Len(t)
      BY <1>1
    <2>2. QED
      BY <1>3, <1>4, <2>1
  <1>7. \A i \in 0 .. Len(t) : Proper(P[i], ok)
    BY <1>4
  <1>8. QED
    BY <1>5, <1>6, <1>7, Zenon DEF Leads

\* One access after which another cluster is the last of the file that is written.
LEMMA LeadsFile ==
  ASSUME NEW s, NEW b, NEW ok, Proper(b, ok), b.clean = FALSE,
         Plain(s), "fp" \in DOMAIN s.change,
         "clust" \in DOMAIN s.change.fp, s.change.fp.clust \in Clusters \cup {0},
         ok => (s.change.fp.clust # 0 => b.fat[s.change.fp.clust] # 0)
  PROVE  /\ Leads(<<s>>, b, ok, Book(b.fat, b.count, s.change.fp, FALSE))
         /\ Proper(Book(b.fat, b.count, s.change.fp, FALSE), ok)
  <1> DEFINE e == Book(b.fat, b.count, s.change.fp, FALSE)
  <1>1. Sound(b) /\ FpAfter(s, b.fp) = s.change.fp
    BY DEF Proper, FpAfter
  <1>2. Allowed(s, b) /\ Effect(s, b) = e
    BY <1>1, PlainEffect
  <1>3. e.fat = b.fat /\ e.count = b.count /\ e.fp = s.change.fp /\ e.clean = FALSE
    BY DEF Book
  <1> HIDE DEF e
  <1>4. IsBook(e)
    <2>1. e = Book(e.fat, e.count, e.fp, e.clean)
      BY <1>3 DEF e
    <2>2. QED
      BY <1>1, <1>3, <2>1 DEF Sound, IsBook
  <1>5. Proper(e, ok)
    BY <1>1, <1>3, <1>4 DEF Proper, Sound, Tidy
  <1>6. QED
    BY <1>2, <1>5, LeadsOne DEF e

\* sync_fs().
LEMMA LeadsSync ==
  ASSUME NEW b, NEW ok, Proper(b, ok), b.clean = FALSE
  PROVE  Leads(SyncFs, b, ok, b)
  <1> DEFINE s == Do("sync", Info, Empty, Same)
             i == Do("info", Info, Empty, [fsi_flag |-> FALSE])
             e == Book(b.fat, b.count, b.fp, TRUE)
  <1>1. Sound(b) /\ b = Book(b.fat, b.count, b.fp, FALSE)
    BY DEF Proper, Sound, IsBook
  <1>2. e.fat = b.fat /\ e.count = b.count /\ e.fp = b.fp /\ e.clean = TRUE
    BY DEF Book
  <1>3. Effect(s, b) = e /\ Allowed(s, b)
    BY DEF Effect, Allowed, FatAfter, CountAfter, FpAfter, Do, Same
  <1>4. Proper(e, ok)
    <2>1. e = Book(e.fat, e.count, e.fp, e.clean)
      BY <1>2
    <2> HIDE DEF e
    <2>2. IsBook(e)
      BY <1>1, <1>2, <2>1 DEF Sound, IsBook
    <2>3. QED
      BY <1>1, <1>2, <2>2 DEF Proper, Sound, Tidy
  <1>5. Leads(<<s>>, b, ok, e)
    <2> HIDE DEF s, e
    <2>1. QED
      BY <1>3, <1>4, LeadsOne
  <1>6. Effect(i, e) = b /\ Allowed(i, e)
    <2> HIDE DEF e
    <2>1. Effect(i, e) = Book(e.fat, e.count, e.fp, FALSE)
      BY DEF Effect, FatAfter, CountAfter, FpAfter, Do
    <2>2. Allowed(i, e)
      BY <1>2 DEF Allowed, Do
    <2>3. QED
      BY <1>1, <1>2, <2>1, <2>2
  <1>7. Leads(<<i>>, e, ok, b)
    <2> HIDE DEF i, e
    <2>1. QED
      BY <1>4, <1>6, LeadsOne
  <1>8. SyncFs = <<s>> \o <<i>>
    BY DEF SyncFs
  <1> HIDE DEF s, i, e
  <1>9. QED
    BY <1>5, <1>7, <1>8, LeadsThen

\* A sequence that is given by its members.
LEMMA FunctionPlan ==
  ASSUME NEW n \in Nat, NEW t, t = [i \in 1 .. n |-> t[i]]
  PROVE  Plan(t) /\ Len(t) = n
  <1>1. t \in [1 .. n -> {t[i] : i \in 1 .. n}]
    OBVIOUS
  <1>2. t \in Seq({t[i] : i \in 1 .. n})
    BY <1>1
  <1>3. DOMAIN t = 1 .. n /\ DOMAIN t = 1 .. Len(t) /\ Len(t) \in Nat
    BY <1>1, <1>2, LenProperties
  <1>4. n <= Len(t) /\ Len(t) <= n
    <2>1. n = 0 \/ n \in 1 .. Len(t)
      BY <1>3
    <2>2. Len(t) = 0 \/ Len(t) \in 1 .. n
      BY <1>3
    <2>3. QED
      BY <1>3, <2>1, <2>2
  <1>5. QED
    BY <1>2, <1>3, <1>4 DEF Plan

LEMMA OnePlan ==
  ASSUME NEW s
  PROVE  Plan(<<s>>) /\ Len(<<s>>) = 1 /\ <<s>>[1] = s
  <1>1. <<s>> \in Seq({s})
    OBVIOUS
  <1>2. QED
    BY <1>1 DEF Plan

LEMMA PairPlan ==
  ASSUME NEW r, NEW s
  PROVE  <<r, s>> = <<r>> \o <<s>>
  <1> DEFINE t == <<r>>
             u == <<s>>
             v == <<r, s>>
             S == {r, s}
  <1>1. /\ t \in Seq(S) /\ Len(t) = 1 /\ t[1] = r
        /\ u \in Seq(S) /\ Len(u) = 1 /\ u[1] = s
        /\ v \in Seq(S) /\ Len(v) = 2 /\ v[1] = r /\ v[2] = s
    OBVIOUS
  <1> HIDE DEF t, u, v, S
  <1>2. /\ t \o u \in Seq(S) /\ Len(t \o u) = 2
        /\ \A i \in 1 .. 2 : (t \o u)[i] = IF i <= 1 THEN t[i] ELSE u[i - 1]
    BY <1>1, ConcatProperties
  <1>3. \A i \in 1 .. 2 : i = 1 \/ i = 2
    OBVIOUS
  <1>4. (t \o u)[1] = r /\ (t \o u)[2] = s
    BY <1>1, <1>2
  <1>5. \A i \in 1 .. Len(v) : v[i] = (t \o u)[i]
    BY <1>1, <1>3, <1>4
  <1>6. v = t \o u
    BY <1>1, <1>2, <1>5, SeqEqual
  <1>7. QED
    BY <1>6 DEF t, u, v
-----------------------------------------------------------------------------
(***************************************************************************)
(* Chains (get_fat() and remove_chain() of fatfs/ff.c).                    *)
(***************************************************************************)
\* Each cluster of the sequence links to the next one.
Linked(m, s) == \A i \in 1 .. Len(s) : i + 1 <= Len(s) => s[i + 1] = m[FatOf(s[i])]

LEMMA FurtherLinked ==
  ASSUME NEW m, NEW s \in Seq(Clusters), NEW k
  PROVE  /\ Further(m, s, k) \in Seq(Clusters)
         /\ Len(s) > 0 /\ Linked(m, s) => Len(Further(m, s, k)) > 0 /\ Linked(m, Further(m, s, k))
  <1> DEFINE nxt == m[FatOf(s[Len(s)])]
             n == Len(s)
  <1>1. n \in Nat
    BY LenProperties
  <1>2. CASE Len(s) = k /\ nxt \in Clusters
    <2>1. Further(m, s, k) = Append(s, nxt)
      BY <1>2 DEF Further
    <2> DEFINE t == Append(s, nxt)
    <2>2. /\ t \in Seq(Clusters) /\ Len(t) = n + 1 /\ t[n + 1] = nxt
          /\ \A i \in 1 .. n : t[i] = s[i]
      <3> HIDE DEF nxt
      <3>1. QED
        BY <1>2, AppendProperties
    <2> HIDE DEF t
    <2>3. ASSUME Linked(m, s), NEW i \in 1 .. Len(t), i + 1 <= Len(t)
          PROVE  t[i + 1] = m[FatOf(t[i])]
      <3>1. i \in 1 .. n
        BY <1>1, <2>2, <2>3
      <3>2. CASE i = n
        BY <2>2, <3>1, <3>2
      <3>3. CASE i # n
        <4>1. i + 1 \in 1 .. n
          BY <1>1, <3>1, <3>3
        <4>2. t[i + 1] = s[i + 1] /\ t[i] = s[i]
          BY <2>2, <3>1, <4>1
        <4>3. s[i + 1] = m[FatOf(s[i])]
          BY <2>3, <3>1, <4>1 DEF Linked
        <4>4. QED
          BY <4>2, <4>3
      <3>4. QED
        BY <3>2, <3>3
    <2>4. Linked(m, s) => Linked(m, t)
      BY <2>3 DEF Linked
    <2>5. Len(t) > 0
      BY <1>1, <2>2
    <2>6. QED
      BY <2>1, <2>2, <2>4, <2>5 DEF t
  <1>3. CASE ~(Len(s) = k /\ nxt \in Clusters)
    <2>1. Further(m, s, k) = s
      BY <1>3 DEF Further
    <2>2. QED
      BY <2>1
  <1>4. QED
    BY <1>2, <1>3

LEMMA FollowingSteps ==
  ASSUME NEW m, NEW c \in Clusters
  PROVE  /\ Following(m, c)[0] = <<c>>
         /\ \A k \in 1 .. Count : Following(m, c)[k] = Further(m, Following(m, c)[k - 1], k)
  <1> DEFINE Lists == Seq(Clusters)
             step == [k \in 1 .. Count |-> [s \in Lists |-> Further(m, s, k)]]
             FollowRule(g) ==
               [k \in 0 .. Count |-> IF k = 0 THEN <<c>> ELSE Further(m, g[k - 1], k)]
  <1>1. Count \in Nat /\ <<c>> \in Lists
    BY ClusterTypes
  <1>2. step \in [1 .. Count -> [Lists -> Lists]]
    <2>1. ASSUME NEW k \in 1 .. Count, NEW s \in Lists
          PROVE  Further(m, s, k) \in Lists
      BY FurtherLinked
    <2> HIDE DEF Lists
    <2>2. QED
      BY <2>1
  <1>3. PICK f \in [0 .. Count -> Lists] :
          f[0] = <<c>> /\ \A k \in 1 .. Count : f[k] = step[k][f[k - 1]]
    <2> HIDE DEF Lists, step
    <2>1. QED
      BY <1>1, <1>2, Recursion, SMTT(60)
  <1>4. f = FollowRule(f)
    <2>1. f[0] = FollowRule(f)[0]
      BY <1>1, <1>3
    <2>2. ASSUME NEW k \in 1 .. Count
          PROVE  f[k] = FollowRule(f)[k]
      <3>1. f[k - 1] \in Lists
        <4>1. k - 1 \in 0 .. Count
          BY <1>1
        <4>2. QED
          BY <1>3, <4>1
      <3>2. f[k] = Further(m, f[k - 1], k)
        BY <1>3, <3>1
      <3>3. k # 0 /\ k \in 0 .. Count
        BY <1>1
      <3>4. QED
        BY <3>2, <3>3
    <2>3. \A k \in 0 .. Count : k = 0 \/ k \in 1 .. Count
      BY <1>1
    <2>4. \A k \in 0 .. Count : f[k] = FollowRule(f)[k]
      <3> HIDE DEF FollowRule
      <3>1. QED
        BY <2>1, <2>2, <2>3
    <2>5. QED
      BY <1>3, <2>4
  <1>5. Following(m, c) = FollowRule(Following(m, c))
    <2>1. Following(m, c) = CHOOSE g : g = FollowRule(g)
      BY DEF Following
    <2> HIDE DEF FollowRule
    <2>2. QED
      BY <1>4, <2>1
  <1>6. Following(m, c)[0] = <<c>>
    BY <1>1, <1>5
  <1>7. ASSUME NEW k \in 1 .. Count
        PROVE  Following(m, c)[k] = Further(m, Following(m, c)[k - 1], k)
    <2>1. k \in 0 .. Count /\ k # 0
      BY <1>1
    <2>2. QED
      BY <1>5, <2>1
  <1>8. QED
    BY <1>6, <1>7

LEMMA ChainLinked ==
  ASSUME NEW m, NEW c
  PROVE  Chain(m, c) \in Seq(Clusters) /\ Linked(m, Chain(m, c))
  <1>1. CASE c \notin Clusters
    <2>1. Chain(m, c) = <<>>
      BY <1>1 DEF Chain
    <2>2. QED
      BY <2>1, EmptySeq DEF Linked
  <1>2. CASE c \in Clusters
    <2> DEFINE f == Following(m, c)
               D == {k \in Nat : k <= Count =>
                       f[k] \in Seq(Clusters) /\ Len(f[k]) > 0 /\ Linked(m, f[k])}
    <2>1. f[0] = <<c>> /\ \A k \in 1 .. Count : f[k] = Further(m, f[k - 1], k)
      BY <1>2, FollowingSteps
    <2> HIDE DEF f
    <2>2. 0 \in D
      <3>1. <<c>> \in Seq(Clusters) /\ Len(<<c>>) > 0 /\ Linked(m, <<c>>)
        BY <1>2 DEF Linked
      <3>2. QED
        BY <2>1, <3>1
    <2>3. ASSUME NEW k \in Nat, k \in D
          PROVE  k + 1 \in D
      <3>1. SUFFICES ASSUME k + 1 <= Count
                     PROVE  /\ f[k + 1] \in Seq(Clusters) /\ Len(f[k + 1]) > 0
                            /\ Linked(m, f[k + 1])
        OBVIOUS
      <3>2. f[k] \in Seq(Clusters) /\ Len(f[k]) > 0 /\ Linked(m, f[k])
        BY <2>3, <3>1, ClusterTypes
      <3>3. f[k + 1] = Further(m, f[k], k + 1)
        <4>1. k + 1 \in 1 .. Count /\ (k + 1) - 1 = k
          BY <3>1, ClusterTypes
        <4>2. QED
          BY <2>1, <4>1
      <3>4. QED
        BY <3>2, <3>3, FurtherLinked
    <2>4. Nat \subseteq D
      <3> HIDE DEF D
      <3>1. QED
        BY <2>2, <2>3, Induction
    <2>5. Count \in D
      BY <2>4, ClusterTypes
    <2>6. Chain(m, c) = f[Count]
      BY <1>2 DEF Chain, f
    <2>7. QED
      BY <2>5, <2>6, ClusterTypes
  <1>3. QED
    BY <1>1, <1>2

\* What remove_chain() frees is linked and was taken.
LEMMA TakenChainLinked ==
  ASSUME NEW m, NEW c
  PROVE  /\ TakenChain(m, c) \in Seq(Clusters)
         /\ Linked(m, TakenChain(m, c))
         /\ \A i \in 1 .. Len(TakenChain(m, c)) : m[FatOf(TakenChain(m, c)[i])] # 0
  <1> DEFINE s == Chain(m, c)
             n == Len(s)
             t == TakenChain(m, c)
  <1>1. s \in Seq(Clusters) /\ Linked(m, s) /\ n \in Nat
    BY ChainLinked, LenProperties
  <1>2. ASSUME NEW i \in 1 .. n, i + 1 <= n
        PROVE  m[FatOf(s[i])] # 0
    <2>1. s[i + 1] = m[FatOf(s[i])]
      BY <1>1, <1>2 DEF Linked
    <2>2. s[i + 1] \in Clusters
      <3>1. i + 1 \in 1 .. Len(s)
        BY <1>1, <1>2
      <3> HIDE DEF s
      <3>2. QED
        BY <1>1, <3>1, ElementOfSeq
    <2>3. QED
      BY <2>1, <2>2, ClusterTypes
  <1>3. CASE s # <<>> /\ ~Taken(m, s[n])
    <2>1. t = SubSeq(s, 1, n - 1)
      BY <1>3 DEF TakenChain
    <2>2. n # 0
      BY <1>1, <1>3, EmptySeq
    <2>3. t \in Seq(Clusters) /\ Len(t) = n - 1 /\ \A i \in 1 .. n - 1 : t[i] = s[i]
      <3> HIDE DEF s, n, t
      <3>1. n - 1 \in Nat /\ 1 .. n - 1 \subseteq 1 .. n
        BY <1>1, <2>2
      <3>2. s \in Seq(Clusters) /\ n = Len(s)
        BY <1>1 DEF n
      <3>3. /\ SubSeq(s, 1, n - 1) \in Seq(Clusters)
            /\ Len(SubSeq(s, 1, n - 1)) = IF 1 <= n - 1 THEN (n - 1) - 1 + 1 ELSE 0
            /\ \A i \in 1 .. (n - 1) - 1 + 1 : SubSeq(s, 1, n - 1)[i] = s[1 + i - 1]
        BY <1>1, <2>2, <3>1, <3>2, SubSeqProperties
      <3>4. (n - 1) - 1 + 1 = n - 1 /\ \A i \in 1 .. n - 1 : 1 + i - 1 = i
        BY <1>1
      <3>5. QED
        BY <1>1, <2>1, <2>2, <3>3, <3>4
    <2> HIDE DEF s, n, t
    <2>4. ASSUME NEW i \in 1 .. Len(t)
          PROVE  i \in 1 .. n /\ i + 1 <= n /\ t[i] = s[i]
      BY <1>1, <2>3
    <2>5. Linked(m, t)
      <3> SUFFICES ASSUME NEW i \in 1 .. Len(t), i + 1 <= Len(t)
                   PROVE  t[i + 1] = m[FatOf(t[i])]
        BY DEF Linked
      <3>1. i + 1 \in 1 .. Len(t)
        BY <1>1, <2>3
      <3>2. t[i + 1] = s[i + 1] /\ t[i] = s[i] /\ i \in 1 .. Len(s) /\ i + 1 <= Len(s)
        BY <2>4, <3>1 DEF n
      <3>3. QED
        BY <1>1, <3>2 DEF Linked
    <2>6. \A i \in 1 .. Len(t) : m[FatOf(t[i])] # 0
      BY <1>2, <2>4
    <2>7. QED
      BY <2>3, <2>5, <2>6 DEF t
  <1>4. CASE ~(s # <<>> /\ ~Taken(m, s[n]))
    <2>1. t = s
      BY <1>4 DEF TakenChain
    <2>2. ASSUME NEW i \in 1 .. n
          PROVE  m[FatOf(s[i])] # 0
      <3>1. CASE i = n
        <4>1. s # <<>>
          <5> HIDE DEF s
          <5>1. QED
            BY <1>1, EmptySeq
        <4>2. QED
          BY <1>4, <3>1, <4>1 DEF Taken
      <3>2. CASE i # n
        <4>1. i + 1 <= n
          <5> HIDE DEF n
          <5>1. QED
            BY <1>1, <3>2
        <4>2. QED
          BY <1>2, <4>1
      <3>3. QED
        BY <3>1, <3>2
    <2> HIDE DEF s, n, t
    <2>3. QED
      BY <1>1, <2>1, <2>2 DEF t, n
  <1>5. QED
    BY <1>3, <1>4

\* No cluster comes twice in a chain without circles.
LEMMA ChainDistinct ==
  ASSUME NEW m, Acyclic([c \in Clusters |-> m[FatOf(c)]]), NEW s \in Seq(Clusters), Linked(m, s),
         NEW i \in 1 .. Len(s), NEW j \in 1 .. Len(s), i < j
  PROVE  s[i] # s[j]
  <1> DEFINE fat == [c \in Clusters |-> m[FatOf(c)]]
  <1>1. PICK rank \in [Clusters -> Nat] :
          \A c \in Clusters : fat[c] \in Clusters => rank[fat[c]] < rank[c]
    BY DEF Acyclic
  <1>2. \A k \in 1 .. Len(s) : s[k] \in Clusters /\ rank[s[k]] \in Nat
    BY <1>1, ElementOfSeq
  <1> DEFINE D == {k \in Nat : i + 1 + k <= Len(s) => rank[s[i + 1 + k]] < rank[s[i]]}
  <1>3. ASSUME NEW k \in 1 .. Len(s), k + 1 <= Len(s)
        PROVE  k + 1 \in 1 .. Len(s) /\ rank[s[k + 1]] < rank[s[k]]
    <2>1. Len(s) \in Nat
      BY LenProperties
    <2>2. k + 1 \in 1 .. Len(s)
      BY <1>3, <2>1
    <2>3. s[k + 1] = fat[s[k]] /\ s[k + 1] \in Clusters /\ s[k] \in Clusters
      BY <1>2, <1>3, <2>2 DEF Linked
    <2>4. QED
      BY <1>1, <2>2, <2>3
  <1>4. Len(s) \in Nat /\ i \in Nat /\ j \in Nat
    BY LenProperties
  <1>5. 0 \in D
    <2>1. i + 1 + 0 = i + 1
      BY <1>4
    <2>2. QED
      BY <1>3, <2>1
  <1>6. ASSUME NEW k \in Nat, k \in D
        PROVE  k + 1 \in D
    <2> SUFFICES ASSUME i + 1 + (k + 1) <= Len(s)
                 PROVE  rank[s[i + 1 + (k + 1)]] < rank[s[i]]
      OBVIOUS
    <2> DEFINE l == i + 1 + k
    <2>1. /\ l \in 1 .. Len(s) /\ l + 1 <= Len(s) /\ i + 1 + (k + 1) = l + 1
          /\ l + 1 \in 1 .. Len(s)
      BY <1>4
    <2>2. rank[s[l]] < rank[s[i]]
      BY <1>4, <1>6, <2>1
    <2> HIDE DEF l
    <2>3. rank[s[l + 1]] < rank[s[l]]
      BY <1>3, <2>1
    <2>4. rank[s[l]] \in Nat /\ rank[s[i]] \in Nat /\ rank[s[l + 1]] \in Nat
      BY <1>2, <2>1
    <2>5. rank[s[l + 1]] < rank[s[i]]
      BY <2>2, <2>3, <2>4
    <2>6. QED
      BY <2>1, <2>5
  <1>7. j - (i + 1) \in D
    <2>1. Nat \subseteq D
      <3> HIDE DEF D
      <3>1. QED
        BY <1>5, <1>6, Induction
    <2>2. j - (i + 1) \in Nat
      BY <1>4
    <2>3. QED
      BY <2>1, <2>2
  <1>8. rank[s[j]] < rank[s[i]]
    <2>1. i + 1 + (j - (i + 1)) = j
      BY <1>4
    <2>2. QED
      BY <1>7, <2>1
  <1>9. rank[s[i]] \in Nat
    BY <1>2
  <1>10. QED
    BY <1>8, <1>9
-----------------------------------------------------------------------------
\* An entry of the FAT is changed.
LEMMA PutAllowed ==
  ASSUME NEW s, NEW b, s.access = "put"
  PROVE  Allowed(s, b)
  BY DEF Allowed

LEMMA PutEffect ==
  ASSUME NEW x \in Clusters, NEW s, NEW b, s.access = "put", s.cell = FatOf(x)
  PROVE  Effect(s, b) =
           Book(WithEntry(b.fat, x, s.val), CountAfter(s, b.count), FpAfter(s, b.fp), FALSE)
  <1>1. \A c : FatOf(c) = FatOf(x) <=> c = x
    BY CellsApart
  <1>2. FatAfter(s, b.fat) = WithEntry(b.fat, x, s.val)
    BY <1>1 DEF FatAfter, WithEntry
  <1>3. QED
    BY <1>2 DEF Effect

\* A turn of the loop of remove_chain(): one more cluster is free, and counted.
OneMore(count) == IF count >= Count THEN count ELSE count + 1

LEMMA FreedOne ==
  ASSUME fs.free_clst \in Nat
  PROVE  Freed(0) = fs.free_clst /\ \A i \in Nat \ {0} : Freed(i) = OneMore(Freed(i - 1))
  <1> DEFINE n == fs.free_clst
             m == Count
  <1>1. n \in Nat /\ m \in Nat
    BY ClusterTypes
  <1>2. \A i \in Nat : Freed(i) = IF n > m THEN n ELSE IF n + i > m THEN m ELSE n + i
    BY DEF Freed
  <1>3. \A i : OneMore(i) = IF i >= m THEN i ELSE i + 1
    BY DEF OneMore
  <1> HIDE DEF n, m
  <1>4. Freed(0) = n
    BY <1>1, <1>2
  <1>5. ASSUME NEW i \in Nat \ {0}
        PROVE  Freed(i) = OneMore(Freed(i - 1))
    <2>1. i \in Nat /\ i - 1 \in Nat
      OBVIOUS
    <2>2. /\ Freed(i) = IF n > m THEN n ELSE IF n + i > m THEN m ELSE n + i
          /\ Freed(i - 1) = IF n > m THEN n ELSE IF n + (i - 1) > m THEN m ELSE n + (i - 1)
      BY <1>2, <2>1
    <2>3. QED
      BY <1>1, <1>3, <2>1, <2>2
  <1>6. QED
    BY <1>4, <1>5 DEF n

LEMMA EffectOfFreeing ==
  ASSUME NEW x \in Clusters, NEW b, NEW ok, Proper(b, ok),
         ok => Exact(b) /\ b.fp.clust = 0 /\ b.fat[x] # 0,
         NEW e, e = Book(WithEntry(b.fat, x, 0), OneMore(b.count), b.fp, FALSE)
  PROVE  Proper(e, ok) /\ (ok => Exact(e))
  <1> DEFINE fat == WithEntry(b.fat, x, 0)
             n == FreeCount(b.fat)
  <1>1. /\ b.count \in Nat /\ (b.count <= Count => n <= b.count)
        /\ "clust" \in DOMAIN b.fp /\ b.fp.clust \in Clusters \cup {0}
        /\ ok => Acyclic(b.fat)
    BY DEF Proper, Sound, Tidy
  <1>2. n \in 0 .. Count /\ FreeCount(fat) \in 0 .. Count
    BY FreeFinite
  <1>3. FreeCount(fat) = IF b.fat[x] = 0 THEN n ELSE n + 1
    BY EntryFreed
  <1>4. /\ OneMore(b.count) \in Nat
        /\ OneMore(b.count) <= Count => FreeCount(fat) <= OneMore(b.count)
    <2> HIDE DEF fat, n
    <2>1. QED
      BY <1>1, <1>2, <1>3, ClusterTypes DEF OneMore
  <1>5. ok => (OneMore(b.count) <= Count => FreeCount(fat) = OneMore(b.count))
    <2>1. ok => b.fat[x] # 0 /\ (b.count <= Count => n = b.count)
      BY DEF Exact
    <2> HIDE DEF fat, n
    <2>2. QED
      BY <1>1, <1>2, <1>3, <2>1, ClusterTypes DEF OneMore
  <1>6. ok => Acyclic(fat)
    BY <1>1, CutAcyclic, ClusterTypes
  <1>7. fat = [c \in Clusters |-> fat[c]]
    BY DEF WithEntry
  <1>8. Proper(e, ok)
    <2> HIDE DEF fat
    <2>1. e = Book(fat, OneMore(b.count), b.fp, FALSE)
      BY DEF fat
    <2>2. e.fat = fat /\ e.fp = b.fp
      BY <2>1 DEF Book
    <2>3. Sound(e)
      <3>1. e = Book(e.fat, e.count, e.fp, e.clean) /\ e.count = OneMore(b.count)
        BY <2>1 DEF Book
      <3>2. QED
        BY <1>1, <1>4, <1>7, <2>2, <3>1 DEF Sound, IsBook
    <2>4. ok => Tidy(e)
      BY <1>6, <2>2 DEF Tidy
    <2>5. QED
      BY <2>3, <2>4 DEF Proper
  <1>9. ok => Exact(e)
    <2>1. e.fat = fat /\ e.count = OneMore(b.count)
      BY DEF Book
    <2> HIDE DEF fat
    <2>2. QED
      BY <1>5, <2>1 DEF Exact
  <1>10. QED
    BY <1>8, <1>9

\* A book says of the FAT and the count what they are, when a function begins.
Current(b) ==
  b.fat = [c \in Clusters |-> view[FatOf(c)]] /\ b.count = fs.free_clst /\ b.clean = FALSE

\* What remove_chain() comes to.
Removed(b, ok, e) == Proper(e, ok) /\ (ok => Exact(e)) /\ e.clean = FALSE /\ e.fp = b.fp

\* remove_chain(), whatever it is given: what it frees it counts.
LEMMA LeadsRemove ==
  ASSUME NEW c, NEW ok, NEW b, Current(b), Proper(b, ok),
         ok => Exact(b) /\ b.fp.clust = 0
  PROVE  \E e : Leads(RemoveChain(c), b, ok, e) /\ Removed(b, ok, e)
  <1> DEFINE s == TakenChain(view, c)
             n == Len(s)
             t == RemoveChain(c)
             fat(i) == [x \in Clusters |-> IF \E j \in 1 .. i : s[j] = x THEN 0 ELSE b.fat[x]]
             P == [i \in 0 .. n |-> Book(fat(i), Freed(i), b.fp, FALSE)]
  <1>1. /\ s \in Seq(Clusters) /\ Linked(view, s)
        /\ \A i \in 1 .. n : view[FatOf(s[i])] # 0
    BY TakenChainLinked
  <1>2. n \in Nat /\ \A i \in 1 .. n : s[i] \in Clusters
    <2> HIDE DEF s
    <2>1. QED
      BY <1>1, LenProperties, ElementOfSeq
  <1>3. /\ b.fat = [x \in Clusters |-> view[FatOf(x)]]
        /\ b.count = fs.free_clst /\ b.clean = FALSE
    BY DEF Current
  <1>4. b.count \in Nat /\ b = Book(b.fat, b.count, b.fp, FALSE)
    BY <1>3 DEF Proper, Sound, IsBook
  <1>5. /\ t = [i \in 1 .. n |-> PutCell(FatOf(s[i]), 0, Noted(i))]
        /\ Plan(t) /\ Len(t) = n
    <2> DEFINE u == [i \in 1 .. n |-> PutCell(FatOf(s[i]), 0, Noted(i))]
    <2>1. t = u
      BY DEF RemoveChain
    <2>2. u = [i \in 1 .. n |-> u[i]]
      OBVIOUS
    <2> HIDE DEF u, n, t
    <2>3. Plan(u) /\ Len(u) = n
      BY <1>2, <2>2, FunctionPlan
    <2>4. QED
      BY <2>1, <2>3 DEF u
  <1>6. Freed(0) = b.count /\ \A i \in 1 .. n : Freed(i) = OneMore(Freed(i - 1))
    <2>1. fs.free_clst \in Nat /\ fs.free_clst = b.count
      BY <1>3, <1>4
    <2>2. Freed(0) = fs.free_clst /\ \A i \in Nat \ {0} : Freed(i) = OneMore(Freed(i - 1))
      BY <2>1, FreedOne
    <2>3. \A i \in 1 .. n : i \in Nat \ {0}
      BY <1>2
    <2> HIDE DEF n
    <2>4. QED
      BY <2>1, <2>2, <2>3
  <1>7. ASSUME NEW i \in 1 .. n
        PROVE  fat(i) = WithEntry(fat(i - 1), s[i], 0)
    <2>1. ASSUME NEW x
          PROVE  (\E j \in 1 .. i : s[j] = x) <=> (\E j \in 1 .. i - 1 : s[j] = x) \/ s[i] = x
      <3>1. \A j \in 1 .. i : j = i \/ j \in 1 .. i - 1
        BY <1>2
      <3>2. i \in 1 .. i /\ \A j \in 1 .. i - 1 : j \in 1 .. i
        BY <1>2
      <3> HIDE DEF s
      <3>3. QED
        BY <3>1, <3>2
    <2> DEFINE A == [x \in Clusters |-> IF \E j \in 1 .. i : s[j] = x THEN 0 ELSE b.fat[x]]
               B == [x \in Clusters |-> IF \E j \in 1 .. i - 1 : s[j] = x THEN 0 ELSE b.fat[x]]
    <2>2. ASSUME NEW x \in Clusters
          PROVE  A[x] = IF x = s[i] THEN 0 ELSE B[x]
      <3> HIDE DEF s
      <3>1. CASE \E j \in 1 .. i : s[j] = x
        BY <2>1, <3>1
      <3>2. CASE ~(\E j \in 1 .. i : s[j] = x)
        BY <2>1, <3>2
      <3>3. QED
        BY <3>1, <3>2
    <2>3. A = [x \in Clusters |-> A[x]]
      OBVIOUS
    <2> HIDE DEF A, B, s
    <2>4. A = WithEntry(B, s[i], 0)
      BY <2>2, <2>3 DEF WithEntry
    <2>5. QED
      BY <2>4 DEF A, B
  <1>8. ASSUME ok, NEW i \in 1 .. n
        PROVE  fat(i - 1)[s[i]] # 0
    <2>1. Acyclic([x \in Clusters |-> view[FatOf(x)]])
      BY <1>3, <1>8 DEF Proper, Tidy
    <2>2. \A j \in 1 .. i - 1 : s[j] # s[i]
      <3>1. \A j \in 1 .. i - 1 : j \in 1 .. n /\ j < i
        BY <1>2
      <3> HIDE DEF s
      <3>2. QED
        BY <1>1, <2>1, <3>1, ChainDistinct
    <2>3. b.fat[s[i]] # 0
      BY <1>1, <1>2, <1>3
    <2>4. s[i] \in Clusters
      BY <1>2
    <2> HIDE DEF s
    <2>5. QED
      BY <2>2, <2>3, <2>4
  <1>9. P[0] = b
    <2>1. fat(0) = b.fat
      <3>1. \A j \in 1 .. 0 : FALSE
        OBVIOUS
      <3>2. fat(0) = [x \in Clusters |-> b.fat[x]]
        BY <3>1
      <3>3. QED
        BY <1>3, <3>2
    <2>2. 0 \in 0 .. n
      BY <1>2
    <2>3. P[0] = Book(fat(0), Freed(0), b.fp, FALSE)
      BY <2>2
    <2>4. QED
      BY <1>4, <1>6, <2>1, <2>3
  <1>10. \A i \in 0 .. n : P[i] = Book(fat(i), Freed(i), b.fp, FALSE)
    OBVIOUS
  <1>11. ASSUME NEW i \in 1 .. n
         PROVE  Allowed(t[i], P[i - 1]) /\ P[i] = Effect(t[i], P[i - 1])
    <2> DEFINE a == t[i]
               p == P[i - 1]
               f == fat(i - 1)
    <2>1. a = PutCell(FatOf(s[i]), 0, Noted(i))
      BY <1>5
    <2>2. i - 1 \in 0 .. n /\ i \in 0 .. n
      BY <1>2
    <2>3. p = Book(f, Freed(i - 1), b.fp, FALSE)
      BY <1>10, <2>2
    <2>4. P[i] = Book(WithEntry(f, s[i], 0), Freed(i), b.fp, FALSE)
      BY <1>7, <1>10, <2>2
    <2> HIDE DEF f, p, P
    <2>5. p.fat = f /\ p.fp = b.fp
      BY <2>3 DEF Book
    <2>6. /\ a.access = "put" /\ a.cell = FatOf(s[i]) /\ a.val = 0
          /\ a.change.free_clst = Freed(i)
          /\ "free_clst" \in DOMAIN a.change /\ "fp" \notin DOMAIN a.change
      BY <2>1 DEF PutCell, Do, Noted
    <2>7. s[i] \in Clusters
      BY <1>2
    <2> HIDE DEF a, s
    <2>8. /\ Allowed(a, p)
          /\ Effect(a, p) =
               Book(WithEntry(p.fat, s[i], 0), CountAfter(a, p.count), FpAfter(a, p.fp), FALSE)
      <3> DEFINE x == s[i]
      <3>1. x \in Clusters /\ a.access = "put" /\ a.cell = FatOf(x) /\ a.val = 0
        BY <2>6, <2>7
      <3> HIDE DEF x
      <3>2. Effect(a, p) =
              Book(WithEntry(p.fat, x, a.val), CountAfter(a, p.count), FpAfter(a, p.fp), FALSE)
        BY <3>1, PutEffect
      <3>3. Allowed(a, p)
        BY <3>1, PutAllowed
      <3>4. QED
        BY <3>1, <3>2, <3>3 DEF x
    <2>9. CountAfter(a, p.count) = Freed(i) /\ FpAfter(a, p.fp) = b.fp
      BY <2>5, <2>6 DEF CountAfter, FpAfter
    <2>10. QED
      BY <2>4, <2>5, <2>8, <2>9 DEF a, p
  <1> DEFINE D == {i \in Nat : i <= n => Proper(P[i], ok) /\ (ok => Exact(P[i]))}
  <1>12. 0 \in D
    BY <1>9
  <1>13. ASSUME NEW i \in Nat, i \in D
         PROVE  i + 1 \in D
    <2> HIDE DEF P, n
    <2> SUFFICES ASSUME i + 1 <= n
                 PROVE  Proper(P[i + 1], ok) /\ (ok => Exact(P[i + 1]))
      OBVIOUS
    <2>1. i + 1 \in 1 .. n /\ (i + 1) - 1 = i /\ i \in 0 .. n /\ i + 1 \in 0 .. n
      BY <1>2
    <2> DEFINE p == P[i]
               q == P[i + 1]
               x == s[i + 1]
               f == fat(i)
    <2>2. Proper(p, ok) /\ (ok => Exact(p))
      BY <1>13, <2>1
    <2>3. p = Book(f, Freed(i), b.fp, FALSE)
      BY <1>10, <2>1
    <2>4. q = Book(WithEntry(f, x, 0), OneMore(Freed(i)), b.fp, FALSE)
      <3> HIDE DEF P, fat, s
      <3>1. fat(i + 1) = WithEntry(fat(i), s[i + 1], 0)
        BY <1>7, <2>1
      <3>2. Freed(i + 1) = OneMore(Freed(i))
        BY <1>6, <2>1
      <3>3. P[i + 1] = Book(fat(i + 1), Freed(i + 1), b.fp, FALSE)
        BY <1>10, <2>1
      <3>4. QED
        BY <3>1, <3>2, <3>3
    <2>5. x \in Clusters
      BY <1>2, <2>1
    <2>6. ok => f[x] # 0
      BY <1>8, <2>1
    <2> HIDE DEF p, q, x, f, P
    <2>7. p.fat = f /\ p.count = Freed(i) /\ p.fp = b.fp
      BY <2>3 DEF Book
    <2>8. Proper(q, ok) /\ (ok => Exact(q))
      BY <2>2, <2>4, <2>5, <2>6, <2>7, EffectOfFreeing
    <2>9. QED
      BY <2>8 DEF q
  <1>14. \A i \in 0 .. n : Proper(P[i], ok) /\ (ok => Exact(P[i]))
    <2>1. Nat \subseteq D
      <3> HIDE DEF D
      <3>1. QED
        BY <1>12, <1>13, Induction
    <2>2. \A i \in 0 .. n : i \in Nat /\ i <= n
      BY <1>2
    <2> HIDE DEF P, n
    <2>3. QED
      BY <2>1, <2>2
  <1>15. P[n].clean = FALSE /\ P[n].fp = b.fp /\ n \in 0 .. n
    <2>1. n \in 0 .. n
      BY <1>2
    <2>2. QED
      BY <1>10, <2>1 DEF Book
  <1> HIDE DEF P, n, t
  <1>16. Leads(t, b, ok, P[n])
    BY <1>5, <1>9, <1>11, <1>14, Zenon DEF Leads
  <1>17. QED
    BY <1>14, <1>15, <1>16 DEF t, Removed
-----------------------------------------------------------------------------
LEMMA RoundClusters ==
  ASSUME NEW s \in {1} \cup Clusters
  PROVE  Round(s) \in Seq(Clusters)
  <1> DEFINE t == Round(s)
  <1>1. ASSUME NEW i \in 1 .. Count
        PROVE  2 + ((s - 2 + i) % Count) \in Clusters
    <2>1. s \in Nat \ {0} /\ Count \in Nat \ {0} /\ Clusters = 2 .. Count + 1
      BY ClusterTypes
    <2> DEFINE a == s - 2 + i
               r == a % Count
    <2>2. a \in Nat
      BY <2>1
    <2> HIDE DEF a
    <2>3. r \in 0 .. Count - 1
      BY <2>1, <2>2, Parts
    <2> HIDE DEF r
    <2>4. 2 + r \in 2 .. Count + 1
      BY <2>1, <2>3
    <2>5. QED
      BY <2>1, <2>4 DEF r, a
  <1>2. Count \in Nat
    BY ClusterTypes
  <1>3. t \in [1 .. Count -> Clusters]
    <2> DEFINE f(i) == 2 + ((s - 2 + i) % Count)
    <2>1. \A i \in 1 .. Count : f(i) \in Clusters
      BY <1>1
    <2>2. t = [i \in 1 .. Count |-> f(i)]
      BY DEF Round
    <2> HIDE DEF f, t
    <2>3. QED
      BY <2>1, <2>2
  <1> HIDE DEF t
  <1>4. t \in Seq(Clusters)
    BY <1>2, <1>3
  <1>5. QED
    BY <1>4 DEF t

LEMMA TriedClusters ==
  ASSUME NEW clst \in Clusters \cup {0}
  PROVE  Tried(clst) \in Seq(Clusters)
  <1>1. CASE clst = 0
    <2>1. Tried(clst) = Round(IF fs.last_clst \in Clusters THEN fs.last_clst ELSE 1)
      BY <1>1 DEF Tried
    <2>2. (IF fs.last_clst \in Clusters THEN fs.last_clst ELSE 1) \in {1} \cup Clusters
      OBVIOUS
    <2>3. QED
      BY <2>1, <2>2, RoundClusters
  <1>2. CASE clst # 0
    <2> DEFINE x == Round(clst)[1]
               y == IF fs.last_clst \in Clusters THEN fs.last_clst ELSE clst
    <2>1. Tried(clst) = <<x>> \o Round(y)
      BY <1>2 DEF Tried
    <2>2. clst \in {1} \cup Clusters /\ y \in {1} \cup Clusters
      BY <1>2
    <2>3. x \in Clusters
      <3>1. 1 \in 1 .. Count
        BY ClusterTypes
      <3>2. x = 2 + ((clst - 2 + 1) % Count)
        BY <3>1 DEF Round
      <3>3. clst \in Nat \ {0, 1} /\ Count \in Nat \ {0} /\ Clusters = 2 .. Count + 1
        BY <1>2, ClusterTypes
      <3> DEFINE a == clst - 2 + 1
      <3>4. a \in Nat
        BY <3>3
      <3> HIDE DEF a
      <3>5. a % Count \in 0 .. Count - 1
        BY <3>3, <3>4, Parts
      <3>6. 2 + (a % Count) \in 2 .. Count + 1
        BY <3>3, <3>5
      <3>7. QED
        BY <3>2, <3>3, <3>6 DEF a
    <2> HIDE DEF x, y
    <2>4. Round(y) \in Seq(Clusters)
      BY <2>2, RoundClusters
    <2>5. <<x>> \in Seq(Clusters)
      BY <2>3
    <2>6. QED
      BY <2>1, <2>4, <2>5
  <1>3. QED
    BY <1>1, <1>2

LEMMA PassedWithin ==
  ASSUME NEW clst \in Clusters \cup {0}
  PROVE  /\ Passed(clst) \in Nat
         /\ fs.free_clst # 0 /\ Passed(clst) # Len(Tried(clst)) =>
              /\ Passed(clst) + 1 \in 1 .. Len(Tried(clst))
              /\ ~Taken(view, Tried(clst)[Passed(clst) + 1])
  <1> DEFINE tried == Tried(clst)
             free == {i \in 1 .. Len(tried) : ~Taken(view, tried[i])}
             least == CHOOSE i \in free : \A j \in free : i <= j
  <1>1. Len(tried) \in Nat
    BY TriedClusters, LenProperties
  <1>2. free \subseteq Nat /\ \A i \in free : i \in 1 .. Len(tried) /\ ~Taken(view, tried[i])
    BY <1>1
  <1>3. Passed(clst) = IF fs.free_clst = 0 THEN 0 ELSE IF free = {} THEN Len(tried) ELSE least - 1
    BY DEF Passed
  <1> HIDE DEF tried, free
  <1>4. free # {} => least \in free
    <2>1. free # {} => \E i \in free : \A j \in free : i <= j
      BY <1>2, SmallestExists
    <2> HIDE DEF least
    <2>2. QED
      BY <2>1, Zenon DEF least
  <1> HIDE DEF least
  <1>5. Passed(clst) \in Nat
    <2>1. CASE fs.free_clst = 0 \/ free = {}
      BY <1>1, <1>3, <2>1
    <2>2. CASE fs.free_clst # 0 /\ free # {}
      <3>1. Passed(clst) = least - 1
        BY <1>3, <2>2
      <3>2. least \in 1 .. Len(tried)
        BY <1>2, <1>4, <2>2
      <3>3. QED
        BY <1>1, <3>1, <3>2
    <2>3. QED
      BY <2>1, <2>2
  <1>6. ASSUME fs.free_clst # 0, Passed(clst) # Len(tried)
        PROVE  Passed(clst) + 1 \in 1 .. Len(tried) /\ ~Taken(view, tried[Passed(clst) + 1])
    <2>1. least \in free /\ Passed(clst) = least - 1
      BY <1>3, <1>4, <1>6
    <2>2. Passed(clst) + 1 = least
      BY <1>2, <2>1
    <2>3. QED
      BY <1>2, <2>1, <2>2
  <1>7. QED
    BY <1>5, <1>6 DEF tried

\* What create_chain() gets is a free cluster, and FatFs did not believe that there was none.
LEMMA NewClusterFree ==
  ASSUME NEW clst \in Clusters \cup {0}, NewCluster(clst) # 0
  PROVE  /\ NewCluster(clst) \in Clusters /\ ~Taken(view, NewCluster(clst))
         /\ fs.free_clst # 0
  <1> DEFINE tried == Tried(clst)
             k == Passed(clst) + 1
  <1>1. fs.free_clst # 0 /\ Passed(clst) # Len(tried) /\ NewCluster(clst) = tried[k]
    BY DEF NewCluster
  <1>2. k \in 1 .. Len(tried) /\ ~Taken(view, tried[k])
    BY <1>1, PassedWithin
  <1>3. tried \in Seq(Clusters)
    BY TriedClusters
  <1> HIDE DEF tried, k
  <1>4. tried[k] \in Clusters
    BY <1>2, <1>3, ElementOfSeq
  <1>5. QED
    BY <1>1, <1>2, <1>4

\* A cluster is taken, and counted.
OneLess(count) == IF count <= Count THEN count - 1 ELSE count

\* The book afterwards, before and after that is noted in the FATFS object.
BookTaken(b, x, n, fp) == Book(WithEntry(b.fat, x, EOC), n, fp, FALSE)

LEMMA EffectOfTaking ==
  ASSUME NEW x \in Clusters, NEW b, NEW ok, Proper(b, ok), b.fat[x] = 0,
         NEW n, n \in {b.count, OneLess(b.count)},
         NEW fp, "clust" \in DOMAIN fp, fp.clust \in {b.fp.clust, x}
  PROVE  /\ Proper(BookTaken(b, x, n, fp), ok)
         /\ FreeCount(BookTaken(b, x, n, fp).fat) = FreeCount(b.fat) - 1
         /\ FreeCount(b.fat) \in Nat
         /\ Exact(b) /\ n = OneLess(b.count) => Exact(BookTaken(b, x, n, fp))
  <1> DEFINE e == BookTaken(b, x, n, fp)
             fat == WithEntry(b.fat, x, EOC)
             m == FreeCount(b.fat)
  <1>1. /\ b.count \in Nat /\ (b.count <= Count => m <= b.count)
        /\ b.fp.clust \in Clusters \cup {0}
        /\ ok => Acyclic(b.fat) /\ (b.fp.clust # 0 => b.fat[b.fp.clust] # 0)
    BY DEF Proper, Sound, Tidy
  <1>2. m \in 0 .. Count /\ FreeCount(fat) \in 0 .. Count
    BY FreeFinite
  <1>3. FreeCount(fat) = m - 1
    BY EntryTaken, ClusterTypes
  <1>4. n \in Nat /\ (n <= Count => FreeCount(fat) <= n)
    <2> HIDE DEF fat, m
    <2>1. n = b.count \/ n = IF b.count <= Count THEN b.count - 1 ELSE b.count
      BY DEF OneLess
    <2>2. QED
      BY <1>1, <1>2, <1>3, <2>1, ClusterTypes
  <1>5. Exact(b) /\ n = OneLess(b.count) => (n <= Count => FreeCount(fat) = n)
    <2>1. Exact(b) => (b.count <= Count => m = b.count)
      BY DEF Exact
    <2> HIDE DEF fat, m
    <2>2. QED
      BY <1>1, <1>2, <1>3, <2>1, ClusterTypes DEF OneLess
  <1>6. ok => Acyclic(fat)
    BY <1>1, CutAcyclic, ClusterTypes
  <1>7. /\ fat = [c \in Clusters |-> fat[c]]
        /\ \A c \in Clusters : fat[c] = IF c = x THEN EOC ELSE b.fat[c]
    BY DEF WithEntry
  <1>8. /\ e.fat = fat /\ e.count = n /\ e.fp = fp /\ e.clean = FALSE
        /\ e = Book(e.fat, e.count, e.fp, e.clean)
    BY DEF Book, BookTaken
  <1> HIDE DEF e, fat, m
  <1>9. Sound(e)
    <2>1. e = Book(e.fat, e.count, e.fp, e.clean)
      BY <1>8
    <2>2. QED
      BY <1>1, <1>4, <1>7, <1>8, <2>1 DEF Sound, IsBook
  <1>10. ok => (fp.clust # 0 => fat[fp.clust] # 0)
    BY <1>1, <1>7, ClusterTypes
  <1>11. ok => Tidy(e)
    BY <1>6, <1>8, <1>10 DEF Tidy
  <1>12. Proper(e, ok)
    BY <1>9, <1>11 DEF Proper
  <1>13. FreeCount(e.fat) = FreeCount(b.fat) - 1 /\ FreeCount(b.fat) \in Nat
    <2>1. FreeCount(e.fat) = FreeCount(fat)
      BY <1>8
    <2> HIDE DEF fat
    <2>2. m \in Nat
      BY <1>2, ClusterTypes
    <2>3. QED
      BY <1>3, <2>1, <2>2 DEF m
  <1>14. Exact(b) /\ n = OneLess(b.count) => Exact(e)
    BY <1>5, <1>8 DEF Exact
  <1>15. QED
    BY <1>12, <1>13, <1>14 DEF e

\* The cluster is linked to the end of a chain, and counted.
BookLinked(b, x, y, fp) == Book(WithEntry(b.fat, x, y), OneLess(b.count), fp, FALSE)

LEMMA EffectOfLinking ==
  ASSUME NEW x \in Clusters, NEW y \in Clusters, NEW b, NEW ok, Proper(b, ok),
         b.count <= Count => FreeCount(b.fat) + 1 <= b.count,
         ok => /\ b.fat[x] # 0 /\ b.fat[y] = EOC /\ x # y
               /\ b.count <= Count => FreeCount(b.fat) + 1 = b.count,
         b.count # 0,
         NEW fp, "clust" \in DOMAIN fp, fp.clust \in {b.fp.clust, y}
  PROVE  /\ Proper(BookLinked(b, x, y, fp), ok)
         /\ ok => Exact(BookLinked(b, x, y, fp)) /\ BookLinked(b, x, y, fp).fat[y] = EOC
  <1> DEFINE e == BookLinked(b, x, y, fp)
             fat == WithEntry(b.fat, x, y)
             m == FreeCount(b.fat)
             n == OneLess(b.count)
  <1>1. /\ b.count \in Nat
        /\ b.fp.clust \in Clusters \cup {0}
        /\ ok => Acyclic(b.fat) /\ (b.fp.clust # 0 => b.fat[b.fp.clust] # 0)
    BY DEF Proper, Sound, Tidy
  <1>2. m \in 0 .. Count /\ FreeCount(fat) \in 0 .. Count
    BY FreeFinite
  <1>3. y # 0
    BY ClusterTypes
  <1>4. FreeCount(fat) = IF b.fat[x] = 0 THEN m - 1 ELSE m
    BY <1>3, EntryTaken
  <1>5. n \in Nat /\ (n <= Count => FreeCount(fat) <= n)
    <2>1. b.count <= Count => m + 1 <= b.count
      OBVIOUS
    <2>2. n = IF b.count <= Count THEN b.count - 1 ELSE b.count
      BY DEF OneLess
    <2> HIDE DEF fat, m, n
    <2>3. QED
      BY <1>1, <1>2, <1>4, <2>1, <2>2, ClusterTypes
  <1>6. ok => (n <= Count => FreeCount(fat) = n)
    <2>1. ok => b.fat[x] # 0 /\ (b.count <= Count => m + 1 = b.count)
      OBVIOUS
    <2>2. n = IF b.count <= Count THEN b.count - 1 ELSE b.count
      BY DEF OneLess
    <2> HIDE DEF fat, m, n
    <2>3. QED
      BY <1>1, <1>2, <1>4, <2>1, <2>2, ClusterTypes
  <1>7. ok => Acyclic(fat)
    <2>1. ok => Acyclic(b.fat) /\ x # y /\ b.fat[y] \notin Clusters
      BY <1>1, ClusterTypes
    <2>2. QED
      BY <2>1, LinkAcyclic
  <1>8. /\ fat = [c \in Clusters |-> fat[c]]
        /\ \A c \in Clusters : fat[c] = IF c = x THEN y ELSE b.fat[c]
    BY DEF WithEntry
  <1>9. /\ e.fat = fat /\ e.count = n /\ e.fp = fp /\ e.clean = FALSE
        /\ e = Book(e.fat, e.count, e.fp, e.clean)
    BY DEF Book, BookLinked
  <1>10. ok => x # y /\ b.fat[y] = EOC
    OBVIOUS
  <1> HIDE DEF e, fat, m, n
  <1>11. Sound(e)
    <2>1. e = Book(e.fat, e.count, e.fp, e.clean)
      BY <1>9
    <2>2. fp.clust \in Clusters \cup {0}
      BY <1>1
    <2>3. QED
      BY <1>5, <1>8, <1>9, <2>1, <2>2 DEF Sound, IsBook
  <1>12. ok => (fp.clust # 0 => fat[fp.clust] # 0)
    BY <1>1, <1>3, <1>8, <1>10, ClusterTypes
  <1>13. ok => Tidy(e)
    BY <1>7, <1>9, <1>12 DEF Tidy
  <1>14. Proper(e, ok)
    BY <1>11, <1>13 DEF Proper
  <1>15. ok => Exact(e) /\ e.fat[y] = EOC
    BY <1>6, <1>8, <1>9, <1>10 DEF Exact
  <1>16. QED
    BY <1>14, <1>15 DEF e
-----------------------------------------------------------------------------
\* An access that the books take no notice of.
Neutral(s) == Plain(s) /\ "fp" \notin DOMAIN s.change

LEMMA LeadsNeutral ==
  ASSUME NEW t, Plan(t), NEW b, NEW ok, Proper(b, ok), b.clean = FALSE,
         \A i \in 1 .. Len(t) : Neutral(t[i])
  PROVE  Leads(t, b, ok, b)
  BY LeadsNowhere DEF Neutral

LEMMA LeadsNeutralOne ==
  ASSUME NEW s, Neutral(s), NEW b, NEW ok, Proper(b, ok), b.clean = FALSE
  PROVE  Leads(<<s>>, b, ok, b)
  <1> DEFINE t == <<s>>
  <1>1. Plan(t) /\ Len(t) = 1 /\ t[1] = s
    BY OnePlan
  <1> HIDE DEF t
  <1>2. \A i \in 1 .. Len(t) : Neutral(t[i])
    BY <1>1
  <1>3. Leads(t, b, ok, b)
    BY <1>1, <1>2, LeadsNeutral
  <1>4. QED
    BY <1>3 DEF t

LEMMA LeadsNeutralTwo ==
  ASSUME NEW r, NEW s, Neutral(r), Neutral(s), NEW b, NEW ok, Proper(b, ok), b.clean = FALSE
  PROVE  Leads(<<r, s>>, b, ok, b)
  <1> DEFINE t == <<r, s>>
  <1>1. t \in Seq({r, s}) /\ Len(t) = 2 /\ t[1] = r /\ t[2] = s
    OBVIOUS
  <1> HIDE DEF t
  <1>2. Plan(t)
    BY <1>1 DEF Plan
  <1>3. \A i \in 1 .. Len(t) : Neutral(t[i])
    BY <1>1
  <1>4. Leads(t, b, ok, b)
    BY <1>2, <1>3, LeadsNeutral
  <1>5. QED
    BY <1>4 DEF t

LEMMA LeadsNeutralThree ==
  ASSUME NEW q, NEW r, NEW s, Neutral(q), Neutral(r), Neutral(s),
         NEW b, NEW ok, Proper(b, ok), b.clean = FALSE
  PROVE  Leads(<<q, r, s>>, b, ok, b)
  <1> DEFINE t == <<q, r, s>>
  <1>1. t \in Seq({q, r, s}) /\ Len(t) = 3 /\ t[1] = q /\ t[2] = r /\ t[3] = s
    OBVIOUS
  <1> HIDE DEF t
  <1>2. Plan(t)
    BY <1>1 DEF Plan
  <1>3. \A i \in 1 .. Len(t) : Neutral(t[i])
    BY <1>1
  <1>4. Leads(t, b, ok, b)
    BY <1>2, <1>3, LeadsNeutral
  <1>5. QED
    BY <1>4 DEF t

LEMMA LeadsNeutralFour ==
  ASSUME NEW p, NEW q, NEW r, NEW s, Neutral(p), Neutral(q), Neutral(r), Neutral(s),
         NEW b, NEW ok, Proper(b, ok), b.clean = FALSE
  PROVE  Leads(<<p, q, r, s>>, b, ok, b)
  <1> DEFINE t == <<p, q, r, s>>
  <1>1. t \in Seq({p, q, r, s}) /\ Len(t) = 4 /\ t[1] = p /\ t[2] = q /\ t[3] = r /\ t[4] = s
    OBVIOUS
  <1> HIDE DEF t
  <1>2. Plan(t)
    BY <1>1 DEF Plan
  <1>3. \A i \in 1 .. Len(t) : Neutral(t[i])
    BY <1>1
  <1>4. Leads(t, b, ok, b)
    BY <1>2, <1>3, LeadsNeutral
  <1>5. QED
    BY <1>4 DEF t

\* Which accesses are neutral.
Bookless(change) == "free_clst" \notin DOMAIN change /\ "fp" \notin DOMAIN change

LEMMA LookNeutral ==
  ASSUME NEW c
  PROVE  Neutral(Look(c))
  BY DEF Neutral, Plain, Look, Do, Same

LEMMA DirNeutral ==
  ASSUME NEW n, NEW v, NEW change, Bookless(change)
  PROVE  Neutral(PutCell(DirOf(n), v, change))
  BY CellsApart DEF Neutral, Plain, PutCell, Do, Bookless

LEMMA DataNeutral ==
  ASSUME NEW c, NEW v, NEW change, Bookless(change), NEW a, a \in {"put", "write", "clear"}
  PROVE  Neutral(Do(a, DataOf(c), v, change))
  BY CellsApart DEF Neutral, Plain, Do, Bookless

LEMMA NoteNeutral ==
  ASSUME NEW change, Bookless(change)
  PROVE  Neutral(Note(change))
  BY DEF Neutral, Plain, Note, Do, Bookless

LEMMA Booklessness ==
  /\ Bookless(Same)
  /\ \A v : Bookless([last_clst |-> v]) /\ Bookless([dcl |-> v]) /\ Bookless([left |-> v])
  BY DEF Bookless, Same

\* FAT entries that are looked at, one after the other.
LEMMA LeadsLooking ==
  ASSUME NEW n \in Nat, NEW t, t = [i \in 1 .. n |-> t[i]], \A i \in 1 .. n : Neutral(t[i]),
         NEW b, NEW ok, Proper(b, ok), b.clean = FALSE
  PROVE  Leads(t, b, ok, b)
  <1>1. Plan(t) /\ Len(t) = n
    BY FunctionPlan
  <1>2. QED
    BY <1>1, LeadsNeutral
-----------------------------------------------------------------------------
\* What create_chain() has seen when it has found a cluster, or none.
LEMMA LeadsSearch ==
  ASSUME NEW clst \in Clusters \cup {0}, NEW b, NEW ok, Proper(b, ok), b.clean = FALSE
  PROVE  Leads((IF clst = 0 THEN <<>> ELSE <<Look(FatOf(clst))>>)
                 \o [i \in 1 .. Passed(clst) |-> Look(FatOf(Tried(clst)[i]))], b, ok, b)
  <1> DEFINE t == IF clst = 0 THEN <<>> ELSE <<Look(FatOf(clst))>>
             u == [i \in 1 .. Passed(clst) |-> Look(FatOf(Tried(clst)[i]))]
  <1>1. Leads(t, b, ok, b)
    <2>1. CASE clst = 0
      BY <2>1, LeadsEmpty
    <2>2. CASE clst # 0
      <3>1. Leads(<<Look(FatOf(clst))>>, b, ok, b)
        BY LookNeutral, LeadsNeutralOne
      <3>2. QED
        BY <2>2, <3>1
    <2>3. QED
      BY <2>1, <2>2
  <1>2. Leads(u, b, ok, b)
    <2>1. u = [i \in 1 .. Passed(clst) |-> u[i]]
      OBVIOUS
    <2>2. \A i \in 1 .. Passed(clst) : Neutral(u[i])
      BY LookNeutral
    <2>3. Passed(clst) \in Nat
      BY PassedWithin
    <2> HIDE DEF u
    <2>4. QED
      BY <2>1, <2>2, <2>3, LeadsLooking
  <1> HIDE DEF t, u
  <1>3. Leads(t \o u, b, ok, b)
    BY <1>1, <1>2, LeadsThen
  <1>4. QED
    BY <1>3 DEF t, u

\* What create_chain() leaves in the FATFS object.
LEMMA GotChange ==
  ASSUME NEW change, "free_clst" \notin DOMAIN change, NEW ncl, NEW got,
         got = Over(change, [last_clst |-> ncl, fsi_flag |-> TRUE,
                             free_clst |-> IF fs.free_clst <= Count THEN fs.free_clst - 1
                                                                    ELSE fs.free_clst])
  PROVE  /\ "free_clst" \in DOMAIN got /\ got.free_clst = OneLess(fs.free_clst)
         /\ "fp" \in DOMAIN got <=> "fp" \in DOMAIN change
         /\ "fp" \in DOMAIN change => got.fp = change.fp
  <1> DEFINE base == [last_clst |-> ncl, fsi_flag |-> TRUE,
                      free_clst |-> IF fs.free_clst <= Count THEN fs.free_clst - 1
                                                             ELSE fs.free_clst]
  <1>1. /\ DOMAIN base = {"last_clst", "fsi_flag", "free_clst"}
        /\ base.free_clst = OneLess(fs.free_clst)
    BY DEF OneLess
  <1>2. got = Over(change, base)
    OBVIOUS
  <1> HIDE DEF base
  <1>3. /\ DOMAIN got = DOMAIN change \cup DOMAIN base
        /\ \A x \in DOMAIN change \cup DOMAIN base :
             got[x] = IF x \in DOMAIN change THEN change[x] ELSE base[x]
    BY <1>2 DEF Over
  <1>4. QED
    BY <1>1, <1>3

\* What create_chain() comes to: a book of it, and the cluster that it got.
Created(b, ok, ncl, change, e) ==
  /\ Proper(e, ok) /\ (ok => Exact(e)) /\ e.clean = FALSE
  /\ ncl = 0 => e = b
  /\ ncl # 0 => /\ ok => e.fat[ncl] # 0
                /\ e.fp = IF "fp" \in DOMAIN change THEN change.fp ELSE b.fp

LEMMA LeadsFirst ==
  ASSUME NEW ncl \in Clusters, NEW change, "free_clst" \notin DOMAIN change,
         "fp" \in DOMAIN change => "clust" \in DOMAIN change.fp /\ change.fp.clust = ncl,
         NEW b, NEW ok, Current(b), Proper(b, ok), ok => Exact(b), ~Taken(view, ncl),
         NEW got, "free_clst" \in DOMAIN got, got.free_clst = OneLess(fs.free_clst),
         "fp" \in DOMAIN got <=> "fp" \in DOMAIN change,
         "fp" \in DOMAIN change => got.fp = change.fp
  PROVE  \E e : Leads(<<PutCell(FatOf(ncl), EOC, got)>>, b, ok, e) /\ Created(b, ok, ncl, change, e)
  <1> DEFINE s == PutCell(FatOf(ncl), EOC, got)
             fp == IF "fp" \in DOMAIN change THEN change.fp ELSE b.fp
             e == BookTaken(b, ncl, OneLess(b.count), fp)
  <1>1. s.access = "put" /\ s.cell = FatOf(ncl) /\ s.val = EOC /\ s.change = got
    BY DEF PutCell, Do
  <1>2. b.count = fs.free_clst /\ b.fat[ncl] = 0
    BY DEF Current, Taken
  <1>3. CountAfter(s, b.count) = OneLess(b.count) /\ FpAfter(s, b.fp) = fp
    BY <1>1, <1>2 DEF CountAfter, FpAfter
  <1> HIDE DEF s
  <1>4. Effect(s, b) = e /\ Allowed(s, b)
    <2>1. Effect(s, b) =
            Book(WithEntry(b.fat, ncl, s.val), CountAfter(s, b.count), FpAfter(s, b.fp), FALSE)
      BY <1>1, PutEffect
    <2>2. Allowed(s, b)
      BY <1>1, PutAllowed
    <2>3. QED
      BY <1>1, <1>3, <2>1, <2>2 DEF BookTaken
  <1>5. "clust" \in DOMAIN fp /\ fp.clust \in {b.fp.clust, ncl}
    BY DEF Proper, Sound
  <1>6. Proper(e, ok) /\ (Exact(b) => Exact(e))
    <2> HIDE DEF fp
    <2>1. OneLess(b.count) \in {b.count, OneLess(b.count)}
      OBVIOUS
    <2>2. QED
      BY <1>2, <1>5, <2>1, EffectOfTaking
  <1>7. e.clean = FALSE /\ e.fp = fp /\ e.fat[ncl] = EOC
    BY DEF Book, BookTaken, WithEntry
  <1> HIDE DEF e
  <1>8. Leads(<<s>>, b, ok, e)
    BY <1>4, <1>6, LeadsOne
  <1>9. Created(b, ok, ncl, change, e)
    BY <1>6, <1>7, ClusterTypes DEF Created
  <1>10. QED
    BY <1>8, <1>9 DEF s

LEMMA LeadsLinked ==
  ASSUME NEW ncl \in Clusters, NEW clst \in Clusters, NEW change, "free_clst" \notin DOMAIN change,
         "fp" \in DOMAIN change => "clust" \in DOMAIN change.fp /\ change.fp.clust = ncl,
         NEW b, NEW ok, Current(b), Proper(b, ok), ok => Exact(b) /\ b.fat[clst] # 0,
         ~Taken(view, ncl), fs.free_clst # 0,
         NEW got, "free_clst" \in DOMAIN got, got.free_clst = OneLess(fs.free_clst),
         "fp" \in DOMAIN got <=> "fp" \in DOMAIN change,
         "fp" \in DOMAIN change => got.fp = change.fp
  PROVE  \E e : /\ Leads(<<PutCell(FatOf(ncl), EOC, Same), PutCell(FatOf(clst), ncl, got)>>,
                         b, ok, e)
                /\ Created(b, ok, ncl, change, e)
  <1> DEFINE r == PutCell(FatOf(ncl), EOC, Same)
             s == PutCell(FatOf(clst), ncl, got)
             fp == IF "fp" \in DOMAIN change THEN change.fp ELSE b.fp
             mid == BookTaken(b, ncl, b.count, b.fp)
             e == BookLinked(mid, clst, ncl, fp)
  <1>1. /\ r.access = "put" /\ r.cell = FatOf(ncl) /\ r.val = EOC /\ r.change = Same
        /\ s.access = "put" /\ s.cell = FatOf(clst) /\ s.val = ncl /\ s.change = got
    BY DEF PutCell, Do
  <1>2. b.count = fs.free_clst /\ b.fat[ncl] = 0 /\ b.count # 0
    BY DEF Current, Taken
  <1>3. /\ mid.fat = WithEntry(b.fat, ncl, EOC) /\ mid.count = b.count /\ mid.fp = b.fp
        /\ mid.clean = FALSE
    BY DEF Book, BookTaken
  <1>4. /\ CountAfter(r, b.count) = b.count /\ FpAfter(r, b.fp) = b.fp
        /\ CountAfter(s, mid.count) = OneLess(mid.count) /\ FpAfter(s, mid.fp) = fp
    BY <1>1, <1>2, <1>3 DEF CountAfter, FpAfter, Same
  <1> HIDE DEF r, s
  <1>5. Effect(r, b) = mid /\ Allowed(r, b)
    <2>1. Effect(r, b) =
            Book(WithEntry(b.fat, ncl, r.val), CountAfter(r, b.count), FpAfter(r, b.fp), FALSE)
      BY <1>1, PutEffect
    <2>2. Allowed(r, b)
      BY <1>1, PutAllowed
    <2>3. QED
      BY <1>1, <1>4, <2>1, <2>2 DEF BookTaken
  <1>6. "clust" \in DOMAIN b.fp /\ "clust" \in DOMAIN fp /\ fp.clust \in {b.fp.clust, ncl}
    BY DEF Proper, Sound
  <1>7. Proper(mid, ok) /\ FreeCount(mid.fat) = FreeCount(b.fat) - 1 /\ FreeCount(b.fat) \in Nat
    <2>1. b.count \in {b.count, OneLess(b.count)} /\ b.fp.clust \in {b.fp.clust, ncl}
      OBVIOUS
    <2>2. QED
      BY <1>2, <1>6, <2>1, EffectOfTaking
  <1>8. /\ b.count \in Nat /\ (b.count <= Count => FreeCount(b.fat) <= b.count)
        /\ ok => (b.count <= Count => FreeCount(b.fat) = b.count)
    BY DEF Proper, Sound, Exact
  <1>9. /\ mid.count <= Count => FreeCount(mid.fat) + 1 <= mid.count
        /\ ok => (mid.count <= Count => FreeCount(mid.fat) + 1 = mid.count)
    <2> DEFINE m == FreeCount(b.fat)
               k == FreeCount(mid.fat)
    <2>1. k = m - 1 /\ m \in Nat
      BY <1>7
    <2>2. b.count \in Nat /\ (b.count <= Count => m <= b.count)
          /\ (ok => (b.count <= Count => m = b.count))
      BY <1>8
    <2>3. mid.count = b.count
      BY <1>3
    <2> HIDE DEF m, k, mid
    <2>4. k + 1 = m
      BY <2>1
    <2>5. QED
      BY <2>2, <2>3, <2>4 DEF k
  <1>10. \A c \in Clusters : mid.fat[c] = IF c = ncl THEN EOC ELSE b.fat[c]
    BY <1>3 DEF WithEntry
  <1>11. ok => mid.fat[clst] # 0 /\ mid.fat[ncl] = EOC /\ clst # ncl
    BY <1>2, <1>10, ClusterTypes
  <1> HIDE DEF mid
  <1>12. Effect(s, mid) = e /\ Allowed(s, mid)
    <2>1. Effect(s, mid) =
            Book(WithEntry(mid.fat, clst, s.val), CountAfter(s, mid.count),
                 FpAfter(s, mid.fp), FALSE)
      BY <1>1, PutEffect
    <2>2. Allowed(s, mid)
      BY <1>1, PutAllowed
    <2>3. QED
      BY <1>1, <1>4, <2>1, <2>2 DEF BookLinked
  <1>13. Proper(e, ok) /\ (ok => Exact(e) /\ e.fat[ncl] = EOC)
    <2>1. fp.clust \in {mid.fp.clust, ncl} /\ "clust" \in DOMAIN fp /\ mid.count # 0
      BY <1>2, <1>3, <1>6
    <2>2. ok => /\ mid.fat[clst] # 0 /\ mid.fat[ncl] = EOC /\ clst # ncl
                /\ mid.count <= Count => FreeCount(mid.fat) + 1 = mid.count
      BY <1>9, <1>11
    <2>3. mid.count <= Count => FreeCount(mid.fat) + 1 <= mid.count
      BY <1>9
    <2> HIDE DEF fp
    <2>4. QED
      BY <1>7, <2>1, <2>2, <2>3, EffectOfLinking
  <1>14. e.clean = FALSE /\ e.fp = fp
    BY DEF Book, BookLinked
  <1> HIDE DEF e
  <1>15. Leads(<<r>>, b, ok, mid) /\ Leads(<<s>>, mid, ok, e)
    BY <1>5, <1>7, <1>12, <1>13, LeadsOne
  <1>16. <<r, s>> = <<r>> \o <<s>>
    BY PairPlan
  <1>17. Leads(<<r, s>>, b, ok, e)
    BY <1>15, <1>16, LeadsThen
  <1>18. Created(b, ok, ncl, change, e)
    BY <1>13, <1>14, ClusterTypes DEF Created
  <1>19. QED
    BY <1>17, <1>18 DEF r, s

\* create_chain(): the cluster it takes is counted.
LEMMA LeadsCreate ==
  ASSUME NEW clst \in Clusters \cup {0}, NEW change, "free_clst" \notin DOMAIN change,
         "fp" \in DOMAIN change =>
           "clust" \in DOMAIN change.fp /\ change.fp.clust = NewCluster(clst),
         NEW b, NEW ok, Current(b), Proper(b, ok),
         ok => Exact(b) /\ (clst # 0 => b.fat[clst] # 0)
  PROVE  \E e : /\ Leads(CreateChain(clst, change), b, ok, e)
                /\ Created(b, ok, NewCluster(clst), change, e)
  <1> DEFINE ncl == NewCluster(clst)
             got == Over(change, [last_clst |-> ncl, fsi_flag |-> TRUE,
                                  free_clst |-> IF fs.free_clst <= Count THEN fs.free_clst - 1
                                                                         ELSE fs.free_clst])
             search == (IF clst = 0 THEN <<>> ELSE <<Look(FatOf(clst))>>)
                         \o [i \in 1 .. Passed(clst) |-> Look(FatOf(Tried(clst)[i]))]
             u == IF ncl = 0 THEN <<>>
                  ELSE IF clst = 0 THEN <<PutCell(FatOf(ncl), EOC, got)>>
                  ELSE <<PutCell(FatOf(ncl), EOC, Same), PutCell(FatOf(clst), ncl, got)>>
  <1>1. CreateChain(clst, change) = search \o u
    BY DEF CreateChain
  <1>2. Leads(search, b, ok, b)
    BY LeadsSearch DEF Current
  <1>3. /\ "free_clst" \in DOMAIN got /\ got.free_clst = OneLess(fs.free_clst)
        /\ "fp" \in DOMAIN got <=> "fp" \in DOMAIN change
        /\ "fp" \in DOMAIN change => got.fp = change.fp
    BY GotChange
  <1>4. ncl # 0 => ncl \in Clusters /\ ~Taken(view, ncl) /\ fs.free_clst # 0
    BY NewClusterFree
  <1>5. "fp" \in DOMAIN change => "clust" \in DOMAIN change.fp /\ change.fp.clust = ncl
    OBVIOUS
  <1> HIDE DEF got, ncl, search
  <1>6. \E e : Leads(u, b, ok, e) /\ Created(b, ok, ncl, change, e)
    <2>1. CASE ncl = 0
      <3>1. Leads(<<>>, b, ok, b)
        BY LeadsEmpty
      <3>2. Created(b, ok, ncl, change, b)
        BY <2>1 DEF Created, Current
      <3>3. QED
        BY <2>1, <3>1, <3>2
    <2>2. CASE ncl # 0 /\ clst = 0
      <3>1. \E e : /\ Leads(<<PutCell(FatOf(ncl), EOC, got)>>, b, ok, e)
                   /\ Created(b, ok, ncl, change, e)
        BY <1>3, <1>4, <1>5, <2>2, LeadsFirst
      <3>2. QED
        BY <2>2, <3>1
    <2>3. CASE ncl # 0 /\ clst # 0
      <3>1. clst \in Clusters /\ (ok => Exact(b) /\ b.fat[clst] # 0)
        BY <2>3
      <3>2. \E e : /\ Leads(<<PutCell(FatOf(ncl), EOC, Same), PutCell(FatOf(clst), ncl, got)>>,
                           b, ok, e)
                   /\ Created(b, ok, ncl, change, e)
        BY <1>3, <1>4, <1>5, <2>3, <3>1, LeadsLinked
      <3>3. QED
        BY <2>3, <3>2
    <2>4. QED
      BY <2>1, <2>2, <2>3
  <1> HIDE DEF u
  <1>7. PICK e : Leads(u, b, ok, e) /\ Created(b, ok, ncl, change, e)
    BY <1>6
  <1>8. Leads(search \o u, b, ok, e)
    BY <1>2, <1>7, LeadsThen
  <1>9. QED
    BY <1>1, <1>7, <1>8 DEF ncl
-----------------------------------------------------------------------------
(* The FatFs functions keep the books. *)

\* What a function comes to.
Kept(t, b, ok) == \E e : Leads(t, b, ok, e) /\ (ok => Exact(e))

\* f_open().
LEMMA OpenKept ==
  ASSUME NEW n, NEW fp, "clust" \in DOMAIN fp, fp.clust = 0, NEW b, NEW ok,
         Current(b), Proper(b, ok), ok => Exact(b) /\ b.fp.clust = 0
  PROVE  Kept(OpenPlan(n, fp), b, ok)
  <1> DEFINE old == view[DirOf(n)].clust
             t == <<Look(DirOf(n)), PutCell(DirOf(n), Entry("file", 0, 0), Same)>>
             u == RemoveChain(old)
             v == IF old = 0 THEN <<>> ELSE <<Note([last_clst |-> old - 1]), Look(DirOf(n))>>
             s == Note([fp |-> fp])
  <1>1. OpenPlan(n, fp) = ((t \o u) \o v) \o <<s>>
    BY DEF OpenPlan
  <1>2. Leads(t, b, ok, b)
    <2>1. Neutral(Look(DirOf(n))) /\ Neutral(PutCell(DirOf(n), Entry("file", 0, 0), Same))
      BY LookNeutral, DirNeutral, Booklessness
    <2>2. b.clean = FALSE
      BY DEF Current
    <2>3. QED
      BY <2>1, <2>2, LeadsNeutralTwo
  <1>3. PICK e : /\ Leads(u, b, ok, e) /\ Proper(e, ok)
                 /\ (ok => Exact(e)) /\ e.clean = FALSE /\ e.fp = b.fp
    <2>1. \E e : Leads(RemoveChain(old), b, ok, e) /\ Removed(b, ok, e)
      <3> DEFINE c == old
      <3> HIDE DEF c
      <3>1. \E e : Leads(RemoveChain(c), b, ok, e) /\ Removed(b, ok, e)
        BY LeadsRemove
      <3>2. QED
        BY <3>1 DEF c
    <2> HIDE DEF u
    <2>2. \E e : Leads(u, b, ok, e) /\ Removed(b, ok, e)
      BY <2>1 DEF u
    <2>3. QED
      BY <2>2 DEF Removed
  <1>4. Leads(v, e, ok, e)
    <2>1. CASE old = 0
      BY <1>3, <2>1, LeadsEmpty
    <2>2. CASE old # 0
      <3>1. Neutral(Note([last_clst |-> old - 1])) /\ Neutral(Look(DirOf(n)))
        BY LookNeutral, NoteNeutral, Booklessness
      <3> HIDE DEF old
      <3>2. Leads(<<Note([last_clst |-> old - 1]), Look(DirOf(n))>>, e, ok, e)
        BY <1>3, <3>1, LeadsNeutralTwo
      <3>3. QED
        BY <2>2, <3>2
    <2>3. QED
      BY <2>1, <2>2
  <1> DEFINE f == Book(e.fat, e.count, fp, FALSE)
  <1>5. Leads(<<s>>, e, ok, f)
    <2>1. /\ Plain(s) /\ "fp" \in DOMAIN s.change /\ s.change.fp = fp
      BY DEF Plain, Note, Do
    <2> HIDE DEF s
    <2>2. "clust" \in DOMAIN s.change.fp /\ s.change.fp.clust = 0
      BY <2>1
    <2>3. Leads(<<s>>, e, ok, Book(e.fat, e.count, s.change.fp, FALSE))
      BY <1>3, <2>1, <2>2, LeadsFile
    <2>4. QED
      BY <2>1, <2>3
  <1>6. ok => Exact(f)
    BY <1>3 DEF Exact, Book
  <1> HIDE DEF t, u, v, s, f
  <1>7. Leads(t \o u, b, ok, e)
    BY <1>2, <1>3, LeadsThen
  <1>8. Leads((t \o u) \o v, b, ok, e)
    BY <1>4, <1>7, LeadsThen
  <1>9. Leads(((t \o u) \o v) \o <<s>>, b, ok, f)
    BY <1>5, <1>8, LeadsThen
  <1>10. QED
    BY <1>1, <1>6, <1>9 DEF Kept

\* f_close().
LEMMA CloseKept ==
  ASSUME NEW fp, NEW b, NEW ok, Proper(b, ok), ok => Exact(b), b.clean = FALSE
  PROVE  Kept(ClosePlan(fp), b, ok)
  <1> DEFINE t == FlushBuffer(fp, Same)
             s == PutCell(DirOf(fp.name), FileEntry(fp), Same)
  <1>1. ClosePlan(fp) = (t \o <<s>>) \o SyncFs
    BY DEF ClosePlan
  <1>2. Leads(t, b, ok, b)
    <2>1. CASE fp.dirty
      <3> DEFINE w == Do("write", DataOf(fp.sect), Buffered(fp), Same)
      <3>1. Neutral(w)
        BY DataNeutral, Booklessness
      <3>2. t = <<w>>
        BY <2>1 DEF FlushBuffer, Write
      <3> HIDE DEF w, t
      <3>3. Leads(<<w>>, b, ok, b)
        BY <3>1, LeadsNeutralOne
      <3>4. QED
        BY <3>2, <3>3
    <2>2. CASE ~fp.dirty
      BY <2>2, LeadsEmpty DEF FlushBuffer
    <2>3. QED
      BY <2>1, <2>2
  <1>3. Neutral(s)
    BY DirNeutral, Booklessness
  <1> HIDE DEF t, s
  <1>4. Leads(<<s>>, b, ok, b)
    BY <1>3, LeadsNeutralOne
  <1>5. Leads(t \o <<s>>, b, ok, b)
    BY <1>2, <1>4, LeadsThen
  <1>6. Leads(SyncFs, b, ok, b)
    BY LeadsSync
  <1>7. Leads((t \o <<s>>) \o SyncFs, b, ok, b)
    BY <1>5, <1>6, LeadsThen
  <1>8. QED
    BY <1>1, <1>7 DEF Kept

\* f_unlink().
LEMMA UnlinkKept ==
  ASSUME NEW n, NEW b, NEW ok, Current(b), Proper(b, ok), ok => Exact(b) /\ b.fp.clust = 0
  PROVE  Kept(UnlinkPlan(n), b, ok)
  <1> DEFINE old == view[DirOf(n)]
             r == Look(DirOf(n))
             t == IF old.kind = "dir" THEN <<Look(DataOf(old.clust))>> ELSE <<>>
             s == PutCell(DirOf(n), NoEntry, Same)
             u == RemoveChain(old.clust)
  <1>1. UnlinkPlan(n) = (((<<r>> \o t) \o <<s>>) \o u) \o SyncFs
    BY DEF UnlinkPlan
  <1>2. b.clean = FALSE
    BY DEF Current
  <1>3. Neutral(r) /\ Neutral(s) /\ Neutral(Look(DataOf(old.clust)))
    BY LookNeutral, DirNeutral, Booklessness
  <1>4. Leads(t, b, ok, b)
    <2>1. Leads(<<Look(DataOf(old.clust))>>, b, ok, b)
      BY <1>2, <1>3, LeadsNeutralOne
    <2>2. Leads(<<>>, b, ok, b)
      BY LeadsEmpty
    <2>3. QED
      BY <2>1, <2>2
  <1>5. PICK e : /\ Leads(u, b, ok, e) /\ Proper(e, ok)
                 /\ (ok => Exact(e)) /\ e.clean = FALSE /\ e.fp = b.fp
    <2>1. \E e : Leads(RemoveChain(old.clust), b, ok, e) /\ Removed(b, ok, e)
      <3> DEFINE c == old.clust
      <3> HIDE DEF c
      <3>1. \E e : Leads(RemoveChain(c), b, ok, e) /\ Removed(b, ok, e)
        BY LeadsRemove
      <3>2. QED
        BY <3>1 DEF c
    <2> HIDE DEF u
    <2>2. \E e : Leads(u, b, ok, e) /\ Removed(b, ok, e)
      BY <2>1 DEF u
    <2>3. QED
      BY <2>2 DEF Removed
  <1> HIDE DEF r, s, t, u
  <1>6. Leads(<<r>>, b, ok, b) /\ Leads(<<s>>, b, ok, b)
    BY <1>2, <1>3, LeadsNeutralOne
  <1>7. Leads(<<r>> \o t, b, ok, b)
    BY <1>4, <1>6, LeadsThen
  <1>8. Leads((<<r>> \o t) \o <<s>>, b, ok, b)
    BY <1>6, <1>7, LeadsThen
  <1>9. Leads(((<<r>> \o t) \o <<s>>) \o u, b, ok, e)
    BY <1>5, <1>8, LeadsThen
  <1>10. Leads(SyncFs, e, ok, e)
    BY <1>5, LeadsSync
  <1>11. Leads((((<<r>> \o t) \o <<s>>) \o u) \o SyncFs, b, ok, e)
    BY <1>9, <1>10, LeadsThen
  <1>12. QED
    BY <1>1, <1>5, <1>11 DEF Kept

\* f_rename().
LEMMA RenameKept ==
  ASSUME NEW m, NEW n, NEW b, NEW ok, Proper(b, ok), ok => Exact(b), b.clean = FALSE
  PROVE  Kept(RenamePlan(m, n), b, ok)
  <1> DEFINE q == Look(DirOf(m))
             r == PutCell(DirOf(n), view[DirOf(m)], Same)
             s == PutCell(DirOf(m), NoEntry, Same)
  <1>1. RenamePlan(m, n) = <<q, r, s>> \o SyncFs
    BY DEF RenamePlan
  <1>2. Neutral(q) /\ Neutral(r) /\ Neutral(s)
    BY LookNeutral, DirNeutral, Booklessness
  <1> HIDE DEF q, r, s
  <1>3. Leads(<<q, r, s>>, b, ok, b)
    BY <1>2, LeadsNeutralThree
  <1>4. Leads(SyncFs, b, ok, b)
    BY LeadsSync
  <1>5. Leads(<<q, r, s>> \o SyncFs, b, ok, b)
    BY <1>3, <1>4, LeadsThen
  <1>6. QED
    BY <1>1, <1>5 DEF Kept

\* f_mkdir().
LEMMA MkdirKept ==
  ASSUME NEW n, NEW b, NEW ok, Current(b), Proper(b, ok), ok => Exact(b)
  PROVE  Kept(MkdirPlan(n), b, ok)
  <1> DEFINE dcl == NewCluster(0)
             a == Look(DirOf(n))
             t == CreateChain(0, [dcl |-> dcl])
             p == Do("clear", DataOf(dcl), Zeros, Same)
             q == Do("write", DataOf(dcl), Zeros, Same)
             r == Do("put", DataOf(dcl), Dots, Same)
             s == PutCell(DirOf(n), Entry("dir", dcl, 0), [dcl |-> 0])
             u == IF dcl = 0 THEN <<>> ELSE <<p, q, r, s>> \o SyncFs
  <1>1. MkdirPlan(n) = (<<a>> \o t) \o u
    BY DEF MkdirPlan, Write, PutCell
  <1>2. b.clean = FALSE
    BY DEF Current
  <1>3. Neutral(a) /\ Neutral(p) /\ Neutral(q) /\ Neutral(r) /\ Neutral(s)
    BY LookNeutral, DirNeutral, DataNeutral, Booklessness
  <1>4. \E e : Leads(t, b, ok, e) /\ Created(b, ok, dcl, [dcl |-> dcl], e)
    <2> DEFINE change == [dcl |-> dcl]
    <2>1. "free_clst" \notin DOMAIN change /\ "fp" \notin DOMAIN change
      OBVIOUS
    <2> HIDE DEF change
    <2>2. 0 \in Clusters \cup {0} /\ (ok => Exact(b) /\ (0 # 0 => b.fat[0] # 0))
      OBVIOUS
    <2>3. \E e : Leads(CreateChain(0, change), b, ok, e) /\ Created(b, ok, NewCluster(0), change, e)
      BY <2>1, <2>2, LeadsCreate
    <2>4. QED
      BY <2>3 DEF change
  <1> HIDE DEF a, t, p, q, r, s
  <1>5. PICK e : Leads(t, b, ok, e) /\ Created(b, ok, dcl, [dcl |-> dcl], e)
    BY <1>4
  <1>6. Proper(e, ok) /\ (ok => Exact(e)) /\ e.clean = FALSE
    BY <1>5 DEF Created
  <1>7. Leads(<<a>>, b, ok, b)
    BY <1>2, <1>3, LeadsNeutralOne
  <1>8. Leads(u, e, ok, e)
    <2>1. Leads(<<p, q, r, s>>, e, ok, e)
      BY <1>3, <1>6, LeadsNeutralFour
    <2>2. Leads(SyncFs, e, ok, e)
      BY <1>6, LeadsSync
    <2>3. Leads(<<p, q, r, s>> \o SyncFs, e, ok, e)
      BY <2>1, <2>2, LeadsThen
    <2>4. Leads(<<>>, e, ok, e)
      BY <1>6, LeadsEmpty
    <2>5. QED
      BY <2>3, <2>4
  <1> HIDE DEF u
  <1>9. Leads(<<a>> \o t, b, ok, e)
    BY <1>5, <1>7, LeadsThen
  <1>10. Leads((<<a>> \o t) \o u, b, ok, e)
    BY <1>8, <1>9, LeadsThen
  <1>11. QED
    BY <1>1, <1>6, <1>10 DEF Kept

\* The directory or a chain is read.
LEMMA ReadKept ==
  ASSUME NEW c, NEW b, NEW ok, Proper(b, ok), ok => Exact(b), b.clean = FALSE
  PROVE  Kept(<<Look(c)>>, b, ok)
  <1>1. Leads(<<Look(c)>>, b, ok, b)
    BY LookNeutral, LeadsNeutralOne
  <1>2. QED
    BY <1>1 DEF Kept
-----------------------------------------------------------------------------
\* f_getfree() counts.
CountingPlan ==
  [i \in 1 .. Count |-> Look(FatOf(i + 1))] \o
    <<Note([free_clst |-> Cardinality({c \in Clusters : ~Taken(view, c)}), fsi_flag |-> TRUE])>>

LEMMA CountingKept ==
  ASSUME NEW b, NEW ok, Current(b), Proper(b, ok)
  PROVE  Kept(CountingPlan, b, ok)
  <1> DEFINE k == Cardinality({c \in Clusters : ~Taken(view, c)})
             change == [free_clst |-> k, fsi_flag |-> TRUE]
             t == [i \in 1 .. Count |-> Look(FatOf(i + 1))]
             s == Note(change)
             e == Book(b.fat, k, b.fp, FALSE)
  <1>1. CountingPlan = t \o <<s>>
    BY DEF CountingPlan
  <1>2. Leads(t, b, ok, b)
    <2>1. t = [i \in 1 .. Count |-> t[i]]
      OBVIOUS
    <2>2. \A i \in 1 .. Count : Neutral(t[i])
      BY LookNeutral
    <2>3. Count \in Nat /\ b.clean = FALSE
      BY ClusterTypes DEF Current
    <2> HIDE DEF t
    <2>4. QED
      BY <2>1, <2>2, <2>3, LeadsLooking
  <1>3. k = FreeCount(b.fat) /\ k \in Nat
    <2>1. {c \in Clusters : ~Taken(view, c)} = FreeIn(b.fat)
      BY DEF FreeIn, Taken, Current
    <2>2. FreeCount(b.fat) \in 0 .. Count /\ Count \in Nat
      BY FreeFinite, ClusterTypes
    <2>3. FreeCount(b.fat) \in Nat
      BY <2>2
    <2>4. QED
      BY <2>1, <2>3 DEF FreeCount
  <1>4. /\ s.access = "none" /\ s.change = change
        /\ "free_clst" \in DOMAIN change /\ change.free_clst = k /\ "fp" \notin DOMAIN change
    BY DEF Note, Do
  <1> HIDE DEF s, k, change
  <1>5. Effect(s, b) = e /\ Allowed(s, b)
    BY <1>4 DEF Effect, Allowed, FatAfter, CountAfter, FpAfter
  <1>6. /\ e.fat = b.fat /\ e.count = k /\ e.fp = b.fp /\ e.clean = FALSE
        /\ e = Book(e.fat, e.count, e.fp, e.clean)
    BY DEF Book
  <1> HIDE DEF e
  <1>7. Proper(e, ok)
    BY <1>3, <1>6, ClusterTypes, FreeFinite DEF Proper, Sound, Tidy, IsBook
  <1>8. Exact(e)
    BY <1>3, <1>6 DEF Exact
  <1>9. Leads(<<s>>, b, ok, e)
    BY <1>5, <1>7, LeadsOne
  <1> HIDE DEF t
  <1>10. Leads(t \o <<s>>, b, ok, e)
    BY <1>2, <1>9, LeadsThen
  <1>11. QED
    BY <1>1, <1>8, <1>10 DEF Kept

\* A turn of the loop of f_write().
WritingPlan ==
  LET fp == fs.fp
      ncl == NewCluster(fp.clust)
      got == [fp EXCEPT !.clust = ncl, !.sclust = IF @ = 0 THEN ncl ELSE @]
      clean == [got EXCEPT !.dirty = FALSE]
  IN  CreateChain(fp.clust, [fp |-> got]) \o
        IF ncl = 0 THEN <<Note([left |-> 0])>>
        ELSE FlushBuffer(fp, [fp |-> clean]) \o
             IF fs.left >= 2
             THEN <<Write(DataOf(ncl), Data(fp.stamp, Sectors(fp.fptr + 2), 2),
                          [fp |-> [clean EXCEPT !.fptr = @ + 2], left |-> fs.left - 2])>>
             ELSE <<Note([fp |-> [clean EXCEPT !.sect = ncl, !.fptr = @ + 1, !.dirty = TRUE],
                          left |-> 0])>>

\* A step that changes the FIL object: its last cluster is ncl then.
Filing(s, ncl) ==
  /\ Plain(s) /\ "fp" \in DOMAIN s.change
  /\ "clust" \in DOMAIN s.change.fp /\ s.change.fp.clust = ncl

Filed(b, ok, e) == Proper(e, ok) /\ (ok => Exact(e)) /\ e.clean = FALSE /\ e.fat = b.fat

LEMMA LeadsFiling ==
  ASSUME NEW s, NEW b, NEW ok, Proper(b, ok), b.clean = FALSE, ok => Exact(b),
         NEW ncl \in Clusters, ok => b.fat[ncl] # 0, Filing(s, ncl)
  PROVE  \E e : Leads(<<s>>, b, ok, e) /\ Filed(b, ok, e)
  <1> DEFINE e == Book(b.fat, b.count, s.change.fp, FALSE)
  <1>1. Leads(<<s>>, b, ok, e) /\ Proper(e, ok)
    BY LeadsFile DEF Filing
  <1>2. e.fat = b.fat /\ e.count = b.count /\ e.clean = FALSE
    BY DEF Book
  <1> HIDE DEF e
  <1>3. ok => Exact(e)
    BY <1>2 DEF Exact
  <1>4. QED
    BY <1>1, <1>2, <1>3 DEF Filed

LEMMA WritingKept ==
  ASSUME NEW b, NEW ok, Current(b), b.fp = fs.fp, Proper(b, ok), ok => Exact(b)
  PROVE  Kept(WritingPlan, b, ok)
  <1> DEFINE fp == fs.fp
             ncl == NewCluster(fp.clust)
             got == [fp EXCEPT !.clust = ncl, !.sclust = IF @ = 0 THEN ncl ELSE @]
             clean == [got EXCEPT !.dirty = FALSE]
             t == CreateChain(fp.clust, [fp |-> got])
             u == FlushBuffer(fp, [fp |-> clean])
             p == Write(DataOf(ncl), Data(fp.stamp, Sectors(fp.fptr + 2), 2),
                        [fp |-> [clean EXCEPT !.fptr = @ + 2], left |-> fs.left - 2])
             q == Note([fp |-> [clean EXCEPT !.sect = ncl, !.fptr = @ + 1, !.dirty = TRUE],
                        left |-> 0])
             s == IF fs.left >= 2 THEN p ELSE q
             w == Do("write", DataOf(fp.sect), Buffered(fp), [fp |-> clean])
  <1>1. /\ ncl = 0 => WritingPlan = t \o <<Note([left |-> 0])>>
        /\ ncl # 0 => WritingPlan = t \o (u \o <<s>>)
    <2>1. WritingPlan =
            t \o IF ncl = 0 THEN <<Note([left |-> 0])>>
                 ELSE u \o IF fs.left >= 2 THEN <<p>> ELSE <<q>>
      BY DEF WritingPlan
    <2> HIDE DEF t, ncl, u, p, q
    <2>2. QED
      BY <2>1
  <1>2. /\ "clust" \in DOMAIN fp /\ fp.clust \in Clusters \cup {0}
        /\ ok => (fp.clust # 0 => b.fat[fp.clust] # 0)
    BY DEF Proper, Sound, Tidy
  <1>3. /\ DOMAIN got = DOMAIN fp /\ got.clust = ncl
        /\ DOMAIN clean = DOMAIN fp /\ clean.clust = ncl
    BY <1>2
  <1>4. \E e : Leads(t, b, ok, e) /\ Created(b, ok, ncl, [fp |-> got], e)
    <2> DEFINE change == [fp |-> got]
    <2>1. "free_clst" \notin DOMAIN change /\ "fp" \in DOMAIN change /\ change.fp = got
      OBVIOUS
    <2>2. "clust" \in DOMAIN got /\ got.clust = ncl
      BY <1>2, <1>3
    <2> HIDE DEF change, got
    <2>3. \E e : Leads(CreateChain(fp.clust, change), b, ok, e)
                 /\ Created(b, ok, NewCluster(fp.clust), change, e)
      BY <1>2, <2>1, <2>2, LeadsCreate
    <2>4. QED
      BY <2>3 DEF change
  <1>5. /\ Filing(p, ncl) /\ Filing(q, ncl) /\ Filing(w, ncl)
    <2> HIDE DEF clean, ncl
    <2> DEFINE pfp == [clean EXCEPT !.fptr = @ + 2]
               qfp == [clean EXCEPT !.sect = ncl, !.fptr = @ + 1, !.dirty = TRUE]
    <2>1. "clust" \in DOMAIN pfp /\ pfp.clust = ncl /\ "clust" \in DOMAIN qfp /\ qfp.clust = ncl
      BY <1>2, <1>3
    <2> HIDE DEF pfp, qfp
    <2>2. "clust" \in DOMAIN clean /\ clean.clust = ncl
      BY <1>2, <1>3
    <2>3. Filing(Write(DataOf(ncl), Data(fp.stamp, Sectors(fp.fptr + 2), 2),
                       [fp |-> pfp, left |-> fs.left - 2]), ncl)
      BY <2>1, CellsApart DEF Filing, Plain, Write, Do
    <2>4. Filing(Note([fp |-> qfp, left |-> 0]), ncl)
      BY <2>1 DEF Filing, Plain, Note, Do
    <2>5. Filing(w, ncl)
      BY <2>2, CellsApart DEF Filing, Plain, Do
    <2>6. QED
      BY <2>3, <2>4, <2>5 DEF pfp, qfp
  <1>6. u = IF fp.dirty THEN <<w>> ELSE <<>>
    BY DEF FlushBuffer, Write
  <1>7. Filing(s, ncl)
    <2> HIDE DEF p, q, ncl
    <2>1. QED
      BY <1>5
  <1> HIDE DEF got, t, u, p, q, s, w
  <1>8. PICK e : Leads(t, b, ok, e) /\ Created(b, ok, ncl, [fp |-> got], e)
    BY <1>4
  <1>9. Proper(e, ok) /\ (ok => Exact(e)) /\ e.clean = FALSE /\ (ncl # 0 => (ok => e.fat[ncl] # 0))
    BY <1>8 DEF Created
  <1>10. CASE ncl = 0
    <2>1. Neutral(Note([left |-> 0]))
      BY NoteNeutral, Booklessness
    <2>2. Leads(<<Note([left |-> 0])>>, e, ok, e)
      BY <1>9, <2>1, LeadsNeutralOne
    <2>3. Leads(t \o <<Note([left |-> 0])>>, b, ok, e)
      BY <1>8, <2>2, LeadsThen
    <2>4. QED
      BY <1>1, <1>9, <1>10, <2>3 DEF Kept
  <1>11. CASE ncl # 0
    <2>1. ncl \in Clusters
      BY <1>2, <1>11, NewClusterFree
    <2> HIDE DEF ncl
    <2>2. ok => e.fat[ncl] # 0
      BY <1>9, <1>11
    <2>3. \E f : Leads(u, e, ok, f) /\ Filed(e, ok, f)
      <3>1. CASE fp.dirty
        <4>1. \E f : Leads(<<w>>, e, ok, f) /\ Filed(e, ok, f)
          BY <1>5, <1>9, <2>1, <2>2, LeadsFiling
        <4>2. QED
          BY <1>6, <3>1, <4>1
      <3>2. CASE ~fp.dirty
        BY <1>6, <1>9, <3>2, LeadsEmpty DEF Filed
      <3>3. QED
        BY <3>1, <3>2
    <2>4. PICK f : Leads(u, e, ok, f) /\ Filed(e, ok, f)
      BY <2>3
    <2>5. Proper(f, ok) /\ (ok => Exact(f)) /\ f.clean = FALSE /\ (ok => f.fat[ncl] # 0)
      BY <2>2, <2>4 DEF Filed
    <2>6. PICK g : Leads(<<s>>, f, ok, g) /\ Filed(f, ok, g)
      BY <1>7, <2>1, <2>5, LeadsFiling
    <2>7. Leads(u \o <<s>>, e, ok, g)
      BY <2>4, <2>6, LeadsThen
    <2>8. Leads(t \o (u \o <<s>>), b, ok, g)
      BY <1>8, <2>7, LeadsThen
    <2>9. QED
      BY <1>1, <1>11, <2>6, <2>8 DEF Kept, Filed
  <1>12. QED
    BY <1>10, <1>11
-----------------------------------------------------------------------------
\* What the window holds of the FAT and the disk does not, it will write.
Coherent ==
  \A c \in Clusters : view[FatOf(c)] = disk[FatOf(c)] \/ (dirty /\ Sector(FatOf(c)) = win)

\* What is still to be done brings the count in step with the FAT.
InStep == Coherent /\ \E clean \in BOOLEAN : (clean => ~dirty) /\ Kept(todo, Now(clean), faults = 0)

FatShape ==
  /\ DOMAIN view = Cells /\ DOMAIN disk = Cells
  /\ "free_clst" \in DOMAIN fs /\ "fp" \in DOMAIN fs
  /\ faults \in Nat /\ losses \in Nat /\ (stuck => faults # 0)

FatInv == FatShape /\ (losses = 0 => InStep)

LEMMA NowBook ==
  ASSUME NEW clean
  PROVE  /\ Now(clean).fat = [c \in Clusters |-> view[FatOf(c)]]
         /\ Now(clean).count = fs.free_clst
         /\ Now(clean).fp = fs.fp
         /\ Now(clean).clean = clean
         /\ Now(clean) = Book(Now(clean).fat, Now(clean).count, Now(clean).fp, Now(clean).clean)
  BY DEF Now, Book

LEMMA NowCurrent == Current(Now(FALSE))
  BY NowBook DEF Current

\* Books that differ in what they say of the window only, or of a file that is done with.
LEMMA BookAgrees ==
  ASSUME NEW b, NEW ok, Proper(b, ok), NEW fp, "clust" \in DOMAIN fp,
         fp.clust \in {0, b.fp.clust}, NEW clean
  PROVE  /\ Proper(Book(b.fat, b.count, fp, clean), ok)
         /\ Exact(b) => Exact(Book(b.fat, b.count, fp, clean))
  <1> DEFINE e == Book(b.fat, b.count, fp, clean)
  <1>1. /\ e.fat = b.fat /\ e.count = b.count /\ e.fp = fp
        /\ e = Book(e.fat, e.count, e.fp, e.clean)
    BY DEF Book
  <1> HIDE DEF e
  <1>2. Sound(e)
    BY <1>1 DEF Proper, Sound, IsBook
  <1>3. ok => Tidy(e)
    BY <1>1 DEF Proper, Tidy
  <1>4. Exact(b) => Exact(e)
    BY <1>1 DEF Exact
  <1>5. QED
    BY <1>2, <1>3, <1>4 DEF Proper, e

\* Between two functions.
LEMMA BooksAtRest ==
  ASSUME FatInv, todo = <<>>, losses = 0
  PROVE  Proper(Now(FALSE), faults = 0) /\ (faults = 0 => Exact(Now(FALSE)))
  <1> DEFINE ok == faults = 0
  <1>1. PICK clean \in BOOLEAN : Kept(todo, Now(clean), ok)
    BY DEF FatInv, InStep
  <1>2. PICK e : Leads(<<>>, Now(clean), ok, e) /\ (ok => Exact(e))
    BY <1>1 DEF Kept
  <1> HIDE DEF ok
  <1>3. e = Now(clean) /\ Proper(Now(clean), ok)
    BY <1>2, LeadsEmptyEnd
  <1> DEFINE b == Now(clean)
  <1>4. Proper(b, ok) /\ (ok => Exact(b))
    BY <1>2, <1>3
  <1>5. "clust" \in DOMAIN b.fp /\ b.fp.clust \in {0, b.fp.clust}
    BY <1>4 DEF Proper, Sound
  <1>6. Book(b.fat, b.count, b.fp, FALSE) = Now(FALSE)
    BY NowBook DEF Now
  <1> HIDE DEF b
  <1>7. Proper(Now(FALSE), ok) /\ (ok => Exact(Now(FALSE)))
    BY <1>4, <1>5, <1>6, BookAgrees
  <1>8. QED
    BY <1>7 DEF ok

\* A function is begun.
LEMMA StepBegun ==
  ASSUME FatInv, volume' = volume, fs' = fs, device' = device,
         losses = 0 => Kept(todo', Now(FALSE), faults = 0)
  PROVE  FatInv'
  <1>1. /\ disk' = disk /\ view' = view /\ win' = win /\ dirty' = dirty
        /\ faults' = faults /\ losses' = losses /\ stuck' = stuck
    BY DEF volume, device
  <1>2. FatShape'
    BY <1>1 DEF FatInv, FatShape
  <1>3. Now(FALSE)' = Now(FALSE)
    BY <1>1 DEF Now
  <1>4. ASSUME losses' = 0
        PROVE  InStep'
    <2>1. Coherent'
      BY <1>1, <1>4 DEF FatInv, InStep, Coherent
    <2>2. Kept(todo', Now(FALSE)', faults' = 0)
      BY <1>1, <1>3, <1>4
    <2>3. QED
      BY <2>1, <2>2 DEF InStep
  <1>5. QED
    BY <1>2, <1>4 DEF FatInv

\* The FIL object is changed.
LEMMA StepFiled ==
  ASSUME FatInv, volume' = volume, device' = device,
         fs'.free_clst = fs.free_clst, "free_clst" \in DOMAIN fs', "fp" \in DOMAIN fs',
         losses = 0 =>
           Kept(todo', Book(Now(FALSE).fat, Now(FALSE).count, fs'.fp, FALSE), faults = 0)
  PROVE  FatInv'
  <1>1. /\ disk' = disk /\ view' = view /\ win' = win /\ dirty' = dirty
        /\ faults' = faults /\ losses' = losses /\ stuck' = stuck
    BY DEF volume, device
  <1>2. FatShape'
    BY <1>1 DEF FatInv, FatShape
  <1>3. Now(FALSE)' = Book(Now(FALSE).fat, Now(FALSE).count, fs'.fp, FALSE)
    <2>1. Now(FALSE)' = Book([c \in Clusters |-> view'[FatOf(c)]], fs'.free_clst, fs'.fp, FALSE)
      BY DEF Now
    <2>2. Now(FALSE).fat = [c \in Clusters |-> view[FatOf(c)]] /\ Now(FALSE).count = fs.free_clst
      BY NowBook
    <2>3. QED
      BY <1>1, <2>1, <2>2
  <1>4. ASSUME losses' = 0
        PROVE  InStep'
    <2>1. Coherent'
      BY <1>1, <1>4 DEF FatInv, InStep, Coherent
    <2>2. Kept(todo', Now(FALSE)', faults' = 0)
      BY <1>1, <1>3, <1>4
    <2>3. QED
      BY <2>1, <2>2 DEF InStep
  <1>5. QED
    BY <1>2, <1>4 DEF FatInv
-----------------------------------------------------------------------------
LEMMA ClosedFile == "clust" \in DOMAIN Closed /\ Closed.clust = 0
  BY Zenon DEF Closed

LEMMA ReadyBooks ==
  ASSUME FatInv, Ready, losses = 0
  PROVE  /\ Proper(Now(FALSE), faults = 0)
         /\ faults = 0 => Exact(Now(FALSE)) /\ Now(FALSE).fp.clust = 0
  <1>1. todo = <<>> /\ fs.fp = Closed
    BY DEF Ready, AtRest
  <1>2. Now(FALSE).fp.clust = 0
    <2>1. fs.fp.clust = 0
      BY <1>1, ClosedFile
    <2>2. Now(FALSE).fp = fs.fp
      BY NowBook
    <2>3. QED
      BY <2>1, <2>2
  <1>3. QED
    BY <1>1, <1>2, BooksAtRest

LEMMA OpenKeeps ==
  ASSUME FatInv, NEW n, Open(n)
  PROVE  FatInv'
  <1> DEFINE fp == [Closed EXCEPT !.name = n, !.stamp = commands + 1]
             ok == faults = 0
             b == Now(FALSE)
  <1>1. Ready /\ todo' = OpenPlan(n, fp) /\ volume' = volume /\ fs' = fs /\ device' = device
    BY DEF Open, Begin
  <1>2. "clust" \in DOMAIN fp /\ fp.clust = 0
    BY DEF Closed
  <1>3. losses = 0 => Current(b) /\ Proper(b, ok) /\ (ok => Exact(b) /\ b.fp.clust = 0)
    BY <1>1, NowCurrent, ReadyBooks
  <1> HIDE DEF fp, ok, b
  <1>4. losses = 0 => Kept(OpenPlan(n, fp), b, ok)
    BY <1>2, <1>3, OpenKept
  <1>5. QED
    BY <1>1, <1>4, StepBegun DEF ok, b

LEMMA UnlinkKeeps ==
  ASSUME FatInv, NEW n, Unlink(n)
  PROVE  FatInv'
  <1> DEFINE ok == faults = 0
             b == Now(FALSE)
  <1>1. Ready /\ todo' = UnlinkPlan(n) /\ volume' = volume /\ fs' = fs /\ device' = device
    BY DEF Unlink, Begin
  <1>2. losses = 0 => Current(b) /\ Proper(b, ok) /\ (ok => Exact(b) /\ b.fp.clust = 0)
    BY <1>1, NowCurrent, ReadyBooks
  <1> HIDE DEF ok, b
  <1>3. losses = 0 => Kept(UnlinkPlan(n), b, ok)
    BY <1>2, UnlinkKept
  <1>4. QED
    BY <1>1, <1>3, StepBegun DEF ok, b

LEMMA MkdirKeeps ==
  ASSUME FatInv, NEW n, Mkdir(n)
  PROVE  FatInv'
  <1> DEFINE ok == faults = 0
             b == Now(FALSE)
  <1>1. Ready /\ todo' = MkdirPlan(n) /\ volume' = volume /\ fs' = fs /\ device' = device
    BY DEF Mkdir, Begin
  <1>2. losses = 0 => Current(b) /\ Proper(b, ok) /\ (ok => Exact(b))
    BY <1>1, NowCurrent, ReadyBooks
  <1> HIDE DEF ok, b
  <1>3. losses = 0 => Kept(MkdirPlan(n), b, ok)
    BY <1>2, MkdirKept
  <1>4. QED
    BY <1>1, <1>3, StepBegun DEF ok, b

LEMMA RenameKeeps ==
  ASSUME FatInv, NEW m, NEW n, Rename(m, n)
  PROVE  FatInv'
  <1> DEFINE ok == faults = 0
             b == Now(FALSE)
  <1>1. Ready /\ todo' = RenamePlan(m, n) /\ volume' = volume /\ fs' = fs /\ device' = device
    BY DEF Rename, Begin
  <1>2. losses = 0 => b.clean = FALSE /\ Proper(b, ok) /\ (ok => Exact(b))
    BY <1>1, NowBook, ReadyBooks
  <1> HIDE DEF ok, b
  <1>3. losses = 0 => Kept(RenamePlan(m, n), b, ok)
    BY <1>2, RenameKept
  <1>4. QED
    BY <1>1, <1>3, StepBegun DEF ok, b

LEMMA GetFreeKeeps ==
  ASSUME FatInv, GetFree
  PROVE  FatInv'
  <1> DEFINE ok == faults = 0
             b == Now(FALSE)
  <1>1. Ready /\ todo' = CountingPlan /\ volume' = volume /\ fs' = fs /\ device' = device
    BY DEF GetFree, CountingPlan
  <1>2. losses = 0 => Current(b) /\ Proper(b, ok)
    BY <1>1, NowCurrent, ReadyBooks
  <1> HIDE DEF ok, b
  <1>3. losses = 0 => Kept(CountingPlan, b, ok)
    BY <1>2, CountingKept
  <1>4. QED
    BY <1>1, <1>3, StepBegun DEF ok, b

LEMMA ReadKeeps ==
  ASSUME FatInv, NEW c, Read(c)
  PROVE  FatInv'
  <1> DEFINE ok == faults = 0
             b == Now(FALSE)
  <1>1. /\ todo = <<>> /\ todo' = <<Look(c)>>
        /\ volume' = volume /\ fs' = fs /\ device' = device
    BY DEF Read, AtRest, history
  <1>2. losses = 0 => b.clean = FALSE /\ Proper(b, ok) /\ (ok => Exact(b))
    BY <1>1, NowBook, BooksAtRest
  <1> HIDE DEF ok, b
  <1>3. losses = 0 => Kept(<<Look(c)>>, b, ok)
    BY <1>2, ReadKept
  <1>4. QED
    BY <1>1, <1>3, StepBegun DEF ok, b

LEMMA NextSectorKeeps ==
  ASSUME FatInv, NextSector
  PROVE  FatInv'
  <1> DEFINE ok == faults = 0
             b == Now(FALSE)
  <1>1. todo = <<>> /\ todo' = WritingPlan /\ volume' = volume /\ fs' = fs /\ device' = device
    BY DEF NextSector, WritingPlan, history
  <1>2. b.fp = fs.fp
    BY NowBook
  <1>3. losses = 0 => Current(b) /\ Proper(b, ok) /\ (ok => Exact(b))
    BY <1>1, NowCurrent, BooksAtRest
  <1> HIDE DEF ok, b
  <1>4. losses = 0 => Kept(WritingPlan, b, ok)
    BY <1>2, <1>3, WritingKept
  <1>5. QED
    BY <1>1, <1>4, StepBegun DEF ok, b

\* Nothing is accessed, and the last cluster is the same.
LEMMA FiledAtRest ==
  ASSUME FatInv, todo = <<>>, losses = 0, NEW fp, "clust" \in DOMAIN fp,
         fp.clust \in {0, fs.fp.clust}
  PROVE  /\ Proper(Book(Now(FALSE).fat, Now(FALSE).count, fp, FALSE), faults = 0)
         /\ faults = 0 => Exact(Book(Now(FALSE).fat, Now(FALSE).count, fp, FALSE))
         /\ Kept(<<>>, Book(Now(FALSE).fat, Now(FALSE).count, fp, FALSE), faults = 0)
  <1> DEFINE ok == faults = 0
             b == Now(FALSE)
             e == Book(b.fat, b.count, fp, FALSE)
  <1>1. Proper(b, ok) /\ (ok => Exact(b)) /\ b.fp = fs.fp
    BY NowBook, BooksAtRest
  <1> HIDE DEF ok, b
  <1>2. Proper(e, ok) /\ (ok => Exact(e))
    BY <1>1, BookAgrees
  <1> HIDE DEF e
  <1>3. Kept(<<>>, e, ok)
    BY <1>2, LeadsEmpty DEF Kept
  <1>4. QED
    BY <1>2, <1>3 DEF ok, b, e

LEMMA ClustOfFile ==
  ASSUME FatInv, todo = <<>>, losses = 0
  PROVE  "clust" \in DOMAIN fs.fp
  BY BooksAtRest, NowBook DEF Proper, Sound

LEMMA WriteFileKeeps ==
  ASSUME FatInv, NEW btw, WriteFile(btw)
  PROVE  FatInv'
  <1>1. /\ todo = <<>> /\ todo' = <<>> /\ volume' = volume /\ device' = device
        /\ fs' = [fs EXCEPT !.left = btw]
    BY DEF WriteFile, AtRest, history
  <1>2. "free_clst" \in DOMAIN fs /\ "fp" \in DOMAIN fs
    BY DEF FatInv, FatShape
  <1>3. /\ "free_clst" \in DOMAIN fs' /\ "fp" \in DOMAIN fs'
        /\ fs'.free_clst = fs.free_clst /\ fs'.fp = fs.fp
    BY <1>1, <1>2
  <1>4. losses = 0 => Kept(<<>>, Book(Now(FALSE).fat, Now(FALSE).count, fs.fp, FALSE), faults = 0)
    BY <1>1, ClustOfFile, FiledAtRest
  <1>5. QED
    BY <1>1, <1>3, <1>4, StepFiled

LEMMA FillBufferKeeps ==
  ASSUME FatInv, FillBuffer
  PROVE  FatInv'
  <1>1. /\ todo = <<>> /\ todo' = <<>> /\ volume' = volume /\ device' = device
        /\ fs' = [fs EXCEPT !.fp.fptr = @ + 1, !.fp.dirty = TRUE, !.left = @ - 1]
    BY DEF FillBuffer, history
  <1>2. "free_clst" \in DOMAIN fs /\ "fp" \in DOMAIN fs
    BY DEF FatInv, FatShape
  <1>3. /\ "free_clst" \in DOMAIN fs' /\ "fp" \in DOMAIN fs' /\ fs'.free_clst = fs.free_clst
        /\ "clust" \in DOMAIN fs.fp => "clust" \in DOMAIN fs'.fp /\ fs'.fp.clust = fs.fp.clust
    BY <1>1, <1>2
  <1> DEFINE fp == fs'.fp
  <1>4. losses = 0 => "clust" \in DOMAIN fp /\ fp.clust \in {0, fs.fp.clust}
    BY <1>1, <1>3, ClustOfFile
  <1> HIDE DEF fp
  <1>5. losses = 0 => Kept(<<>>, Book(Now(FALSE).fat, Now(FALSE).count, fp, FALSE), faults = 0)
    BY <1>1, <1>4, FiledAtRest
  <1>6. QED
    BY <1>1, <1>3, <1>5, StepFiled DEF fp

LEMMA CloseKeeps ==
  ASSUME FatInv, Close
  PROVE  FatInv'
  <1>1. /\ todo = <<>> /\ todo' = ClosePlan(fs.fp) /\ volume' = volume /\ device' = device
        /\ fs' = [fs EXCEPT !.fp = Closed]
    BY DEF Close, AtRest, history
  <1>2. "free_clst" \in DOMAIN fs /\ "fp" \in DOMAIN fs
    BY DEF FatInv, FatShape
  <1>3. /\ "free_clst" \in DOMAIN fs' /\ "fp" \in DOMAIN fs' /\ fs'.free_clst = fs.free_clst
        /\ fs'.fp = Closed
    BY <1>1, <1>2
  <1> DEFINE ok == faults = 0
             e == Book(Now(FALSE).fat, Now(FALSE).count, Closed, FALSE)
  <1>4. "clust" \in DOMAIN Closed /\ Closed.clust = 0
    BY DEF Closed
  <1>5. losses = 0 => Proper(e, ok) /\ (ok => Exact(e))
    BY <1>1, <1>4, FiledAtRest
  <1>6. e.clean = FALSE
    BY DEF Book
  <1> HIDE DEF e, ok
  <1>7. losses = 0 => Kept(ClosePlan(fs.fp), e, ok)
    BY <1>5, <1>6, CloseKept
  <1>8. QED
    BY <1>1, <1>3, <1>7, StepFiled DEF e, ok
-----------------------------------------------------------------------------
\* An access that is done leaves its change in the FATFS and FIL objects.
LEMMA OverGives ==
  ASSUME NEW change, NEW f, NEW x \in DOMAIN f
  PROVE  /\ x \in DOMAIN Over(change, f)
         /\ Over(change, f)[x] = IF x \in DOMAIN change THEN change[x] ELSE f[x]
  BY DEF Over

\* With accesses that have failed less is said of the books.
LEMMA LeadsLess ==
  ASSUME NEW t, NEW b, NEW ok, NEW less, NEW e, Leads(t, b, ok, e), less => ok
  PROVE  Leads(t, b, less, e)
  <1>1. \A c : Proper(c, ok) => Proper(c, less)
    BY DEF Proper
  <1>2. Plan(t)
    BY Zenon DEF Leads
  <1>3. PICK P :
          /\ P[0] = b /\ P[Len(t)] = e
          /\ \A i \in 0 .. Len(t) : Proper(P[i], ok)
          /\ \A i \in 1 .. Len(t) : Allowed(t[i], P[i - 1]) /\ P[i] = Effect(t[i], P[i - 1])
    BY Zenon DEF Leads
  <1>4. \A i \in 0 .. Len(t) : Proper(P[i], less)
    BY <1>1, <1>3
  <1>5. QED
    BY <1>2, <1>3, <1>4, Zenon DEF Leads

\* What an access may rely on, and what it must leave.
Fits(s) ==
  /\ Coherent
  /\ s.access \in {"write", "clear"} => \A c : s.cell # FatOf(c)
  /\ s.access = "info" => ~dirty

Shows(s) ==
  /\ Coherent'
  /\ \A c \in Clusters :
       view'[FatOf(c)] = IF s.access = "put" /\ FatOf(c) = s.cell THEN s.val ELSE view[FatOf(c)]
  /\ s.access = "sync" => ~dirty'

LEMMA StepDone ==
  ASSUME FatInv, todo # <<>>, Fits(Head(todo)) => Shows(Head(todo)),
         DOMAIN view' = Cells, DOMAIN disk' = Cells,
         todo' = Tail(todo), fs' = Over(Head(todo).change, fs), losses' = losses,
         faults' \in Nat, faults' = 0 => faults = 0, stuck' => faults' # 0
  PROVE  FatInv'
  <1> DEFINE s == Head(todo)
             ok == faults = 0
             less == faults' = 0
  <1>1. /\ "free_clst" \in DOMAIN fs /\ "fp" \in DOMAIN fs /\ losses \in Nat
    BY DEF FatInv, FatShape
  <1>2. /\ "free_clst" \in DOMAIN fs' /\ "fp" \in DOMAIN fs'
        /\ fs'.free_clst = CountAfter(s, fs.free_clst) /\ fs'.fp = FpAfter(s, fs.fp)
    <2> HIDE DEF s
    <2>1. fs' = Over(s.change, fs)
      BY DEF s
    <2>2. QED
      BY <1>1, <2>1, OverGives DEF CountAfter, FpAfter
  <1>3. FatShape'
    BY <1>1, <1>2 DEF FatShape
  <1>4. ASSUME losses' = 0
        PROVE  InStep'
    <2>1. PICK clean \in BOOLEAN : Coherent /\ (clean => ~dirty) /\ Kept(todo, Now(clean), ok)
      BY <1>4 DEF FatInv, InStep
    <2> DEFINE b == Now(clean)
    <2>0. PICK sync \in BOOLEAN : sync <=> s.access = "sync"
      OBVIOUS
    <2>2. PICK e : Leads(todo, b, ok, e) /\ (ok => Exact(e))
      BY <2>1 DEF Kept
    <2> HIDE DEF ok, b
    <2>3. Allowed(s, b) /\ Leads(Tail(todo), Effect(s, b), ok, e)
      BY <2>2, LeadsOn
    <2>4. /\ b.fat = [c \in Clusters |-> view[FatOf(c)]] /\ b.count = fs.free_clst
          /\ b.fp = fs.fp /\ b.clean = clean
      BY NowBook DEF b
    <2>5. Fits(s)
      BY <2>1, <2>3, <2>4 DEF Fits, Allowed
    <2>6. Shows(s)
      BY <2>5
    <2> HIDE DEF s
    <2>7. FatAfter(s, b.fat) = [c \in Clusters |-> view'[FatOf(c)]]
      <3>1. CASE s.access = "put"
        <4>1. FatAfter(s, b.fat) =
                [c \in Clusters |-> IF FatOf(c) = s.cell THEN s.val ELSE b.fat[c]]
          BY <3>1 DEF FatAfter
        <4>2. \A c \in Clusters : (IF FatOf(c) = s.cell THEN s.val ELSE b.fat[c]) = view'[FatOf(c)]
          BY <2>4, <2>6, <3>1 DEF Shows
        <4>3. QED
          BY <4>1, <4>2
      <3>2. CASE s.access # "put"
        <4>1. FatAfter(s, b.fat) = b.fat
          BY <3>2 DEF FatAfter
        <4>2. \A c \in Clusters : view[FatOf(c)] = view'[FatOf(c)]
          BY <2>6, <3>2 DEF Shows
        <4>3. QED
          BY <2>4, <4>1, <4>2
      <3>3. QED
        BY <3>1, <3>2
    <2>8. Effect(s, b) = Now(sync)'
      <3>1. Now(sync)' = Book([c \in Clusters |-> view'[FatOf(c)]], fs'.free_clst, fs'.fp, sync)
        BY DEF Now
      <3>2. Effect(s, b) = Book(FatAfter(s, b.fat), CountAfter(s, b.count), FpAfter(s, b.fp), sync)
        <4>1. (s.access = "sync") = sync
          BY <2>0
        <4>2. QED
          BY <4>1 DEF Effect
      <3>3. QED
        BY <1>2, <2>4, <2>7, <3>1, <3>2
    <2>9. Kept(Tail(todo), Effect(s, b), less)
      <3>1. less => ok
        BY DEF ok
      <3> HIDE DEF less
      <3>2. Leads(Tail(todo), Effect(s, b), less, e)
        BY <2>3, <3>1, LeadsLess
      <3>3. QED
        BY <2>2, <3>1, <3>2 DEF Kept
    <2>10. (sync => ~dirty') /\ Coherent'
      BY <2>0, <2>6 DEF Shows
    <2>11. Kept(todo', Now(sync)', less)
      BY <2>8, <2>9
    <2>12. QED
      BY <2>10, <2>11 DEF InStep
  <1>5. QED
    BY <1>3, <1>4 DEF FatInv
-----------------------------------------------------------------------------
LEMMA LookShows ==
  ASSUME NEW s, s.access = "look", MoveWindow(s.cell), Fits(s)
  PROVE  Shows(s)
  <1>1. \A c \in Clusters : view'[FatOf(c)] = view[FatOf(c)]
    BY DEF MoveWindow, Moves, Shown, Fits, Coherent
  <1>2. Coherent'
    BY <1>1 DEF MoveWindow, Moves, Shown, Fits, Coherent
  <1>3. QED
    BY <1>1, <1>2 DEF Shows

LEMMA PutShows ==
  ASSUME FatShape, NEW s, s.access = "put", Change(s.cell, s.val), Fits(s)
  PROVE  Shows(s)
  <1> DEFINE cell == s.cell
             shown == Shown(cell)
  <1>1. /\ DOMAIN shown = Cells
        /\ view' = [shown EXCEPT ![cell] = s.val]
        /\ disk' = disk /\ dirty' = TRUE /\ win' = Sector(cell)
        /\ Moves(cell) => ~dirty
        /\ shown = IF Moves(cell) THEN disk ELSE view
    BY DEF Change, Shown, FatShape
  <1>2. \A c \in Clusters : shown[FatOf(c)] = view[FatOf(c)]
    BY <1>1 DEF Fits, Coherent
  <1>3. \A c \in Clusters : FatOf(c) \in Cells
    BY CellsApart
  <1> HIDE DEF shown
  <1>4. \A c \in Clusters : view'[FatOf(c)] = IF FatOf(c) = cell THEN s.val ELSE view[FatOf(c)]
    BY <1>1, <1>2, <1>3
  <1>5. ASSUME NEW c \in Clusters
        PROVE  view'[FatOf(c)] = disk'[FatOf(c)] \/ (dirty' /\ Sector(FatOf(c)) = win')
    <2>1. CASE FatOf(c) = cell
      BY <1>1, <2>1
    <2>2. CASE FatOf(c) # cell /\ ~dirty
      BY <1>1, <1>4, <2>2 DEF Fits, Coherent
    <2>3. CASE FatOf(c) # cell /\ dirty
      <3>1. Sector(cell) = win
        BY <1>1, <2>3 DEF Moves
      <3>2. QED
        BY <1>1, <1>4, <2>3, <3>1 DEF Fits, Coherent
    <2>4. QED
      BY <2>1, <2>2, <2>3
  <1>6. Coherent'
    BY <1>5 DEF Coherent
  <1>7. QED
    BY <1>4, <1>6 DEF Shows

\* What is no entry of the FAT is written past the window, or put in it.
LEMMA WriteShows ==
  ASSUME FatShape, NEW s, s.access = "write", DiskWrite(s.cell, s.val), Fits(s)
  PROVE  Shows(s)
  <1>1. \A c \in Clusters : FatOf(c) # s.cell /\ FatOf(c) \in Cells
    BY CellsApart DEF Fits
  <1>2. \A c \in Clusters : view'[FatOf(c)] = view[FatOf(c)] /\ disk'[FatOf(c)] = disk[FatOf(c)]
    BY <1>1 DEF DiskWrite, FatShape
  <1>3. dirty' = dirty /\ win' = win
    BY DEF DiskWrite
  <1>4. Coherent'
    BY <1>2, <1>3 DEF Fits, Coherent
  <1>5. QED
    BY <1>2, <1>4 DEF Shows

LEMMA FillShows ==
  ASSUME FatShape, NEW s, s.access \notin {"put", "sync"}, NEW c, NEW v, FillWindow(c, v),
         Fits(s), \A x : c # FatOf(x)
  PROVE  Shows(s)
  <1>1. \A x \in Clusters : FatOf(x) # c /\ FatOf(x) \in Cells
    BY CellsApart
  <1>2. /\ view' = [disk EXCEPT ![c] = v] /\ ~dirty /\ disk' = disk /\ DOMAIN disk = Cells
    BY DEF FillWindow, FatShape
  <1>3. \A x \in Clusters : view'[FatOf(x)] = disk[FatOf(x)] /\ disk[FatOf(x)] = view[FatOf(x)]
    BY <1>1, <1>2 DEF Fits, Coherent
  <1>4. Coherent'
    BY <1>2, <1>3 DEF Coherent
  <1>5. QED
    BY <1>3, <1>4 DEF Shows

LEMMA StillShows ==
  ASSUME NEW s, s.access # "put", s.access = "sync" => ~dirty, volume' = volume, Fits(s)
  PROVE  Shows(s)
  <1>1. disk' = disk /\ view' = view /\ win' = win /\ dirty' = dirty
    BY DEF volume
  <1>2. Coherent'
    BY <1>1 DEF Fits, Coherent
  <1>3. QED
    BY <1>1, <1>2 DEF Shows

LEMMA AccessKeeps ==
  ASSUME FatInv, Access
  PROVE  FatInv'
  <1> DEFINE s == Head(todo)
  <1>1. /\ todo # <<>> /\ todo' = Tail(todo) /\ fs' = Over(s.change, fs)
        /\ device' = device
    BY DEF Access, Proceed, history
  <1>2. \/ s.access = "look" /\ MoveWindow(s.cell)
        \/ s.access = "put" /\ Change(s.cell, s.val)
        \/ s.access = "write" /\ DiskWrite(s.cell, s.val)
        \/ s.access = "clear" /\ FillWindow(s.cell, s.val)
        \/ s.access = "sync" /\ ~dirty /\ volume' = volume
        \/ s.access = "none" /\ volume' = volume
    BY DEF Access
  <1>3. FatShape
    BY DEF FatInv
  <1>4. losses' = losses /\ faults' = faults /\ stuck' = stuck
    BY <1>1 DEF device
  <1>5. faults' \in Nat /\ (stuck' => faults' # 0)
    BY <1>3, <1>4 DEF FatShape
  <1> HIDE DEF s
  <1>6. Fits(s) => Shows(s)
    <2>1. CASE s.access = "look" /\ MoveWindow(s.cell)
      BY <2>1, LookShows
    <2>2. CASE s.access = "put" /\ Change(s.cell, s.val)
      BY <1>3, <2>2, PutShows
    <2>3. CASE s.access = "write" /\ DiskWrite(s.cell, s.val)
      BY <1>3, <2>3, WriteShows
    <2>4. CASE s.access = "clear" /\ FillWindow(s.cell, s.val)
      <3>1. Fits(s) => \A x : s.cell # FatOf(x)
        BY <2>4 DEF Fits
      <3>2. QED
        BY <1>3, <2>4, <3>1, FillShows
    <2>5. CASE s.access = "sync" /\ ~dirty /\ volume' = volume
      BY <2>5, StillShows
    <2>6. CASE s.access = "none" /\ volume' = volume
      BY <2>6, StillShows
    <2>7. QED
      BY <1>2, <2>1, <2>2, <2>3, <2>4, <2>5, <2>6
  <1>7. DOMAIN view' = Cells /\ DOMAIN disk' = Cells
    <2>1. DOMAIN view = Cells /\ DOMAIN disk = Cells
      BY <1>3 DEF FatShape
    <2>2. QED
      BY <1>2, <2>1 DEF MoveWindow, Change, DiskWrite, FillWindow, Shown, volume
  <1>8. QED
    BY <1>1, <1>4, <1>5, <1>6, <1>7, StepDone DEF s

LEMMA WriteInfoKeeps ==
  ASSUME FatInv, WriteInfo
  PROVE  FatInv'
  <1> DEFINE s == Head(todo)
  <1>1. /\ todo # <<>> /\ todo' = Tail(todo) /\ fs' = Over(s.change, fs)
        /\ device' = device /\ s.access = "info"
    BY DEF WriteInfo, Proceed, history
  <1>2. \/ volume' = volume
        \/ /\ view' = [disk EXCEPT ![Info] = FsInfo] /\ disk' = [disk EXCEPT ![Info] = FsInfo]
           /\ dirty' = dirty
    BY DEF WriteInfo
  <1>3. FatShape
    BY DEF FatInv
  <1>4. losses' = losses /\ faults' = faults /\ stuck' = stuck
    BY <1>1 DEF device
  <1>5. faults' \in Nat /\ (stuck' => faults' # 0)
    BY <1>3, <1>4 DEF FatShape
  <1> HIDE DEF s
  <1>6. Fits(s) => Shows(s)
    <2>1. CASE volume' = volume
      BY <1>1, <2>1, StillShows
    <2>2. CASE /\ view' = [disk EXCEPT ![Info] = FsInfo] /\ disk' = [disk EXCEPT ![Info] = FsInfo]
               /\ dirty' = dirty
      <3>1. SUFFICES ASSUME Fits(s)
                     PROVE  Shows(s)
        OBVIOUS
      <3>2. \A x \in Clusters : FatOf(x) # Info /\ FatOf(x) \in Cells
        BY CellsApart
      <3>3. DOMAIN disk = Cells
        BY <1>3 DEF FatShape
      <3>4. ASSUME NEW x \in Clusters
            PROVE  view'[FatOf(x)] = view[FatOf(x)] /\ disk'[FatOf(x)] = view'[FatOf(x)]
        <4>1. disk[FatOf(x)] = view[FatOf(x)]
          BY <1>1, <3>1 DEF Fits, Coherent
        <4>2. view'[FatOf(x)] = disk[FatOf(x)] /\ disk'[FatOf(x)] = disk[FatOf(x)]
          BY <2>2, <3>2, <3>3
        <4>3. QED
          BY <4>1, <4>2
      <3>5. Coherent'
        BY <3>4 DEF Coherent
      <3>6. QED
        BY <1>1, <3>4, <3>5 DEF Shows
    <2>3. QED
      BY <1>2, <2>1, <2>2
  <1>7. DOMAIN view' = Cells /\ DOMAIN disk' = Cells
    <2>1. DOMAIN view = Cells /\ DOMAIN disk = Cells
      BY <1>3 DEF FatShape
    <2>2. QED
      BY <1>2, <2>1 DEF volume
  <1>8. QED
    BY <1>1, <1>4, <1>5, <1>6, <1>7, StepDone DEF s

LEMMA DriveFaults ==
  ASSUME FatShape, DriveFails
  PROVE  faults' \in Nat \ {0} /\ losses' = losses
  BY DEF FatShape, DriveFails

LEMMA WriteInfoFailsKeeps ==
  ASSUME FatInv, WriteInfoFails
  PROVE  FatInv'
  <1> DEFINE s == Head(todo)
  <1>1. /\ todo # <<>> /\ todo' = Tail(todo) /\ fs' = Over(s.change, fs)
        /\ s.access = "info" /\ FillWindow(Info, FsInfo) /\ DriveFails
    BY DEF WriteInfoFails
  <1>2. FatShape
    BY DEF FatInv
  <1>3. faults' \in Nat \ {0} /\ losses' = losses
    BY <1>1, <1>2, DriveFaults
  <1> HIDE DEF s
  <1>4. Fits(s) => Shows(s)
    <2>1. s.access \notin {"put", "sync"} /\ \A x : Info # FatOf(x)
      BY <1>1, CellsApart
    <2>2. QED
      BY <1>1, <1>2, <2>1, FillShows
  <1>5. DOMAIN view' = Cells /\ DOMAIN disk' = Cells
    BY <1>1, <1>2 DEF FillWindow, FatShape
  <1>6. QED
    BY <1>1, <1>3, <1>4, <1>5, StepDone DEF s
-----------------------------------------------------------------------------
LEMMA SynchroniseKeeps ==
  ASSUME FatInv, Synchronise
  PROVE  FatInv'
  <1>1. /\ disk' = [c \in Cells |-> IF Sector(c) = win THEN view[c] ELSE disk[c]]
        /\ dirty' = FALSE /\ view' = view /\ win' = win /\ fs' = fs /\ todo' = todo
        /\ faults' = faults /\ losses' = losses /\ stuck' = stuck
    BY DEF Synchronise, SyncWindow, history, device
  <1>2. FatShape'
    BY <1>1 DEF FatInv, FatShape
  <1>3. ASSUME losses' = 0
        PROVE  InStep'
    <2>1. PICK clean \in BOOLEAN : Coherent /\ Kept(todo, Now(clean), faults = 0)
      BY <1>1, <1>3 DEF FatInv, InStep
    <2>2. Coherent'
      <3>1. \A c \in Clusters : FatOf(c) \in Cells
        BY CellsApart
      <3>2. ASSUME NEW c \in Clusters
            PROVE  view'[FatOf(c)] = disk'[FatOf(c)]
        <4>1. disk'[FatOf(c)] = IF Sector(FatOf(c)) = win THEN view[FatOf(c)] ELSE disk[FatOf(c)]
          BY <1>1, <3>1
        <4>2. view[FatOf(c)] = disk[FatOf(c)] \/ Sector(FatOf(c)) = win
          BY <2>1 DEF Coherent
        <4>3. QED
          BY <1>1, <4>1, <4>2
      <3>3. QED
        BY <3>2 DEF Coherent
    <2>3. Now(clean)' = Now(clean)
      BY <1>1 DEF Now
    <2>4. Kept(todo', Now(clean)', faults' = 0)
      BY <1>1, <2>1, <2>3
    <2>5. QED
      BY <1>1, <2>2, <2>4 DEF InStep
  <1>4. QED
    BY <1>2, <1>3 DEF FatInv

LEMMA FailKeeps ==
  ASSUME FatInv, Fail
  PROVE  FatInv'
  <1>1. /\ todo # <<>> /\ DriveFails /\ todo' = RemoveChain(fs.dcl)
        /\ fs' = [fs EXCEPT !.fp.err = @ \/ fs.left > 0, !.left = 0, !.dcl = 0]
        /\ volume' = volume \/ ReadFails
    BY DEF Fail
  <1>2. FatShape
    BY DEF FatInv
  <1>3. faults' \in Nat \ {0} /\ losses' = losses
    BY <1>1, <1>2, DriveFaults
  <1>4. /\ "free_clst" \in DOMAIN fs' /\ "fp" \in DOMAIN fs' /\ fs'.free_clst = fs.free_clst
        /\ "clust" \in DOMAIN fs.fp => "clust" \in DOMAIN fs'.fp /\ fs'.fp.clust = fs.fp.clust
    BY <1>1, <1>2 DEF FatShape
  <1>5. DOMAIN view' = Cells /\ DOMAIN disk' = Cells
    BY <1>1, <1>2 DEF FatShape, volume, ReadFails
  <1>6. FatShape'
    BY <1>2, <1>3, <1>4, <1>5 DEF FatShape
  <1>7. ASSUME losses' = 0
        PROVE  InStep'
    <2> DEFINE ok == faults = 0
    <2>1. PICK clean \in BOOLEAN : Coherent /\ Kept(todo, Now(clean), ok)
      BY <1>3, <1>7 DEF FatInv, InStep
    <2>2. /\ \A c \in Clusters : view'[FatOf(c)] = view[FatOf(c)]
          /\ Coherent'
      <3>1. CASE volume' = volume
        BY <2>1, <3>1 DEF volume, Coherent
      <3>2. CASE ReadFails
        BY <2>1, <3>2 DEF ReadFails, Coherent
      <3>3. QED
        BY <1>1, <3>1, <3>2
    <2> DEFINE b == Now(clean)
               e == Book(b.fat, b.count, fs'.fp, FALSE)
    <2>3. PICK end : Leads(todo, b, ok, end)
      BY <2>1 DEF Kept
    <2> HIDE DEF ok, b
    <2>4. Proper(b, ok)
      BY <1>1, <2>3, LeadsOn
    <2>5. /\ b.fat = [c \in Clusters |-> view[FatOf(c)]] /\ b.count = fs.free_clst
          /\ b.fp = fs.fp
      BY NowBook DEF b
    <2>6. "clust" \in DOMAIN fs'.fp /\ fs'.fp.clust \in {0, b.fp.clust}
      BY <1>4, <2>4, <2>5 DEF Proper, Sound
    <2>7. Proper(e, ok)
      <3> DEFINE fp == fs'.fp
      <3>1. "clust" \in DOMAIN fp /\ fp.clust \in {0, b.fp.clust}
        BY <2>6
      <3> HIDE DEF fp
      <3>2. Proper(Book(b.fat, b.count, fp, FALSE), ok)
        BY <2>4, <3>1, BookAgrees
      <3>3. QED
        BY <3>2 DEF fp
    <2>8. Current(e)
      BY <2>5 DEF Current, Book
    <2>9. Now(FALSE)' = e
      <3>1. Now(FALSE)' = Book([c \in Clusters |-> view'[FatOf(c)]], fs'.free_clst, fs'.fp, FALSE)
        BY DEF Now
      <3>2. [c \in Clusters |-> view'[FatOf(c)]] = [c \in Clusters |-> view[FatOf(c)]]
        BY <2>2
      <3>3. QED
        BY <1>4, <2>5, <3>1, <3>2
    <2> HIDE DEF e
    <2>10. Proper(e, FALSE)
      BY <2>7 DEF Proper
    <2>11. PICK f : Leads(RemoveChain(fs.dcl), e, FALSE, f)
      <3> DEFINE dcl == fs.dcl
      <3> HIDE DEF dcl
      <3>1. \E f : Leads(RemoveChain(dcl), e, FALSE, f) /\ Removed(e, FALSE, f)
        BY <2>8, <2>10, LeadsRemove
      <3>2. QED
        BY <3>1 DEF dcl
    <2> DEFINE less == faults' = 0
    <2>12. ~less
      BY <1>3
    <2> HIDE DEF less
    <2>13. Leads(RemoveChain(fs.dcl), e, less, f)
      BY <2>11, <2>12, LeadsLess
    <2>14. Kept(todo', Now(FALSE)', less)
      BY <1>1, <2>9, <2>12, <2>13 DEF Kept
    <2>15. QED
      BY <2>2, <2>14 DEF InStep, less
  <1>8. QED
    BY <1>6, <1>7 DEF FatInv

LEMMA RestartKeeps ==
  ASSUME FatInv, Restart
  PROVE  FatInv'
  <1>1. /\ fs' = Mounted(disk[Info]) /\ view' = disk /\ disk' = disk
        /\ faults' = faults /\ losses' = losses + 1 /\ stuck' = FALSE
    BY DEF Restart, PowerLoss
  <1>2. FatShape
    BY DEF FatInv
  <1>3. "free_clst" \in DOMAIN fs' /\ "fp" \in DOMAIN fs'
    BY <1>1 DEF Mounted
  <1>4. FatShape' /\ losses' # 0
    BY <1>1, <1>2, <1>3 DEF FatShape
  <1>5. QED
    BY <1>4 DEF FatInv

LEMMA FatInitial ==
  ASSUME FatInit
  PROVE  FatInv
  <1>1. PICK free \in {Count, Unknown} :
          disk = [c \in Cells |->
                    IF c[1] = "fat" THEN 0 ELSE IF c[1] = "dir" THEN NoEntry
                    ELSE IF c[1] = "data" THEN Empty ELSE <<free, 0>>]
    BY DEF FatInit
  <1>2. /\ view = disk /\ dirty = FALSE /\ fs = Mounted(disk[Info]) /\ todo = <<>>
        /\ faults = 0 /\ losses = 0 /\ stuck = FALSE
    BY DEF FatInit
  <1>3. /\ \A c \in Clusters : FatOf(c) \in Cells /\ FatOf(c)[1] = "fat"
        /\ Info \in Cells /\ Info[1] = "info"
    BY CellsApart DEF FatOf, Info, Cells
  <1>4. \A c \in Clusters : disk[FatOf(c)] = 0
    BY <1>1, <1>3
  <1>5. disk[Info] = <<free, 0>>
    BY <1>1, <1>3
  <1>6. /\ "free_clst" \in DOMAIN fs /\ "fp" \in DOMAIN fs
        /\ fs.free_clst = free /\ fs.fp = Closed
    <2> DEFINE info == disk[Info]
    <2>1. info[1] = free
      BY <1>5
    <2> HIDE DEF info
    <2>2. fs = Mounted(info)
      BY <1>2 DEF info
    <2> DEFINE first == info[1]
               second == info[2]
               closed == Closed
    <2>3. fs = [free_clst |-> first, last_clst |-> second, fsi_flag |-> FALSE,
                fp |-> closed, left |-> 0, dcl |-> 0]
      BY <2>2 DEF Mounted
    <2>4. first = free
      BY <2>1
    <2> HIDE DEF first, second, closed
    <2>5. /\ "free_clst" \in DOMAIN fs /\ "fp" \in DOMAIN fs
          /\ fs.free_clst = first /\ fs.fp = closed
      BY <2>3
    <2>6. QED
      BY <2>4, <2>5 DEF closed
  <1>7. FatShape
    BY <1>1, <1>2, <1>6 DEF FatShape
  <1>8. Coherent
    BY <1>2 DEF Coherent
  <1> DEFINE b == Now(FALSE)
             ok == faults = 0
  <1>9. /\ b.fat = [c \in Clusters |-> view[FatOf(c)]] /\ b.count = free /\ b.fp = Closed
        /\ b = Book(b.fat, b.count, b.fp, b.clean)
    BY <1>6, NowBook
  <1> HIDE DEF b
  <1>10. \A c \in Clusters : b.fat[c] = 0
    BY <1>2, <1>4, <1>9
  <1>11. FreeCount(b.fat) = Count
    <2>1. FreeIn(b.fat) = Clusters
      BY <1>10 DEF FreeIn
    <2>2. Cardinality(Clusters) = Count
      <3>1. Count \in Nat \ {0} /\ Clusters = 2 .. Count + 1
        BY ClusterTypes
      <3> DEFINE n == Count
      <3>2. n \in Nat \ {0} /\ 2 \in Int /\ n + 1 \in Int
        BY <3>1
      <3> HIDE DEF n
      <3>3. Cardinality(2 .. n + 1) = IF 2 > n + 1 THEN 0 ELSE n + 1 - 2 + 1
        BY <3>2, FS_Interval
      <3>4. Cardinality(2 .. n + 1) = n
        BY <3>2, <3>3
      <3>5. QED
        BY <3>1, <3>4 DEF n
    <2>3. QED
      BY <2>1, <2>2 DEF FreeCount
  <1>12. free \in Nat /\ (free <= Count => free = Count)
    BY ClusterTypes DEF Unknown
  <1>13. Acyclic(b.fat)
    <2> DEFINE rank == [c \in Clusters |-> 0]
    <2>1. rank \in [Clusters -> Nat]
      OBVIOUS
    <2>2. \A c \in Clusters : b.fat[c] \notin Clusters
      BY <1>10, ClusterTypes
    <2> HIDE DEF rank
    <2>3. QED
      BY <2>1, <2>2 DEF Acyclic
  <1>14. "clust" \in DOMAIN b.fp /\ b.fp.clust = 0
    BY <1>9, ClosedFile
  <1>15. Proper(b, ok) /\ Exact(b)
    <2>1. Sound(b)
      BY <1>9, <1>11, <1>12, <1>14 DEF Sound, IsBook
    <2>2. Tidy(b)
      BY <1>13, <1>14 DEF Tidy
    <2>3. Exact(b)
      BY <1>9, <1>11, <1>12 DEF Exact
    <2>4. QED
      BY <2>1, <2>2, <2>3 DEF Proper
  <1> HIDE DEF ok
  <1>16. Kept(<<>>, b, ok)
    BY <1>15, LeadsEmpty DEF Kept
  <1>17. QED
    BY <1>2, <1>7, <1>8, <1>16 DEF FatInv, InStep, ok, b

LEMMA FatStutters ==
  ASSUME FatInv, UNCHANGED fatVars
  PROVE  FatInv'
  <1>1. /\ disk' = disk /\ view' = view /\ win' = win /\ dirty' = dirty
        /\ fs' = fs /\ todo' = todo
        /\ faults' = faults /\ losses' = losses /\ stuck' = stuck
    BY DEF fatVars, volume, history, device
  <1>2. FatShape'
    BY <1>1 DEF FatInv, FatShape
  <1>3. ASSUME losses' = 0
        PROVE  InStep'
    <2>1. PICK clean \in BOOLEAN :
            Coherent /\ (clean => ~dirty) /\ Kept(todo, Now(clean), faults = 0)
      BY <1>1, <1>3 DEF FatInv, InStep
    <2>2. Now(clean)' = Now(clean) /\ Coherent'
      BY <1>1, <2>1 DEF Now, Coherent
    <2>3. Kept(todo', Now(clean)', faults' = 0)
      BY <1>1, <2>1, <2>2
    <2>4. QED
      BY <1>1, <2>1, <2>2, <2>3 DEF InStep
  <1>4. QED
    BY <1>2, <1>3 DEF FatInv

LEMMA FatStep ==
  ASSUME FatInv, [FatNext]_fatVars
  PROVE  FatInv'
  <1>1. CASE \E n \in Names : Open(n) \/ Unlink(n) \/ Mkdir(n)
    BY <1>1, OpenKeeps, UnlinkKeeps, MkdirKeeps
  <1>2. CASE \E a, b \in Names : Rename(a, b)
    BY <1>2, RenameKeeps
  <1>3. CASE \E btw \in Chunks : WriteFile(btw)
    BY <1>3, WriteFileKeeps
  <1>4. CASE \/ \E n \in Names : Read(DirOf(n))
             \/ \E c \in Clusters : Read(FatOf(c))
    BY <1>4, ReadKeeps
  <1>5. CASE FillBuffer \/ NextSector \/ Close \/ GetFree
    BY <1>5, FillBufferKeeps, NextSectorKeeps, CloseKeeps, GetFreeKeeps
  <1>6. CASE Synchronise \/ Access \/ WriteInfo
    BY <1>6, SynchroniseKeeps, AccessKeeps, WriteInfoKeeps
  <1>7. CASE WriteInfoFails \/ Fail \/ Restart
    BY <1>7, WriteInfoFailsKeeps, FailKeeps, RestartKeeps
  <1>8. CASE UNCHANGED fatVars
    BY <1>8, FatStutters
  <1>9. QED
    BY <1>1, <1>2, <1>3, <1>4, <1>5, <1>6, <1>7, <1>8 DEF FatNext

LEMMA FatInvCounts ==
  ASSUME FatInv
  PROVE  FreeCounted
  <1> SUFFICES ASSUME todo = <<>>, losses = 0, fs.free_clst <= Count
               PROVE  LET free == Cardinality({c \in Clusters : ~Taken(view, c)})
                      IN  IF faults = 0 THEN fs.free_clst = free ELSE fs.free_clst >= free
    BY DEF FreeCounted, AtRest
  <1> DEFINE b == Now(FALSE)
             free == Cardinality({c \in Clusters : ~Taken(view, c)})
  <1>1. Proper(b, faults = 0) /\ (faults = 0 => Exact(b))
    BY BooksAtRest
  <1>2. b.fat = [c \in Clusters |-> view[FatOf(c)]] /\ b.count = fs.free_clst
    BY NowBook
  <1> HIDE DEF b
  <1>3. free = FreeCount(b.fat)
    <2>1. {c \in Clusters : ~Taken(view, c)} = FreeIn(b.fat)
      BY <1>2 DEF FreeIn, Taken
    <2>2. QED
      BY <2>1 DEF FreeCount
  <1>4. b.count \in Nat /\ FreeCount(b.fat) \in Nat /\ FreeCount(b.fat) <= b.count
    <2>1. FreeCount(b.fat) \in 0 .. Count /\ Count \in Nat
      BY FreeFinite, ClusterTypes
    <2>2. b.count \in Nat /\ FreeCount(b.fat) <= b.count
      BY <1>1, <1>2 DEF Proper, Sound
    <2>3. QED
      BY <2>1, <2>2
  <1>5. faults = 0 => FreeCount(b.fat) = b.count
    BY <1>1, <1>2 DEF Exact
  <1> HIDE DEF free
  <1>6. IF faults = 0 THEN fs.free_clst = free ELSE fs.free_clst >= free
    BY <1>2, <1>3, <1>4, <1>5
  <1>7. QED
    BY <1>6 DEF free

\* The count of free clusters, when it is believed, is the number of free clusters of the
\* FAT; after an access that failed it can only be too high (fs->free_clst, which
\* create_chain() and remove_chain() adjust and f_getfree() counts).
THEOREM FatFreeCounted == FatSpec => []FreeCounted
  <1>1. FatInit => FatInv
    BY FatInitial
  <1>2. FatInv /\ [FatNext]_fatVars => FatInv'
    BY FatStep
  <1>3. FatInv => FreeCounted
    BY FatInvCounts
  <1>4. QED
    BY <1>1, <1>2, <1>3, PTL DEF FatSpec
=============================================================================
