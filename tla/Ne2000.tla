------------------------------- MODULE Ne2000 -------------------------------
(***************************************************************************)
(* The Ethernet driver (net/ne2000.c) and the card it drives (external, by *)
(* the registers the driver uses).  The card works on its own: between any *)
(* two steps of the driver a transmission may end or frames arrive.        *)
(*                                                                         *)
(* The two transmit buffers are 1 and 2; frames are numbered in the order  *)
(* in which they are taken, or received.  eth_halt() is not modelled: the  *)
(* program that is started next has the machine to itself.                 *)
(***************************************************************************)
EXTENDS Integers, Sequences, FiniteSets

CONSTANTS
  RxStart, RxEnd,  \* rx_buf_start, rx_buf_end: the ring is RxStart .. RxEnd - 1
  Sizes,           \* sizes of the frames received, in pages
  Largest,         \* largest size that is not PACKET_MAXLEN or more, in pages
  MaxTx, MaxRx     \* bounds: how many frames are taken, and received

\* The ring has room for a frame, and no frame is larger than the ring.
RingLargeEnough ==
  /\ {RxStart, RxEnd, Largest, MaxTx, MaxRx} \subseteq Nat
  /\ RxStart + 2 < RxEnd /\ Sizes \subseteq 1 .. RxEnd - RxStart

ASSUME Ne2000Assumption == RingLargeEnough

VARIABLES
  tx,          \* tx1, tx2: the buffers in use
  txNext,      \* tx_next
  txInt,       \* tx_int: the buffer whose transmission is to end next, or 0
  txStarted,   \* tx_started
  rxNext,      \* rx_next
  pc,          \* where dp83902a_poll() is, or "idle"
  seen,        \* its isr, and that of dp83902a_Overflow()
  buffer,      \* the card: contents of the transmit buffers
  tpsr,        \* the buffer it transmits from
  xmit,        \* "idle", "sending", or "aborted" by a stop command
  loopback,    \* the driver handles an overflow: nothing comes from the wire
  isr,         \* interrupt status: "Tx" is TxP or TxE, "Rx" is RxP or RxE, and "OFLW"
  header,      \* what is at the start of a page: the frame, its size, and the page after it
  curp,        \* current page: where the next frame is stored
  bndry,       \* boundary: the page that is not to be written
  taken,       \* number of frames taken
  received,    \* number of frames stored
  wire, up     \* frames that were on the wire, and that were handed up

driverVars == <<tx, txNext, txInt, txStarted, rxNext, pc, seen>>
sender == <<tx, txNext, txInt, txStarted, buffer, tpsr, xmit>>
ring == <<header, curp>>
cardVars == <<driverVars, buffer, tpsr, xmit, loopback, isr, ring, bndry, taken, received, wire, up>>

Pages == RxStart .. RxEnd - 1

\* The page n pages after page p of the ring.
After(p, n) == RxStart + ((p - RxStart + n) % (RxEnd - RxStart))

-----------------------------------------------------------------------------
(***************************************************************************)
(* The driver: transmission.                                               *)
(***************************************************************************)
\* Mutation of StartXmit: events of the past are not cleared.
StartXmitUncleared(b) ==
  /\ isr' = isr
  /\ tpsr' = b /\ xmit' = "sending"
  /\ txStarted' = TRUE /\ txInt' = b

\* dp83902a_start_xmit(), with the tx_int that goes with it.
StartXmit(b) ==
  /\ isr' = isr \ {"Tx"}
  /\ tpsr' = b /\ xmit' = "sending"
  /\ txStarted' = TRUE /\ txInt' = b

\* eth_attempt_tx() from net_tx(), or the refill of eth_pump(); refused if both
\* buffers are in use.
Send ==
  /\ pc = "idle" /\ taken < MaxTx /\ tx # {1, 2}
  /\ taken' = taken + 1
  /\ buffer' = [buffer EXCEPT ![txNext] = taken + 1]
  /\ tx' = tx \cup {txNext}
  /\ txNext' = 3 - txNext
  /\ IF txStarted THEN UNCHANGED <<isr, tpsr, xmit, txStarted, txInt>> ELSE StartXmit(txNext)
  /\ UNCHANGED <<rxNext, pc, seen, loopback, ring, bndry, received, wire, up>>

\* dp83902a_TxEvent(): the buffer is free, and the other one next if it is in use.
TxEvent ==
  /\ tx' = tx \ {txInt}
  /\ IF tx' # {} THEN StartXmit(CHOOSE b \in tx' : TRUE)
     ELSE txStarted' = FALSE /\ txInt' = 0 /\ UNCHANGED <<isr, tpsr, xmit>>
-----------------------------------------------------------------------------
(***************************************************************************)
(* The driver: dp83902a_poll().                                            *)
(***************************************************************************)
Poll ==
  /\ pc = "idle" /\ pc' = "read"
  /\ UNCHANGED <<sender, rxNext, seen, loopback, isr, ring, bndry, taken, received, wire, up>>

\* An overflow goes before everything else.
ReadIsr ==
  /\ pc = "read"
  /\ seen' = isr
  /\ pc' = IF isr = {} THEN "idle" ELSE IF "OFLW" \in isr THEN "overflow" ELSE "ack"
  /\ UNCHANGED <<sender, rxNext, loopback, isr, ring, bndry, taken, received, wire, up>>

Acknowledge ==
  /\ pc = "ack" /\ pc' = "tx"
  /\ isr' = isr \ seen
  /\ UNCHANGED <<sender, rxNext, seen, loopback, ring, bndry, taken, received, wire, up>>

HandleTx ==
  /\ pc = "tx" /\ pc' = "rx"
  /\ IF "Tx" \in seen /\ txStarted
     THEN TxEvent /\ UNCHANGED <<txNext, buffer>>
     ELSE UNCHANGED <<sender, isr>>
  /\ UNCHANGED <<rxNext, seen, loopback, ring, bndry, taken, received, wire, up>>

\* The boundary that goes with rx_next: the page before it.
Boundary(next) == IF next - 1 < RxStart THEN RxEnd - 1 ELSE next - 1

\* dp83902a_RxEvent(), frame by frame; it reads CURP before each.
RxFrame ==
  /\ pc \in {"rx", "drain"} /\ (pc = "rx" => "Rx" \in seen)
  /\ rxNext # curp
  /\ up' = IF header[rxNext].size > Largest THEN up ELSE Append(up, header[rxNext].frame)
  /\ rxNext' = header[rxNext].next
  /\ bndry' = Boundary(rxNext')
  /\ UNCHANGED <<sender, pc, seen, loopback, isr, ring, taken, received, wire>>

RxDone ==
  /\ pc \in {"rx", "drain"}
  /\ rxNext = curp \/ (pc = "rx" /\ "Rx" \notin seen)
  /\ pc' = IF pc = "rx" THEN "read" ELSE "leave"
  /\ seen' = {}
  /\ UNCHANGED <<sender, rxNext, loopback, isr, ring, bndry, taken, received, wire, up>>

\* dp83902a_Overflow(): the card is stopped and goes on in loopback mode,
EnterOverflow ==
  /\ pc = "overflow" /\ pc' = "drain"
  /\ loopback' = TRUE
  /\ UNCHANGED <<sender, rxNext, seen, isr, ring, bndry, taken, received, wire, up>>

\* the ring is emptied,
LeaveOverflow ==
  /\ pc = "leave" /\ pc' = "look"
  /\ isr' = isr \ {"Rx", "OFLW"}
  /\ loopback' = FALSE
  /\ UNCHANGED <<sender, rxNext, seen, ring, bndry, taken, received, wire, up>>

LookForTx ==
  /\ pc = "look" /\ pc' = "restart"
  /\ seen' = isr
  /\ UNCHANGED <<sender, rxNext, loopback, isr, ring, bndry, taken, received, wire, up>>

\* Mutation of RestartXmit: the transmission is not begun again.
RestartXmitIdle ==
  /\ pc = "restart" /\ pc' = "read"
  /\ seen' = {}
  /\ UNCHANGED <<sender, rxNext, loopback, isr, ring, bndry, taken, received, wire, up>>

\* and a transmission that has not ended is begun again; the card takes no notice of that
\* while it is sending still.
RestartXmit ==
  /\ pc = "restart" /\ pc' = "read"
  /\ xmit' = IF txStarted /\ "Tx" \notin seen THEN "sending" ELSE xmit
  /\ seen' = {}
  /\ UNCHANGED <<tx, txNext, txInt, txStarted, buffer, tpsr, rxNext, loopback, isr, ring, bndry,
                 taken, received, wire, up>>
-----------------------------------------------------------------------------
(***************************************************************************)
(* The card.                                                               *)
(***************************************************************************)
\* A transmission ends, on the wire or not: with too many collisions, or in loopback mode,
\* unless it was under way before.
Transmitted ==
  /\ xmit = "sending" /\ xmit' = "idle"
  /\ isr' = isr \cup {"Tx"}
  /\ wire' \in {wire, Append(wire, buffer[tpsr])}
  /\ UNCHANGED <<driverVars, buffer, tpsr, loopback, ring, bndry, taken, received, up>>

\* The stop command cuts a transmission off; nothing tells of it.
Aborted ==
  /\ loopback /\ xmit = "sending" /\ xmit' = "aborted"
  /\ UNCHANGED <<driverVars, buffer, tpsr, loopback, isr, ring, bndry, taken, received, wire, up>>

\* An event without a transmission, as a comment in dp83902a_poll() has it.
Spurious ==
  /\ ~txStarted /\ xmit = "idle"
  /\ isr' = isr \cup {"Tx"}
  /\ UNCHANGED <<driverVars, buffer, tpsr, xmit, loopback, ring, bndry, taken, received, wire, up>>

\* A frame arrives, and is stored unless it meets the boundary.
Receive(size) ==
  /\ ~loopback /\ received < MaxRx
  /\ IF "OFLW" \in isr \/ \E n \in 0 .. size - 1 : After(curp, n) = bndry
     THEN isr' = isr \cup {"OFLW"} /\ UNCHANGED <<ring, received>>
     ELSE /\ header' = [header EXCEPT ![curp] =
                          [frame |-> received + 1, size |-> size, next |-> After(curp, size)]]
          /\ curp' = After(curp, size)
          /\ received' = received + 1
          /\ isr' = isr \cup {"Rx"}
  /\ UNCHANGED <<driverVars, buffer, tpsr, xmit, loopback, bndry, taken, wire, up>>

\* A frame arrives with an error and is not stored.
ReceiveBad ==
  /\ ~loopback
  /\ isr' = isr \cup {"Rx"}
  /\ UNCHANGED <<driverVars, buffer, tpsr, xmit, loopback, ring, bndry, taken, received, wire, up>>
-----------------------------------------------------------------------------
NoFrame == [frame |-> 0, size |-> 0, next |-> RxStart]

\* dp83902a_start().
CardInit ==
  /\ tx = {} /\ txNext = 1 /\ txInt = 0 /\ txStarted = FALSE
  /\ rxNext = RxStart + 1 /\ curp = RxStart + 1 /\ bndry = RxStart
  /\ pc = "idle" /\ seen = {}
  /\ buffer = [b \in {1, 2} |-> 0] /\ tpsr = 1 /\ xmit = "idle"
  /\ loopback = FALSE /\ isr = {}
  /\ header = [p \in Pages |-> NoFrame]
  /\ taken = 0 /\ received = 0 /\ wire = <<>> /\ up = <<>>

Driver ==
  \/ Poll \/ ReadIsr \/ Acknowledge \/ HandleTx \/ RxFrame \/ RxDone
  \/ EnterOverflow \/ LeaveOverflow \/ LookForTx \/ RestartXmit

Card == Transmitted \/ Aborted \/ Spurious \/ ReceiveBad \/ \E size \in Sizes : Receive(size)

CardNext == Send \/ Driver \/ Card

\* The main loop polls for ever, and a transmission ends.
CardFairness == WF_cardVars(Driver) /\ SF_cardVars(Transmitted)

CardSpec == CardInit /\ [][CardNext]_cardVars /\ CardFairness

\* The driver does not wait for the stop command to take effect, so a transmission can be
\* going on when it looks for its end; then the restart is right only if that does not
\* come before the restart.
Undisturbed == pc = "restart" => ~Transmitted

CardSpecUndisturbed == CardInit /\ [][CardNext /\ Undisturbed]_cardVars /\ CardFairness
-----------------------------------------------------------------------------
(***************************************************************************)
(* Properties.                                                             *)
(***************************************************************************)
\* The buffer that the card transmits from is the one whose end the driver expects,
\* and it is not the one the driver fills next, whatever events came, spurious ones
\* and an overflow among them; provided a restart is undisturbed.
BufferKept ==
  xmit # "idle" => tpsr = txInt /\ (tx # {1, 2} => txNext # tpsr)

\* The frames that are stored and not handed up, n at most, from each page on.
Stored[n \in 0 .. MaxRx] ==
  [p \in Pages |->
    IF p = curp \/ n = 0 THEN <<>> ELSE <<header[p].frame>> \o Stored[n - 1][header[p].next]]

\* The driver's buffers, without the frame that has left.
Held ==
  (IF xmit # "idle" THEN <<buffer[txInt]>> ELSE <<>>)
    \o (IF tx \ {txInt} # {} THEN <<buffer[CHOOSE b \in tx \ {txInt} : TRUE]>> ELSE <<>>)

\* Frames leave in the order they were taken, none torn or sent again, and are handed
\* up as they were stored; no frame is forgotten, in a buffer whose event was missed
\* or in the ring.  Provided a restart is undisturbed.
AbsLink == INSTANCE Link WITH out <- Held, in <- Stored[MaxRx][rxNext]
ImplementsLink == AbsLink!Spec
=============================================================================
