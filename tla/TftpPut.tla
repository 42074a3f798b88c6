------------------------------ MODULE TftpPut -------------------------------
(***************************************************************************)
(* Sending a file (tftp_transfer() with is_put true in net/tftp.c), and    *)
(* the server and the network it goes to (external).                       *)
(*                                                                         *)
(* The network loses, repeats and reorders: whatever was sent can be       *)
(* received at any time, once, often or never, except that a datagram does *)
(* not outlive a period of the wire numbers.  The server may acknowledge   *)
(* what it holds at any time, so that an acknowledgement of each of its    *)
(* blocks may be under way: it needs no variable.                          *)
(***************************************************************************)
EXTENDS Tftp

CONSTANT ReadFails     \* may reading the disk fail for good?

ASSUME ReadAssumption == ReadFails \in BOOLEAN

VARIABLES
  started,      \* tftp->started
  completed,    \* tftp->completed
  success,      \* tftp->success
  lastBlock,    \* tftp->last_block
  window,       \* tftp->window_size
  rollover,     \* tftp->rollover_value
  retransmits,  \* tftp->retransmits_this_block
  transferred,  \* tftp->bytes_transferred, in blocks
  armed,        \* sink->timer # 0
  outcome,      \* what tftp_transfer() has told the user
  diskBroken,   \* the file's sticky error (FIL.err)
  data,         \* blocks sent: their number on the wire, and what they hold
  session,      \* the options the server settled on, or NoSession
  stored,       \* the blocks the server has stored
  failing       \* the server has sent an error

clientVars == <<started, completed, success, lastBlock, window, rollover,
                retransmits, transferred, armed, outcome, diskBroken, data>>
serverVars == <<session, stored, failing>>
vars == <<clientVars, serverVars>>

NoSession == [window |-> 0, rollover |-> 0, options |-> FALSE]

Sessions ==
  [window : 1 .. MaxWindow, rollover : Rollovers, options : {TRUE}]
    \cup {[window |-> 1, rollover |-> 0, options |-> FALSE]}

Running == outcome = "running"
-----------------------------------------------------------------------------
(***************************************************************************)
(* The client.                                                             *)
(***************************************************************************)
\* How many of count blocks are read from block at on: reading stops after the
\* short block that ends the file, which is empty if at is beyond it already.
Readable(at, count) ==
  LET left == IF at < Size THEN Size - at ELSE 1 IN
  IF count < left THEN count ELSE left

\* Mutation of Block: the file is read on where it was, without f_lseek().
BlockUnsought(last, at, k) ==
  [num |-> ExpectedBlock(last, k, rollover'), index |-> transferred + k]

Block(last, at, k) ==
  [num |-> ExpectedBlock(last, k, rollover'), index |-> at + k]

\* tftp_put_send_data(), when block last was acknowledged, the first at blocks
\* of the file.  A failing read leaves the timer as it is.
SendData(last, at, count, timer) ==
  \E n \in 0 .. Readable(at, count) :
    /\ n < Readable(at, count) => ReadFails \/ diskBroken
    /\ diskBroken => n = 0
    /\ data' = data \cup {Block(last, at, k) : k \in 1 .. n}
    /\ diskBroken' = (n < Readable(at, count))
    /\ completed' = (completed \/ diskBroken')
    /\ success' = (success /\ ~diskBroken')
    /\ armed' = (timer \/ ~diskBroken')

\* tftp_process_options_ack().
ProcessOptionsAck ==
  /\ Running /\ session.options
  /\ started' = TRUE
  /\ window' = session.window
  /\ rollover' = session.rollover
  /\ SendData(lastBlock, transferred, session.window, armed)
  /\ UNCHANGED <<lastBlock, retransmits, transferred, outcome, serverVars>>

\* The counts of blocks, the largest first, that an acknowledgement can be of.
Acknowledged(num) ==
  {n \in 0 .. window : num = ExpectedBlock(lastBlock, n, rollover)}

Largest(S) == CHOOSE n \in S : \A m \in S : m <= n

\* Mutation of Complete: done when as many bytes as the file has are acknowledged.
CompleteEarly(at) == at >= Size - 1

\* The blocks acknowledged have more bytes than the file: its short last block
\* is among them.
Complete(at) == at >= Size

\* tftp_put_process_ack().
AckUnexpected(num) ==
  /\ Acknowledged(num) = {}
  /\ UNCHANGED <<lastBlock, transferred, retransmits, completed, success, armed,
                 diskBroken, data>>

\* Mutation of AckExpected: an acknowledgement is taken to be of the whole window.
AckWhole(num) ==
  /\ Acknowledged(num) # {}
  /\ LET n == window
         at == transferred + n
     IN  /\ retransmits' = 0
         /\ lastBlock' = num
         /\ transferred' = at
         /\ IF Complete(at)
            THEN /\ completed' = TRUE /\ success' = TRUE
                 /\ UNCHANGED <<armed, diskBroken, data>>
            ELSE SendData(num, at, window, armed)

AckExpected(num) ==
  /\ Acknowledged(num) # {}
  /\ LET n == Largest(Acknowledged(num))
         at == transferred + n
     IN  /\ retransmits' = IF n > 0 THEN 0 ELSE retransmits
         /\ lastBlock' = num
         /\ transferred' = at
         /\ IF Complete(at)
            THEN /\ completed' = TRUE /\ success' = TRUE
                 /\ UNCHANGED <<armed, diskBroken, data>>
            ELSE SendData(num, at, IF n = window THEN window ELSE 1, armed)

\* No datagram outlives a period of the wire numbers.
RecentAck(j) == transferred - j < Period(session.rollover) - session.window

\* The server agrees to options by an OACK, and acknowledges block 0 only if it
\* agreed to none, or misses the first block of those sent.
ProcessAck(j) ==
  /\ Running /\ session # NoSession /\ j <= Len(stored) /\ RecentAck(j)
  /\ j = 0 => ~session.options \/ data # {}
  /\ started' = TRUE
  /\ UNCHANGED <<window, rollover, outcome, serverVars>>
  /\ LET num == WireNumber(j, session.rollover) IN
     AckUnexpected(num) \/ AckExpected(num)

\* An error, or an unknown opcode.
ProcessError ==
  /\ Running /\ failing
  /\ started' = TRUE
  /\ completed' = TRUE
  /\ success' = FALSE
  /\ UNCHANGED <<lastBlock, window, rollover, retransmits, transferred, armed,
                 outcome, diskBroken, data, serverVars>>

\* tftp_client_timer_expired(); net_pump() has disarmed the timer before.
GiveUp ==
  /\ retransmits > MaxRetransmits
  /\ completed' = TRUE
  /\ success' = FALSE
  /\ armed' = FALSE
  /\ UNCHANGED <<retransmits, diskBroken, data>>

TooLate ==
  /\ retransmits <= MaxRetransmits /\ completed
  /\ armed' = FALSE
  /\ UNCHANGED <<completed, success, retransmits, diskBroken, data>>

\* Mutation of RequestAgain: requests are not counted.
RequestUncounted ==
  /\ retransmits <= MaxRetransmits /\ ~completed /\ ~started
  /\ armed' = TRUE
  /\ UNCHANGED <<completed, success, retransmits, diskBroken, data>>

RequestAgain ==
  /\ retransmits <= MaxRetransmits /\ ~completed /\ ~started
  /\ armed' = TRUE
  /\ retransmits' = retransmits + 1
  /\ UNCHANGED <<completed, success, diskBroken, data>>

DataAgain ==
  /\ retransmits <= MaxRetransmits /\ ~completed /\ started
  /\ SendData(lastBlock, transferred, 1, FALSE)
  /\ retransmits' = retransmits + 1

TimerExpired ==
  /\ Running /\ armed
  /\ UNCHANGED <<started, lastBlock, window, rollover, transferred, outcome, serverVars>>
  /\ GiveUp \/ TooLate \/ RequestAgain \/ DataAgain

\* tftp_transfer() leaves its loop, because the transfer is completed or the
\* user presses Q, and tells the user.
Leave ==
  /\ Running
  /\ outcome' = IF success THEN "success" ELSE "failure"
  /\ UNCHANGED <<started, completed, success, lastBlock, window, rollover,
                 retransmits, transferred, armed, diskBroken, data, serverVars>>
-----------------------------------------------------------------------------
(***************************************************************************)
(* The server (external).                                                  *)
(***************************************************************************)
ServerOpens(s) ==
  /\ session = NoSession
  /\ session' = s
  /\ UNCHANGED <<clientVars, stored, failing>>

\* It stores the block with the number it waits for, until it has the short one.
RecentData(d) == Len(stored) + 1 - d.index < Period(session.rollover)

ServerStores(d) ==
  /\ session # NoSession /\ Len(stored) < Size /\ RecentData(d)
  /\ d.num = WireNumber(Len(stored) + 1, session.rollover)
  /\ stored' = Append(stored, d.index)
  /\ UNCHANGED <<clientVars, session, failing>>

ServerFails ==
  /\ ~failing
  /\ failing' = TRUE
  /\ UNCHANGED <<clientVars, session, stored>>
-----------------------------------------------------------------------------
Init ==
  /\ started = FALSE /\ completed = FALSE /\ success = FALSE
  /\ lastBlock = 0
  /\ window = 1 /\ rollover = 0
  /\ retransmits = 0 /\ transferred = 0
  /\ armed = TRUE
  /\ outcome = "running"
  /\ diskBroken = FALSE
  /\ data = {}
  /\ session = NoSession /\ stored = <<>> /\ failing = FALSE

Client ==
  \/ ProcessOptionsAck
  \/ \E j \in 0 .. Size : ProcessAck(j)
  \/ ProcessError
  \/ TimerExpired
  \/ Leave

Server ==
  \/ \E s \in Sessions : ServerOpens(s)
  \/ \E d \in data : ServerStores(d)
  \/ ServerFails

Next == Client \/ Server

\* The main loop runs and time passes: a timer that is armed again and again
\* expires now and then.
Fairness == WF_vars(completed /\ Leave) /\ SF_vars(TimerExpired)

Spec == Init /\ [][Next]_vars /\ Fairness
-----------------------------------------------------------------------------
(***************************************************************************)
(* Properties.                                                             *)
(***************************************************************************)
\* The server's copy has the file's blocks once and in their places: what is
\* read from the disk belongs to the number it is sent with, across lost and
\* partial acknowledgements and any number of wraps of the block numbers.
InOrder == \A k \in 1 .. Len(stored) : stored[k] = k

\* The client never takes a block for stored that the server does not hold,
\* however old the acknowledgement it goes by.
ClientNotAhead == transferred <= Len(stored)

\* Success is reported only when the server holds the complete file.
Abs == INSTANCE FileTransfer WITH stored <- Len(stored)
ImplementsTransfer == Abs!Spec

\* The transfer ends: each block is sent at most MaxRetransmits + 1 times for
\* want of an answer, whatever is lost, repeated or refused.
Ends == Abs!Ends
=============================================================================
