------------------------------ MODULE TftpGet -------------------------------
(***************************************************************************)
(* Receiving a file (tftp_transfer() with is_put false in net/tftp.c), the *)
(* disk it is written to, and the server and the network it comes from     *)
(* (external: RFC 7440 windows, as the client's acknowledgements use them).*)
(*                                                                         *)
(* The network loses, repeats and reorders: whatever was sent can be       *)
(* received at any time, once, often or never, except that a datagram does *)
(* not outlive a full period of the wire numbers.  The client handles any  *)
(* number of datagrams between two checks of its loop condition, as one    *)
(* call of net_pump() does.                                                *)
(***************************************************************************)
EXTENDS Tftp

CONSTANTS
  Space,        \* blocks that fit on the disk
  DiskFails     \* may the disk fail for good?

ASSUME DiskAssumption == Space \in Nat /\ DiskFails \in BOOLEAN

VARIABLES
  started,      \* tftp->started
  completed,    \* tftp->completed
  success,      \* tftp->success
  lastBlock,    \* tftp->last_block
  lastAck,      \* tftp->last_ack
  window,       \* tftp->window_size
  rollover,     \* tftp->rollover_value
  retransmits,  \* tftp->retransmits_this_block
  queue,        \* tftp->data_queue, the blocks by index
  transferred,  \* tftp->bytes_transferred, in blocks
  armed,        \* sink->timer # 0
  outcome,      \* what tftp_transfer() has told the user
  disk,         \* the blocks written to the file
  diskBroken,   \* the file's sticky error (FIL.err)
  session,      \* the options the server settled on, or NoSession
  base, sent,   \* the server's window: acknowledged, and sent at least once
  failing,      \* the server has sent an error
  acks          \* acknowledgements sent; index is the block count they stand for

clientVars == <<started, completed, success, lastBlock, lastAck, window,
                rollover, retransmits, queue, transferred, armed, outcome,
                disk, diskBroken>>
serverVars == <<session, base, sent, failing>>
vars == <<clientVars, serverVars, acks>>

NoSession == [window |-> 0, rollover |-> 0, options |-> FALSE]

Sessions ==
  [window : 1 .. MaxWindow, rollover : Rollovers, options : {TRUE}]
    \cup {[window |-> 1, rollover |-> 0, options |-> FALSE]}

\* How many blocks the client has taken.
Accepted == transferred + Len(queue)

Running == outcome = "running"
-----------------------------------------------------------------------------
(***************************************************************************)
(* The client.                                                             *)
(***************************************************************************)
\* tftp_get_send_ack(), when the last block accepted has this number and index.
SendAck(num, index) ==
  /\ acks' = acks \cup {[num |-> num, index |-> index]}
  /\ lastAck' = num
  /\ armed' = TRUE

\* How many of the queued blocks can reach the file.  A full disk cuts a write
\* short, which f_write() does not report as an error.
Writable(q) ==
  LET room == IF Space - Len(disk) < Len(q) THEN Space - Len(disk) ELSE Len(q)
  IN  IF diskBroken THEN {0} ELSE IF DiskFails THEN 0 .. room ELSE {room}

\* Mutation of WriteQueue: the result of a write is not looked at.
WriteQueueUnchecked(q, done, good) ==
  /\ queue' = <<>>
  /\ transferred' = transferred + Len(q)
  /\ \E n \in Writable(q) :
       /\ disk' = disk \o SubSeq(q, 1, n)
       /\ diskBroken' = (diskBroken \/ n < Len(q))
  /\ completed' = done
  /\ success' = good

\* Writing the queue q, when the flags are done and good unless a write fails.
\* The write after the last good one fails, unless the disk is just full.
WriteQueue(q, done, good) ==
  /\ queue' = <<>>
  /\ transferred' = transferred + Len(q)
  /\ \E n \in Writable(q) :
       /\ disk' = disk \o SubSeq(q, 1, n)
       /\ LET error == n < Len(q) /\ (diskBroken \/ n < Space - Len(disk))
          IN  /\ diskBroken' = (diskBroken \/ error)
              /\ completed' = (done \/ error)
              /\ success' = (good /\ ~error)

\* Mutation of FlushDataAndAck: the end of the window is acknowledged, not the
\* last block in order.
FlushDataAndAckWindow(q, num, done, good) ==
  /\ SendAck((lastAck + window) % Modulus, transferred + Len(q))
  /\ WriteQueue(q, done, good)

\* tftp_get_flush_data_and_ack().
FlushDataAndAck(q, num, done, good) ==
  SendAck(num, transferred + Len(q)) /\ WriteQueue(q, done, good)

\* The first datagram of a session: tftp_client_packet_received() locks on.
Started == started' = TRUE

\* tftp_process_options_ack().
ProcessOptionsAck ==
  /\ Running /\ session.options
  /\ Started
  /\ window' = session.window
  /\ rollover' = session.rollover
  /\ SendAck(lastBlock, Accepted)
  /\ UNCHANGED <<completed, success, lastBlock, retransmits, queue, transferred,
                 outcome, disk, diskBroken, serverVars>>

\* The ACK that makes a whole window: computed without regard to rollover.
WindowFull(num) == num = (lastAck + window) % Modulus

\* Mutation of IsExpected: only a repetition is recognised.
IsAnother(num) == num # lastBlock

IsExpected(num) == num = ExpectedBlock(lastBlock, 1, rollover)

\* tftp_get_process_data(), the block that is expected.
AcceptBlock(i, num) ==
  /\ IsExpected(num)
  /\ lastBlock' = num
  /\ retransmits' = 0
  /\ LET last == i = Size /\ ~completed
         q == Append(queue, i)
     IN  IF last \/ WindowFull(num)
         THEN FlushDataAndAck(q, num, completed \/ last, success \/ last)
         ELSE /\ queue' = q
              /\ UNCHANGED <<completed, success, transferred, lastAck, armed, disk,
                             diskBroken, acks>>

\* tftp_get_process_data(), any other block.
RefuseBlock(num) ==
  /\ ~IsExpected(num)
  /\ UNCHANGED <<lastBlock, retransmits>>
  /\ IF WindowFull(lastBlock)
     THEN FlushDataAndAck(queue, lastBlock, completed, success)
     ELSE UNCHANGED <<completed, success, lastAck, queue, transferred, armed, disk,
                      diskBroken, acks>>

\* No datagram outlives a period of the wire numbers.
RecentData(i) == Accepted + 1 - i < Period(session.rollover)

ProcessData(i) ==
  /\ Running /\ i \in 1 .. sent /\ RecentData(i)
  /\ Started
  /\ LET num == WireNumber(i, session.rollover)
     IN  AcceptBlock(i, num) \/ RefuseBlock(num)
  /\ UNCHANGED <<window, rollover, outcome, serverVars>>

\* An error, or an unknown opcode.
ProcessError ==
  /\ Running /\ failing
  /\ Started
  /\ completed' = TRUE
  /\ success' = FALSE
  /\ UNCHANGED <<lastBlock, lastAck, window, rollover, retransmits, queue,
                 transferred, armed, outcome, disk, diskBroken, serverVars, acks>>

\* tftp_client_timer_expired(); net_pump() has disarmed the timer before.
GiveUp ==
  /\ retransmits > MaxRetransmits
  /\ completed' = TRUE
  /\ success' = FALSE
  /\ armed' = FALSE
  /\ UNCHANGED <<lastAck, retransmits, queue, transferred, disk,
                 diskBroken, acks>>

TooLate ==
  /\ retransmits <= MaxRetransmits /\ completed
  /\ armed' = FALSE
  /\ UNCHANGED <<completed, success, lastAck, retransmits, queue, transferred, disk,
                 diskBroken, acks>>

RequestAgain ==
  /\ retransmits <= MaxRetransmits /\ ~completed /\ ~started
  /\ armed' = TRUE
  /\ retransmits' = retransmits + 1
  /\ UNCHANGED <<completed, success, lastAck, queue, transferred, disk,
                 diskBroken, acks>>

\* Mutation of AckAgain: the repetitions are not counted.
AckUncounted ==
  /\ retransmits <= MaxRetransmits /\ ~completed /\ started
  /\ FlushDataAndAck(queue, lastBlock, completed, success)
  /\ UNCHANGED retransmits

AckAgain ==
  /\ retransmits <= MaxRetransmits /\ ~completed /\ started
  /\ FlushDataAndAck(queue, lastBlock, completed, success)
  /\ retransmits' = retransmits + 1

TimerExpired ==
  /\ Running /\ armed
  /\ GiveUp \/ TooLate \/ RequestAgain \/ AckAgain
  /\ UNCHANGED <<started, lastBlock, window, rollover, outcome, serverVars>>

\* tftp_transfer() leaves its loop, because the transfer is completed or the
\* user presses Q, and tells the user.
Leave ==
  /\ Running
  /\ outcome' = IF success THEN "success" ELSE "failure"
  /\ UNCHANGED <<started, completed, success, lastBlock, lastAck, window,
                 rollover, retransmits, queue, transferred, armed, disk, diskBroken,
                 serverVars, acks>>
-----------------------------------------------------------------------------
(***************************************************************************)
(* The server (external).                                                  *)
(***************************************************************************)
UpTo(n) == IF n < Size THEN n ELSE Size

\* The server answers the request, with an OACK or with the first block.
ServerOpens(s) ==
  /\ session = NoSession
  /\ session' = s
  /\ sent' = IF s.options THEN 0 ELSE 1
  /\ UNCHANGED <<clientVars, base, failing, acks>>

\* The block that an acknowledgement stands for, among those not known to have
\* arrived; the next window is sent from there.  The server goes by the wire
\* number alone.
RecentAck(a) == base - a.index < Period(session.rollover) - session.window

ServerReceives(a) ==
  /\ RecentAck(a)
  /\ \E j \in base .. sent :
       /\ WireNumber(j, session.rollover) = a.num
       /\ base' = j
       /\ sent' = IF sent < UpTo(j + session.window) THEN UpTo(j + session.window)
                  ELSE sent
  /\ UNCHANGED <<clientVars, session, failing, acks>>

ServerFails ==
  /\ session # NoSession /\ ~failing
  /\ failing' = TRUE
  /\ UNCHANGED <<clientVars, session, base, sent, acks>>
-----------------------------------------------------------------------------
Init ==
  /\ started = FALSE /\ completed = FALSE /\ success = FALSE
  /\ lastBlock = 0 /\ lastAck = 0
  /\ window = 1 /\ rollover = 0
  /\ retransmits = 0
  /\ queue = <<>> /\ transferred = 0
  /\ armed = TRUE
  /\ outcome = "running"
  /\ disk = <<>> /\ diskBroken = FALSE
  /\ session = NoSession
  /\ base = 0 /\ sent = 0
  /\ failing = FALSE
  /\ acks = {}

Client ==
  \/ ProcessOptionsAck
  \/ \E i \in 1 .. Size : ProcessData(i)
  \/ ProcessError
  \/ TimerExpired
  \/ Leave

Server ==
  \/ \E s \in Sessions : ServerOpens(s)
  \/ \E a \in acks : ServerReceives(a)
  \/ ServerFails

Next == Client \/ Server

\* The main loop runs and time passes: a timer that is armed again and again
\* expires now and then, so datagrams that make the client acknowledge do not
\* arrive for ever at intervals shorter than the timeout.  Nothing is assumed of
\* the server beyond that, nor of the network.
Fairness == WF_vars(completed /\ Leave) /\ SF_vars(TimerExpired)

Spec == Init /\ [][Next]_vars /\ Fairness
-----------------------------------------------------------------------------
(***************************************************************************)
(* Properties.                                                             *)
(***************************************************************************)
\* Every block is taken once and in its place, whatever the network does and
\* however often the wire numbers wrap: the disk has the file's beginning, and
\* the queue the blocks that follow those it was emptied of.
InOrder ==
  /\ \A k \in 1 .. Len(disk) : disk[k] = k
  /\ \A k \in 1 .. Len(queue) : queue[k] = transferred + k

\* The server never takes a block for received that the client does not hold.
ServerNotAhead == base <= Accepted

\* Success is reported of complete files only, and blocks are only ever added.
Abs == INSTANCE FileTransfer WITH stored <- Len(disk)
ImplementsTransfer == Abs!Spec

\* The transfer ends: each block is waited for at most MaxRetransmits + 1
\* timeouts, whatever is lost, repeated or refused.
Ends == Abs!Ends
=============================================================================
