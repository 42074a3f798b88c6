----------------------------- MODULE Countdown ------------------------------
(***************************************************************************)
(* What a packet sink may expect of its timer: once armed it counts down,  *)
(* never fires early, and fires at most Latency ticks after its duration.  *)
(* This is the view of time that the protocol modules take; SinkTimer      *)
(* shows how far the wrapping registers of the program implement it.       *)
(***************************************************************************)
EXTENDS Integers

CONSTANTS
  Durations,  \* the durations, in ticks, a sink may ask for
  Latency     \* the longest time in ticks between two calls of net_pump()

VARIABLES
  armed,      \* is the timer running?
  left        \* ticks left, negative once the duration has passed; 0 if not armed

vars == <<armed, left>>

TypeOK == armed \in BOOLEAN /\ left \in Int

Init == armed = FALSE /\ left = 0

Arm(d) == armed' = TRUE /\ left' = d

\* Time passes, but never so far that a fired timer is more than Latency late.
Tick == /\ armed /\ left > -Latency
        /\ left' = left - 1
        /\ UNCHANGED armed

Fire == /\ armed /\ left < 0
        /\ armed' = FALSE /\ left' = 0

Next == (\E d \in Durations : Arm(d)) \/ Tick \/ Fire

Spec == Init /\ [][Next]_vars /\ WF_vars(Tick \/ Fire)

\* An armed timer is never more than Latency ticks late.
Punctual == armed => left >= -Latency
=============================================================================
