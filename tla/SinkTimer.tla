----------------------------- MODULE SinkTimer ------------------------------
(***************************************************************************)
(* The timer of one packet sink (sink->timer in include/net.h), the tick   *)
(* interrupt that advances the clock it is compared with, and the test in  *)
(* net_pump() that fires it.  Both words wrap; the value 0 of sink->timer  *)
(* also means "not armed".                                                 *)
(***************************************************************************)
EXTENDS Timers

CONSTANTS
  Durations,  \* durations, in ticks, that the sink's owner asks for
  Latency     \* bound: most ticks between two calls of net_pump()

ASSUME SinkAssumption ==
  /\ Durations \subseteq 1 .. TopBit - 1
  /\ Latency \in 1 .. TopBit

VARIABLES
  clock,      \* timer_ticks, incremented by the interrupt handler
  timer,      \* sink->timer
  idle        \* ticks since net_pump() last looked at the sink

sinkVars == <<clock, timer, idle>>

TypeOK ==
  /\ clock \in Words
  /\ timer \in Words
  /\ idle \in 0 .. Latency

SinkInit ==
  /\ clock = 0
  /\ timer = 0
  /\ idle = 0

\* The interrupt handler.  The main loop calls net_pump() often enough that
\* at most Latency ticks pass between two calls.
TimerInterrupt ==
  /\ idle < Latency
  /\ clock' = Truncate(clock + 1)
  /\ idle' = idle + 1
  /\ UNCHANGED timer

\* A callback of the sink, or its owner, sets the timer anew.
Arm(d) ==
  /\ timer' = SetTimerTicks(clock, d)
  /\ UNCHANGED <<clock, idle>>

PumpFires ==
  /\ timer # 0
  /\ TimerExpired(timer, clock)
  /\ timer' = 0
  /\ idle' = 0
  /\ UNCHANGED clock

PumpSkips ==
  /\ timer = 0 \/ ~TimerExpired(timer, clock)
  /\ idle' = 0
  /\ UNCHANGED <<clock, timer>>

Pump == PumpFires \/ PumpSkips

SinkNext == TimerInterrupt \/ (\E d \in Durations : Arm(d)) \/ Pump

SinkFairness == WF_sinkVars(TimerInterrupt) /\ WF_sinkVars(Pump)

SinkSpec == SinkInit /\ [][SinkNext]_sinkVars /\ SinkFairness

\* The instant at which an arming computes the reserved value 0.
ArmsToZero == \E d \in Durations : Arm(d) /\ timer' = 0

\* The behaviours in which no arming meets that instant.
SinkSpecNoZero == SinkInit /\ [][SinkNext /\ ~ArmsToZero]_sinkVars /\ SinkFairness
-----------------------------------------------------------------------------
\* The word read as a signed number: how far ahead of the clock the timer is.
Signed(w) == IF w >= TopBit THEN w - Word ELSE w

Armed == timer # 0
Left == IF Armed THEN Signed(Truncate(timer - clock)) ELSE 0

AbsCountdown == INSTANCE Countdown WITH armed <- Armed, left <- Left

\* The wrapping timer of net_pump() behaves as a countdown: it fires, after
\* its duration and at most Latency ticks late, across any number of wraps of
\* the clock.
ImplementsCountdown == AbsCountdown!Spec

\* A pump never finds an armed timer later than the latency of the main loop
\* allows (it would if a late timer could wrap round to the far future).
NeverLate == AbsCountdown!Punctual /\ (Armed => idle >= -Left)
=============================================================================
