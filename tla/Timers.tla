------------------------------- MODULE Timers -------------------------------
(***************************************************************************)
(* The timer arithmetic of include/timers.h and core/timer.c.  A timer_t   *)
(* is an unsigned word compared with a free-running tick counter of the    *)
(* same width, so every operator here works modulo Word.                   *)
(***************************************************************************)
EXTENDS Integers

CONSTANTS
  Word,       \* 2^32 in the program: number of values of a uint32_t
  MsPerSec,   \* 1000 in the program
  MsPerTick   \* TIMER_MS_PER_TICK, 5 in the program

ASSUME WordAssumption == Word \in Nat /\ Word >= 4 /\ Word % 2 = 0
ASSUME ScaleAssumption ==
  /\ MsPerSec \in Nat \ {0}
  /\ MsPerTick \in Nat \ {0}

Words == 0 .. Word - 1

\* The word whose only set bit is the top one, 0x80000000.
TopBit == Word \div 2

Truncate(x) == x % Word

\* The duration set_timer_ticks() really uses.
ClampTicks(d) ==
  IF d = 0 THEN 1
  ELSE IF d >= TopBit THEN TopBit - 1
  ELSE d

MsToTicks(ms) == Truncate(ms + MsPerTick - 1) \div MsPerTick

SecToMs(sec) == Truncate(sec * MsPerSec)

\* set_timer_sec(sec) arms a timer this many ticks ahead of the clock.
TicksOfSec(sec) == ClampTicks(MsToTicks(SecToMs(sec)))

\* Whole ticks per second, where the second is a whole number of ticks.
TicksPerSec == MsPerSec \div MsPerTick

\* Mutation of SetTimerTicks: a sum that does not wrap.
WideSetTimerTicks(now, d) == now + ClampTicks(d)

SetTimerTicks(now, d) == Truncate(now + ClampTicks(d))

\* Mutations of TimerExpired: a comparison without regard to wrapping, and one
\* that takes the last tick of the duration for its end.
PlainTimerExpired(timer, now) == now > timer
EagerTimerExpired(timer, now) == timer = now \/ Truncate(timer - now) >= TopBit

TimerExpired(timer, now) == Truncate(timer - now) >= TopBit
=============================================================================
