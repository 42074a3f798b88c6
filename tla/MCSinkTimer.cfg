\* A 4-bit clock: it wraps every 16 ticks, long timers run for 7 of them.
SPECIFICATION SinkSpecNoZero
CONSTANTS
  Word = 16
  MsPerSec = 2
  MsPerTick = 2
  Latency = 8
  Durations <- MCDurations
INVARIANTS TypeOK NeverLate
PROPERTIES ImplementsCountdown
