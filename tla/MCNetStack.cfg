\* The five sinks of the program, a packet of each kind, up to four packets at once.
SPECIFICATION Spec
CONSTANTS
  Carry = 16
  Sinks <- MCSinks
  Order <- MCOrder
  Match <- MCMatch
  Traffic <- MCTraffic
  Window = 2
  MaxAlive = 4
INVARIANTS MostSpecific PacketsOwned PumpDrains NoOvertaking
