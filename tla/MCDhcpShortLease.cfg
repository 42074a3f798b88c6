\* A lease longer than MinLease but shorter than the renewal phase.
SPECIFICATION Spec
CONSTANTS
  Word = 32
  MsPerSec = 2
  MsPerTick = 2
  ShortWait = 1
  RenewRetries = 3
  MinLease = 1
  SelectCap = 2
  s1 = s1
  s2 = s2
  None = None
  other = other
  Others = {other}
  Servers = {s1}
  LeaseOf <- ShortLeases
  Complete = {s1}
  Strays = {}
  Latency = 1
  Transit = 1
INVARIANTS LeaseHonoured
