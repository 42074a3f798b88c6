\* Two servers with long leases; one tick per second; words of 5 bits.
SPECIFICATION Spec
CONSTANTS
  Word = 32
  MsPerSec = 2
  MsPerTick = 2
  ShortWait = 1
  RenewRetries = 2
  MinLease = 3
  SelectCap = 2
  s1 = s1
  s2 = s2
  None = None
  other = other
  Others = {other}
  Servers = {s1, s2}
  LeaseOf <- LongLeases
  Complete = {s1, s2}
  Strays = {}
  Latency = 1
  Transit = 1
INVARIANTS TypeOK AddressIffLeased LeaseHonoured RenewsOwnLease
SYMMETRY Symmetry
