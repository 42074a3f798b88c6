\* A LAN shared with another client, an unsuitable server and a BOOTP server;
\* s1 answers fairly.
SPECIFICATION FairSpec
CONSTANTS
  Word = 32
  MsPerSec = 2
  MsPerTick = 2
  ShortWait = 1
  RenewRetries = 2
  MinLease = 3
  SelectCap = 2
  s1 = s1
  s2 = s2
  None = None
  other = other
  Others = {other}
  Servers = {s1, s2}
  LeaseOf <- OneTooShort
  Complete = {s1, s2}
  Strays <- SharedLan
  Latency = 1
  Transit = 1
INVARIANTS OnlySuitableLeases
PROPERTIES GetsAddress
