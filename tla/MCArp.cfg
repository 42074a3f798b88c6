\* Two hosts, one of which is there and may move to other hardware; two packets.
SPECIFICATION Spec
CONSTANTS
  CacheTimeout = 1
  FlushInterval = 5
  MaxAttempts = 2
  QueryInterval = 1
  h1 = h1
  h2 = h2
  m1 = m1
  m2 = m2
  zero = zero
  Zero = zero
  Hosts = {h1, h2}
  Present = {h1}
  Macs = {m1,m2}
  Latency = 1
  Transit = 1
  MaxPending = 2
INVARIANTS BindingsFresh WaitsBounded NoOrphans FailureForgotten
SYMMETRY Symmetry
