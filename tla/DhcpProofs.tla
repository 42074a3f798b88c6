----------------------------- MODULE DhcpProofs -----------------------------
(***************************************************************************)
(* The DHCP client keeps its types, has an address exactly while it        *)
(* believes in a lease, honours the lease up to a bounded overrun, takes   *)
(* suitable leases only and renews the one it has.                         *)
(***************************************************************************)
EXTENDS Dhcp, TLAPS

-----------------------------------------------------------------------------
(***************************************************************************)
(* The arithmetic of Timers, for every word size and every tick rate that  *)
(* divides the second.                                                     *)
(***************************************************************************)
\* The top bit of a word splits the words into two halves.
LEMMA TopBitHalf == TopBit \in Nat /\ TopBit >= 2 /\ Word = 2 * TopBit
  BY WordAssumption DEF TopBit

\* Truncation to a word: it does nothing to a word, and wraps a number that is
\* less than one word out of range (timer_t arithmetic of core/timer.c).
LEMMA TruncateCases ==
  ASSUME NEW x \in Int
  PROVE  /\ Truncate(x) \in Words
         /\ x \in Words => Truncate(x) = x
         /\ x \in Word .. 2 * Word - 1 => Truncate(x) = x - Word
         /\ x \in -Word .. -1 => Truncate(x) = x + Word
  BY WordAssumption, SMTT(30) DEF Truncate, Words

\* The clamp of set_timer_ticks() always leaves a duration that a timer can run.
LEMMA ClampTicksRange ==
  ASSUME NEW d \in Nat
  PROVE  ClampTicks(d) \in 1 .. TopBit - 1
  BY TopBitHalf DEF ClampTicks

\* Rounding up to whole ticks, as set_timer_ms() does, leaves a whole number of
\* ticks alone.
LEMMA RoundUpExact ==
  ASSUME NEW m \in Nat \ {0}, NEW q \in Nat
  PROVE  (q * m + m - 1) \div m = q
  <1>1. q * m + m - 1 = m * q + (m - 1) /\ m - 1 \in 0 .. m - 1
    OBVIOUS
  <1>2. QED
    BY <1>1, Z3

\* A number of seconds that set_timer_sec() can represent: neither the
\* milliseconds nor the ticks overflow.
Representable(sec) ==
  /\ sec \in Nat \ {0}
  /\ sec * MsPerSec + MsPerTick - 1 < Word
  /\ sec * TicksPerSec < TopBit

\* set_timer_sec() runs the timer for exactly the seconds asked for, if they are
\* representable and the second is a whole number of ticks.
THEOREM TicksOfSecExact ==
  ASSUME MsPerSec % MsPerTick = 0, NEW sec, Representable(sec)
  PROVE  TicksOfSec(sec) = sec * TicksPerSec /\ TicksPerSec \in Nat \ {0}
  <1> DEFINE ms == sec * MsPerSec
             q == sec * TicksPerSec
  <1>1. /\ sec \in Nat \ {0}
        /\ MsPerSec \in Nat \ {0} /\ MsPerTick \in Nat \ {0}
        /\ MsPerSec = TicksPerSec * MsPerTick
        /\ TicksPerSec \in Nat \ {0}
    BY ScaleAssumption, SMTT(30) DEF Representable, TicksPerSec
  <1>2. ms \in Nat \ {0} /\ q \in Nat \ {0} /\ ms = q * MsPerTick
    <2>1. ms = (sec * TicksPerSec) * MsPerTick
      BY <1>1
    <2>2. QED
      BY <1>1, <2>1
  <1>3. ms + MsPerTick - 1 \in Words /\ ms \in Words
    BY <1>1, <1>2, WordAssumption DEF Representable, Words
  <1>4. SecToMs(sec) = ms
    BY <1>2, <1>3, TruncateCases DEF SecToMs
  <1>5. MsToTicks(ms) = (q * MsPerTick + MsPerTick - 1) \div MsPerTick
    BY <1>1, <1>2, <1>3, TruncateCases DEF MsToTicks
  <1>6. MsToTicks(ms) = q
    <2> HIDE DEF q
    <2> QED  BY <1>1, <1>2, <1>5, RoundUpExact
  <1>7. ClampTicks(q) = q
    <2>1. q < TopBit
      BY DEF Representable
    <2> HIDE DEF q
    <2>2. QED
      BY <1>2, <2>1, TopBitHalf DEF ClampTicks
  <1>8. QED
    BY <1>1, <1>4, <1>6, <1>7 DEF TicksOfSec

\* Whatever the number of seconds, the timer that set_timer_sec() arms can run.
LEMMA TicksOfSecRange ==
  ASSUME NEW sec \in Nat
  PROVE  TicksOfSec(sec) \in 1 .. TopBit - 1
  <1>1. sec * MsPerSec \in Nat
    BY ScaleAssumption
  <1>2. SecToMs(sec) \in Nat
    BY <1>1, TruncateCases, WordAssumption DEF SecToMs, Words
  <1>3. Truncate(SecToMs(sec) + MsPerTick - 1) \in Nat
    BY <1>2, ScaleAssumption, TruncateCases, WordAssumption DEF Words
  <1>4. MsToTicks(SecToMs(sec)) \in Nat
    BY <1>3, ScaleAssumption, SMTT(30) DEF MsToTicks
  <1>5. QED
    BY <1>4, ClampTicksRange DEF TicksOfSec

-----------------------------------------------------------------------------
(***************************************************************************)
(* Assumptions on servers and strangers.                                   *)
(***************************************************************************)
\* No acknowledgement meant for another client reaches this one.
NoStrayAck == \A m \in Strays : m.type # "ack"

\* Every server grants leases longer than the renewal phase (500 seconds in the
\* program), and set_timer_sec() can represent the waits.
LeasesOutlastRenewal ==
  /\ Representable(ShortWait)
  /\ \A s \in Servers : Representable(LeaseOf[s] - RenewRetries * ShortWait)

-----------------------------------------------------------------------------
(***************************************************************************)
(* Types.                                                                  *)
(***************************************************************************)
\* Strengthening of TypeOK: a renewal always has a try left.
TypeInv == TypeOK /\ (state = "renew" => retries >= 1)

LEMMA OverrunType == Overrun \in Nat /\ Forgotten \in Int
  BY DhcpAssumption DEF Overrun, Forgotten

LEMMA TimerType ==
  ASSUME NEW sec \in Nat, SetTimer(sec)
  PROVE  timer' \in -Latency .. TopBit - 1
  BY TicksOfSecRange, DhcpAssumption, TopBitHalf DEF SetTimer

LEMMA OfferType ==
  ASSUME NEW m \in Reply
  PROVE  /\ Parsed(m) \in Offer
         /\ Abandoned(m) \subseteq Offer
         /\ Cleared(m.ip) \in Offer
  BY WordAssumption DEF Parsed, Abandoned, Cleared, Offer, Reply, Addresses, Words

LEMMA SentType ==
  ASSUME NEW M, NEW messages \in SUBSET [msg : M, ttl : 0 .. Transit], NEW m \in M
  PROVE  Sent(messages, m) \subseteq [msg : M, ttl : 0 .. Transit]
  BY DhcpAssumption DEF Sent

LEMMA AgedType ==
  ASSUME NEW M, NEW messages \in SUBSET [msg : M, ttl : 0 .. Transit]
  PROVE  Aged(messages) \subseteq [msg : M, ttl : 0 .. Transit]
  BY DhcpAssumption DEF Aged

\* The part of TypeInv that the client's own steps can change.
ClientType ==
  /\ state \in States
  /\ selectWait \in Nat
  /\ retries \in 0 .. RenewRetries
  /\ offer \in Offer
  /\ address \in Addresses
  /\ timer \in -Latency .. TopBit - 1
  /\ requests \subseteq [msg : RequestMessages, ttl : 0 .. Transit]
  /\ state = "renew" => retries >= 1

LEMMA MessageTypes ==
  /\ Discover \in RequestMessages
  /\ \A o \in Offer : Request(o) \in RequestMessages
  BY DEF Discover, Request, RequestMessages, Offer, Addresses

LEMMA EnterDiscoverType ==
  ASSUME ClientType, NEW o \in Offer, EnterDiscover(o), retries' \in 0 .. RenewRetries
  PROVE  ClientType'
  <1>1. requests' \subseteq [msg : RequestMessages, ttl : 0 .. Transit]
    BY SentType, MessageTypes DEF ClientType, EnterDiscover, Broadcast
  <1>2. timer' \in -Latency .. TopBit - 1
    BY TimerType DEF ClientType, EnterDiscover
  <1>3. offer' \in Offer /\ address' \in Addresses
    BY WordAssumption DEF EnterDiscover, Cleared, Offer, Addresses, Words
  <1>4. selectWait' \in Nat
    BY DhcpAssumption DEF ClientType, EnterDiscover
  <1>5. QED
    BY <1>1, <1>2, <1>3, <1>4 DEF ClientType, EnterDiscover, States

LEMMA PumpType ==
  ASSUME ClientType, NEW m \in Reply, DhcpPump(m)
  PROVE  ClientType'
  <1>1. ASSUME NEW o \in Offer, KeepOffer(o) PROVE ClientType'
    BY <1>1 DEF ClientType, KeepOffer
  <1>2. ASSUME NEW o \in Offer, EnterRequest(o) PROVE ClientType'
    <2>1. requests' \subseteq [msg : RequestMessages, ttl : 0 .. Transit]
      BY <1>2, SentType, MessageTypes DEF ClientType, EnterRequest, Broadcast
    <2>2. timer' \in -Latency .. TopBit - 1
      BY <1>2, TimerType, DhcpAssumption DEF EnterRequest
    <2>3. QED
      BY <1>2, <2>1, <2>2, DhcpAssumption DEF ClientType, EnterRequest, States
  <1>3. ASSUME NEW o \in Offer, EnterBound(o) PROVE ClientType'
    <2>1. o.lease - RenewRetries * ShortWait \in Int
      BY DhcpAssumption, WordAssumption DEF Offer, Words
    <2>2. BoundWait(o.lease) \in Nat
      BY <2>1, TruncateCases, WordAssumption DEF BoundWait, Words
    <2>3. timer' \in -Latency .. TopBit - 1
      BY <1>3, <2>2, TimerType DEF EnterBound
    <2>4. QED
      BY <1>3, <2>3 DEF ClientType, EnterBound, States, Offer
  <1>4. CASE PumpSelect(m)
    BY <1>1, <1>2, <1>4, OfferType DEF PumpSelect
  <1>5. CASE PumpRequest(m)
    BY <1>1, <1>3, <1>5, OfferType, EnterDiscoverType DEF PumpRequest, ClientType
  <1>6. CASE PumpBound(m)
    BY <1>6 DEF PumpBound, Ignore, clientVars, ClientType
  <1>7. QED
    BY <1>4, <1>5, <1>6 DEF DhcpPump

LEMMA TimerFiresType ==
  ASSUME ClientType, TimerFires
  PROVE  ClientType'
  <1> USE DEF ClientType
  <1>1. CASE TimerSelect
    BY <1>1, EnterDiscoverType DEF TimerSelect
  <1>2. CASE TimerBound
    <2>1. requests' \subseteq [msg : RequestMessages, ttl : 0 .. Transit]
      BY <1>2, SentType, MessageTypes DEF TimerBound, EnterRenew, Broadcast
    <2>2. timer' \in -Latency .. TopBit - 1
      BY <1>2, TimerType, DhcpAssumption DEF TimerBound, EnterRenew
    <2>3. QED
      BY <1>2, <2>1, <2>2, DhcpAssumption DEF TimerBound, EnterRenew, States
  <1>3. CASE TimerRenewAgain
    <2>1. requests' \subseteq [msg : RequestMessages, ttl : 0 .. Transit]
      BY <1>3, SentType, MessageTypes DEF TimerRenewAgain, Broadcast
    <2>2. timer' \in -Latency .. TopBit - 1
      BY <1>3, TimerType, DhcpAssumption DEF TimerRenewAgain
    <2>3. QED
      BY <1>3, <2>1, <2>2, DhcpAssumption DEF TimerRenewAgain, States
  <1>4. CASE TimerRenewOver
    BY <1>4, EnterDiscoverType, DhcpAssumption DEF TimerRenewOver
  <1>5. QED
    BY <1>1, <1>2, <1>3, <1>4 DEF TimerFires

LEMMA TypeInvSplit ==
  TypeInv <=>
    /\ ClientType
    /\ replies \subseteq [msg : Reply, ttl : 0 .. Transit]
    /\ lease \in [Servers -> Int]
  BY DEF TypeInv, TypeOK, ClientType

LEMMA InitTypeInv == Init => TypeInv
  <1> SUFFICES ASSUME Init PROVE TypeInv
    OBVIOUS
  <1>1. timer \in -Latency .. TopBit - 1
    BY TicksOfSecRange, DhcpAssumption, TopBitHalf DEF Init
  <1>2. requests \subseteq [msg : RequestMessages, ttl : 0 .. Transit]
    BY MessageTypes, DhcpAssumption DEF Init
  <1>3. offer \in Offer
    BY WordAssumption DEF Init, Cleared, Offer, Addresses, Words
  <1>4. QED
    BY <1>1, <1>2, <1>3, DhcpAssumption, OverrunType
    DEF Init, TypeInv, TypeOK, States, Addresses

LEMMA ReplyOfType ==
  ASSUME NEW s \in Servers
  PROVE  /\ ReplyOf(s, "offer") \in Reply
         /\ ReplyOf(s, "ack") \in Reply
         /\ Refusal(s) \in Reply
  BY DhcpAssumption, WordAssumption DEF ReplyOf, Refusal, Reply, ReplyTypes, Addresses, Words

LEMMA NextTypeInv == TypeInv /\ [Next]_vars => TypeInv'
  <1> SUFFICES ASSUME TypeInv, [Next]_vars PROVE TypeInv'
    OBVIOUS
  <1> USE TypeInvSplit
  <1>1. CASE TimerFires
    <2>1. ClientType'
      BY <1>1, TimerFiresType
    <2>2. QED
      BY <1>1, <2>1 DEF TimerFires, TypeInv, TypeOK, ClientType
  <1>2. CASE Tick
    <2>1. timer' \in -Latency .. TopBit - 1
      BY <1>2, DhcpAssumption, TopBitHalf DEF Tick, ClientType
    <2>2. lease' \in [Servers -> Int]
      BY <1>2, OverrunType DEF Tick
    <2>3. requests' \subseteq [msg : RequestMessages, ttl : 0 .. Transit]
      BY <1>2, AgedType DEF Tick, ClientType
    <2>4. replies' \subseteq [msg : Reply, ttl : 0 .. Transit]
      BY <1>2, AgedType DEF Tick
    <2>5. QED
      BY <1>2, <2>1, <2>2, <2>3, <2>4 DEF Tick, TypeInv, TypeOK
  <1>3. ASSUME NEW r \in replies, Receive(r) PROVE TypeInv'
    <2>1. ClientType'
      BY <1>3, PumpType DEF Receive
    <2>2. QED
      BY <1>3, <2>1 DEF Receive, TypeInv, TypeOK, ClientType
  <1>4. ASSUME NEW m \in Strays, ReceiveStray(m) PROVE TypeInv'
    <2>1. ClientType'
      BY <1>4, PumpType, StraysAssumption DEF ReceiveStray
    <2>2. QED
      BY <1>4, <2>1 DEF ReceiveStray, TypeInv, TypeOK, ClientType
  <1>5. ASSUME NEW s \in Servers, ServeOffer(s) \/ ServeAck(s) \/ ServeNack(s)
        PROVE  TypeInv'
    <2>1. replies' \subseteq [msg : Reply, ttl : 0 .. Transit]
      BY <1>5, ReplyOfType, SentType DEF ServeOffer, ServeAck, ServeNack, Send
    <2>2. LeaseTicks(s) \in Int
      BY DhcpAssumption, ScaleAssumption, WordAssumption, SMTT(30)
      DEF LeaseTicks, TicksPerSec, Words
    <2>3. lease' \in [Servers -> Int]
      BY <1>5, <2>2 DEF ServeOffer, ServeAck, ServeNack
    <2>4. UNCHANGED <<clientVars, requests>>
      BY <1>5 DEF ServeOffer, ServeAck, ServeNack
    <2>5. QED
      BY <2>1, <2>3, <2>4 DEF TypeInv, TypeOK, clientVars
  <1>6. CASE UNCHANGED vars
    BY <1>6 DEF vars, clientVars, TypeInv, TypeOK
  <1>7. QED
    BY <1>1, <1>2, <1>3, <1>4, <1>5, <1>6 DEF Next

\* Every variable of the client, the servers and the network keeps its type;
\* in particular the retry counter never passes zero and the timer never runs
\* for half a word or more.
THEOREM DhcpTypeOK == Spec => []TypeOK
  <1>1. TypeInv => TypeOK
    BY DEF TypeInv
  <1>2. QED
    BY InitTypeInv, NextTypeInv, <1>1, PTL DEF Spec

-----------------------------------------------------------------------------
(***************************************************************************)
(* The lease.  While the client is BOUND, the lease of its address has the *)
(* whole renewal phase to go when the timer fires; in the k-th try of the  *)
(* renewal it has RenewRetries - k tries to go.  What is missing is the    *)
(* transit time of the acknowledgement and Latency for every timer that    *)
(* fired since.                                                            *)
(***************************************************************************)
\* ShortWait in ticks.
Try == TicksOfSec(ShortWait)

Margin(n, late) == n * Try - Transit - late * Latency

\* An acknowledgement on its way names an address of a server, its lease, and
\* is no older than its transit time.
AckValid(m, age) ==
  m.type = "ack" =>
    /\ m.ip \in Servers
    /\ m.lease = LeaseOf[m.ip]
    /\ lease[m.ip] >= LeaseTicks(m.ip) - age

\* The part about the client ...
ClientLease ==
  /\ state \in {"select", "request"} => address = None
  /\ state = "bound" =>
       /\ address \in Servers
       /\ lease[address] - timer >= Margin(RenewRetries, 0)
  /\ state = "renew" =>
       /\ address \in Servers
       /\ lease[address] - timer >= Margin(retries - 1, RenewRetries + 1 - retries)

\* ... and about the network.
NetLease ==
  /\ \A r \in replies : AckValid(r.msg, Transit - r.ttl)
  /\ \A s \in Servers : lease[s] <= LeaseTicks(s)

LeaseInv == TypeInv /\ ClientLease /\ NetLease

LEMMA TickCounts ==
  /\ TicksPerSec \in Nat \ {0}
  /\ \A s \in Servers : LeaseTicks(s) \in Nat
  BY DhcpAssumption, ScaleAssumption, WordAssumption, SMTT(30)
  DEF LeaseTicks, TicksPerSec, Words

LEMMA TryTicks ==
  ASSUME LeasesOutlastRenewal
  PROVE  Try = ShortWait * TicksPerSec /\ Try \in Nat \ {0}
  BY TicksOfSecExact, TickCounts, DhcpAssumption DEF LeasesOutlastRenewal, Try

\* Waiting in BOUND leaves exactly the renewal phase of the lease.
LEMMA BoundWaitTicks ==
  ASSUME LeasesOutlastRenewal, NEW s \in Servers
  PROVE  TicksOfSec(BoundWait(LeaseOf[s])) = LeaseTicks(s) - RenewRetries * Try
  <1> DEFINE wait == LeaseOf[s] - RenewRetries * ShortWait
  <1>1. LeaseOf[s] \in Words /\ RenewRetries * ShortWait \in Nat
    BY DhcpAssumption
  <1>2. Representable(wait)
    BY DEF LeasesOutlastRenewal
  <1>3. wait \in Nat
    BY <1>2 DEF Representable
  <1>4. BoundWait(LeaseOf[s]) = wait
    BY <1>1, <1>3, TruncateCases, WordAssumption DEF BoundWait, Words
  <1>5. TicksOfSec(wait) = wait * TicksPerSec
    BY <1>2, TicksOfSecExact, DhcpAssumption
  <1>6. wait * TicksPerSec = LeaseOf[s] * TicksPerSec - (RenewRetries * ShortWait) * TicksPerSec
    BY <1>1, TickCounts, WordAssumption DEF Words
  <1>7. (RenewRetries * ShortWait) * TicksPerSec = RenewRetries * (ShortWait * TicksPerSec)
    BY DhcpAssumption, TickCounts
  <1>8. QED
    BY <1>4, <1>5, <1>6, <1>7, TryTicks DEF LeaseTicks

LEMMA MarginStep ==
  ASSUME LeasesOutlastRenewal, NEW n \in Int, NEW late \in Int
  PROVE  /\ Margin(n, late) \in Int
         /\ Margin(n, late) - Latency - Try = Margin(n - 1, late + 1)
  <1>1. (n - 1) * Try = n * Try - Try /\ n * Try \in Int
    BY TryTicks
  <1>2. (late + 1) * Latency = late * Latency + Latency /\ late * Latency \in Int
    BY DhcpAssumption
  <1>3. QED
    BY <1>1, <1>2, TryTicks, DhcpAssumption DEF Margin

LEMMA EnterDiscoverLease ==
  ASSUME NEW o, EnterDiscover(o)
  PROVE  ClientLease'
  BY DEF EnterDiscover, ClientLease

LEMMA PumpLease ==
  ASSUME LeasesOutlastRenewal, LeaseInv, NEW m \in Reply, AckValid(m, Transit),
         DhcpPump(m), UNCHANGED lease
  PROVE  ClientLease'
  <1> USE DEF LeaseInv
  <1>1. ASSUME NEW o, KeepOffer(o) PROVE ClientLease'
    BY <1>1 DEF KeepOffer, ClientLease
  <1>2. ASSUME NEW o, state = "select", EnterRequest(o) PROVE ClientLease'
    BY <1>2 DEF EnterRequest, ClientLease
  <1>3. ASSUME m.type = "ack", EnterBound(Parsed(m)) PROVE ClientLease'
    <2>1. /\ m.ip \in Servers /\ m.lease = LeaseOf[m.ip]
          /\ lease[m.ip] >= LeaseTicks(m.ip) - Transit
      BY <1>3 DEF AckValid
    <2>2. state' = "bound" /\ address' = m.ip
      BY <1>3 DEF EnterBound, Parsed
    <2>3. timer' = LeaseTicks(m.ip) - RenewRetries * Try
      BY <1>3, <2>1, BoundWaitTicks DEF EnterBound, Parsed, SetTimer
    <2>4. Margin(RenewRetries, 0) = RenewRetries * Try - Transit
      BY TryTicks, DhcpAssumption DEF Margin
    <2>5. RenewRetries * Try \in Int /\ lease[m.ip] \in Int /\ LeaseTicks(m.ip) \in Int
      BY <2>1, TryTicks, TickCounts, DhcpAssumption DEF TypeInv, TypeOK
    <2>6. lease[m.ip] - timer' >= Margin(RenewRetries, 0)
      BY <2>1, <2>3, <2>4, <2>5, DhcpAssumption
    <2>7. lease'[address'] - timer' >= Margin(RenewRetries, 0)
      BY <2>2, <2>6
    <2>8. QED
      BY <2>1, <2>2, <2>7 DEF ClientLease
  <1>4. CASE PumpSelect(m)
    BY <1>1, <1>2, <1>4 DEF PumpSelect
  <1>5. CASE PumpRequest(m)
    <2>1. m.type \in {"nack", "untyped"} \/ m.type = "ack" \/ \E o : KeepOffer(o)
      BY <1>5 DEF PumpRequest, Accepts
    <2>2. m.type \in {"nack", "untyped"} => EnterDiscover(Parsed(m))
      BY <1>5 DEF PumpRequest, Accepts
    <2>3. m.type = "ack" => EnterBound(Parsed(m))
      BY <1>5 DEF PumpRequest, Accepts
    <2>4. QED
      BY <2>1, <2>2, <2>3, <1>1, <1>3, EnterDiscoverLease
  <1>6. CASE PumpBound(m)
    BY <1>6 DEF PumpBound, Ignore, clientVars, ClientLease
  <1>7. QED
    BY <1>4, <1>5, <1>6 DEF DhcpPump

LEMMA TimerFiresLease ==
  ASSUME LeasesOutlastRenewal, LeaseInv, TimerFires
  PROVE  ClientLease'
  <1> USE DEF LeaseInv
  <1>1. timer \in Int /\ timer >= -Latency /\ lease' = lease /\ retries \in 0 .. RenewRetries
    BY DhcpAssumption, TopBitHalf DEF TimerFires, TypeInv, TypeOK
  <1>2. address \in Servers => lease[address] \in Int
    BY DEF TypeInv, TypeOK
  <1>3. CASE TimerSelect
    BY <1>3, EnterDiscoverLease DEF TimerSelect
  <1>4. CASE TimerBound
    <2>1. /\ state' = "renew" /\ retries' = RenewRetries /\ address' = address
          /\ timer' = Try /\ address \in Servers
          /\ lease[address] - timer >= Margin(RenewRetries, 0)
      BY <1>4 DEF TimerBound, EnterRenew, SetTimer, Try, ClientLease
    <2>2. lease[address] - Try >= Margin(RenewRetries - 1, 1)
      <3>1. /\ Margin(RenewRetries, 0) - Latency - Try = Margin(RenewRetries - 1, 0 + 1)
            /\ Margin(RenewRetries, 0) \in Int
        <4>1. RenewRetries \in Int /\ 0 \in Int
          BY DhcpAssumption
        <4>2. QED
          BY <4>1, MarginStep
      <3>2. Margin(RenewRetries, 0) - Latency - Try = Margin(RenewRetries - 1, 1)
        BY <3>1
      <3>3. QED
        BY <1>1, <1>2, <2>1, <3>1, <3>2, TryTicks, DhcpAssumption
    <2>3. RenewRetries + 1 - RenewRetries = 1
      BY DhcpAssumption
    <2>4. QED
      BY <1>1, <2>1, <2>2, <2>3 DEF ClientLease
  <1>5. CASE TimerRenewAgain
    <2>1. /\ state' = "renew" /\ retries' = retries - 1 /\ address' = address
          /\ timer' = Try /\ address \in Servers
          /\ lease[address] - timer >= Margin(retries - 1, RenewRetries + 1 - retries)
      BY <1>5 DEF TimerRenewAgain, SetTimer, Try, ClientLease
    <2> DEFINE n == retries - 1
               late == RenewRetries + 1 - retries
    <2>2. n \in Int /\ late \in Int /\ late + 1 = RenewRetries + 1 - retries'
      BY <1>1, <2>1, DhcpAssumption
    <2>3. lease[address] - Try >= Margin(n - 1, late + 1)
      <3>1. Margin(n, late) - Latency - Try = Margin(n - 1, late + 1) /\ Margin(n, late) \in Int
        BY <2>2, MarginStep
      <3>2. lease[address] - timer >= Margin(n, late)
        BY <2>1
      <3> HIDE DEF n, late
      <3>3. QED
        BY <1>1, <1>2, <2>1, <3>1, <3>2, TryTicks, DhcpAssumption
    <2>4. lease'[address'] - timer' >= Margin(retries' - 1, RenewRetries + 1 - retries')
      BY <1>1, <2>1, <2>2, <2>3
    <2>5. QED
      BY <2>1, <2>4 DEF ClientLease
  <1>6. CASE TimerRenewOver
    BY <1>6, EnterDiscoverLease DEF TimerRenewOver
  <1>7. QED
    BY <1>3, <1>4, <1>5, <1>6 DEF TimerFires

LEMMA InitLeaseInv == Init => LeaseInv
  <1> SUFFICES ASSUME Init PROVE LeaseInv
    OBVIOUS
  <1>1. Forgotten < 0
    BY DhcpAssumption DEF Forgotten, Overrun
  <1>2. NetLease
    BY <1>1, TickCounts, OverrunType DEF Init, NetLease
  <1>3. ClientLease
    BY DEF Init, ClientLease
  <1>4. QED
    BY <1>2, <1>3, InitTypeInv DEF LeaseInv

\* What a step that leaves the client alone must do to the leases.
LEMMA ServeLease ==
  ASSUME LeaseInv, NEW s \in Servers, ServeOffer(s) \/ ServeAck(s) \/ ServeNack(s)
  PROVE  ClientLease' /\ NetLease'
  <1> USE DEF LeaseInv
  <1>1. UNCHANGED clientVars
    BY DEF ServeOffer, ServeAck, ServeNack
  <1>2. lease \in [Servers -> Int] /\ LeaseTicks(s) \in Int
    BY TickCounts DEF TypeInv, TypeOK
  <1>3. \A t \in Servers : lease'[t] >= lease[t] /\ lease'[t] <= LeaseTicks(t) /\ lease'[t] \in Int
    BY <1>2, TickCounts DEF ServeOffer, ServeAck, ServeNack, NetLease
  <1>4. ClientLease'
    <2>1. address \in Servers => lease'[address] >= lease[address] /\ lease[address] \in Int
      BY <1>2, <1>3
    <2>2. timer \in Int /\ retries \in Int
      BY DhcpAssumption, TopBitHalf DEF TypeInv, TypeOK
    <2> DEFINE fits(l, margin) == l - timer >= margin
    <2>3. ASSUME NEW margin, address \in Servers, fits(lease[address], margin),
                 margin \in Int
          PROVE  fits(lease'[address], margin)
      BY <1>3, <2>1, <2>2, <2>3
    <2>4. Try \in Int
      BY TicksOfSecRange, TopBitHalf, DhcpAssumption DEF Try
    <2>5. /\ Margin(RenewRetries, 0) \in Int
          /\ Margin(retries - 1, RenewRetries + 1 - retries) \in Int
      BY <2>2, <2>4, DhcpAssumption DEF Margin
    <2>6. QED
      BY <1>1, <2>3, <2>5 DEF clientVars, ClientLease
  <1>5. ASSUME NEW r \in replies' PROVE AckValid(r.msg, Transit - r.ttl)'
    <2>1. CASE r \in replies
      <3>1. AckValid(r.msg, Transit - r.ttl) /\ r.ttl \in Int
        BY <2>1 DEF NetLease, TypeInv, TypeOK
      <3>2. QED
        BY <1>2, <1>3, <3>1, TickCounts, DhcpAssumption DEF AckValid
    <2>2. CASE r \notin replies
      <3>1. \/ r = [msg |-> ReplyOf(s, "offer"), ttl |-> Transit]
            \/ r = [msg |-> Refusal(s), ttl |-> Transit]
            \/ r = [msg |-> ReplyOf(s, "ack"), ttl |-> Transit] /\ ServeAck(s)
        BY <1>5, <2>2 DEF ServeOffer, ServeAck, ServeNack, Send, Sent
      <3>2. ServeAck(s) => lease'[s] = LeaseTicks(s)
        BY <1>2 DEF ServeAck
      <3>3. Transit - Transit = 0
        BY DhcpAssumption
      <3>4. QED
        BY <3>1, <3>2, <3>3, <1>2 DEF AckValid, ReplyOf, Refusal
    <2>3. QED
      BY <2>1, <2>2
  <1>6. QED
    BY <1>3, <1>4, <1>5 DEF NetLease

LEMMA TickLease ==
  ASSUME LeaseInv, Tick
  PROVE  ClientLease' /\ NetLease'
  <1> USE DEF LeaseInv
  <1>1. \A s \in Servers : lease'[s] >= lease[s] - 1 /\ lease'[s] \in Int /\ lease[s] \in Int
    BY OverrunType DEF Tick, TypeInv, TypeOK
  <1>2. timer \in Int /\ timer' = timer - 1 /\ retries \in Int /\ retries' = retries
    BY DhcpAssumption, TopBitHalf DEF Tick, TypeInv, TypeOK
  <1>3. ClientLease'
    <2>1. Try \in Int
      BY TicksOfSecRange, TopBitHalf, DhcpAssumption DEF Try
    <2>2. /\ Margin(RenewRetries, 0) \in Int
          /\ Margin(retries - 1, RenewRetries + 1 - retries) \in Int
      BY <1>2, <2>1, DhcpAssumption DEF Margin
    <2>3. ASSUME NEW margin \in Int, address \in Servers, lease[address] - timer >= margin
          PROVE  lease'[address] - timer' >= margin
      BY <1>1, <1>2, <2>3
    <2>4. state' = state /\ address' = address
      BY DEF Tick
    <2>5. QED
      BY <1>2, <2>2, <2>3, <2>4 DEF ClientLease
  <1>4. ASSUME NEW r \in replies' PROVE AckValid(r.msg, Transit - r.ttl)'
    <2>1. PICK q \in replies : q.ttl > 0 /\ r = [q EXCEPT !.ttl = @ - 1]
      BY <1>4 DEF Tick, Aged
    <2>2. q \in [msg : Reply, ttl : 0 .. Transit]
      BY DEF TypeInv, TypeOK
    <2>3. r.msg = q.msg /\ r.ttl = q.ttl - 1 /\ q.ttl \in Int
      BY <2>1, <2>2
    <2>4. AckValid(q.msg, Transit - q.ttl)
      BY DEF NetLease
    <2>5. QED
      BY <1>1, <2>3, <2>4, TickCounts, DhcpAssumption DEF AckValid
  <1>5. ASSUME NEW s \in Servers PROVE lease'[s] <= LeaseTicks(s)
    <2>1. Forgotten < 0 /\ lease[s] <= LeaseTicks(s) /\ LeaseTicks(s) \in Nat
      BY TickCounts, DhcpAssumption DEF Forgotten, Overrun, NetLease
    <2>2. lease'[s] = IF lease[s] > Forgotten THEN lease[s] - 1 ELSE Forgotten
      BY DEF Tick
    <2>3. QED
      BY <1>1, <2>1, <2>2, OverrunType
  <1>6. QED
    BY <1>3, <1>4, <1>5 DEF NetLease

LEMMA NextLeaseInv ==
  ASSUME NoStrayAck, LeasesOutlastRenewal
  PROVE  LeaseInv /\ [Next]_vars => LeaseInv'
  <1> SUFFICES ASSUME LeaseInv, [Next]_vars PROVE ClientLease' /\ NetLease'
    BY NextTypeInv DEF LeaseInv
  <1>1. CASE TimerFires
    <2>1. NetLease'
      BY <1>1 DEF TimerFires, LeaseInv, NetLease, AckValid
    <2>2. QED
      BY <1>1, <2>1, TimerFiresLease
  <1>2. CASE Tick
    BY <1>2, TickLease
  <1>3. ASSUME NEW r \in replies, Receive(r) PROVE ClientLease' /\ NetLease'
    <2>1. r.msg \in Reply /\ r.ttl \in 0 .. Transit /\ lease' = lease
      BY <1>3 DEF LeaseInv, TypeInv, TypeOK, Receive
    <2>2. AckValid(r.msg, Transit - r.ttl)
      BY DEF LeaseInv, NetLease
    <2>3. AckValid(r.msg, Transit)
      BY <2>1, <2>2, TickCounts, DhcpAssumption
      DEF AckValid, LeaseInv, TypeInv, TypeOK
    <2>4. ClientLease'
      BY <1>3, <2>1, <2>3, PumpLease DEF Receive
    <2>5. NetLease'
      BY <1>3, <2>1 DEF Receive, LeaseInv, NetLease, AckValid
    <2>6. QED
      BY <2>4, <2>5
  <1>4. ASSUME NEW m \in Strays, ReceiveStray(m) PROVE ClientLease' /\ NetLease'
    <2>1. m \in Reply /\ AckValid(m, Transit)
      BY StraysAssumption DEF NoStrayAck, AckValid
    <2>2. ClientLease'
      BY <1>4, <2>1, PumpLease DEF ReceiveStray
    <2>3. NetLease'
      BY <1>4 DEF ReceiveStray, LeaseInv, NetLease, AckValid
    <2>4. QED
      BY <2>2, <2>3
  <1>5. ASSUME NEW s \in Servers, ServeOffer(s) \/ ServeAck(s) \/ ServeNack(s)
        PROVE  ClientLease' /\ NetLease'
    BY <1>5, ServeLease
  <1>6. CASE UNCHANGED vars
    BY <1>6 DEF vars, clientVars, LeaseInv, ClientLease, NetLease, AckValid
  <1>7. QED
    BY <1>1, <1>2, <1>3, <1>4, <1>5, <1>6 DEF Next

LEMMA LeaseInvHonoured ==
  ASSUME LeasesOutlastRenewal, LeaseInv
  PROVE  LeaseHonoured /\ AddressIffLeased
  <1> USE DEF LeaseInv
  <1>1. timer >= -Latency /\ timer \in Int /\ retries \in 0 .. RenewRetries
    BY DhcpAssumption, TopBitHalf DEF TypeInv, TypeOK
  <1>2. address \in Servers => lease[address] \in Int /\ address # None
    BY DhcpAssumption DEF TypeInv, TypeOK
  <1>3. CASE state = "bound"
    <2>1. Margin(RenewRetries, 0) >= -Transit /\ Margin(RenewRetries, 0) \in Int
      <3>1. RenewRetries * Try \in Nat
        BY TryTicks, DhcpAssumption
      <3>2. QED
        BY <3>1, DhcpAssumption DEF Margin
    <2>2. (RenewRetries + 1) * Latency >= Latency /\ (RenewRetries + 1) * Latency \in Nat
      BY DhcpAssumption
    <2>3. lease[address] >= -Overrun
      BY <1>1, <1>2, <1>3, <2>1, <2>2, DhcpAssumption DEF ClientLease, Overrun
    <2>4. QED
      BY <1>2, <1>3, <2>3 DEF ClientLease, LeaseHonoured, AddressIffLeased
  <1>4. CASE state = "renew"
    <2>1. retries \in 1 .. RenewRetries
      BY <1>1, <1>4, DhcpAssumption DEF TypeInv
    <2> DEFINE n == retries - 1
               late == RenewRetries + 1 - retries
    <2>2. n \in Nat /\ late \in 0 .. RenewRetries
      BY <2>1, DhcpAssumption
    <2>3. n * Try \in Nat /\ late * Latency \in Nat /\ late * Latency <= RenewRetries * Latency
      <3> HIDE DEF n, late
      <3>1. (RenewRetries - late) * Latency \in Nat
        BY <2>2, DhcpAssumption
      <3>2. (RenewRetries - late) * Latency = RenewRetries * Latency - late * Latency
        BY <2>2, DhcpAssumption
      <3>3. n * Try \in Nat /\ late * Latency \in Nat /\ RenewRetries * Latency \in Nat
        BY <2>2, TryTicks, DhcpAssumption
      <3>4. QED
        BY <3>1, <3>2, <3>3
    <2>4. (RenewRetries + 1) * Latency = RenewRetries * Latency + Latency
          /\ RenewRetries * Latency \in Nat
      BY DhcpAssumption
    <2>5. lease[address] - timer >= Margin(n, late)
      BY <1>4 DEF ClientLease
    <2>6. lease[address] >= -Overrun
      <3> HIDE DEF n, late
      <3>1. address \in Servers
        BY <1>4 DEF ClientLease
      <3>2. QED
        BY <1>1, <1>2, <2>3, <2>4, <2>5, <3>1, DhcpAssumption DEF Margin, Overrun
    <2>7. QED
      BY <1>2, <1>4, <2>6 DEF ClientLease, LeaseHonoured, AddressIffLeased
  <1>5. CASE state \in {"select", "request"}
    BY <1>5 DEF ClientLease, LeaseHonoured, AddressIffLeased
  <1>6. QED
    BY <1>3, <1>4, <1>5 DEF TypeInv, TypeOK, States

\* The client holds an address exactly in BOUND and RENEW, provided that no
\* acknowledgement for another client reaches it.
THEOREM DhcpAddressIffLeased ==
  ASSUME NoStrayAck, LeasesOutlastRenewal
  PROVE  Spec => []AddressIffLeased
  <1>1. LeaseInv => AddressIffLeased
    BY LeaseInvHonoured
  <1>2. LeaseInv /\ [Next]_vars => LeaseInv'
    BY NextLeaseInv
  <1>3. QED
    BY InitLeaseInv, <1>1, <1>2, PTL DEF Spec

\* The client never uses an address for longer than its lease, but for the
\* Overrun: the transit time of the acknowledgement, and one Latency for each
\* of the RenewRetries + 1 timers between BOUND and giving up.  It holds for
\* servers whose leases outlast the renewal phase; the program accepts shorter
\* ones (see the run dhcp_short_lease).
THEOREM DhcpLeaseHonoured ==
  ASSUME NoStrayAck, LeasesOutlastRenewal
  PROVE  Spec => []LeaseHonoured
  <1>1. LeaseInv => LeaseHonoured
    BY LeaseInvHonoured
  <1>2. LeaseInv /\ [Next]_vars => LeaseInv'
    BY NextLeaseInv
  <1>3. QED
    BY InitLeaseInv, <1>1, <1>2, PTL DEF Spec

-----------------------------------------------------------------------------
(***************************************************************************)
(* Suitable leases.  The program looks at an offer once, asks for what the *)
(* offer globals hold, and takes an acknowledgement as it comes.  No offer *)
(* that it did not look at is asked for, because the globals are used      *)
(* again only in the renewal, and an offer that comes after the first      *)
(* suitable one is gone by then (Quiet).                                   *)
(***************************************************************************)
Fit(s) == s \in Complete /\ LeaseOf[s] >= MinLease

\* What the servers tell other clients is about other clients' addresses, and no
\* acknowledgement among it reaches this one.
StraysOfOthers == \A m \in Strays : m.type # "ack" /\ m.ip \notin Servers

\* The wait in BOUND is longer than a DISCOVER and its offer can be under way.
BoundsOutlastOffers ==
  \A s \in Servers : Fit(s) => TicksOfSec(BoundWait(LeaseOf[s])) >= 2 * Transit

\* Requests for an address of a server, and the replies of the servers.
Honest ==
  /\ \A q \in requests :
       q.msg.type = "request" /\ q.msg.ip \in Servers => Fit(q.msg.ip)
  /\ \A r \in replies :
       \/ \E s \in Servers : r.msg = ReplyOf(s, "offer")
       \/ \E s \in Servers : Fit(s) /\ r.msg = ReplyOf(s, "ack")
       \/ r.msg.type = "nack"

\* Whatever was offered before the client chose is gone before it asks again.
Quiet ==
  /\ state = "bound" =>
       /\ \A q \in requests : q.msg.type = "discover" => q.ttl + Transit <= timer
       /\ \A r \in replies : r.msg.type = "offer" => r.ttl <= timer
  /\ state = "renew" =>
       /\ \A q \in requests : q.msg.type # "discover"
       /\ \A r \in replies : r.msg.type # "offer"

\* What the client uses, and would ask for in a renewal.
Chosen ==
  IF state \in {"bound", "renew"}
  THEN address \in Servers /\ Fit(address) /\ (offer.ip \in Servers => Fit(offer.ip))
  ELSE address = None

ChoiceInv == TypeInv /\ Honest /\ Quiet /\ Chosen

\* No other client's offer reaches this one, but for refusals and BOOTP replies.
NoStrayOffer == \A m \in Strays : m.type \in {"nack", "untyped"}

Own == state \in {"bound", "renew"} => offer.ip = address /\ offer.sid = address

LEMMA SentOnly ==
  ASSUME NEW messages, NEW m
  PROVE  \A q \in Sent(messages, m) : q \in messages \/ (q.msg = m /\ q.ttl = Transit)
  BY DEF Sent

\* Going back to DISCOVER forgets all that was chosen.
LEMMA DiscoverChoice ==
  ASSUME ChoiceInv, NEW o, EnterDiscover(o), replies' \subseteq replies
  PROVE  Honest' /\ Quiet' /\ Chosen' /\ Own'
  <1>1. state' = "select" /\ address' = None /\ requests' = Sent(requests, Discover)
    BY DEF EnterDiscover, Broadcast
  <1>2. \A q \in requests' : q \in requests \/ q.msg.type = "discover"
    BY <1>1, SentOnly DEF Discover
  <1>3. Honest'
    BY <1>2 DEF ChoiceInv, Honest
  <1>. QED  BY <1>1, <1>3 DEF Quiet, Chosen, Own

\* What a reply may be: of a server to this client, or a stray.
Known(m) ==
  \/ \E s \in Servers : m = ReplyOf(s, "offer")
  \/ \E s \in Servers : Fit(s) /\ m = ReplyOf(s, "ack")
  \/ m.type = "nack"
  \/ m.type # "ack" /\ m.ip \notin Servers

LEMMA BoundWaitType ==
  ASSUME NEW s \in Servers
  PROVE  BoundWait(LeaseOf[s]) \in Nat
  <1>1. LeaseOf[s] - RenewRetries * ShortWait \in Int
    BY DhcpAssumption, WordAssumption DEF Words
  <1>. QED  BY <1>1, TruncateCases, WordAssumption DEF BoundWait, Words

LEMMA ReplyFields ==
  ASSUME NEW s, NEW type
  PROVE  /\ ReplyOf(s, type).type = type
         /\ ReplyOf(s, type).ip = s /\ ReplyOf(s, type).sid = s
         /\ ReplyOf(s, type).lease = LeaseOf[s]
         /\ ReplyOf(s, type).complete = (s \in Complete)
  BY DEF ReplyOf

LEMMA RequestChoice ==
  ASSUME ChoiceInv, NEW m \in Reply, Known(m), m.type \in {"offer", "untyped"},
         Suitable(Parsed(m)), EnterRequest(Parsed(m)), state = "select",
         replies' \subseteq replies
  PROVE  Honest' /\ Quiet' /\ Chosen' /\ Own'
  <1>1. m.complete /\ m.lease >= MinLease
    BY DEF Suitable, Parsed
  <1>2. /\ state' = "request" /\ address' = address
        /\ requests' = Sent(requests, Request(Parsed(m)))
    BY DEF EnterRequest, Broadcast
  <1>3. m.ip \in Servers => Fit(m.ip)
    <2>1. CASE \E s \in Servers : m = ReplyOf(s, "offer")
      <3>1. PICK s \in Servers : m = ReplyOf(s, "offer")
        BY <2>1
      <3>2. m.ip = s /\ m.lease = LeaseOf[s] /\ m.complete = (s \in Complete)
        BY <3>1, ReplyFields
      <3>3. s \in Complete /\ LeaseOf[s] >= MinLease
        BY <1>1, <3>2, Zenon
      <3>. QED  BY <3>2, <3>3, Zenon DEF Fit
    <2>2. CASE \E s \in Servers : Fit(s) /\ m = ReplyOf(s, "ack")
      BY <2>2, ReplyFields
    <2>. QED  BY <2>1, <2>2 DEF Known
  <1>4. Request(Parsed(m)).ip = m.ip
    BY DEF Request, Parsed
  <1>5. Honest'
    <2>1. \A q \in requests' : q \in requests \/ q.msg = Request(Parsed(m))
      BY <1>2, SentOnly
    <2>. QED  BY <1>3, <1>4, <2>1 DEF ChoiceInv, Honest
  <1>. QED  BY <1>2, <1>5 DEF ChoiceInv, Quiet, Chosen, Own

\* The lease that is acknowledged is one that was asked for, and BOUND lasts until all
\* else that was offered has gone.
LEMMA BoundChoice ==
  ASSUME BoundsOutlastOffers, ChoiceInv, NEW s \in Servers, Fit(s),
         NEW m, m = ReplyOf(s, "ack"), EnterBound(Parsed(m)), replies' \subseteq replies
  PROVE  Honest' /\ Quiet' /\ Chosen' /\ Own'
  <1>1. m.ip = s /\ m.sid = s /\ m.lease = LeaseOf[s]
    BY ReplyFields
  <1>2. /\ state' = "bound" /\ address' = s /\ offer'.ip = s /\ offer'.sid = s
        /\ requests' = requests /\ timer' = TicksOfSec(BoundWait(LeaseOf[s]))
    BY <1>1 DEF EnterBound, Parsed, SetTimer
  <1>3. timer' >= 2 * Transit
    BY <1>2 DEF BoundsOutlastOffers
  <1>4. timer' \in Int
    BY <1>1, <1>2, ReplyFields, BoundWaitType, TicksOfSecRange, TopBitHalf
  <1>5. /\ \A q \in requests : q.ttl \in 0 .. Transit
        /\ \A r \in replies : r.ttl \in 0 .. Transit
    BY DEF ChoiceInv, TypeInv, TypeOK
  <1>6. Quiet'
    <2>1. \A q \in requests' : q.ttl + Transit <= timer'
      BY <1>2, <1>3, <1>4, <1>5, DhcpAssumption
    <2>2. \A r \in replies' : r.ttl <= timer'
      BY <1>2, <1>3, <1>4, <1>5, DhcpAssumption
    <2>. QED  BY <1>2, <2>1, <2>2 DEF Quiet
  <1>7. Honest'
    BY <1>2 DEF ChoiceInv, Honest
  <1>8. Chosen'
    BY <1>2 DEF Chosen
  <1>. QED  BY <1>2, <1>6, <1>7, <1>8 DEF Own

\* Nothing is asked for or taken.
LEMMA KeepChoice ==
  ASSUME ChoiceInv, NEW m, NEW o \in {Parsed(m), Cleared(m.ip)}, KeepOffer(o),
         state \in {"bound", "renew"} => m.ip \notin Servers,
         replies' \subseteq replies
  PROVE  Honest' /\ Quiet' /\ Chosen'
  <1>1. o.ip = m.ip
    BY DEF Parsed, Cleared
  <1>2. offer'.ip = m.ip /\ UNCHANGED <<state, address, timer, requests>>
    BY <1>1 DEF KeepOffer
  <1>3. Honest'
    BY <1>2 DEF ChoiceInv, Honest
  <1>4. Quiet'
    BY <1>2 DEF ChoiceInv, Quiet
  <1>5. Chosen'
    BY <1>2 DEF ChoiceInv, Chosen
  <1>. QED  BY <1>3, <1>4, <1>5

\* A reply that a renewal meets: no offer of a server.
Late(m) == state = "renew" => ~ \E s \in Servers : m = ReplyOf(s, "offer")

LEMMA PumpChoice ==
  ASSUME BoundsOutlastOffers, ChoiceInv, NEW m \in Reply, Known(m), Late(m), DhcpPump(m),
         replies' \subseteq replies
  PROVE  /\ Honest' /\ Quiet' /\ Chosen'
         /\ Own /\ (state = "renew" => m.type \in {"ack", "nack", "untyped"}) => Own'
  <1>1. CASE PumpSelect(m)
    <2>1. state = "select"
      BY <1>1 DEF PumpSelect
    <2>2. CASE m.type \in {"offer", "untyped"} /\ Suitable(Parsed(m))
      <3>1. EnterRequest(Parsed(m))
        BY <1>1, <2>2 DEF PumpSelect, Accepts
      <3>. QED  BY <2>1, <2>2, <3>1, RequestChoice
    <2>3. CASE ~(m.type \in {"offer", "untyped"} /\ Suitable(Parsed(m)))
      <3>1. PICK o \in {Parsed(m), Cleared(m.ip)} : KeepOffer(o)
        BY <1>1, <2>3 DEF PumpSelect, Accepts, Abandoned
      <3>2. Own'
        BY <2>1, <3>1 DEF KeepOffer, Own
      <3>. QED  BY <2>1, <3>1, <3>2, KeepChoice
    <2>. QED  BY <2>2, <2>3
  <1>2. CASE PumpRequest(m)
    <2>1. state \in {"request", "renew"}
      BY <1>2 DEF PumpRequest
    <2>2. CASE m.type \in {"nack", "untyped"}
      <3>1. EnterDiscover(Parsed(m))
        BY <1>2, <2>2 DEF PumpRequest, Accepts
      <3>. QED  BY <3>1, DiscoverChoice
    <2>3. CASE m.type = "ack"
      <3>1. EnterBound(Parsed(m))
        BY <1>2, <2>3 DEF PumpRequest, Accepts
      <3>2. PICK s \in Servers : Fit(s) /\ m = ReplyOf(s, "ack")
        BY <2>3, ReplyFields DEF Known
      <3>. QED  BY <3>1, <3>2, BoundChoice
    <2>4. CASE m.type \notin {"nack", "untyped", "ack"}
      <3>1. PICK o \in {Parsed(m), Cleared(m.ip)} : KeepOffer(o)
        BY <1>2, <2>4 DEF PumpRequest, Accepts, Abandoned
      <3>2. state = "renew" => m.ip \notin Servers
        BY <2>4, ReplyFields DEF Known, Late
      <3>3. state # "renew" => Own'
        BY <2>1, <3>1 DEF KeepOffer, Own
      <3>. QED  BY <2>1, <2>4, <3>1, <3>2, <3>3, KeepChoice
    <2>. QED  BY <2>2, <2>3, <2>4
  <1>3. CASE PumpBound(m)
    <2>1. UNCHANGED <<state, address, offer, timer, requests>>
      BY <1>3 DEF PumpBound, Ignore, clientVars
    <2>2. Honest'
      BY <2>1 DEF ChoiceInv, Honest
    <2>3. Quiet'
      BY <2>1 DEF ChoiceInv, Quiet
    <2>4. Chosen' /\ (Own => Own')
      BY <2>1 DEF ChoiceInv, Chosen, Own
    <2>. QED  BY <2>2, <2>3, <2>4
  <1>. QED  BY <1>1, <1>2, <1>3 DEF DhcpPump

LEMMA TimerChoice ==
  ASSUME ChoiceInv, TimerFires
  PROVE  Honest' /\ Quiet' /\ Chosen' /\ (Own => Own')
  <1>1. replies' = replies /\ timer < 0
    BY DEF TimerFires
  <1>2. CASE TimerSelect
    BY <1>1, <1>2, DiscoverChoice DEF TimerSelect
  <1>3. ASSUME state \in {"bound", "renew"}, state' = "renew",
               requests' = Sent(requests, Request(offer)),
               UNCHANGED <<offer, address>>
        PROVE  Honest' /\ Quiet' /\ Chosen' /\ (Own => Own')
    <2>1. \A q \in requests' : q \in requests \/ q.msg = Request(offer)
      BY <1>3, SentOnly
    <2>2. /\ Request(offer).type = "request" /\ Request(offer).ip = offer.ip
          /\ offer.ip \in Servers => Fit(offer.ip)
      BY <1>3 DEF Request, ChoiceInv, Chosen
    <2>3. Honest'
      BY <1>1, <2>1, <2>2 DEF ChoiceInv, Honest
    <2>4. /\ \A q \in requests : q.msg.type # "discover"
          /\ \A r \in replies : r.msg.type # "offer"
      <3>1. CASE state = "renew"
        BY <3>1 DEF ChoiceInv, Quiet
      <3>2. CASE state = "bound"
        <4>1. /\ \A q \in requests : q.ttl \in 0 .. Transit
              /\ \A r \in replies : r.ttl \in 0 .. Transit
              /\ timer \in Int
          BY DhcpAssumption, TopBitHalf DEF ChoiceInv, TypeInv, TypeOK
        <4>2. /\ \A q \in requests : q.msg.type = "discover" => q.ttl + Transit <= timer
              /\ \A r \in replies : r.msg.type = "offer" => r.ttl <= timer
          BY <3>2 DEF ChoiceInv, Quiet
        <4>. QED  BY <1>1, <4>1, <4>2, DhcpAssumption
      <3>. QED  BY <1>3, <3>1, <3>2
    <2>5. Quiet'
      BY <1>1, <1>3, <2>1, <2>2, <2>4 DEF Quiet
    <2>6. Chosen' /\ (Own => Own')
      BY <1>3 DEF ChoiceInv, Chosen, Own
    <2>. QED  BY <2>3, <2>5, <2>6
  <1>4. CASE TimerBound
    BY <1>3, <1>4 DEF TimerBound, EnterRenew, Broadcast
  <1>5. CASE TimerRenewAgain
    BY <1>3, <1>5 DEF TimerRenewAgain, Broadcast
  <1>6. CASE TimerRenewOver
    BY <1>1, <1>6, DiscoverChoice DEF TimerRenewOver
  <1>. QED  BY <1>2, <1>4, <1>5, <1>6 DEF TimerFires

LEMMA TickChoice ==
  ASSUME ChoiceInv, Tick
  PROVE  Honest' /\ Quiet' /\ Chosen' /\ (Own => Own')
  <1>1. /\ UNCHANGED <<state, address, offer>> /\ timer' = timer - 1 /\ timer \in Int
        /\ requests' = Aged(requests) /\ replies' = Aged(replies)
    BY DhcpAssumption, TopBitHalf DEF Tick, ChoiceInv, TypeInv, TypeOK
  <1>2. ASSUME NEW M, NEW messages, messages \subseteq [msg : M, ttl : 0 .. Transit],
               NEW q \in Aged(messages)
        PROVE  \E p \in messages : q.msg = p.msg /\ q.ttl = p.ttl - 1 /\ p.ttl \in Int
    <2>1. PICK p \in messages : q = [p EXCEPT !.ttl = @ - 1]
      BY <1>2 DEF Aged
    <2>2. p \in [msg : M, ttl : 0 .. Transit]
      BY <1>2
    <2>3. q.msg = p.msg /\ q.ttl = p.ttl - 1 /\ p.ttl \in Int
      BY <2>1, <2>2
    <2>. QED  BY <2>3
  <1>3. \A q \in requests' :
          \E p \in requests : q.msg = p.msg /\ q.ttl = p.ttl - 1 /\ p.ttl \in Int
    <2>1. requests \subseteq [msg : RequestMessages, ttl : 0 .. Transit]
      BY DEF ChoiceInv, TypeInv, TypeOK
    <2>. QED  BY <1>1, <1>2, <2>1
  <1>4. \A r \in replies' :
          \E p \in replies : r.msg = p.msg /\ r.ttl = p.ttl - 1 /\ p.ttl \in Int
    <2>1. replies \subseteq [msg : Reply, ttl : 0 .. Transit]
      BY DEF ChoiceInv, TypeInv, TypeOK
    <2>. QED  BY <1>1, <1>2, <2>1
  <1>5. Honest'
    <2>1. \A q \in requests' : \E p \in requests : q.msg = p.msg
      BY <1>3
    <2>2. \A r \in replies' : \E p \in replies : r.msg = p.msg
      BY <1>4
    <2>. QED  BY <2>1, <2>2 DEF ChoiceInv, Honest
  <1>6. Quiet'
    <2>1. CASE state = "bound"
      <3>1. \A q \in requests' : q.msg.type = "discover" => q.ttl + Transit <= timer'
        BY <1>1, <1>3, <2>1, DhcpAssumption DEF ChoiceInv, Quiet
      <3>2. \A r \in replies' : r.msg.type = "offer" => r.ttl <= timer'
        BY <1>1, <1>4, <2>1, DhcpAssumption DEF ChoiceInv, Quiet
      <3>. QED  BY <1>1, <2>1, <3>1, <3>2 DEF Quiet
    <2>2. CASE state = "renew"
      <3>1. \A q \in requests' : q.msg.type # "discover"
        BY <1>3, <2>2 DEF ChoiceInv, Quiet
      <3>2. \A r \in replies' : r.msg.type # "offer"
        BY <1>4, <2>2 DEF ChoiceInv, Quiet
      <3>. QED  BY <1>1, <2>2, <3>1, <3>2 DEF Quiet
    <2>3. CASE state \notin {"bound", "renew"}
      BY <1>1, <2>3 DEF Quiet
    <2>. QED  BY <2>1, <2>2, <2>3
  <1>7. Chosen' /\ (Own => Own')
    BY <1>1 DEF ChoiceInv, Chosen, Own
  <1>. QED  BY <1>5, <1>6, <1>7

LEMMA ServeChoice ==
  ASSUME ChoiceInv, NEW s \in Servers, ServeOffer(s) \/ ServeAck(s) \/ ServeNack(s)
  PROVE  Honest' /\ Quiet' /\ Chosen' /\ (Own => Own')
  <1>1. UNCHANGED <<state, address, offer, timer, requests>>
    BY DEF ServeOffer, ServeAck, ServeNack, clientVars
  <1>2. PICK m : /\ replies' = Sent(replies, m)
                 /\ \/ m = ReplyOf(s, "offer") /\ ServeOffer(s)
                    \/ m = ReplyOf(s, "ack") /\ ServeAck(s)
                    \/ m = Refusal(s)
    BY DEF ServeOffer, ServeAck, ServeNack, Send
  <1>3. \A r \in replies' : r \in replies \/ (r.msg = m /\ r.ttl = Transit)
    BY <1>2, SentOnly
  <1>4. Refusal(s).type = "nack" /\ ReplyOf(s, "ack").type = "ack"
    BY ReplyFields DEF Refusal
  <1>5. ServeAck(s) => Fit(s)
    <2>1. SUFFICES ASSUME ServeAck(s)
                   PROVE  Fit(s)
      OBVIOUS
    <2>2. PICK q \in requests : q.msg = [type |-> "request", ip |-> s, sid |-> s]
      BY <2>1 DEF ServeAck
    <2>3. q.msg.type = "request" /\ q.msg.ip = s
      BY <2>2
    <2>. QED  BY <2>3 DEF ChoiceInv, Honest
  <1>6. Honest'
    BY <1>1, <1>2, <1>3, <1>4, <1>5 DEF ChoiceInv, Honest
  <1>7. CASE m.type = "offer"
    <2>1. ServeOffer(s)
      BY <1>2, <1>4, <1>7
    <2>2. PICK q \in requests : q.msg = Discover
      BY <2>1 DEF ServeOffer
    <2>3. q.msg.type = "discover" /\ q.ttl \in 0 .. Transit /\ timer \in Int
      BY <2>2, DhcpAssumption, TopBitHalf DEF Discover, ChoiceInv, TypeInv, TypeOK
    <2>4. state # "renew" /\ (state = "bound" => Transit <= timer)
      BY <2>3, DhcpAssumption DEF ChoiceInv, Quiet
    <2>5. Quiet'
      BY <1>1, <1>3, <2>4 DEF ChoiceInv, Quiet
    <2>. QED  BY <1>1, <1>6, <2>5 DEF ChoiceInv, Chosen, Own
  <1>8. CASE m.type # "offer"
    <2>1. Quiet'
      BY <1>1, <1>3, <1>8 DEF ChoiceInv, Quiet
    <2>. QED  BY <1>1, <1>6, <2>1 DEF ChoiceInv, Chosen, Own
  <1>. QED  BY <1>7, <1>8

LEMMA NextChoice ==
  ASSUME StraysOfOthers, BoundsOutlastOffers
  PROVE  /\ ChoiceInv /\ [Next]_vars => ChoiceInv'
         /\ NoStrayOffer /\ ChoiceInv /\ Own /\ [Next]_vars => Own'
  <1> SUFFICES ASSUME ChoiceInv, [Next]_vars
               PROVE  Honest' /\ Quiet' /\ Chosen' /\ (NoStrayOffer /\ Own => Own')
    BY NextTypeInv DEF ChoiceInv
  <1>1. CASE TimerFires
    BY <1>1, TimerChoice
  <1>2. CASE Tick
    BY <1>2, TickChoice
  <1>3. ASSUME NEW r \in replies, Receive(r)
        PROVE  Honest' /\ Quiet' /\ Chosen' /\ (Own => Own')
    <2>1. DhcpPump(r.msg) /\ replies' \subseteq replies
      BY <1>3 DEF Receive
    <2>2. r.msg \in Reply /\ Known(r.msg)
      BY DEF Known, ChoiceInv, Honest, TypeInv, TypeOK
    <2>3. state = "renew" => r.msg.type # "offer"
      BY DEF ChoiceInv, Quiet
    <2>4. Late(r.msg) /\ (state = "renew" => r.msg.type \in {"ack", "nack", "untyped"})
      BY <2>3, ReplyFields DEF Late, ChoiceInv, Honest
    <2>. QED  BY <2>1, <2>2, <2>4, PumpChoice
  <1>4. ASSUME NEW m \in Strays, ReceiveStray(m)
        PROVE  Honest' /\ Quiet' /\ Chosen' /\ (NoStrayOffer /\ Own => Own')
    <2>1. DhcpPump(m) /\ replies' \subseteq replies
      BY <1>4 DEF ReceiveStray
    <2>2. m \in Reply /\ m.type # "ack" /\ m.ip \notin Servers
      BY StraysAssumption DEF StraysOfOthers
    <2>3. Known(m) /\ Late(m)
      BY <2>2, ReplyFields DEF Known, Late
    <2>4. NoStrayOffer => m.type \in {"ack", "nack", "untyped"}
      BY DEF NoStrayOffer
    <2>. QED  BY <2>1, <2>2, <2>3, <2>4, PumpChoice
  <1>5. ASSUME NEW s \in Servers, ServeOffer(s) \/ ServeAck(s) \/ ServeNack(s)
        PROVE  Honest' /\ Quiet' /\ Chosen' /\ (Own => Own')
    BY <1>5, ServeChoice
  <1>6. CASE UNCHANGED vars
    BY <1>6 DEF vars, clientVars, ChoiceInv, Honest, Quiet, Chosen, Own
  <1>. QED  BY <1>1, <1>2, <1>3, <1>4, <1>5, <1>6 DEF Next

LEMMA InitChoice == Init => ChoiceInv /\ Own
  <1> SUFFICES ASSUME Init PROVE Honest /\ Quiet /\ Chosen /\ Own
    BY InitTypeInv DEF ChoiceInv
  <1>1. Honest
    BY DEF Init, Honest, Discover
  <1>. QED  BY <1>1 DEF Init, Quiet, Chosen, Own

\* The address in use is of a server with a gateway, a DNS server and a long enough
\* lease, although nothing but the first offer is ever looked at.
THEOREM DhcpOnlySuitableLeases ==
  ASSUME StraysOfOthers, BoundsOutlastOffers
  PROVE  Spec => []OnlySuitableLeases
  <1>1. ChoiceInv => OnlySuitableLeases
    BY DEF ChoiceInv, Chosen, Fit, OnlySuitableLeases
  <1>2. ChoiceInv /\ [Next]_vars => ChoiceInv'
    BY NextChoice
  <1>3. Init => ChoiceInv
    BY InitChoice
  <1>. QED  BY <1>1, <1>2, <1>3, PTL DEF Spec

\* A renewal is about the address in use and goes to the server that granted it, as
\* long as other clients' offers do not overwrite the globals that it is sent from.
THEOREM DhcpRenewsOwnLease ==
  ASSUME StraysOfOthers, BoundsOutlastOffers, NoStrayOffer
  PROVE  Spec => []RenewsOwnLease
  <1> DEFINE Inv == ChoiceInv /\ Own
  <1>1. Inv => RenewsOwnLease
    BY DEF Own, RenewsOwnLease
  <1>2. Inv /\ [Next]_vars => Inv'
    BY NextChoice
  <1>3. Init => Inv
    BY InitChoice
  <1> HIDE DEF Inv
  <1>. QED  BY <1>1, <1>2, <1>3, PTL DEF Spec
=============================================================================
