------------------------------ MODULE ArpProofs ------------------------------
(***************************************************************************)
(* The bindings that the ARP cache hands out are fresh, and failures are   *)
(* forgotten: both follow from what a flush leaves in the cache, and from  *)
(* how long the next flush can take.  Then the packets that wait for an    *)
(* address: what drives their queries on, and how long they can wait.      *)
(***************************************************************************)
EXTENDS Arp, SequenceTheorems, NumberTheorems

ArpPacket == [ip : Hosts, mac : Macs, forUs : BOOLEAN, ttl : 0 .. Transit]

EntryType == [valid : BOOLEAN, mac : Macs \cup {Zero}, attempts : Nat, left : Int]

\* What this proof needs of the types of the variables.
Types ==
  /\ cache = [h \in Entries |-> cache[h]]
  /\ \A h \in Entries : cache[h] \in EntryType
  /\ flush \in -Latency .. FlushInterval
  /\ air \subseteq ArpPacket
  /\ mac \in [Hosts -> Macs]
  /\ moved \in [Hosts -> 0 .. Forever]

\* An entry is no later than the time since the last flush, which would have
\* removed it.
Flushed(e) ==
  /\ e.valid => e.left \in flush - FlushInterval .. CacheTimeout
  /\ ~e.valid /\ e.attempts >= MaxAttempts =>
       e.left >= QueryInterval + flush - FlushInterval

\* An entry that is wrong was right when its packet was sent, which is as long
\* ago as the packet was under way and the entry has been in the cache.
Aging(h, e) ==
  e.valid => /\ h \in Hosts
             /\ e.mac # mac[h] => moved[h] <= Transit + CacheTimeout - e.left

\* A packet that is wrong was right when it was sent.
InTime(a) == a.mac # mac[a.ip] => moved[a.ip] <= Transit - a.ttl

ArpInv ==
  /\ Types
  /\ \A h \in Entries : Flushed(cache[h]) /\ Aging(h, cache[h])
  /\ \A a \in air : InTime(a)
-----------------------------------------------------------------------------
LEMMA Numbers ==
  /\ {CacheTimeout, FlushInterval, QueryInterval, MaxAttempts, Latency} \subseteq Nat \ {0}
  /\ Transit \in Nat
  /\ Stale = Transit + CacheTimeout + FlushInterval + Latency
  /\ Forever = Stale + 1 /\ Forever \in Nat
  /\ Floor = -(FlushInterval + Latency + 1)
  BY ArpAssumption DEF Stale, Forever, Floor

LEMMA InitArpInv == Init => ArpInv
  BY Numbers, SMTT(60) DEF Init, ArpInv, Types, Entries, ArpPacket

\* A query leaves an entry that is not valid, with the whole interval to go.
LEMMA QueriedEntry ==
  ASSUME NEW n \in Nat, NEW h, flush \in -Latency .. FlushInterval
  PROVE  Queried(n) \in EntryType /\ Flushed(Queried(n)) /\ Aging(h, Queried(n))
  BY Numbers DEF Queried, Entry, EntryType, Flushed, Aging

\* net_arp_resolve() leaves an entry alone or queries for it.
LEMMA ResolveInv ==
  ASSUME ArpInv, NEW hops, Resolve(hops),
         UNCHANGED <<flush, air, mac, moved>>
  PROVE  ArpInv'
  <1>1. /\ cache' = [h \in DOMAIN cache' |-> cache'[h]]
        /\ DOMAIN cache' = DOMAIN cache \cup hops
    BY DEF Resolve, Entries
  <1>2. ASSUME NEW h \in DOMAIN cache'
        PROVE  cache'[h] \in EntryType /\ Flushed(cache'[h]) /\ Aging(h, cache'[h])
    <2>1. CASE h \in Entries /\ cache'[h] = cache[h]
      BY <2>1 DEF ArpInv, Types
    <2>2. CASE cache'[h] = Queried(0)
      BY <2>2, QueriedEntry DEF ArpInv, Types
    <2>3. CASE h \in Entries /\ cache'[h] = Queried(cache[h].attempts)
      <3>1. cache[h].attempts \in Nat
        BY <2>3 DEF ArpInv, Types, EntryType
      <3>. QED  BY <2>3, <3>1, QueriedEntry DEF ArpInv, Types
    <2>4. \/ h \in Entries /\ cache'[h] = cache[h]
          \/ cache'[h] = Queried(0)
          \/ h \in Entries /\ cache'[h] = Queried(cache[h].attempts)
      BY <1>2, <1>1 DEF Resolve, ToQuery, Entries
    <2>. QED  BY <2>1, <2>2, <2>3, <2>4
  <1>. QED  BY <1>1, <1>2 DEF ArpInv, Types, Entries, Flushed, Aging, InTime
-----------------------------------------------------------------------------
LEMMA ProcessPacketInv ==
  ASSUME ArpInv, NEW a \in air, ArpProcessPacket(a)
  PROVE  ArpInv'
  <1> DEFINE e == Entry(TRUE, a.mac, 0, CacheTimeout)
  <1>1. a \in ArpPacket /\ InTime(a) /\ flush \in -Latency .. FlushInterval
    BY DEF ArpInv, Types
  <1>2. e \in EntryType /\ Flushed(e) /\ Aging(a.ip, e)
    <2>1. /\ e.valid = TRUE /\ e.mac = a.mac /\ e.attempts = 0 /\ e.left = CacheTimeout
          /\ e \in EntryType
      BY <1>1, Numbers DEF Entry, EntryType, ArpPacket
    <2> HIDE DEF e
    <2>2. Flushed(e)
      BY <1>1, <2>1, Numbers DEF Flushed
    <2>3. /\ a.ip \in Hosts
          /\ a.mac # mac[a.ip] => moved[a.ip] <= Transit
      <3>1. moved \in [Hosts -> 0 .. Forever]
        BY DEF ArpInv, Types
      <3>. QED  BY <1>1, <3>1, Numbers DEF ArpPacket, InTime
    <2>4. Aging(a.ip, e)
      <3>1. moved \in [Hosts -> 0 .. Forever]
        BY DEF ArpInv, Types
      <3>. QED  BY <2>1, <2>3, <3>1, Numbers DEF Aging
    <2>. QED  BY <2>1, <2>2, <2>4
  <1>3. ASSUME NEW h \in DOMAIN cache'
        PROVE  cache'[h] \in EntryType /\ Flushed(cache'[h]) /\ Aging(h, cache'[h])
    <2>1. (h \in Entries /\ cache'[h] = cache[h]) \/ (h = a.ip /\ cache'[h] = e)
      BY <1>3 DEF ArpProcessPacket, UpdateArpCache, Entries
    <2>2. CASE h \in Entries /\ cache'[h] = cache[h]
      BY <2>2 DEF ArpInv, Types
    <2>3. CASE h = a.ip /\ cache'[h] = e
      BY <2>3, <1>2
    <2>. QED  BY <2>1, <2>2, <2>3
  <1>4. cache' = [h \in DOMAIN cache' |-> cache'[h]]
    BY <1>1 DEF ArpProcessPacket, UpdateArpCache, Entries, ArpInv, Types, ArpPacket
  <1>5. air' \subseteq air /\ UNCHANGED <<flush, mac, moved>>
    BY DEF ArpProcessPacket
  <1> HIDE DEF e
  <1>. QED  BY <1>3, <1>4, <1>5 DEF ArpInv, Types, Entries, Flushed, Aging, InTime

LEMMA FlushInv ==
  ASSUME ArpInv, ArpCacheFlush
  PROVE  ArpInv'
  <1>1. /\ cache' = [h \in DOMAIN cache' |-> cache'[h]]
        /\ DOMAIN cache' \subseteq Entries
        /\ \A h \in DOMAIN cache' : cache'[h] = cache[h] /\ ~Dead(h)
    BY DEF ArpCacheFlush, Entries
  <1>2. flush' = FlushInterval /\ UNCHANGED <<air, mac, moved>>
    BY DEF ArpCacheFlush
  <1>3. ASSUME NEW h \in DOMAIN cache' PROVE Flushed(cache[h])'
    <2>1. cache'[h] = cache[h] /\ cache[h] \in EntryType /\ Flushed(cache[h])
      BY <1>1, <1>3 DEF ArpInv, Types
    <2>2. cache[h].valid => cache[h].left >= 0
      BY <1>1, <1>3, <2>1 DEF Dead, Expired, EntryType
    <2>3. ~(~cache[h].valid /\ cache[h].attempts >= MaxAttempts)
      BY <1>1, <1>3 DEF Dead, Exhausted
    <2>. QED  BY <1>2, <2>1, <2>2, <2>3, Numbers DEF Flushed, EntryType
  <1>4. \A h \in DOMAIN cache' : Aging(h, cache[h])'
    BY <1>1, <1>2 DEF ArpInv, Aging
  <1>5. Types'
    BY <1>1, <1>2, Numbers DEF ArpInv, Types, Entries
  <1>. QED  BY <1>2, <1>3, <1>4, <1>5 DEF ArpInv, InTime, Entries
-----------------------------------------------------------------------------
LEMMA SpeakInv ==
  ASSUME ArpInv, NEW h \in Hosts, NEW forUs \in BOOLEAN, Speak(h, forUs)
  PROVE  ArpInv'
  <1> DEFINE a == [ip |-> h, mac |-> mac[h], forUs |-> forUs, ttl |-> Transit]
  <1>1. a \in ArpPacket /\ InTime(a)
    BY Numbers DEF ArpInv, Types, ArpPacket, InTime
  <1>2. air' \subseteq air \cup {a} /\ UNCHANGED <<cache, flush, mac, moved>>
    BY DEF Speak
  <1> HIDE DEF a
  <1>. QED  BY <1>1, <1>2 DEF ArpInv, Types, Entries, Flushed, Aging, InTime

LEMMA MoveInv ==
  ASSUME ArpInv, NEW h \in Hosts, Move(h)
  PROVE  ArpInv'
  <1>1. /\ mac' \in [Hosts -> Macs] /\ moved' \in [Hosts -> 0 .. Forever]
        /\ moved'[h] = 0
        /\ \A g \in Hosts \ {h} : mac'[g] = mac[g] /\ moved'[g] = moved[g]
        /\ UNCHANGED <<cache, flush, air>>
    BY Numbers DEF ArpInv, Types, Move
  <1>2. ASSUME NEW g \in Entries PROVE Aging(g, cache[g])'
    <2>1. cache[g] \in EntryType /\ Flushed(cache[g]) /\ Aging(g, cache[g])
      BY DEF ArpInv, Types
    <2>. QED  BY <1>1, <2>1, Numbers DEF EntryType, Flushed, Aging
  <1>3. ASSUME NEW a \in air PROVE InTime(a)'
    <2>1. a \in ArpPacket /\ InTime(a)
      BY DEF ArpInv, Types
    <2>. QED  BY <1>1, <2>1, Numbers DEF ArpPacket, InTime
  <1>4. Types'
    BY <1>1 DEF ArpInv, Types, Entries
  <1>. QED  BY <1>1, <1>2, <1>3, <1>4 DEF ArpInv, Entries, Flushed

LEMMA TickInv ==
  ASSUME ArpInv, Tick
  PROVE  ArpInv'
  <1>1. /\ flush' = flush - 1 /\ flush' \in -Latency .. FlushInterval /\ flush \in Int
        /\ mac' = mac
    BY Numbers, SMTT(60) DEF ArpInv, Types, Tick
  <1>2. /\ moved' \in [Hosts -> 0 .. Forever]
        /\ \A h \in Hosts : moved'[h] <= moved[h] + 1 /\ moved[h] \in Nat /\ moved'[h] \in Nat
    <2>1. moved \in [Hosts -> 0 .. Forever]
      BY DEF ArpInv, Types
    <2>2. moved' = [h \in Hosts |-> IF moved[h] < Forever THEN moved[h] + 1 ELSE Forever]
      BY DEF Tick
    <2>. QED  BY <2>1, <2>2, Numbers
  <1>3. /\ cache' = [h \in DOMAIN cache' |-> cache'[h]]
        /\ DOMAIN cache' = DOMAIN cache
    BY DEF Tick, Entries
  <1>4. ASSUME NEW h \in Entries
        PROVE  cache'[h] \in EntryType /\ Flushed(cache[h])' /\ Aging(h, cache[h])'
    <2>1. cache[h] \in EntryType /\ Flushed(cache[h]) /\ Aging(h, cache[h])
      BY DEF ArpInv, Types
    <2>2. CASE cache[h].left > Floor
      <3>1. cache'[h] = Entry(cache[h].valid, cache[h].mac, cache[h].attempts,
                              cache[h].left - 1)
        BY <2>2 DEF Tick
      <3>2. cache'[h] \in EntryType
        BY <3>1, <2>1 DEF Entry, EntryType
      <3>3. Flushed(cache[h])'
        BY <3>1, <2>1, <1>1, Numbers DEF Entry, EntryType, Flushed
      <3>4. Aging(h, cache[h])'
        BY <3>1, <2>1, <1>1, <1>2, Numbers DEF Entry, EntryType, Aging
      <3>. QED  BY <3>2, <3>3, <3>4
    <2>3. CASE ~(cache[h].left > Floor)
      <3>1. cache'[h] = cache[h]
        BY <2>3 DEF Tick
      <3>2. ~cache[h].valid
        BY <2>1, <2>3, <1>1, Numbers DEF EntryType, Flushed
      <3>. QED  BY <3>1, <3>2, <2>1, <1>1, Numbers DEF EntryType, Flushed, Aging
    <2>. QED  BY <2>2, <2>3
  <1>5. ASSUME NEW a \in air' PROVE a \in ArpPacket /\ InTime(a)'
    <2>1. PICK b \in air : b.ttl > 0 /\ a = [b EXCEPT !.ttl = @ - 1]
      BY <1>5 DEF Tick
    <2>2. b \in ArpPacket /\ InTime(b)
      BY DEF ArpInv, Types
    <2>3. /\ a \in ArpPacket /\ a.ip = b.ip /\ a.mac = b.mac /\ a.ttl = b.ttl - 1
      BY <2>1, <2>2, Numbers DEF ArpPacket
    <2>. QED  BY <2>2, <2>3, <1>1, <1>2, Numbers DEF ArpPacket, InTime
  <1>6. Types'
    BY <1>1, <1>2, <1>3, <1>4, <1>5 DEF ArpInv, Types, Entries
  <1>. QED  BY <1>3, <1>4, <1>5, <1>6 DEF ArpInv, Entries
-----------------------------------------------------------------------------
LEMMA NextArpInv == ArpInv /\ [Next]_vars => ArpInv'
  <1> SUFFICES ASSUME ArpInv, [Next]_vars PROVE ArpInv'
    OBVIOUS
  <1>1. CASE UNCHANGED vars
    BY <1>1 DEF vars, ArpInv, Types, Entries, Flushed, Aging, InTime
  <1>2. ASSUME NEW h \in Hosts, NetTx(h) PROVE ArpInv'
    BY <1>2, ResolveInv DEF NetTx
  <1>3. CASE ResolverPump
    BY <1>3, ResolveInv DEF ResolverPump
  <1>4. ASSUME NEW a \in air, ArpProcessPacket(a) PROVE ArpInv'
    BY <1>4, ProcessPacketInv
  <1>5. CASE ArpCacheFlush
    BY <1>5, FlushInv
  <1>6. ASSUME NEW h \in Hosts, NEW forUs \in BOOLEAN, Speak(h, forUs) PROVE ArpInv'
    BY <1>6, SpeakInv
  <1>7. ASSUME NEW h \in Hosts, Move(h) PROVE ArpInv'
    BY <1>7, MoveInv
  <1>8. CASE Tick
    BY <1>8, TickInv
  <1>. QED  BY <1>1, <1>2, <1>3, <1>4, <1>5, <1>6, <1>7, <1>8 DEF Next

\* What the invariant says of the entries in use.
LEMMA ArpInvFresh == ArpInv => BindingsFresh
  <1> SUFFICES ASSUME ArpInv, NEW h \in Found
               PROVE  cache[h].mac = mac[h] \/ moved[h] <= Stale
    BY DEF BindingsFresh
  <1>1. /\ cache[h] \in EntryType /\ cache[h].valid
        /\ Flushed(cache[h]) /\ Aging(h, cache[h])
        /\ flush \in -Latency .. FlushInterval
        /\ moved \in [Hosts -> 0 .. Forever]
    BY DEF Found, ArpInv, Types
  <1>. QED  BY <1>1, Numbers DEF EntryType, Flushed, Aging

LEMMA ArpInvForgotten == ArpInv => FailureForgotten
  <1> SUFFICES ASSUME ArpInv, NEW h \in Entries, Exhausted(h)
               PROVE  cache[h].left >= QueryInterval - FlushInterval - Latency
    BY DEF FailureForgotten
  <1>1. /\ cache[h] \in EntryType /\ Flushed(cache[h])
        /\ flush \in -Latency .. FlushInterval
    BY DEF ArpInv, Types
  <1>. QED  BY <1>1, Numbers DEF Exhausted, EntryType, Flushed

\* Packets are sent to hardware that the next hop has, or had no longer than
\* Stale ago: the transit time of the announcement, CACHE_TIMEOUT, and the wait
\* for the next flush (net_arp_resolve() does not look at the age of an entry).
THEOREM ArpBindingsFresh == Spec => []BindingsFresh
  BY InitArpInv, NextArpInv, ArpInvFresh, PTL DEF Spec

\* A failed resolution is remembered for no longer than until the next flush.
THEOREM ArpFailureForgotten == Spec => []FailureForgotten
  BY InitArpInv, NextArpInv, ArpInvForgotten, PTL DEF Spec
-----------------------------------------------------------------------------
(***************************************************************************)
(* The list of waiting packets.                                            *)
(***************************************************************************)
Packet == [hop : Hosts, age : Nat]

Content(packets) == {packets[i] : i \in 1 .. Len(packets)}

LEMMA ContentAppend ==
  ASSUME NEW packets \in Seq(Packet), NEW p \in Packet
  PROVE  /\ Append(packets, p) \in Seq(Packet)
         /\ Content(Append(packets, p)) = Content(packets) \cup {p}
  <1> DEFINE l == Len(packets)
             more == Append(packets, p)
  <1>1. /\ more \in Seq(Packet) /\ l \in Nat /\ Len(more) = l + 1
        /\ more[l + 1] = p /\ \A i \in 1 .. l : more[i] = packets[i]
    OBVIOUS
  <1> HIDE DEF more, l
  <1>2. Content(more) = {more[i] : i \in 1 .. l + 1} /\ Content(packets) = {packets[i] : i \in 1 .. l}
    BY <1>1 DEF Content, l
  <1>3. 1 .. l + 1 = (1 .. l) \cup {l + 1}
    BY <1>1
  <1>4. Content(more) = Content(packets) \cup {p}
    BY <1>1, <1>2, <1>3
  <1>. QED  BY <1>1, <1>4 DEF more

LEMMA ContentPush ==
  ASSUME NEW packets \in Seq(Packet), NEW p \in Packet
  PROVE  /\ <<p>> \o packets \in Seq(Packet)
         /\ Content(<<p>> \o packets) = Content(packets) \cup {p}
  <1> DEFINE l == Len(packets)
             more == <<p>> \o packets
  <1>1. /\ more \in Seq(Packet) /\ l \in Nat /\ Len(more) = l + 1
        /\ more[1] = p /\ \A i \in 1 .. l : more[i + 1] = packets[i]
    OBVIOUS
  <1> HIDE DEF more, l
  <1>2. Content(more) = {more[i] : i \in 1 .. l + 1} /\ Content(packets) = {packets[i] : i \in 1 .. l}
    BY <1>1 DEF Content, l
  <1>3. ASSUME NEW i \in 1 .. l + 1
        PROVE  more[i] \in Content(packets) \cup {p}
    <2>1. CASE i = 1
      BY <1>1, <2>1
    <2>2. CASE i # 1
      <3>1. i - 1 \in 1 .. l /\ (i - 1) + 1 = i
        BY <1>1, <2>2
      <3>2. more[i] = packets[i - 1]
        BY <1>1, <3>1
      <3>. QED  BY <1>2, <3>1, <3>2
    <2>. QED  BY <2>1, <2>2
  <1>4. ASSUME NEW i \in 1 .. l
        PROVE  packets[i] \in Content(more)
    <2>1. i + 1 \in 1 .. l + 1
      BY <1>1
    <2>. QED  BY <1>1, <1>2, <2>1
  <1>5. p \in Content(more)
    <2>1. 1 \in 1 .. l + 1
      BY <1>1
    <2>. QED  BY <1>1, <1>2, <2>1
  <1>6. Content(more) = Content(packets) \cup {p}
    BY <1>2, <1>3, <1>4, <1>5
  <1>. QED  BY <1>1, <1>6 DEF more

\* net_arp_resolver_pump() goes from packet to packet: each stays or not.
LEMMA RemainingSteps ==
  ASSUME NEW packets \in Seq(Packet), NEW hops
  PROVE  LET rest == Remaining(packets, hops)
         IN  /\ rest[0] = <<>>
             /\ \A n \in 1 .. Len(packets) :
                  rest[n] = IF packets[n].hop \in hops THEN rest[n - 1]
                            ELSE Append(rest[n - 1], packets[n])
  <1> DEFINE N == Len(packets)
             Lists == Seq(Packet)
             Kept(n, list) == IF packets[n].hop \in hops THEN list ELSE Append(list, packets[n])
             step == [n \in 1 .. N |-> [list \in Lists |-> Kept(n, list)]]
             Rule(g) == [n \in 0 .. N |-> IF n = 0 THEN <<>>
                                          ELSE IF packets[n].hop \in hops THEN g[n - 1]
                                          ELSE Append(g[n - 1], packets[n])]
             rest == Remaining(packets, hops)
  <1>1. N \in Nat /\ <<>> \in Lists
    OBVIOUS
  <1>2. step \in [1 .. N -> [Lists -> Lists]]
    <2>1. ASSUME NEW n \in 1 .. N, NEW list \in Lists
          PROVE  Kept(n, list) \in Lists
      <3>1. packets[n] \in Packet
        OBVIOUS
      <3>. QED  BY <3>1, ContentAppend
    <2> HIDE DEF Lists, N, Kept
    <2>. QED  BY <2>1
  <1>3. PICK f \in [0 .. N -> Lists] :
          f[0] = <<>> /\ \A n \in 1 .. N : f[n] = step[n][f[n - 1]]
    <2> HIDE DEF Lists, step, N
    <2>. QED  BY <1>1, <1>2, Recursion, SMTT(60)
  <1>4. f = Rule(f)
    <2>1. f[0] = Rule(f)[0]
      BY <1>1, <1>3
    <2>2. ASSUME NEW n \in 1 .. N
          PROVE  f[n] = Rule(f)[n]
      <3>1. f[n - 1] \in Lists
        <4>1. n - 1 \in 0 .. N
          BY <1>1
        <4> HIDE DEF Lists, N, step, Rule, Kept
        <4>. QED  BY <1>3, <4>1
      <3>2. f[n] = Kept(n, f[n - 1])
        BY <1>3, <3>1
      <3>. QED  BY <1>1, <3>2
    <2>3. \A n \in 0 .. N : n = 0 \/ n \in 1 .. N
      BY <1>1
    <2> HIDE DEF Rule
    <2>4. \A n \in 0 .. N : f[n] = Rule(f)[n]
      BY <2>1, <2>2, <2>3
    <2> USE DEF Rule
    <2>. QED  BY <1>3, <2>4
  <1>5. rest = Rule(rest)
    <2>1. rest = CHOOSE g : g = Rule(g)
      BY DEF Remaining
    <2> HIDE DEF Rule, rest
    <2>. QED  BY <1>4, <2>1
  <1>6. rest[0] = <<>>
    BY <1>1, <1>5
  <1>7. ASSUME NEW n \in 1 .. N
        PROVE  rest[n] = IF packets[n].hop \in hops THEN rest[n - 1]
                         ELSE Append(rest[n - 1], packets[n])
    <2> HIDE DEF rest
    <2>1. n \in 0 .. N /\ n # 0
      BY <1>1
    <2>2. Rule(rest)[n] = IF packets[n].hop \in hops THEN rest[n - 1]
                          ELSE Append(rest[n - 1], packets[n])
      BY <2>1, Zenon
    <2> HIDE DEF Rule
    <2>. QED  BY <1>5, <2>2
  <1>. QED  BY <1>6, <1>7

\* It leaves the packets that are for other hosts.
LEMMA OthersContent ==
  ASSUME NEW packets \in Seq(Packet), NEW hops
  PROVE  /\ Others(packets, hops) \in Seq(Packet)
         /\ Content(Others(packets, hops)) = {p \in Content(packets) : p.hop \notin hops}
  <1> DEFINE N == Len(packets)
             rest == Remaining(packets, hops)
             First(n) == {packets[i] : i \in {j \in 1 .. n : packets[j].hop \notin hops}}
             D == {n \in Nat : n <= N => rest[n] \in Seq(Packet) /\ Content(rest[n]) = First(n)}
  <1>1. N \in Nat /\ \A n \in 1 .. N : packets[n] \in Packet
    OBVIOUS
  <1>2. /\ rest[0] = <<>>
        /\ \A n \in 1 .. N : rest[n] = IF packets[n].hop \in hops THEN rest[n - 1]
                                       ELSE Append(rest[n - 1], packets[n])
    BY RemainingSteps
  <1> HIDE DEF rest, N
  <1>3. 0 \in D
    <2>1. <<>> \in Seq(Packet) /\ Content(<<>>) = {}
      BY DEF Content
    <2>2. First(0) = {}
      OBVIOUS
    <2>. QED  BY <1>2, <2>1, <2>2
  <1>4. ASSUME NEW n \in Nat, n \in D
        PROVE  n + 1 \in D
    <2>1. SUFFICES ASSUME n + 1 <= N
                   PROVE  rest[n + 1] \in Seq(Packet) /\ Content(rest[n + 1]) = First(n + 1)
      OBVIOUS
    <2>2. /\ rest[n] \in Seq(Packet) /\ Content(rest[n]) = First(n)
          /\ n + 1 \in 1 .. N /\ (n + 1) - 1 = n
      BY <1>1, <1>4, <2>1
    <2>3. packets[n + 1] \in Packet
      BY <1>1, <2>2
    <2>4. 1 .. n + 1 = (1 .. n) \cup {n + 1}
      OBVIOUS
    <2>5. rest[n + 1] = IF packets[n + 1].hop \in hops THEN rest[n]
                        ELSE Append(rest[n], packets[n + 1])
      BY <1>2, <2>2
    <2>6. CASE packets[n + 1].hop \in hops
      <3>1. First(n + 1) = First(n)
        BY <2>4, <2>6
      <3>. QED  BY <2>2, <2>5, <2>6, <3>1
    <2>7. CASE packets[n + 1].hop \notin hops
      <3>1. First(n + 1) = First(n) \cup {packets[n + 1]}
        BY <2>4, <2>7
      <3>2. rest[n + 1] = Append(rest[n], packets[n + 1])
        BY <2>5, <2>7
      <3> DEFINE list == rest[n]
                 p == packets[n + 1]
      <3>3. list \in Seq(Packet) /\ p \in Packet
        BY <2>2, <2>3
      <3> HIDE DEF list, p
      <3>4. Append(list, p) \in Seq(Packet) /\ Content(Append(list, p)) = Content(list) \cup {p}
        BY <3>3, ContentAppend
      <3> USE DEF list, p
      <3> HIDE DEF First
      <3>. QED  BY <2>2, <3>1, <3>2, <3>4
    <2>. QED  BY <2>6, <2>7
  <1>5. N \in D
    <2>1. Nat \subseteq D
      <3> HIDE DEF D
      <3>. QED  BY <1>3, <1>4, Induction
    <2>. QED  BY <1>1, <2>1
  <1>6. Others(packets, hops) = rest[N]
    BY DEF Others, rest, N
  <1>7. First(N) = {p \in Content(packets) : p.hop \notin hops}
    BY DEF Content, N
  <1>. QED  BY <1>1, <1>5, <1>6, <1>7
-----------------------------------------------------------------------------
(***************************************************************************)
(* How long a packet waits.  A resolution, from the query for a new entry  *)
(* until the entry is found exhausted, takes at most Round ticks.  A flush *)
(* can remove the entry just before its packets are given up; the next     *)
(* query begins a second resolution, and a flush would have to come within *)
(* Round + Latency ticks of the last one to remove that entry as well.     *)
(***************************************************************************)
Gap == QueryInterval + Latency
Last == Round - Latency
Since == FlushInterval - flush

\* The time from the first query for an entry to the query after n attempts.
Tries(n) == (n - 1) * Gap

\* How long the entry has been resolved for.
Spent(n, left) == Tries(n) + QueryInterval - left

\* A packet without an entry: it waited for one resolution, which a flush has
\* ended since the resolver ran.
PatientAbsent(age, since, i) == age <= Last + i /\ since <= i

\* A packet with an answer.
PatientAnswered(age, since, i) ==
  \/ age <= Last + i
  \/ age <= Round + Last + i /\ since <= Last + i + Latency

\* A packet whose entry is being resolved, or will be given up when the resolver
\* next runs.
PatientTried(age, since, i, n, left) ==
  \/ /\ left >= -i
     /\ \/ age <= Spent(n, left)
        \/ age <= Round + Spent(n, left) /\ since <= Spent(n, left) + Latency
  \/ n >= MaxAttempts /\ left < 0 /\ age <= i

Patient(p) ==
  IF p.hop \notin Entries THEN PatientAbsent(p.age, Since, idle)
  ELSE IF cache[p.hop].valid THEN PatientAnswered(p.age, Since, idle)
  ELSE PatientTried(p.age, Since, idle, cache[p.hop].attempts, cache[p.hop].left)

\* An entry that is being resolved.
Trying(e) == ~e.valid => e.attempts \in 1 .. MaxAttempts /\ e.left <= QueryInterval

WaitInv ==
  /\ pending \in Seq(Packet)
  /\ idle \in 0 .. Latency
  /\ \A h \in Entries : Trying(cache[h])
  /\ \A p \in Content(pending) : Patient(p)
  /\ NoOrphans

LEMMA Resolutions ==
  /\ {Gap, Last, Round} \subseteq Nat /\ Gap = QueryInterval + Latency
  /\ Round = Last + Latency /\ Round + Latency <= FlushInterval
  /\ Tries(1) = 0
  /\ \A n \in 1 .. MaxAttempts :
       Tries(n) \in Nat /\ Tries(n + 1) = Tries(n) + Gap /\ Tries(n) + QueryInterval <= Last
  <1>1. Gap \in Nat \ {0} /\ Gap = QueryInterval + Latency /\ Round = MaxAttempts * Gap
    BY Numbers DEF Gap, Round
  <1>2. Last = MaxAttempts * Gap - Latency
    BY <1>1 DEF Last
  <1>3. ASSUME NEW n \in 1 .. MaxAttempts
        PROVE  /\ n * Gap <= MaxAttempts * Gap
               /\ (n - 1) * Gap + Gap = n * Gap
               /\ ((n + 1) - 1) * Gap = n * Gap
               /\ (n - 1) * Gap \in Nat /\ n * Gap \in Nat
    <2>1. n \in Nat /\ n - 1 \in Nat /\ MaxAttempts \in Nat /\ n <= MaxAttempts /\ (n + 1) - 1 = n
      BY Numbers
    <2>2. n * Gap <= MaxAttempts * Gap
      BY <1>1, <2>1
    <2>3. (n - 1) * Gap + Gap = n * Gap
      BY <1>1, <2>1
    <2>4. (n - 1) * Gap \in Nat /\ n * Gap \in Nat
      BY <1>1, <2>1
    <2>. QED  BY <2>1, <2>2, <2>3, <2>4
  <1>4. MaxAttempts * Gap \in Nat /\ Gap <= MaxAttempts * Gap
    <2>1. 1 \in 1 .. MaxAttempts /\ MaxAttempts \in 1 .. MaxAttempts /\ 1 * Gap = Gap
      BY <1>1, Numbers
    <2>. QED  BY <1>3, <2>1
  <1>5. Tries(1) = 0
    BY <1>1 DEF Tries
  <1>6. ASSUME NEW n \in 1 .. MaxAttempts
        PROVE  Tries(n) \in Nat /\ Tries(n + 1) = Tries(n) + Gap /\ Tries(n) + QueryInterval <= Last
    <2> DEFINE t == (n - 1) * Gap
               u == n * Gap
               v == MaxAttempts * Gap
    <2>1. t \in Nat /\ u = t + Gap /\ u <= v /\ v \in Nat /\ Last = v - Latency
          /\ Tries(n) = t /\ Tries(n + 1) = u
      BY <1>2, <1>3, <1>4 DEF Tries
    <2> HIDE DEF t, u, v
    <2>. QED  BY <1>1, <2>1, Numbers
  <1>7. {Gap, Last, Round} \subseteq Nat /\ Round = Last + Latency /\ Round + Latency <= FlushInterval
    BY <1>1, <1>2, <1>4, ArpAssumption, Numbers
  <1>. QED  BY <1>1, <1>5, <1>6, <1>7

LEMMA QueriedAbsent ==
  ASSUME NEW age \in Nat, NEW since \in Int, NEW i \in 0 .. Latency, NEW j \in 0 .. Latency,
         PatientAbsent(age, since, i)
  PROVE  PatientTried(age, since, j, 1, QueryInterval)
  BY Numbers, Resolutions DEF PatientAbsent, PatientTried, Spent

LEMMA QueriedTried ==
  ASSUME NEW age \in Nat, NEW since \in Int, NEW i \in 0 .. Latency, NEW j \in 0 .. Latency,
         NEW n \in 1 .. MaxAttempts, NEW left \in Int, n < MaxAttempts, left < 0,
         PatientTried(age, since, i, n, left)
  PROVE  PatientTried(age, since, j, n + 1, QueryInterval)
  <1>1. n + 1 \in 1 .. MaxAttempts
    BY Numbers
  <1>. QED  BY <1>1, Numbers, Resolutions DEF PatientTried, Spent

LEMMA NotYetQueried ==
  ASSUME NEW age \in Nat, NEW since \in Int, NEW i \in 0 .. Latency, NEW j \in 0 .. Latency,
         NEW n \in 1 .. MaxAttempts, NEW left \in Int, left >= 0,
         PatientTried(age, since, i, n, left)
  PROVE  PatientTried(age, since, j, n, left)
  BY Numbers, Resolutions DEF PatientTried, Spent

LEMMA NewPacket ==
  ASSUME NEW since \in Int, NEW i \in 0 .. Latency,
         NEW n \in 1 .. MaxAttempts, NEW left \in Int, left <= QueryInterval,
         left >= 0 \/ n >= MaxAttempts
  PROVE  PatientTried(0, since, i, n, left)
  BY Numbers, Resolutions DEF PatientTried, Spent

LEMMA AnsweredAbsent ==
  ASSUME NEW age \in Nat, NEW since \in Int, NEW i \in 0 .. Latency,
         PatientAbsent(age, since, i)
  PROVE  PatientAnswered(age, since, i)
  BY DEF PatientAbsent, PatientAnswered

\* A resolution that is not over has lasted no longer than Last and the time since
\* the resolver ran.
LEMMA AnsweredTried ==
  ASSUME NEW age \in Nat, NEW since \in Int, NEW i \in 0 .. Latency,
         NEW n \in 1 .. MaxAttempts, NEW left \in Int,
         PatientTried(age, since, i, n, left)
  PROVE  PatientAnswered(age, since, i)
  <1>1. Tries(n) \in Nat /\ Tries(n) + QueryInterval <= Last
    BY Resolutions
  <1>2. {Last, Round, QueryInterval, Latency} \subseteq Nat
    BY Numbers, Resolutions
  <1>. QED  BY <1>1, <1>2 DEF PatientTried, PatientAnswered, Spent

\* When a flush is due, no packet is in its second resolution.
LEMMA FlushDue ==
  ASSUME NEW age \in Nat, NEW since \in Int, NEW i \in 0 .. Latency, since > FlushInterval,
         PatientAnswered(age, since, i)
  PROVE  age <= Last + i
  BY Numbers, Resolutions DEF PatientAnswered
-----------------------------------------------------------------------------
LEMMA InitWaitInv == Init => WaitInv
  <1> SUFFICES ASSUME Init PROVE WaitInv
    OBVIOUS
  <1>1. pending = <<>> /\ pending \in Seq(Packet) /\ Entries = {} /\ idle = 0
    BY DEF Init, Entries
  <1>2. Content(pending) = {}
    BY <1>1 DEF Content
  <1>. QED  BY <1>1, <1>2, Numbers DEF WaitInv, NoOrphans

\* The hosts that packets wait for.
LEMMA WaitingHops == Waiting = {p.hop : p \in Content(pending)}
  BY DEF Waiting, Content

\* The program's net_arp_resolve(), entry by entry.
LEMMA ResolveEntry ==
  ASSUME ArpInv, NEW hops, Resolve(hops)
  PROVE  /\ Entries' = Entries \cup hops
         /\ \A h \in Entries \ hops : cache'[h] = cache[h]
         /\ \A h \in hops :
              /\ h \notin Entries =>
                   ~cache'[h].valid /\ cache'[h].attempts = 1 /\ cache'[h].left = QueryInterval
              /\ h \in Entries =>
                   \/ cache'[h] = cache[h] /\ (cache[h].valid \/ cache[h].left >= 0)
                   \/ cache'[h] = cache[h] /\ ~cache[h].valid /\ h \in GivenUp
                   \/ /\ ~cache[h].valid /\ cache[h].left < 0 /\ cache[h].attempts < MaxAttempts
                      /\ ~cache'[h].valid /\ cache'[h].left = QueryInterval
                      /\ cache'[h].attempts = cache[h].attempts + 1
  <1>1. Entries' = Entries \cup hops /\ \A h \in Entries \ hops : cache'[h] = cache[h]
    BY DEF Resolve, Entries, ToQuery
  <1>2. ASSUME NEW h \in hops, h \notin Entries
        PROVE  ~cache'[h].valid /\ cache'[h].attempts = 1 /\ cache'[h].left = QueryInterval
    <2>1. cache'[h] = Queried(0)
      BY <1>2 DEF Resolve, ToQuery
    <2>. QED  BY <2>1 DEF Queried, Entry
  <1>3. ASSUME NEW h \in hops, h \in Entries
        PROVE  \/ cache'[h] = cache[h] /\ (cache[h].valid \/ cache[h].left >= 0)
               \/ cache'[h] = cache[h] /\ ~cache[h].valid /\ h \in GivenUp
               \/ /\ ~cache[h].valid /\ cache[h].left < 0 /\ cache[h].attempts < MaxAttempts
                  /\ ~cache'[h].valid /\ cache'[h].left = QueryInterval
                  /\ cache'[h].attempts = cache[h].attempts + 1
    <2>1. cache[h].valid \in BOOLEAN /\ cache[h].attempts \in Nat /\ cache[h].left \in Int
      BY <1>3 DEF ArpInv, Types, EntryType
    <2>2. CASE h \in ToQuery(hops)
      <3>1. cache'[h] = Queried(cache[h].attempts)
        BY <1>3, <2>2 DEF Resolve
      <3>2. ~cache'[h].valid /\ cache'[h].left = QueryInterval
            /\ cache'[h].attempts = cache[h].attempts + 1
        BY <3>1 DEF Queried, Entry
      <3>3. ~cache[h].valid /\ cache[h].left < 0 /\ ~(cache[h].attempts >= MaxAttempts)
        BY <1>3, <2>2 DEF ToQuery, Expired, Exhausted
      <3>4. cache[h].attempts < MaxAttempts
        BY <2>1, <3>3, Numbers
      <3>. QED  BY <3>2, <3>3, <3>4
    <2>3. CASE h \notin ToQuery(hops)
      <3>1. cache'[h] = cache[h]
        BY <1>3, <2>3 DEF Resolve
      <3>2. cache[h].valid \/ ~(cache[h].left < 0) \/ (~cache[h].valid /\ h \in GivenUp)
        BY <1>3, <2>3 DEF ToQuery, Expired, Exhausted, GivenUp
      <3>3. ~(cache[h].left < 0) => cache[h].left >= 0
        BY <2>1
      <3>. QED  BY <3>1, <3>2, <3>3
    <2>. QED  BY <2>2, <2>3
  <1>. QED  BY <1>1, <1>2, <1>3

LEMMA ResolveTrying ==
  ASSUME ArpInv, WaitInv, NEW hops, Resolve(hops)
  PROVE  \A h \in Entries' : Trying(cache[h])'
  <1> SUFFICES ASSUME NEW h \in Entries' PROVE Trying(cache'[h])
    BY DEF Trying
  <1>1. h \in Entries => cache[h].attempts \in Nat /\ Trying(cache[h])
    BY DEF ArpInv, Types, EntryType, WaitInv
  <1>2. CASE h \in Entries /\ cache'[h] = cache[h]
    BY <1>1, <1>2
  <1>3. CASE /\ ~cache'[h].valid /\ cache'[h].left = QueryInterval
             /\ cache'[h].attempts = 1 \/ (/\ h \in Entries /\ cache[h].attempts < MaxAttempts
                                           /\ cache'[h].attempts = cache[h].attempts + 1)
    <2>1. cache'[h].attempts \in 1 .. MaxAttempts
      BY <1>1, <1>3, Numbers
    <2>2. cache'[h].left <= QueryInterval
      BY <1>3, Numbers
    <2>. QED  BY <2>1, <2>2 DEF Trying
  <1>. QED  BY <1>2, <1>3, ResolveEntry

\* What net_arp_resolve() of a packet that it neither finds nor gives up does to
\* its patience.
LEMMA ResolvePatient ==
  ASSUME ArpInv, WaitInv, NEW hops, Resolve(hops), flush' = flush, idle' \in 0 .. Latency,
         NEW p \in Packet, Patient(p), p.hop \in hops, p.hop \notin Found,
         p.hop \notin GivenUp \/ idle' = idle
  PROVE  Patient(p)'
  <1> DEFINE h == p.hop
             n == cache[h].attempts
             left == cache[h].left
             s == Since
             age == p.age
  <1>1. age \in Nat /\ s \in Int /\ s = Since' /\ idle \in 0 .. Latency /\ h \in Entries'
    <2>1. h \in Entries'
      BY ResolveEntry
    <2>2. flush \in Int /\ FlushInterval \in Int
      BY Numbers DEF ArpInv, Types
    <2>. QED  BY <2>1, <2>2 DEF Packet, WaitInv, Since
  <1>2. CASE h \notin Entries
    <2>1. PatientAbsent(age, s, idle)
      BY <1>2 DEF Patient
    <2>2. ~cache'[h].valid /\ cache'[h].attempts = 1 /\ cache'[h].left = QueryInterval
      BY <1>2, ResolveEntry
    <2> HIDE DEF age, s
    <2>3. PatientTried(age, s, idle', 1, QueryInterval)
      BY <1>1, <2>1, QueriedAbsent
    <2>. QED  BY <1>1, <2>2, <2>3 DEF Patient, age
  <1>3. CASE h \in Entries
    <2>1. ~cache[h].valid
      BY <1>3 DEF Found
    <2>2. PatientTried(age, s, idle, n, left)
      BY <1>3, <2>1 DEF Patient
    <2>3. n \in 1 .. MaxAttempts /\ left \in Int
      BY <1>3, <2>1 DEF WaitInv, Trying, ArpInv, Types, EntryType
    <2>4. \/ cache'[h] = cache[h] /\ left >= 0
          \/ cache'[h] = cache[h] /\ h \in GivenUp
          \/ /\ left < 0 /\ n < MaxAttempts
             /\ ~cache'[h].valid /\ cache'[h].left = QueryInterval
             /\ cache'[h].attempts = n + 1
      <3> HIDE DEF h
      <3>1. h \in hops
        BY DEF h
      <3>. QED  BY <1>3, <2>1, <3>1, ResolveEntry
    <2>5. ASSUME NEW m, NEW l, ~cache'[h].valid, cache'[h].attempts = m, cache'[h].left = l,
                 PatientTried(age, s, idle', m, l)
          PROVE  Patient(p)'
      BY <1>1, <2>5 DEF Patient
    <2> HIDE DEF n, left, s, age
    <2>6. CASE cache'[h] = cache[h] /\ left >= 0
      <3>1. PatientTried(age, s, idle', n, left)
        BY <1>1, <2>2, <2>3, <2>6, NotYetQueried
      <3>. QED  BY <2>1, <2>5, <2>6, <3>1 DEF n, left
    <2>7. CASE cache'[h] = cache[h] /\ h \in GivenUp
      <3>1. idle' = idle
        BY <2>7
      <3>. QED  BY <2>1, <2>2, <2>5, <2>7, <3>1 DEF n, left
    <2>8. CASE /\ left < 0 /\ n < MaxAttempts
               /\ ~cache'[h].valid /\ cache'[h].left = QueryInterval
               /\ cache'[h].attempts = n + 1
      <3>1. PatientTried(age, s, idle', n + 1, QueryInterval)
        BY <1>1, <2>2, <2>3, <2>8, QueriedTried
      <3>. QED  BY <2>5, <2>8, <3>1
    <2>. QED  BY <2>4, <2>6, <2>7, <2>8
  <1>. QED  BY <1>2, <1>3

\* An entry that is being resolved was resolved before, or its host is in hops.
LEMMA ResolveOrphans ==
  ASSUME ArpInv, NEW hops, Resolve(hops), NEW h \in Entries',
         ~cache'[h].valid, ~(cache'[h].attempts >= MaxAttempts), h \notin hops
  PROVE  h \in Entries /\ ~cache[h].valid /\ ~Exhausted(h)
  BY ResolveEntry DEF Exhausted

LEMMA NetTxWait ==
  ASSUME ArpInv, WaitInv, NEW h \in Hosts, NetTx(h)
  PROVE  WaitInv'
  <1> DEFINE new == [hop |-> h, age |-> 0]
  <1>1. Resolve({h}) /\ UNCHANGED <<flush, idle>> /\ new \in Packet
    BY DEF NetTx, Packet
  <1>2. /\ pending' \in Seq(Packet)
        /\ IF h \in Found THEN Content(pending') = Content(pending)
           ELSE Content(pending') = Content(pending) \cup {new}
    <2>1. CASE h \in Found
      BY <2>1 DEF NetTx, WaitInv
    <2>2. CASE h \notin Found
      <3>1. pending' = <<new>> \o pending /\ pending \in Seq(Packet)
        BY <2>2 DEF NetTx, WaitInv
      <3> HIDE DEF new
      <3>. QED  BY <1>1, <2>2, <3>1, ContentPush
    <2>. QED  BY <2>1, <2>2
  <1>3. ASSUME NEW p \in Content(pending)
        PROVE  Patient(p)'
    <2>1. p \in Packet /\ Patient(p)
      BY DEF WaitInv, Content
    <2>2. CASE p.hop = h /\ h \notin Found
      BY <1>1, <2>1, <2>2, ResolvePatient DEF WaitInv
    <2>3. CASE p.hop # h \/ h \in Found
      <3>1. cache'[p.hop] = cache[p.hop] \/ p.hop \notin Entries
        BY <1>1, <2>3 DEF Resolve, ToQuery, Found
      <3>2. p.hop \in Entries' <=> p.hop \in Entries
        BY <1>1, <2>3, ResolveEntry DEF Found
      <3>. QED  BY <1>1, <2>1, <3>1, <3>2 DEF Patient, Since
    <2>. QED  BY <2>2, <2>3
  <1>4. ASSUME h \notin Found
        PROVE  Patient(new)'
    <2>1. /\ h \in Entries' /\ Trying(cache'[h])
          /\ Since' \in Int /\ idle' \in 0 .. Latency
      <3>1. flush' \in Int /\ idle' \in 0 .. Latency
        BY <1>1 DEF ArpInv, Types, WaitInv
      <3>2. h \in Entries' /\ Trying(cache[h])'
        BY <1>1, ResolveEntry, ResolveTrying
      <3>. QED  BY <3>1, <3>2, Numbers DEF Since, Trying
    <2>2. /\ ~cache'[h].valid /\ cache'[h].left \in Int
          /\ cache'[h].left >= 0 \/ cache'[h].attempts >= MaxAttempts
      <3>1. h \notin Entries => ~cache'[h].valid /\ cache'[h].left = QueryInterval
        BY <1>1, ResolveEntry
      <3>2. h \in Entries =>
              ~cache'[h].valid /\ (\/ cache'[h] = cache[h] /\ cache[h].left >= 0
                                   \/ cache'[h] = cache[h] /\ h \in GivenUp
                                   \/ cache'[h].left = QueryInterval)
        BY <1>1, <1>4, ResolveEntry DEF Found
      <3>3. h \in Entries => cache[h].left \in Int
        BY DEF ArpInv, Types, EntryType
      <3>4. h \in GivenUp => cache[h].attempts >= MaxAttempts
        BY DEF GivenUp, Exhausted
      <3>. QED  BY <3>1, <3>2, <3>3, <3>4, Numbers
    <2> DEFINE n == cache'[h].attempts
               left == cache'[h].left
               since == Since'
    <2>3. n \in 1 .. MaxAttempts /\ left <= QueryInterval
      BY <2>1, <2>2 DEF Trying
    <2>4. PatientTried(0, since, idle', n, left)
      <3>1. since \in Int /\ idle' \in 0 .. Latency /\ left \in Int /\ (left >= 0 \/ n >= MaxAttempts)
        BY <2>1, <2>2
      <3> HIDE DEF n, left, since
      <3>. QED  BY <2>3, <3>1, NewPacket
    <2>. QED  BY <2>1, <2>2, <2>4 DEF Patient
  <1>5. NoOrphans'
    <2> SUFFICES ASSUME NEW g \in Entries', ~cache'[g].valid, ~(cache'[g].attempts >= MaxAttempts)
                 PROVE  g \in Waiting'
      BY DEF NoOrphans, Exhausted
    <2>1. Waiting' = {p.hop : p \in Content(pending')}
      BY DEF Waiting, Content
    <2>2. CASE g = h
      <3>1. h \notin Found
        BY <1>1, <2>2, ResolveEntry DEF Found
      <3>2. new \in Content(pending') /\ new.hop = h
        BY <1>2, <3>1
      <3>. QED  BY <2>1, <2>2, <3>2
    <2>3. CASE g # h
      <3>1. g \in Waiting
        BY <1>1, <2>3, ResolveOrphans DEF WaitInv, NoOrphans
      <3>2. PICK p \in Content(pending) : p.hop = g
        BY <3>1, WaitingHops
      <3>. QED  BY <1>2, <2>1, <3>2
    <2>. QED  BY <2>2, <2>3
  <1>6. \A p \in Content(pending') : Patient(p)'
    <2> HIDE DEF new
    <2>. QED  BY <1>2, <1>3, <1>4
  <1>7. \A g \in Entries' : Trying(cache[g])'
    BY <1>1, ResolveTrying
  <1>. QED  BY <1>1, <1>2, <1>5, <1>6, <1>7 DEF WaitInv

LEMMA PumpWait ==
  ASSUME ArpInv, WaitInv, ResolverPump
  PROVE  WaitInv'
  <1>1. Resolve(Waiting) /\ flush' = flush /\ idle' = 0 /\ idle' \in 0 .. Latency
    BY Numbers DEF ResolverPump
  <1>2. /\ pending' \in Seq(Packet)
        /\ Content(pending') = {p \in Content(pending) : p.hop \notin Found \cup GivenUp}
    <2>1. pending' = Others(pending, Found \cup GivenUp) /\ pending \in Seq(Packet)
      BY DEF ResolverPump, WaitInv
    <2>. QED  BY <2>1, OthersContent
  <1>3. ASSUME NEW p \in Content(pending')
        PROVE  Patient(p)'
    <2>1. p \in Content(pending)
      BY <1>2, <1>3
    <2>2. p \in Packet /\ Patient(p)
      BY <2>1 DEF WaitInv, Content
    <2>3. p.hop \in Waiting /\ p.hop \notin Found /\ p.hop \notin GivenUp
      BY <1>2, <1>3, <2>1, WaitingHops
    <2>. QED  BY <1>1, <2>2, <2>3, ResolvePatient
  <1>4. NoOrphans'
    <2> SUFFICES ASSUME NEW g \in Entries', ~cache'[g].valid, ~(cache'[g].attempts >= MaxAttempts)
                 PROVE  g \in Waiting'
      BY DEF NoOrphans, Exhausted
    <2>1. Waiting' = {p.hop : p \in Content(pending')}
      BY DEF Waiting, Content
    <2>2. g \in Waiting
      BY <1>1, ResolveOrphans DEF WaitInv, NoOrphans
    <2>3. PICK p \in Content(pending) : p.hop = g
      BY <2>2, WaitingHops
    <2>4. g \notin Found
      BY <1>1, <2>2, ResolveEntry DEF Found
    <2>5. g \notin GivenUp
      <3> SUFFICES ASSUME g \in GivenUp PROVE FALSE
        OBVIOUS
      <3>1. /\ g \in Entries /\ ~cache[g].valid /\ cache[g].attempts >= MaxAttempts
            /\ cache[g].left < 0
        BY DEF GivenUp, Exhausted, Expired
      <3>2. cache[g].left \in Int /\ cache[g].attempts \in Nat
        BY <3>1 DEF ArpInv, Types, EntryType
      <3>3. cache'[g] = cache[g]
        BY <1>1, <2>2, <3>1, <3>2, Numbers, ResolveEntry
      <3>. QED  BY <3>1, <3>3
    <2>. QED  BY <1>2, <2>1, <2>3, <2>4, <2>5
  <1>5. \A g \in Entries' : Trying(cache[g])'
    BY <1>1, ResolveTrying
  <1>. QED  BY <1>1, <1>2, <1>3, <1>4, <1>5 DEF WaitInv
-----------------------------------------------------------------------------
\* Packets whose entries have been answered since.
LEMMA AnsweredPatient ==
  ASSUME ArpInv, WaitInv, NEW p \in Packet, Patient(p)
  PROVE  PatientAnswered(p.age, Since, idle)
  <1> DEFINE h == p.hop
             n == cache[h].attempts
             left == cache[h].left
             s == Since
             age == p.age
  <1>1. age \in Nat /\ s \in Int /\ idle \in 0 .. Latency
    <2>1. flush \in Int /\ FlushInterval \in Int
      BY Numbers DEF ArpInv, Types
    <2>. QED  BY <2>1 DEF Packet, WaitInv, Since
  <1>2. h \in Entries /\ ~cache[h].valid => n \in 1 .. MaxAttempts /\ left \in Int
    BY DEF WaitInv, Trying, ArpInv, Types, EntryType
  <1>3. \/ PatientAbsent(age, s, idle)
        \/ PatientAnswered(age, s, idle)
        \/ h \in Entries /\ ~cache[h].valid /\ PatientTried(age, s, idle, n, left)
    BY DEF Patient
  <1>4. PatientAnswered(age, s, idle)
    <2> HIDE DEF age, s, n, left
    <2>. QED  BY <1>1, <1>2, <1>3, AnsweredAbsent, AnsweredTried
  <1>. QED  BY <1>4

LEMMA ProcessPacketWait ==
  ASSUME ArpInv, WaitInv, NEW a \in air, ArpProcessPacket(a)
  PROVE  WaitInv'
  <1>1. /\ UNCHANGED <<pending, flush, idle>>
        /\ \A h \in DOMAIN cache' :
             (h \in Entries /\ cache'[h] = cache[h]) \/ cache'[h].valid = TRUE
        /\ Entries \subseteq DOMAIN cache'
    BY DEF ArpProcessPacket, UpdateArpCache, Entries, Entry
  <1>2. ASSUME NEW p \in Content(pending) PROVE Patient(p)'
    <2>1. p \in Packet /\ Patient(p) /\ PatientAnswered(p.age, Since, idle)
      BY AnsweredPatient DEF WaitInv, Content
    <2>2. Since' = Since
      BY <1>1 DEF Since
    <2>. QED  BY <1>1, <2>1, <2>2 DEF Patient, Entries
  <1>3. \A h \in Entries' : Trying(cache[h])'
    BY <1>1 DEF WaitInv, Trying, Entries
  <1>4. NoOrphans'
    BY <1>1 DEF WaitInv, NoOrphans, Exhausted, Entries, Waiting
  <1>. QED  BY <1>1, <1>2, <1>3, <1>4 DEF WaitInv

LEMMA FlushWait ==
  ASSUME ArpInv, WaitInv, ArpCacheFlush
  PROVE  WaitInv'
  <1>1. /\ UNCHANGED <<pending, idle>> /\ flush < 0 /\ flush' = FlushInterval
        /\ Entries' = {h \in Entries : ~Dead(h)}
        /\ \A h \in Entries' : cache'[h] = cache[h]
    BY DEF ArpCacheFlush, Entries
  <1>2. ASSUME NEW p \in Content(pending) PROVE Patient(p)'
    <2> DEFINE h == p.hop
               age == p.age
    <2>1. p \in Packet /\ Patient(p) /\ PatientAnswered(age, Since, idle)
      BY AnsweredPatient DEF WaitInv, Content
    <2>2. age \in Nat /\ idle \in 0 .. Latency /\ Since \in Int /\ Since > FlushInterval
          /\ Since' = 0
      <3>1. flush \in Int /\ FlushInterval \in Nat
        BY Numbers DEF ArpInv, Types
      <3>. QED  BY <1>1, <2>1, <3>1 DEF Packet, WaitInv, Since
    <2>3. age <= Last + idle
      <3> HIDE DEF age
      <3>. QED  BY <2>1, <2>2, FlushDue
    <2>4. idle' = idle
      BY <1>1
    <2>5. CASE h \notin Entries'
      <3>1. PatientAbsent(age, 0, idle)
        BY <2>2, <2>3 DEF PatientAbsent
      <3>. QED  BY <2>2, <2>4, <2>5, <3>1 DEF Patient
    <2>6. CASE h \in Entries' /\ cache[h].valid
      <3>1. PatientAnswered(age, 0, idle)
        BY <2>3 DEF PatientAnswered
      <3>. QED  BY <1>1, <2>2, <2>4, <2>6, <3>1 DEF Patient
    <2>7. CASE h \in Entries' /\ ~cache[h].valid
      <3> DEFINE n == cache[h].attempts
                 left == cache[h].left
                 since == Since
      <3>1. PatientTried(age, since, idle, n, left)
        BY <1>1, <2>1, <2>7 DEF Patient
      <3>2. n \in 1 .. MaxAttempts /\ left \in Int /\ ~(n >= MaxAttempts)
        <4>1. h \in Entries /\ ~Dead(h)
          BY <1>1, <2>7
        <4>. QED  BY <2>7, <4>1 DEF WaitInv, Trying, ArpInv, Types, EntryType, Dead, Exhausted
      <3>3. since \in Int /\ since > FlushInterval
        BY <2>2
      <3>4. PatientTried(age, 0, idle, n, left)
        <4>1. Tries(n) \in Nat /\ Tries(n) + QueryInterval <= Last
          BY <3>2, Resolutions
        <4> HIDE DEF n, left, since, age
        <4>. QED  BY <2>2, <2>3, <3>1, <3>2, <3>3, <4>1, Numbers, Resolutions DEF PatientTried, Spent
      <3>. QED  BY <1>1, <2>2, <2>4, <2>7, <3>4 DEF Patient
    <2>. QED  BY <2>5, <2>6, <2>7
  <1>3. \A h \in Entries' : Trying(cache[h])'
    BY <1>1 DEF WaitInv, Trying
  <1>4. NoOrphans'
    BY <1>1 DEF WaitInv, NoOrphans, Exhausted, Waiting
  <1>. QED  BY <1>1, <1>2, <1>3, <1>4 DEF WaitInv

LEMMA TickWait ==
  ASSUME ArpInv, WaitInv, Tick
  PROVE  WaitInv'
  <1> DEFINE Older(p) == [hop |-> p.hop, age |-> p.age + 1]
  <1>1. /\ idle' = idle + 1 /\ idle' \in 0 .. Latency /\ idle \in 0 .. Latency
        /\ flush \in Int /\ Since \in Int /\ Since' = Since + 1
    <2>1. flush \in Int /\ FlushInterval \in Int /\ idle \in 0 .. Latency
      BY Numbers DEF ArpInv, Types, WaitInv
    <2>2. idle' = idle + 1 /\ flush' = flush - 1 /\ idle < Latency
      BY DEF Tick
    <2>. QED  BY <2>1, <2>2, Numbers DEF Since
  <1>2. /\ pending' \in Seq(Packet)
        /\ Content(pending') = {Older(p) : p \in Content(pending)}
    <2> DEFINE l == Len(pending)
    <2>1. l \in Nat /\ \A i \in 1 .. l : pending[i] \in Packet
      BY DEF WaitInv
    <2> HIDE DEF l
    <2>2. pending' = [i \in 1 .. l |-> Older(pending[i])]
      BY DEF Tick, l
    <2>3. ASSUME NEW i \in 1 .. l PROVE Older(pending[i]) \in Packet
      BY <2>1 DEF Packet
    <2>4. pending' \in [1 .. l -> Packet]
      BY <2>2, <2>3
    <2>5. pending' \in Seq(Packet) /\ Len(pending') = l
      BY <2>1, <2>4, LenProperties, SeqDef
    <2>. QED  BY <2>2, <2>5 DEF Content, l
  <1>3. /\ DOMAIN cache' = Entries
        /\ \A h \in Entries : /\ cache'[h].valid = cache[h].valid
                              /\ cache'[h].attempts = cache[h].attempts
                              /\ cache[h].left > Floor => cache'[h].left = cache[h].left - 1
                              /\ ~(cache[h].left > Floor) => cache'[h] = cache[h]
    <2>1. /\ DOMAIN cache' = Entries
          /\ \A h \in Entries :
               cache'[h] = IF cache[h].left > Floor
                           THEN Entry(cache[h].valid, cache[h].mac, cache[h].attempts,
                                      cache[h].left - 1)
                           ELSE cache[h]
      BY DEF Tick
    <2>. QED  BY <2>1 DEF Entry
  <1>4. ASSUME NEW p \in Content(pending) PROVE Patient(Older(p))'
    <2> DEFINE h == p.hop
               age == p.age
               since == Since
    <2>1. p \in Packet /\ Patient(p) /\ age \in Nat /\ Older(p).hop = h /\ Older(p).age = age + 1
      <3>1. p \in Packet /\ Patient(p)
        BY DEF WaitInv, Content
      <3>2. Older(p).hop = h /\ Older(p).age = age + 1
        OBVIOUS
      <3>. QED  BY <3>1, <3>2 DEF Packet
    <2>2. CASE h \notin Entries
      <3>1. PatientAbsent(age + 1, Since + 1, idle + 1)
        BY <1>1, <2>1, <2>2, Resolutions DEF Patient, PatientAbsent
      <3>. QED  BY <1>1, <1>3, <2>1, <2>2, <3>1 DEF Patient, Entries
    <2>3. CASE h \in Entries /\ cache[h].valid
      <3>1. PatientAnswered(age + 1, Since + 1, idle + 1)
        <4>1. PatientAnswered(age, since, idle) /\ since \in Int
          BY <1>1, <2>1, <2>3 DEF Patient
        <4> HIDE DEF since, age
        <4>2. PatientAnswered(age + 1, since + 1, idle + 1)
          BY <1>1, <2>1, <4>1, Resolutions, Numbers DEF PatientAnswered
        <4>. QED  BY <4>2 DEF since
      <3>. QED  BY <1>1, <1>3, <2>1, <2>3, <3>1 DEF Patient, Entries
    <2>4. CASE h \in Entries /\ ~cache[h].valid
      <3> DEFINE n == cache[h].attempts
                 left == cache[h].left
                 later == cache'[h].left
      <3>1. /\ n \in 1 .. MaxAttempts /\ left \in Int /\ since \in Int
            /\ PatientTried(age, since, idle, n, left)
            /\ left > Floor => later = left - 1
            /\ ~(left > Floor) => later = left
        BY <1>1, <1>3, <2>1, <2>4 DEF Patient, WaitInv, Trying, ArpInv, Types, EntryType
      <3>2. PatientTried(age + 1, since + 1, idle + 1, n, later)
        <4>1. Tries(n) \in Nat
          BY <3>1, Resolutions
        <4> HIDE DEF age, since, n, left, later
        <4>2. CASE left > Floor
          BY <1>1, <2>1, <3>1, <4>1, <4>2, Resolutions, Numbers DEF PatientTried, Spent
        <4>3. CASE ~(left > Floor)
          BY <1>1, <2>1, <3>1, <4>1, <4>3, Resolutions, Numbers DEF PatientTried, Spent
        <4>. QED  BY <4>2, <4>3
      <3>. QED  BY <1>1, <1>3, <2>1, <2>4, <3>2 DEF Patient, Entries
    <2>. QED  BY <2>2, <2>3, <2>4
  <1>5. \A p \in Content(pending') : Patient(p)'
    <2> HIDE DEF Older
    <2>1. SUFFICES ASSUME NEW q \in Content(pending') PROVE Patient(q)'
      OBVIOUS
    <2>2. PICK p \in Content(pending) : q = Older(p)
      BY <1>2
    <2>. QED  BY <1>4, <2>2
  <1>6. ASSUME NEW h \in Entries PROVE Trying(cache'[h])
    <2> DEFINE left == cache[h].left
               later == cache'[h].left
    <2>1. cache[h].left \in Int /\ Trying(cache[h])
      BY DEF WaitInv, ArpInv, Types, EntryType
    <2>2. cache'[h].left = cache[h].left - 1 \/ cache'[h].left = cache[h].left
      BY <1>3
    <2>3. left <= QueryInterval => later <= QueryInterval
      <3>1. left \in Int /\ (later = left - 1 \/ later = left)
        BY <2>1, <2>2
      <3> HIDE DEF left, later
      <3>. QED  BY <3>1, Numbers
    <2>. QED  BY <1>3, <2>1, <2>3 DEF Trying
  <1>7. NoOrphans'
    <2>1. Waiting' = Waiting
      <3>1. Waiting' = {p.hop : p \in Content(pending')}
        BY DEF Waiting, Content
      <3>2. \A p \in Content(pending) : Older(p) \in Content(pending') /\ Older(p).hop = p.hop
        BY <1>2
      <3>3. \A q \in Content(pending') : \E p \in Content(pending) : q.hop = p.hop
        <4>1. SUFFICES ASSUME NEW q \in Content(pending')
                       PROVE  \E p \in Content(pending) : q.hop = p.hop
          OBVIOUS
        <4>2. PICK p \in Content(pending) : q = Older(p)
          BY <1>2
        <4>. QED  BY <4>2
      <3> HIDE DEF Older
      <3>. QED  BY <3>1, <3>2, <3>3, WaitingHops
    <2>. QED  BY <1>3, <2>1 DEF WaitInv, NoOrphans, Exhausted, Entries
  <1>8. \A h \in Entries' : Trying(cache[h])'
    BY <1>3, <1>6 DEF Entries, Trying
  <1>. QED  BY <1>1, <1>2, <1>5, <1>7, <1>8 DEF WaitInv
-----------------------------------------------------------------------------
LEMMA NextWaitInv == ArpInv /\ WaitInv /\ [Next]_vars => WaitInv'
  <1> SUFFICES ASSUME ArpInv, WaitInv, [Next]_vars PROVE WaitInv'
    OBVIOUS
  <1>1. CASE UNCHANGED <<cache, pending, flush, idle>>
    <2>1. /\ Entries' = Entries /\ Waiting' = Waiting /\ Since' = Since
          /\ UNCHANGED <<cache, pending, idle>>
      BY <1>1 DEF Entries, Waiting, Since
    <2>2. \A p : Patient(p) => Patient(p)'
      BY <2>1 DEF Patient
    <2>. QED  BY <2>1, <2>2 DEF WaitInv, NoOrphans, Exhausted
  <1>2. ASSUME NEW h \in Hosts, NetTx(h) PROVE WaitInv'
    BY <1>2, NetTxWait
  <1>3. CASE ResolverPump
    BY <1>3, PumpWait
  <1>4. ASSUME NEW a \in air, ArpProcessPacket(a) PROVE WaitInv'
    BY <1>4, ProcessPacketWait
  <1>5. CASE ArpCacheFlush
    BY <1>5, FlushWait
  <1>6. ASSUME NEW h \in Hosts, NEW forUs \in BOOLEAN, Speak(h, forUs) PROVE WaitInv'
    BY <1>1, <1>6 DEF Speak
  <1>7. ASSUME NEW h \in Hosts, Move(h) PROVE WaitInv'
    BY <1>1, <1>7 DEF Move
  <1>8. CASE Tick
    BY <1>8, TickWait
  <1>9. CASE UNCHANGED vars
    BY <1>1, <1>9 DEF vars
  <1>. QED  BY <1>2, <1>3, <1>4, <1>5, <1>6, <1>7, <1>8, <1>9 DEF Next

\* What the invariant says of how long packets have waited.
LEMMA WaitInvBounded == ArpInv /\ WaitInv => WaitsBounded
  <1> SUFFICES ASSUME ArpInv, WaitInv, NEW j \in 1 .. Len(pending)
               PROVE  pending[j].age <= Patience
    BY DEF WaitsBounded
  <1> DEFINE age == pending[j].age
             since == Since
  <1>1. /\ age \in Nat /\ since \in Int /\ idle \in 0 .. Latency
        /\ PatientAnswered(age, since, idle)
    <2>1. pending[j] \in Packet /\ Patient(pending[j])
      BY DEF WaitInv, Content
    <2>2. flush \in Int /\ FlushInterval \in Int
      BY Numbers DEF ArpInv, Types
    <2>. QED  BY <2>1, <2>2, AnsweredPatient DEF Packet, WaitInv, Since
  <1> HIDE DEF age, since
  <1>2. age <= Patience
    <2>1. Patience = Round + Round
      BY Resolutions DEF Patience
    <2>2. /\ {Last, Round, Latency} \subseteq Nat /\ Round = Last + Latency
          /\ idle \in Nat /\ idle <= Latency
      BY <1>1, Resolutions, Numbers
    <2>3. age <= Last + idle \/ age <= Round + Last + idle
      BY <1>1 DEF PatientAnswered
    <2> HIDE DEF Last
    <2>. QED  BY <1>1, <2>1, <2>2, <2>3, SMTT(60)
  <1>. QED  BY <1>2 DEF age

\* No packet waits for its next hop's address for longer than two resolutions:
\* net_arp_resolver_pump() sends it or frees it.  A flush of the cache can begin
\* a resolution anew, but never twice for the same packet.
THEOREM ArpWaitsBounded == Spec => []WaitsBounded
  <1>1. Init => ArpInv /\ WaitInv
    BY InitArpInv, InitWaitInv
  <1>2. ArpInv /\ WaitInv /\ [Next]_vars => (ArpInv /\ WaitInv)'
    BY NextArpInv, NextWaitInv
  <1>. QED  BY <1>1, <1>2, WaitInvBounded, PTL DEF Spec

\* Every entry that net_arp_resolve() still asks about has a packet waiting for
\* it: net_arp_resolver_pump() asks again only for the packets in its list.
THEOREM ArpNoOrphans == Spec => []NoOrphans
  <1>1. Init => ArpInv /\ WaitInv
    BY InitArpInv, InitWaitInv
  <1>2. ArpInv /\ WaitInv /\ [Next]_vars => (ArpInv /\ WaitInv)'
    BY NextArpInv, NextWaitInv
  <1>3. WaitInv => NoOrphans
    BY DEF WaitInv
  <1>. QED  BY <1>1, <1>2, <1>3, PTL DEF Spec
=============================================================================
