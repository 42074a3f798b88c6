-------------------------------- MODULE Arp ---------------------------------
(***************************************************************************)
(* Address resolution: the ARP cache (net/arp.c), the list of packets that *)
(* wait for an address (net_arp_lookup_list_head in net/net.c), and the    *)
(* hosts of the network (external), which speak when they like and may     *)
(* change their hardware address.                                          *)
(*                                                                         *)
(* Times are in ticks; next_event and the sink's timer are countdowns, as  *)
(* SinkTimer shows the timers of the program to be.  The resolver and the  *)
(* flush run within Latency ticks of being due, in any order with the      *)
(* arrivals: the order of net_pump() repeats, so each can come first.      *)
(***************************************************************************)
EXTENDS Integers, Sequences, FiniteSets

CONSTANTS
  CacheTimeout,    \* CACHE_TIMEOUT, 60 s in the program
  FlushInterval,   \* CACHE_FLUSH_INTERVAL, 15 s in the program
  MaxAttempts,     \* MAX_RESOLVE_ATTEMPTS, 10 in the program
  QueryInterval,   \* QUERY_INTERVAL, 500 ms in the program
  Hosts,           \* the next hops, by IPv4 address
  Present,         \* those that some machine has; the others never speak
  Macs,            \* hardware addresses
  Zero,            \* the hardware address 00:00:00:00:00:00
  Latency,         \* bound: most ticks between two calls of net_pump()
  Transit,         \* bound: most ticks an ARP packet is under way
  MaxPending       \* bound: most packets waiting at once

\* How long a resolution can take, from its first query until it is given up.
Round == MaxAttempts * (QueryInterval + Latency)

\* A resolution that begins after a flush is over when the next flush is due: it takes 5 s
\* and its delays in the program, and flushes are 15 s apart.
ASSUME ArpAssumption ==
  /\ {CacheTimeout, FlushInterval, QueryInterval, MaxAttempts} \subseteq Nat \ {0}
  /\ {Latency, MaxPending} \subseteq Nat \ {0}
  /\ Transit \in Nat
  /\ Zero \notin Macs
  /\ Round + Latency <= FlushInterval

VARIABLES
  cache,     \* the entries of the cache, by host
  pending,   \* net_arp_lookup_list_head: next hop and time waited, head first
  flush,     \* the timer of the ARP sink: ticks left
  idle,      \* ticks since the resolver last ran
  air,       \* ARP packets under way, with the ticks of transit they have left
  mac,       \* the hardware address each host has
  moved      \* ticks since each host changed it, up to Forever

vars == <<cache, pending, flush, idle, air, mac, moved>>

Entry(valid, m, attempts, left) ==
  [valid |-> valid, mac |-> m, attempts |-> attempts, left |-> left]

Entries == DOMAIN cache
Expired(h) == cache[h].left < 0

\* The entry has used up its queries.
Exhausted(h) == ~cache[h].valid /\ cache[h].attempts >= MaxAttempts

Waiting == {pending[i].hop : i \in 1 .. Len(pending)}

\* No entry is older than this when it is used (see BindingsFresh).
Stale == Transit + CacheTimeout + FlushInterval + Latency
Forever == Stale + 1
-----------------------------------------------------------------------------
(***************************************************************************)
(* The program.                                                            *)
(***************************************************************************)
\* arp_transmit_query() about an entry after this many attempts.
Queried(attempts) == Entry(FALSE, Zero, attempts + 1, QueryInterval)

\* net_arp_resolve() of any packets for the hosts in hops: what it makes of the
\* cache, the hosts it finds and the hosts it gives up.
ToQuery(hops) ==
  (hops \ Entries)
    \cup {h \in hops \cap Entries : ~cache[h].valid /\ Expired(h) /\ ~Exhausted(h)}

Resolve(hops) ==
  cache' = [h \in Entries \cup hops |->
              IF h \notin ToQuery(hops) THEN cache[h]
              ELSE IF h \notin Entries THEN Queried(0)
              ELSE Queried(cache[h].attempts)]

Found == {h \in Entries : cache[h].valid}

\* Mutation of GivenUp: waiting is taken for failure.
GivenUpWaiting == {h \in Entries : ~cache[h].valid}

GivenUp == {h \in Entries : Exhausted(h) /\ Expired(h)}

\* net_tx(): the packet leaves at once or goes to the head of the list.
NetTx(h) ==
  /\ Resolve({h})
  /\ IF h \in Found THEN UNCHANGED pending
     ELSE /\ Len(pending) < MaxPending
          /\ pending' = <<[hop |-> h, age |-> 0]>> \o pending
  /\ UNCHANGED <<flush, idle, air, mac, moved>>

\* The walk along a list, from which the packets for these hosts are taken: what is left
\* of the first n.
Remaining(packets, hops) ==
  LET rest[n \in 0 .. Len(packets)] ==
        IF n = 0 THEN <<>>
        ELSE IF packets[n].hop \in hops THEN rest[n - 1]
        ELSE Append(rest[n - 1], packets[n])
  IN  rest

Others(packets, hops) == Remaining(packets, hops)[Len(packets)]

\* Mutation of ResolverPump: a packet whose host cannot be found stays.
ResolverPumpKeeping ==
  /\ Resolve(Waiting)
  /\ pending' = Others(pending, Found)
  /\ idle' = 0
  /\ UNCHANGED <<flush, air, mac, moved>>

\* net_arp_resolver_pump(): packets that are found go to the transmit queue,
\* packets that are given up are freed.  All packets for one host fare alike,
\* because the first of them does all there is to do to the entry.
ResolverPump ==
  /\ Resolve(Waiting)
  /\ pending' = Others(pending, Found \cup GivenUp)
  /\ idle' = 0
  /\ UNCHANGED <<flush, air, mac, moved>>

\* update_arp_cache().
UpdateArpCache(h, m, addEntry) ==
  IF h \in Entries \/ addEntry
  THEN cache' = [g \in Entries \cup {h} |->
                   IF g = h THEN Entry(TRUE, m, 0, CacheTimeout) ELSE cache[g]]
  ELSE UNCHANGED cache

\* arp_process_packet(): requests for this machine's address add an entry.
ArpProcessPacket(a) ==
  /\ a \in air
  /\ UpdateArpCache(a.ip, a.mac, a.forUs)
  /\ air' \in {air, air \ {a}}
  /\ UNCHANGED <<pending, flush, idle, mac, moved>>

\* Mutations of Dead: only failed entries die, and only valid ones do.
DeadWhenExhausted(h) == Exhausted(h)
DeadWhenValid(h) == cache[h].valid /\ Expired(h)

Dead(h) == (cache[h].valid /\ Expired(h)) \/ Exhausted(h)

\* arp_cache_flush(), the sink's timer callback.
ArpCacheFlush ==
  /\ flush < 0
  /\ flush' = FlushInterval
  /\ cache' = [h \in {g \in Entries : ~Dead(g)} |-> cache[h]]
  /\ UNCHANGED <<pending, idle, air, mac, moved>>
-----------------------------------------------------------------------------
(***************************************************************************)
(* The hosts and time.                                                     *)
(***************************************************************************)
\* A host sends an ARP packet (an equal one still under way is no use any more).
Speak(h, forUs) ==
  /\ h \in Present
  /\ air' = {a \in air : <<a.ip, a.mac, a.forUs>> # <<h, mac[h], forUs>>}
              \cup {[ip |-> h, mac |-> mac[h], forUs |-> forUs, ttl |-> Transit]}
  /\ UNCHANGED <<cache, pending, flush, idle, mac, moved>>

\* A host's address moves to other hardware (seldom: bound).
Move(h) ==
  /\ h \in Present /\ moved[h] = Forever
  /\ \E m \in Macs \ {mac[h]} : mac' = [mac EXCEPT ![h] = m]
  /\ moved' = [moved EXCEPT ![h] = 0]
  /\ UNCHANGED <<cache, pending, flush, idle, air>>

\* No property looks at an entry that is later than this.
Floor == -(FlushInterval + Latency + 1)

Tick ==
  /\ flush > -Latency /\ idle < Latency
  /\ flush' = flush - 1
  /\ idle' = idle + 1
  /\ cache' = [h \in Entries |->
                IF cache[h].left > Floor
                THEN Entry(cache[h].valid, cache[h].mac, cache[h].attempts, cache[h].left - 1)
                ELSE cache[h]]
  /\ pending' = [i \in 1 .. Len(pending) |-> [hop |-> pending[i].hop, age |-> pending[i].age + 1]]
  /\ air' = {[a EXCEPT !.ttl = @ - 1] : a \in {b \in air : b.ttl > 0}}
  /\ moved' = [h \in Hosts |-> IF moved[h] < Forever THEN moved[h] + 1 ELSE Forever]
  /\ UNCHANGED mac
-----------------------------------------------------------------------------
Init ==
  /\ cache = [h \in {} |-> Zero]
  /\ pending = <<>>
  /\ flush = FlushInterval
  /\ idle = 0
  /\ air = {}
  /\ mac \in [Hosts -> Macs]
  /\ moved = [h \in Hosts |-> Forever]

Next ==
  \/ \E h \in Hosts : NetTx(h)
  \/ ResolverPump
  \/ \E a \in air : ArpProcessPacket(a)
  \/ ArpCacheFlush
  \/ \E h \in Hosts : \E forUs \in BOOLEAN : Speak(h, forUs)
  \/ \E h \in Hosts : Move(h)
  \/ Tick

Spec == Init /\ [][Next]_vars
-----------------------------------------------------------------------------
(***************************************************************************)
(* Properties.                                                             *)
(***************************************************************************)
Patience == 2 * Round

\* A packet is sent to the hardware that its next hop has, or had not long ago:
\* entries are used until a flush removes them, not just until they expire.
BindingsFresh ==
  \A h \in Found : cache[h].mac = mac[h] \/ moved[h] <= Stale

\* No packet waits for ever: it is sent or freed after at most two resolutions
\* (a flush can remove an entry before its packets were given up, and they
\* start anew).
WaitsBounded == \A i \in 1 .. Len(pending) : pending[i].age <= Patience

\* Every entry that is still being resolved has a packet waiting for it; there
\* would be nothing to drive it on, nor to remove it, otherwise.
NoOrphans == \A h \in Entries : ~cache[h].valid /\ ~Exhausted(h) => h \in Waiting

\* A host that did not answer is unreachable for no longer than until the next
\* flush.
FailureForgotten ==
  \A h \in Entries : Exhausted(h) => cache[h].left >= QueryInterval - FlushInterval - Latency
=============================================================================
