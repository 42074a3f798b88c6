------------------------------ MODULE NetStack ------------------------------
(***************************************************************************)
(* The way of packets through the program: the list of packet sinks and    *)
(* net_pump(), which walks it (net/net.c), the ownership of packets        *)
(* (net/packet.c), and the sinks' callbacks as far as they take, keep,     *)
(* answer and free packets (net/icmp.c, net/arp.c, net/tftp.c, and DHCP).  *)
(*                                                                         *)
(* A packet received is what the sinks match it by; packets to send are    *)
(* just counted, where they are.  Ne2000 and Link are the card below,      *)
(* of which only the number of buffers in use matters here, and Arp is the *)
(* resolver, which finds a next hop, waits for it, or fails.               *)
(***************************************************************************)
EXTENDS Checksum, Sequences, FiniteSets, FiniteSetsExt

CONSTANTS
  Sinks,        \* the packet sinks, by name; "tftp" is there during a transfer
  Order,        \* the others, as net_init() and dhcp_init() add them
  Match,        \* for each sink, the values of the header fields it matches
  Traffic,      \* the packets that arrive: the values of the header fields, and the sums
                \* of the words of the IPv4 header and of what the next checksum covers
  Window,       \* largest window of a transfer (windowsize, as the server grants it)
  MaxAlive      \* bound: packets allocated at once

Null == "null"

\* How many fields are matched, and whether a packet has their values; "ours" is the
\* address of the interface.
Score(m) == Cardinality(DOMAIN m)
Fits(m, p) == \A f \in DOMAIN m : p[f] = m[f]
NeedsAddress(m) == \E f \in DOMAIN m : m[f] = "ours"

\* The match fields of a transfer that is locked on to a port.
WithPort(m, port) ==
  [f \in DOMAIN m \cup {"remotePort"} |-> IF f = "remotePort" THEN port ELSE m[f]]

\* Every sink but the transfer's is added once.
ASSUME NetStackAssumption ==
  /\ "tftp" \in Sinks /\ Sinks # {"tftp"} /\ Null \notin Sinks
  /\ Match = [s \in Sinks |-> Match[s]]
  /\ Order \in Seq(Sinks \ {"tftp"})
  /\ \A s \in Sinks \ {"tftp"} : \E i \in 1 .. Len(Order) : Order[i] = s
  /\ \A i, j \in 1 .. Len(Order) : Order[i] = Order[j] => i = j
  /\ {Window, MaxAlive} \subseteq Nat \ {0}
  /\ \A s \in Sinks, p \in Traffic : DOMAIN Match[s] \subseteq DOMAIN p

\* A transfer's sink needs an address, matches more fields than any other, and will match
\* one more; and a packet for a sink that works without an address fits no sink that
\* needs one and matches more fields.
ASSUME MatchAssumption ==
  /\ \A s \in Sinks : IsFiniteSet(DOMAIN Match[s])
  /\ NeedsAddress(Match["tftp"]) /\ "remotePort" \notin DOMAIN Match["tftp"]
  /\ \A s \in Sinks \ {"tftp"} : Score(Match[s]) < Score(Match["tftp"])
  /\ \A r, s \in Sinks : \A p \in Traffic :
       /\ NeedsAddress(Match[r]) /\ ~NeedsAddress(Match[s])
       /\ Fits(Match[r], p) /\ Fits(Match[s], p)
       => Score(Match[r]) <= Score(Match[s])

VARIABLES
  head, next,   \* the list: net_packet_sink_head, and the links of the sinks
  match,        \* the match fields of the sinks
  queue,        \* their queues
  started,      \* the transfer is locked on to a port (tftp->started)
  isPut,        \* the transfer sends a file (tftp->is_put)
  kept,         \* number of packets in the transfer's data_queue
  address,      \* the interface has an address
  throttled,    \* icmp_throttle_timer has not expired
  pc,           \* where net_pump() is: "idle", "card" or "walk"
  at,           \* its sink
  timed,        \* the timer callback of that sink was considered
  tx            \* packets: [card, queued, waiting, alive], see below

list == <<head, next>>
vars == <<list, match, queue, started, isPut, kept, address, throttled, pc, at, timed, tx>>

\* tx.card: transmit buffers in use, holding copies; tx.queued: in net_txqueue;
\* tx.waiting: in net_arp_lookup_list; tx.alive: packet_alive_count.
-----------------------------------------------------------------------------
(***************************************************************************)
(* The list.                                                               *)
(***************************************************************************)
\* The n-th sink of a list, or Null.
Nth(h, nx) ==
  LET f[n \in 0 .. Cardinality(Sinks)] ==
        IF n = 0 THEN h ELSE IF f[n - 1] = Null THEN Null ELSE nx[f[n - 1]]
  IN  f

Listed(h, nx) == {Nth(h, nx)[n] : n \in 0 .. Cardinality(Sinks)} \ {Null}

\* The sink that a list leads to s from, or Null if s is its head.
Before(h, nx, s) ==
  IF h = s THEN Null ELSE CHOOSE r \in Listed(h, nx) : nx[r] = s

\* Mutation of Added: always at the head.
AddedFirst(h, nx, s, m, ms) == <<s, [nx EXCEPT ![s] = h]>>

\* net_add_packet_sink() of a sink with match fields m: before the first sink that
\* matches no more fields, or at the end.  The new head and links.
Added(h, nx, s, m, ms) ==
  LET L == Listed(h, nx)
      place == {n \in 0 .. Cardinality(L) - 1 : Score(ms[Nth(h, nx)[n]]) <= Score(m)}
      entry == Nth(h, nx)[Min(place)]
      last == CHOOSE r \in L : nx[r] = Null
  IN  IF nx[s] # Null THEN <<h, nx>>
      ELSE IF L = {} THEN <<s, nx>>
      ELSE IF place = {} THEN <<h, [nx EXCEPT ![last] = s]>>
      ELSE IF entry = h THEN <<s, [nx EXCEPT ![s] = h]>>
      ELSE <<h, [nx EXCEPT ![s] = entry, ![Before(h, nx, entry)] = s]>>

\* net_remove_packet_sink().
Removed(h, nx, s) ==
  IF s \notin Listed(h, nx) THEN <<h, nx>>
  ELSE IF h = s THEN <<nx[s], [nx EXCEPT ![s] = Null]>>
  ELSE <<h, [nx EXCEPT ![Before(h, nx, s)] = nx[s], ![s] = Null]>>

Matches(s, p) == Fits(match[s], p) /\ (NeedsAddress(match[s]) => address)

\* net_eth_push(): the first sink that matches gets the packet.
Taker(p) ==
  LET takers == {n \in 0 .. Cardinality(Sinks) - 1 :
                   Nth(head, next)[n] # Null /\ Matches(Nth(head, next)[n], p)}
  IN  IF takers = {} THEN Null ELSE Nth(head, next)[Min(takers)]
-----------------------------------------------------------------------------
(***************************************************************************)
(* Sending.  These take and give the record of packets t.                  *)
(***************************************************************************)
Alloc(t) == [t EXCEPT !.alive = @ + 1]
Free(t) == [t EXCEPT !.alive = @ - 1]

\* A packet whose hardware address is known goes to the card, which takes a copy, or
\* to the end of the transmit queue.
ToCard(t) ==
  IF t.card < 2 THEN Free([t EXCEPT !.card = @ + 1]) ELSE [t EXCEPT !.queued = @ + 1]

\* net_arp_resolve(): the packet is sent, or it waits, and there may be a query.
Results(t) == {ToCard(t), [t EXCEPT !.waiting = @ + 1], ToCard(Alloc([t EXCEPT !.waiting = @ + 1]))}

\* net_tx() of a packet that has been allocated: without an address it is freed.
NetTx(t, known) == IF ~address THEN {Free(t)} ELSE IF known THEN {ToCard(t)} ELSE Results(t)

\* net_tx() of n packets allocated one after the other: some wait, some of those with a
\* query; the others and the queries go to the card while it has room, or to the queue.
Handed(t, n, waiting, queries) ==
  LET ready == n - waiting + queries
      sent == Min({ready, 2 - t.card})
  IN  [card    |-> t.card + sent,
       queued  |-> t.queued + ready - sent,
       waiting |-> t.waiting + waiting,
       alive   |-> t.alive + n + queries - sent]

NetTxAll(t, n) ==
  IF address THEN UNION {{Handed(t, n, w, q) : q \in 0 .. w} : w \in 0 .. n} ELSE {t}
-----------------------------------------------------------------------------
(***************************************************************************)
(* net_pump().                                                             *)
(***************************************************************************)
\* net_arp_resolver_pump(): of the packets that wait, some are found and go to the
\* transmit queue, some are given up; there may be queries, which go to the card.
ResolverPump ==
  /\ pc = "idle" /\ pc' = "card"
  /\ \E ok, failed, queries \in 0 .. tx.waiting :
       /\ ok + failed + queries <= tx.waiting
       /\ LET sent == Min({queries, 2 - tx.card})
          IN  tx' = [card    |-> tx.card + sent,
                     queued  |-> tx.queued + ok + queries - sent,
                     waiting |-> tx.waiting - ok - failed,
                     alive   |-> tx.alive - failed + queries - sent]
  /\ UNCHANGED <<list, match, queue, started, isPut, kept, address, throttled, at, timed>>

\* eth_pump(): transmissions have ended,
Transmitted ==
  /\ pc = "card" /\ tx.card > 0
  /\ tx' = [tx EXCEPT !.card = @ - 1]
  /\ UNCHANGED <<list, match, queue, started, isPut, kept, address, throttled, pc, at, timed>>

\* The checksums are right; that of TCP is not looked at.
Intact(p) ==
  p.ethertype = "ipv4" =>
    /\ Verified(p.header)
    /\ p.protocol = "udp" => UdpVerified(p.checksum, p.body)
    /\ p.protocol = "icmp" => Verified(p.body)

\* packets come, for this hardware address or not,
EthPush(p) ==
  /\ pc = "card"
  /\ \/ /\ Intact(p) /\ Taker(p) # Null
        /\ queue' = [queue EXCEPT ![Taker(p)] = Append(@, p)]
        /\ tx' = Alloc(tx)
     \/ UNCHANGED <<queue, tx>>
  /\ UNCHANGED <<list, match, started, isPut, kept, address, throttled, pc, at, timed>>

\* Mutation of EthPull: one packet at a time.
EthPullOne ==
  /\ pc = "card" /\ pc' = "walk"
  /\ LET n == Min({1, 2 - tx.card, tx.queued})
     IN  tx' = [tx EXCEPT !.card = @ + n, !.queued = @ - n, !.alive = @ - n]
  /\ at' = head /\ timed' = FALSE
  /\ UNCHANGED <<list, match, queue, started, isPut, kept, address, throttled>>

\* and free buffers are filled from the transmit queue.
EthPull ==
  /\ pc = "card" /\ pc' = "walk"
  /\ LET n == Min({2 - tx.card, tx.queued})
     IN  tx' = [tx EXCEPT !.card = @ + n, !.queued = @ - n, !.alive = @ - n]
  /\ at' = head /\ timed' = FALSE
  /\ UNCHANGED <<list, match, queue, started, isPut, kept, address, throttled>>

\* The packet that the sink's callback gets.
Called(s) == pc = "walk" /\ at = s /\ queue[s] # <<>> /\ ~timed
Popped(s) == queue' = [queue EXCEPT ![s] = Tail(@)]

\* arp_process_packet(): a request for this machine is answered.
ArpReceived ==
  /\ Called("arp") /\ Popped("arp")
  /\ tx' \in {Free(t) : t \in {tx} \cup (IF address THEN {ToCard(Alloc(tx))} ELSE {})}
  /\ UNCHANGED <<list, match, started, isPut, kept, address, throttled, pc, at, timed>>

\* dhcp_pump(): a reply can bring an address, end it, or be answered by broadcast.
DhcpReceived ==
  /\ Called("dhcp") /\ Popped("dhcp")
  /\ address' \in BOOLEAN
  /\ tx' \in {Free(t) : t \in {tx, ToCard(Alloc(tx))}}
  /\ UNCHANGED <<list, match, started, isPut, kept, throttled, pc, at, timed>>

\* icmp_received(): a request is turned into its reply, anything else is freed.
EchoReceived ==
  /\ Called("icmp") /\ Popped("icmp")
  /\ tx' \in {Free(tx)} \cup NetTx(tx, TRUE)
  /\ UNCHANGED <<list, match, started, isPut, kept, address, throttled, pc, at, timed>>

\* icmp_send_unreachable().
UnwantedReceived ==
  /\ Called("unwanted") /\ Popped("unwanted")
  /\ IF throttled THEN tx' = Free(tx)
     ELSE \E t \in NetTx(Alloc(tx), TRUE) : tx' = Free(t)
  /\ throttled' = TRUE
  /\ UNCHANGED <<list, match, started, isPut, kept, address, pc, at, timed>>

\* Mutation of LockOn: the sink is not put back in its place.
LockOnRemoved(port) ==
  LET out == Removed(head, next, "tftp")
  IN  /\ head' = out[1] /\ next' = out[2]
      /\ match' = [match EXCEPT !["tftp"] = WithPort(@, port)]

\* The transfer's sink is taken out of the list and put back with one more field.
LockOn(port) ==
  LET m == WithPort(match["tftp"], port)
      out == Removed(head, next, "tftp")
      in == Added(out[1], out[2], "tftp", m, match)
  IN  /\ head' = in[1] /\ next' = in[2]
      /\ match' = [match EXCEPT !["tftp"] = m]

\* Mutation of FlushDataAndAck: what is written is not freed.
FlushDataAndAckLosing(t, n) == NetTx(Alloc(t), FALSE)

\* tftp_get_flush_data_and_ack() with n packets in the data queue: the acknowledgement is
\* sent, then they are written and freed.
FlushDataAndAck(t, n) == {[u EXCEPT !.alive = @ - n] : u \in NetTx(Alloc(t), FALSE)}

\* tftp_client_packet_received() locks on to the port of the first packet.
TftpReceived ==
  /\ Called("tftp") /\ Popped("tftp")
  /\ IF started THEN UNCHANGED <<list, match>> ELSE LockOn(Head(queue["tftp"]).remotePort)
  /\ started' = TRUE
  /\ UNCHANGED <<isPut, address, throttled, pc, at, timed>>

\* A download keeps the block that it expects,
BlockKept ==
  /\ TftpReceived /\ ~isPut
  /\ \/ kept' = kept + 1 /\ tx' = tx
     \/ kept' = 0 /\ tx' \in FlushDataAndAck(tx, kept + 1)

\* and frees any other packet, perhaps after it has acknowledged options, or written and
\* freed what it had (the size of the window can change).
BlockFreed ==
  /\ TftpReceived /\ ~isPut
  /\ \/ kept' = kept /\ tx' \in {Free(t) : t \in {tx} \cup NetTx(Alloc(tx), FALSE)}
     \/ kept' = 0 /\ tx' \in {Free(t) : t \in FlushDataAndAck(tx, kept)}

\* An upload sends up to a window of blocks (tftp_put_send_data()), then frees the packet.
AckReceived ==
  /\ TftpReceived /\ isPut
  /\ \E n \in 0 .. Window : tx' \in {Free(t) : t \in NetTxAll(tx, n)}
  /\ UNCHANGED kept

\* net_pump() considers the timer of a sink whose queue is empty.
Timed(s) == pc = "walk" /\ at = s /\ queue[s] = <<>> /\ ~timed /\ timed' = TRUE

\* dhcp_pump() may give up the address, and sends something; ARP's callback does not.
DhcpTimerExpires ==
  /\ Timed("dhcp")
  /\ tx' = ToCard(Alloc(tx)) /\ address' \in {address, FALSE}
  /\ UNCHANGED <<list, match, queue, started, isPut, kept, throttled, pc, at>>

\* tftp_client_timer_expired(): the request or a block is sent again, or what was received
\* is acknowledged, written and freed; or nothing happens any more, or the block cannot be
\* read.
TftpTimerExpires ==
  /\ Timed("tftp")
  /\ \/ UNCHANGED <<kept, tx>>
     \/ (~started \/ isPut) /\ tx' \in NetTx(Alloc(tx), FALSE) /\ UNCHANGED kept
     \/ started /\ ~isPut /\ tx' \in FlushDataAndAck(tx, kept) /\ kept' = 0
  /\ UNCHANGED <<list, match, queue, started, isPut, address, throttled, pc, at>>

WalkOn ==
  /\ pc = "walk"
  /\ IF at = Null THEN pc' = "idle" /\ UNCHANGED <<at, timed>>
     ELSE queue[at] = <<>> /\ at' = next[at] /\ timed' = FALSE /\ UNCHANGED pc
  /\ UNCHANGED <<list, match, queue, started, isPut, kept, address, throttled, tx>>
-----------------------------------------------------------------------------
(***************************************************************************)
(* The transfer, and time.                                                 *)
(***************************************************************************)
Transferring == "tftp" \in Listed(head, next)

\* tftp_transfer() adds its sink and sends its request.
BeginTransfer ==
  /\ pc = "idle" /\ ~Transferring
  /\ LET in == Added(head, next, "tftp", Match["tftp"], match)
     IN  head' = in[1] /\ next' = in[2]
  /\ match' = [match EXCEPT !["tftp"] = Match["tftp"]]
  /\ started' = FALSE /\ isPut' \in BOOLEAN
  /\ tx' \in NetTx(Alloc(tx), FALSE)
  /\ UNCHANGED <<queue, kept, address, throttled, pc, at, timed>>

\* It ends when it likes, and frees the packets it still has.
EndTransfer ==
  /\ pc = "idle" /\ Transferring
  /\ LET out == Removed(head, next, "tftp")
     IN  head' = out[1] /\ next' = out[2]
  /\ tx' = [tx EXCEPT !.alive = @ - Len(queue["tftp"]) - kept]
  /\ queue' = [queue EXCEPT !["tftp"] = <<>>]
  /\ kept' = 0
  /\ UNCHANGED <<match, started, isPut, address, throttled, pc, at, timed>>

ThrottleExpires ==
  /\ throttled /\ throttled' = FALSE
  /\ UNCHANGED <<list, match, queue, started, isPut, kept, address, pc, at, timed, tx>>

\* net_init(), dhcp_init().
Init ==
  /\ LET f[n \in 0 .. Len(Order)] ==
           IF n = 0 THEN <<Null, [s \in Sinks |-> Null]>>
           ELSE Added(f[n - 1][1], f[n - 1][2], Order[n], Match[Order[n]], Match)
     IN  head = f[Len(Order)][1] /\ next = f[Len(Order)][2]
  /\ match = Match
  /\ queue = [s \in Sinks |-> <<>>]
  /\ started = FALSE /\ isPut = FALSE /\ kept = 0 /\ address = FALSE /\ throttled = FALSE
  /\ pc = "idle" /\ at = Null /\ timed = FALSE
  /\ tx = [card |-> 0, queued |-> 0, waiting |-> 0, alive |-> 0]

Step ==
  \/ ResolverPump \/ Transmitted \/ EthPull \/ WalkOn
  \/ \E p \in Traffic : EthPush(p)
  \/ ArpReceived \/ DhcpReceived \/ EchoReceived \/ UnwantedReceived
  \/ BlockKept \/ BlockFreed \/ AckReceived
  \/ DhcpTimerExpires \/ TftpTimerExpires
  \/ BeginTransfer \/ EndTransfer \/ ThrottleExpires

\* The bound: no more packets come or are sent at a time.
Next == Step /\ tx'.alive <= MaxAlive

Spec == Init /\ [][Next]_vars
-----------------------------------------------------------------------------
(***************************************************************************)
(* Properties.                                                             *)
(***************************************************************************)
\* The list of sinks is one list still, without a circle, when sinks leave it and come
\* back, even in the middle of net_pump()'s walk.
ListWhole ==
  /\ Listed(head, next) \in {Sinks, Sinks \ {"tftp"}}
  /\ \E s \in Listed(head, next) : next[s] = Null
  /\ \A s \in Sinks \ Listed(head, next) : next[s] = Null

\* A packet is never given to a sink while another one matches it more closely, though
\* net_eth_push() takes the first that matches, and sinks gain fields while listed; and
\* the list stays whole.
MostSpecific ==
  /\ ListWhole
  /\ \A s \in Sinks : \A i \in 1 .. Len(queue[s]) : \A r \in Listed(head, next) :
       Matches(r, queue[s][i]) => Score(match[r]) <= Score(match[s])

\* The packets in the queues of the sinks.
Received(q) ==
  LET sum[n \in 0 .. Len(Order)] ==
        IF n = 0 THEN Len(q["tftp"]) ELSE sum[n - 1] + Len(q[Order[n]])
  IN  sum[Len(Order)]

\* Each packet is in exactly one place: the packets allocated are those in the sinks'
\* queues, the transfer's, the transmit queue and the list that waits for ARP.
PacketsOwned == tx.alive = tx.queued + tx.waiting + kept + Received(queue)

\* One net_pump() serves every sink: nothing received is left over when it ends,
\* although sinks leave the list and come back during the walk.
PumpDrains == pc = "idle" => \A s \in Sinks : queue[s] = <<>>

\* While packets wait in the transmit queue the card has no room for one that would
\* overtake them; only the resolver's own queries can.
NoOvertaking == pc # "card" /\ tx.queued > 0 => tx.card = 2
=============================================================================
