-------------------------------- MODULE Dhcp --------------------------------
(***************************************************************************)
(* The DHCP client of net/dhcp.c, with the DHCP servers and the network it *)
(* talks to (external: modelled from what the client sends and accepts).   *)
(*                                                                         *)
(* Time is counted in timer ticks.  The sink's timer is a countdown, which *)
(* is what SinkTimer shows the wrapping timer of net_pump() to be: it      *)
(* fires once more ticks than its duration have passed and at most Latency *)
(* ticks late.                                                             *)
(***************************************************************************)
EXTENDS Timers, FiniteSets

CONSTANTS
  ShortWait,     \* short_wait_time, 5 seconds in the program
  RenewRetries,  \* renew_retry_count, 100 in the program
  MinLease,      \* shortest lease an offer may have, 180 seconds in the program
  SelectCap,     \* select_wait_time stops doubling here, 120 seconds in the program
  Servers,       \* the DHCP servers; each has one address for this client
  LeaseOf,       \* LeaseOf[s]: length in seconds of the leases s grants
  Complete,      \* the servers whose replies name a gateway and a DNS server
  Others,        \* addresses that belong to other clients
  Strays,        \* replies to other clients that the client can hear
  Latency,       \* bound: most ticks between two calls of net_pump()
  Transit,       \* bound: most ticks a message is under way
  None           \* the address 0.0.0.0, and no server

ASSUME DhcpAssumption ==
  /\ MsPerSec % MsPerTick = 0
  /\ ShortWait \in Nat \ {0}
  /\ RenewRetries \in Nat \ {0}
  /\ MinLease \in Nat \ {0}
  /\ SelectCap \in Nat
  /\ LeaseOf \in [Servers -> Words]
  /\ Complete \subseteq Servers
  /\ Latency \in Nat \ {0}
  /\ Transit \in Nat
  /\ None \notin Servers \cup Others
  /\ Servers \cap Others = {}

Addresses == Servers \cup Others \cup {None}

\* An offer, acknowledgement or refusal as process_dhcp_reply() sees it: its
\* type, the address it is about (yiaddr; an address is named by the server it
\* belongs to), the server identifier, the lease, and whether it names a
\* gateway and a DNS server.  "untyped" has no message type option, "other" is
\* any further type and any reply with a malformed option.
ReplyTypes == {"offer", "ack", "nack", "untyped", "other"}
Reply ==
  [type : ReplyTypes, ip : Addresses, sid : Servers \cup {None},
   lease : Words, complete : BOOLEAN]

ASSUME StraysAssumption == Strays \subseteq Reply

VARIABLES
  state,         \* dhcp_state
  selectWait,    \* select_wait_time
  retries,       \* renew_retry_remaining
  offer,         \* the dhcp_offer_* and dhcp_server_id globals
  address,       \* interface_ipv4_address (and the mask, gateway and DNS set with it)
  timer,         \* the sink's timer: ticks left (every callback sets it again)
  requests,      \* broadcasts under way, with the ticks of transit they have left
  replies,       \* replies under way, likewise
  lease          \* lease[s]: ticks s still reserves its address for the client

clientVars == <<state, selectWait, retries, offer, address, timer>>
vars == <<clientVars, requests, replies, lease>>

-----------------------------------------------------------------------------
(***************************************************************************)
(* The client.                                                             *)
(***************************************************************************)
\* The offer globals with everything reset but the address, which is not.
Cleared(ip) == [ip |-> ip, sid |-> None, lease |-> 0, complete |-> FALSE]

Offer == [ip : Addresses, sid : Servers \cup {None},
          lease : Words, complete : BOOLEAN]

Discover == [type |-> "discover", ip |-> None, sid |-> None]

\* dhcp_send_request() asks for whatever the offer globals hold at the time.
Request(o) == [type |-> "request", ip |-> o.ip, sid |-> o.sid]

RequestMessages ==
  [type : {"discover", "request"}, ip : Addresses, sid : Servers \cup {None}]

\* The globals after all options of m were parsed ...
Parsed(m) == [ip |-> m.ip, sid |-> m.sid, lease |-> m.lease, complete |-> m.complete]

\* ... and after parsing stopped at an option it could not use.  The address
\* was overwritten before; the options ahead of that one were, too.
Abandoned(m) == {Cleared(m.ip), Parsed(m)}

Accepts(m, expected) == m.type \in {expected, "untyped"}

\* Mutation of Suitable: no look at the lease.
SuitableAnyLease(o) == o.ip # None /\ o.complete

Suitable(o) == o.ip # None /\ o.complete /\ o.lease >= MinLease

\* The messages under way once m was sent.  An older copy of m is dropped: it
\* could be received only when the new one can be, and to the same effect.
Sent(messages, m) ==
  {q \in messages : q.msg # m} \cup {[msg |-> m, ttl |-> Transit]}

\* net_tx() of a broadcast.
Broadcast(m) == requests' = Sent(requests, m)

SetTimer(sec) == timer' = TicksOfSec(sec)

\* Mutation of EnterDiscover: the interface keeps its address.
EnterDiscoverInUse(o) ==
  /\ state' = "select"
  /\ offer' = Cleared(o.ip)
  /\ Broadcast(Discover)
  /\ SetTimer(selectWait)
  /\ UNCHANGED <<selectWait, address>>

\* dhcp_enter_state(DHCP_DISCOVER), which goes on to DHCP_SELECT.  o is what
\* the offer globals hold: all but the address are cleared.
EnterDiscover(o) ==
  /\ state' = "select"
  /\ offer' = Cleared(o.ip)
  /\ address' = None
  /\ Broadcast(Discover)
  /\ SetTimer(selectWait)
  /\ selectWait' = IF selectWait < SelectCap THEN 2 * selectWait ELSE selectWait

EnterRequest(o) ==
  /\ state' = "request"
  /\ offer' = o
  /\ Broadcast(Request(o))
  /\ SetTimer(ShortWait)
  /\ selectWait' = ShortWait
  /\ UNCHANGED <<retries, address>>

\* Mutation of BoundWait: renewal starts when the lease ends.
BoundWholeLease(leaseSec) == leaseSec

\* The wait is computed in a uint32_t.
BoundWait(leaseSec) == Truncate(leaseSec - RenewRetries * ShortWait)

\* Mutation of EnterBound: the acknowledgement's server is not remembered.
EnterBoundWithoutServer(o) ==
  /\ state' = "bound"
  /\ offer' = [offer EXCEPT !.ip = o.ip]
  /\ address' = o.ip
  /\ SetTimer(BoundWait(o.lease))
  /\ UNCHANGED <<selectWait, retries, requests>>

EnterBound(o) ==
  /\ state' = "bound"
  /\ offer' = o
  /\ address' = o.ip
  /\ SetTimer(BoundWait(o.lease))
  /\ UNCHANGED <<selectWait, retries, requests>>

EnterRenew ==
  /\ state' = "renew"
  /\ retries' = RenewRetries
  /\ SetTimer(ShortWait)
  /\ Broadcast(Request(offer))
  /\ UNCHANGED <<selectWait, offer, address>>

Ignore == UNCHANGED <<clientVars, requests>>

KeepOffer(o) ==
  /\ offer' = o
  /\ UNCHANGED <<state, selectWait, retries, address, timer, requests>>

\* dhcp_pump() in DHCP_SELECT: the first suitable offer is taken.
PumpSelect(m) ==
  /\ state = "select"
  /\ IF Accepts(m, "offer")
     THEN IF Suitable(Parsed(m)) THEN EnterRequest(Parsed(m)) ELSE KeepOffer(Parsed(m))
     ELSE \E o \in Abandoned(m) : KeepOffer(o)

\* dhcp_pump() in DHCP_REQUEST and DHCP_RENEW: the reply is first tried as a
\* refusal, then as an acknowledgement.
PumpRequest(m) ==
  /\ state \in {"request", "renew"}
  /\ IF Accepts(m, "nack") THEN EnterDiscover(Parsed(m)) /\ UNCHANGED retries
     ELSE IF Accepts(m, "ack") THEN EnterBound(Parsed(m))
     ELSE \E o \in Abandoned(m) : KeepOffer(o)

PumpBound(m) == state = "bound" /\ Ignore

DhcpPump(m) == PumpSelect(m) \/ PumpRequest(m) \/ PumpBound(m)

\* Mutation of TimerSelect: a REQUEST without an answer is not given up.
TimerSelectOnly ==
  /\ state = "select"
  /\ EnterDiscover(offer)
  /\ UNCHANGED retries

\* dhcp_timer(), called by net_pump() once the timer has expired.
TimerSelect ==
  /\ state \in {"select", "request"}
  /\ EnterDiscover(offer)
  /\ UNCHANGED retries

TimerBound == state = "bound" /\ EnterRenew

\* Mutation of TimerRenewAgain: the end of the retries is not noticed.
TimerRenewForever ==
  /\ state = "renew"
  /\ retries' = retries - 1
  /\ Broadcast(Request(offer))
  /\ SetTimer(ShortWait)
  /\ UNCHANGED <<state, selectWait, offer, address>>

TimerRenewAgain ==
  /\ state = "renew" /\ retries > 1
  /\ retries' = retries - 1
  /\ Broadcast(Request(offer))
  /\ SetTimer(ShortWait)
  /\ UNCHANGED <<state, selectWait, offer, address>>

TimerRenewOver ==
  /\ state = "renew" /\ retries <= 1
  /\ retries' = retries - 1
  /\ EnterDiscover(offer)

TimerFires ==
  /\ timer < 0
  /\ TimerSelect \/ TimerBound \/ TimerRenewAgain \/ TimerRenewOver
  /\ UNCHANGED <<replies, lease>>
-----------------------------------------------------------------------------
(***************************************************************************)
(* The servers and the network (external).                                 *)
(***************************************************************************)
LeaseTicks(s) == LeaseOf[s] * TicksPerSec

ReplyOf(s, type) ==
  [type |-> type, ip |-> s, sid |-> s, lease |-> LeaseOf[s], complete |-> s \in Complete]

Send(m) == replies' = Sent(replies, m)

ServeOffer(s) ==
  /\ \E q \in requests : q.msg = Discover
  /\ Send(ReplyOf(s, "offer"))
  /\ UNCHANGED <<clientVars, requests, lease>>

ServeAck(s) ==
  /\ \E q \in requests : q.msg = [type |-> "request", ip |-> s, sid |-> s]
  /\ Send(ReplyOf(s, "ack"))
  /\ lease' = [lease EXCEPT ![s] = LeaseTicks(s)]
  /\ UNCHANGED <<clientVars, requests>>

Refusal(s) ==
  [type |-> "nack", ip |-> None, sid |-> s, lease |-> 0, complete |-> FALSE]

\* A server refuses a request, for reasons of its own.
ServeNack(s) ==
  /\ \E q \in requests : q.msg.type = "request" /\ q.msg.sid \in {s, None}
  /\ Send(Refusal(s))
  /\ UNCHANGED <<clientVars, requests, lease>>

\* A reply arrives; the network may deliver it again while it is under way.
Receive(r) ==
  /\ r \in replies
  /\ DhcpPump(r.msg)
  /\ replies' \in {replies, replies \ {r}}
  /\ UNCHANGED lease

\* A reply to another client arrives: neither xid nor chaddr is looked at.
ReceiveStray(m) ==
  /\ DhcpPump(m)
  /\ UNCHANGED <<replies, lease>>

\* A server forgets a lease this many ticks after its end (a bound on the
\* history kept, beyond anything the properties ask about).
Overrun == (RenewRetries + 1) * Latency + Transit
Forgotten == -(Overrun + 1)

Aged(messages) == {[r EXCEPT !.ttl = @ - 1] : r \in {q \in messages : q.ttl > 0}}

\* Time passes; messages that used up their transit time are lost.
Tick ==
  /\ timer > -Latency
  /\ timer' = timer - 1
  /\ lease' = [s \in Servers |-> IF lease[s] > Forgotten THEN lease[s] - 1 ELSE Forgotten]
  /\ requests' = Aged(requests)
  /\ replies' = Aged(replies)
  /\ UNCHANGED <<state, selectWait, retries, offer, address>>

\* dhcp_init() enters DHCP_DISCOVER.
Init ==
  /\ state = "select"
  /\ selectWait = IF ShortWait < SelectCap THEN 2 * ShortWait ELSE ShortWait
  /\ retries = 0
  /\ offer = Cleared(None)
  /\ address = None
  /\ timer = TicksOfSec(ShortWait)
  /\ requests = {[msg |-> Discover, ttl |-> Transit]}
  /\ replies = {}
  /\ lease = [s \in Servers |-> Forgotten]

Next ==
  \/ TimerFires
  \/ Tick
  \/ \E r \in replies : Receive(r)
  \/ \E m \in Strays : ReceiveStray(m)
  \/ \E s \in Servers : ServeOffer(s)
  \/ \E s \in Servers : ServeAck(s)
  \/ \E s \in Servers : ServeNack(s)

Spec == Init /\ [][Next]_vars

\* A reply of server s to this client arrives.
Hear(s, type) == \E r \in replies : r.msg = ReplyOf(s, type) /\ Receive(r)

\* Time passes and net_pump() is called (the command loop polls it).  Of the
\* servers with suitable leases it is assumed that, asked again and again, they
\* answer in time now and then, and that their answers get through now and then.
Fairness ==
  /\ WF_vars(Tick)
  /\ WF_vars(TimerFires)
  /\ \A s \in {t \in Complete : LeaseOf[t] >= MinLease} :
       /\ SF_vars(state = "select" /\ ServeOffer(s))
       /\ SF_vars(state = "select" /\ Hear(s, "offer"))
       /\ SF_vars(state = "request" /\ ServeAck(s))
       /\ SF_vars(state = "request" /\ Hear(s, "ack"))

FairSpec == Spec /\ Fairness
-----------------------------------------------------------------------------
(***************************************************************************)
(* Properties.                                                             *)
(***************************************************************************)
States == {"select", "request", "bound", "renew"}

TypeOK ==
  /\ state \in States
  /\ selectWait \in Nat
  /\ retries \in 0 .. RenewRetries
  /\ offer \in Offer
  /\ address \in Addresses
  /\ timer \in -Latency .. TopBit - 1
  /\ requests \subseteq [msg : RequestMessages, ttl : 0 .. Transit]
  /\ replies \subseteq [msg : Reply, ttl : 0 .. Transit]
  /\ lease \in [Servers -> Int]

\* The interface has an address exactly while the client believes in a lease.
AddressIffLeased == address # None <=> state \in {"bound", "renew"}

\* The client uses no address beyond the lease that its server granted, except
\* for the time the acknowledgement took to arrive and for the late firing of
\* the RenewRetries + 1 timers between BOUND and giving up.
LeaseHonoured ==
  address # None => address \in Servers /\ lease[address] >= -Overrun

\* Every request of a renewal is about the address the interface uses, and
\* goes to the server that granted it.
RenewsOwnLease == state = "renew" => offer.ip = address /\ offer.sid = address

\* The client asks for no address without a gateway, a DNS server and a long
\* enough lease; an acknowledgement is taken without looking at these again.
OnlySuitableLeases ==
  address # None =>
    address \in Complete /\ LeaseOf[address] >= MinLease

\* The client that has no address, or loses it, gets one (again).
GetsAddress == []<>(address # None)
=============================================================================
