----------------------------- MODULE MCNetStack -----------------------------
EXTENDS NetStack, TLC

MCSinks == {"arp", "icmp", "unwanted", "dhcp", "tftp"}
MCOrder == <<"arp", "icmp", "unwanted", "dhcp">>

MCMatch ==
  [arp      |-> [ethertype |-> "arp"],
   icmp     |-> [localIp |-> "ours", ethertype |-> "ipv4", protocol |-> "icmp"],
   unwanted |-> [localIp |-> "ours", ethertype |-> "ipv4"],
   dhcp     |-> [ethertype |-> "ipv4", protocol |-> "udp", localPort |-> "68"],
   tftp     |-> [localIp |-> "ours", remoteIp |-> "server", protocol |-> "udp",
                 localPort |-> "tftp"]]

\* What a packet carries is a word: the header's sum is 3 without its checksum, and
\* that of the rest a word of ones, for which UDP sends a word of ones.
Packet(ethertype, protocol, remoteIp, localPort, remotePort) ==
  LET checksum == IF protocol = "udp" THEN UdpComputed(Ones) ELSE Computed(Ones)
  IN  [ethertype |-> ethertype, protocol |-> protocol, localIp |-> "ours",
       remoteIp |-> remoteIp, localPort |-> localPort, remotePort |-> remotePort,
       header |-> 3 + Computed(3), body |-> Ones + checksum, checksum |-> checksum]

\* One of each kind, and the server on two ports.
Sent ==
  {Packet("arp", "-", "-", "-", "-"),
   Packet("ipv4", "icmp", "host", "-", "-"),
   Packet("ipv4", "udp", "host", "68", "67"),
   Packet("ipv4", "udp", "server", "tftp", "a"),
   Packet("ipv4", "udp", "server", "tftp", "b"),
   Packet("ipv4", "tcp", "host", "80", "80")}

\* And some of them with a word damaged on the way.
MCTraffic ==
  Sent \cup {[p EXCEPT !.header = @ + 1] : p \in {q \in Sent : q.ethertype = "ipv4"}}
       \cup {[p EXCEPT !.body = @ - 1] : p \in {q \in Sent : q.protocol \in {"udp", "icmp"}}}
=============================================================================
