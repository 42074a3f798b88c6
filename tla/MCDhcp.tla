------------------------------- MODULE MCDhcp -------------------------------
EXTENDS Dhcp, TLC

CONSTANTS s1, s2, other

\* The renewal phase lasts RenewRetries * ShortWait = 2 s.
LongLeases == [s \in Servers |-> 4]

Symmetry == Permutations(Servers)

\* s2 offers less than MinLease.
OneTooShort == [s \in Servers |-> IF s = s1 THEN 4 ELSE 2]

\* A lease that MinLease lets through and that ends before the renewal phase:
\* 180 s against 500 s in the program.
ShortLeases == [s \in Servers |-> 2]

\* What a client hears on a network where a server talks to another client, by
\* broadcast, and where a BOOTP server answers without message types.
OtherOffer == [type |-> "offer", ip |-> other, sid |-> s1, lease |-> 4, complete |-> TRUE]
OtherNack == [type |-> "nack", ip |-> None, sid |-> s1, lease |-> 0, complete |-> FALSE]
Bootp == [type |-> "untyped", ip |-> other, sid |-> None, lease |-> 0, complete |-> TRUE]
Garbage == [type |-> "other", ip |-> other, sid |-> None, lease |-> 0, complete |-> FALSE]

SharedLan == {OtherOffer, OtherNack, Bootp, Garbage}
=============================================================================
