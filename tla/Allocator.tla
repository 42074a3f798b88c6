----------------------------- MODULE Allocator ------------------------------
(***************************************************************************)
(* What the program expects of malloc(), realloc() and free(): a block it  *)
(* is given is its own until it gives it back.                             *)
(***************************************************************************)
EXTENDS Integers, FiniteSets

CONSTANTS Base, Limit    \* the region the blocks come from: Base .. Limit - 1

VARIABLE owned           \* the blocks the program holds: address and size asked for

\* The bytes of a block.
Bytes(b) == b.addr .. b.addr + b.size - 1

Disjoint(b, c) == Bytes(b) \cap Bytes(c) = {}

Init == owned = {}

\* No part of the block is anyone's.
Vacant(b) ==
  /\ Bytes(b) \subseteq Base .. Limit - 1
  /\ \A c \in owned : Disjoint(b, c)

Alloc == \E b \in owned' : Vacant(b) /\ owned' = owned \cup {b}

Free == \E b \in owned : owned' = owned \ {b}

\* A new block, before the old one is given back.
Realloc == \E b \in owned, c \in owned' :
  Vacant(c) /\ owned' = (owned \ {b}) \cup {c}

Next == Alloc \/ Free \/ Realloc

Spec == Init /\ [][Next]_owned
=============================================================================
