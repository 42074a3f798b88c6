-------------------------------- MODULE Link --------------------------------
(***************************************************************************)
(* What the network code may expect of the Ethernet driver: it takes up to *)
(* two frames, which leave in the order they were given, each at most once *)
(* and at most once not (the wire loses frames), and it hands up frames in *)
(* the order in which the card stored them, each once.                     *)
(***************************************************************************)
EXTENDS Naturals, Sequences, SequencesExt

VARIABLES
  out,       \* frames taken that have not left yet
  wire,      \* frames that have been on the wire
  in,        \* frames received that have not been handed up yet
  up         \* frames handed up

vars == <<out, wire, in, up>>

Init == out = <<>> /\ wire = <<>> /\ in = <<>> /\ up = <<>>

Take ==
  /\ Len(out) < 2 /\ Len(out') = Len(out) + 1 /\ Front(out') = out
  /\ UNCHANGED <<wire, in, up>>

Leave ==
  /\ out # <<>> /\ out' = Tail(out)
  /\ wire' \in {wire, Append(wire, Head(out))}
  /\ UNCHANGED <<in, up>>

Receive ==
  /\ Len(in') = Len(in) + 1 /\ Front(in') = in
  /\ UNCHANGED <<out, wire, up>>

\* A frame that is too large is dropped.
HandUp ==
  /\ in # <<>> /\ in' = Tail(in)
  /\ up' \in {up, Append(up, Head(in))}
  /\ UNCHANGED <<out, wire>>

Next == Take \/ Leave \/ Receive \/ HandUp

\* Nothing stays in the driver for ever.
Spec == Init /\ [][Next]_vars /\ WF_vars(Leave) /\ WF_vars(HandUp)
=============================================================================
