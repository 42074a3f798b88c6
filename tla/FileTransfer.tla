---------------------------- MODULE FileTransfer ----------------------------
(***************************************************************************)
(* What a TFTP transfer promises its user, whichever direction it goes:    *)
(* the receiving side's copy grows block by block from the front, and the  *)
(* client reports success only of a complete copy.                         *)
(***************************************************************************)
EXTENDS Integers

CONSTANT Size      \* blocks of the file, the short one at the end included

VARIABLES
  stored,          \* blocks of the file, from its start, that the copy has
  outcome          \* what the client told its user so far

vars == <<stored, outcome>>

TypeOK ==
  /\ stored \in 0 .. Size
  /\ outcome \in {"running", "success", "failure"}

Init == stored = 0 /\ outcome = "running"

Store == stored' \in stored + 1 .. Size /\ UNCHANGED outcome

Succeed ==
  /\ outcome = "running" /\ stored = Size
  /\ outcome' = "success" /\ UNCHANGED stored

Fail ==
  /\ outcome = "running"
  /\ outcome' = "failure" /\ UNCHANGED stored

Next == Store \/ Succeed \/ Fail

Spec == Init /\ [][Next]_vars

\* A transfer ends.
Ends == <>(outcome # "running")
=============================================================================
