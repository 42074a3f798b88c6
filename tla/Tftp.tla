-------------------------------- MODULE Tftp --------------------------------
(***************************************************************************)
(* What both directions of a TFTP transfer (net/tftp.c) share: the wire    *)
(* numbers of blocks, which wrap.  A block is named by its index in the    *)
(* file, 1 .. Size; the last one is the short one.                         *)
(***************************************************************************)
EXTENDS Integers, Sequences

CONSTANTS
  Size,             \* blocks of the file
  Modulus,          \* 2^16 in the program: number of wire numbers
  MaxWindow,        \* windowsize the client asks for, at most 8 in the program
  MaxRetransmits    \* 20 in the program

ASSUME TftpAssumption ==
  /\ Size \in Nat \ {0}
  /\ Modulus \in Nat
  /\ MaxWindow \in Nat \ {0}
  /\ Modulus > 2 * MaxWindow + 1
  /\ MaxRetransmits \in Nat

Numbers == 0 .. Modulus - 1

\* What the number after the highest one is: the "rollover" option.
Rollovers == {0, 1}

\* expected_block_number(): the wire number count blocks after number last.
ExpectedBlock(last, count, rollover) ==
  LET sum == last + count IN
  IF sum < Modulus THEN sum
  ELSE IF sum - Modulus <= count /\ rollover = 1 THEN sum - Modulus + 1
  ELSE sum - Modulus

\* The wire number of block i of the file.
WireNumber(i, rollover) ==
  IF i < Modulus THEN i
  ELSE ((i - Modulus) % (Modulus - rollover)) + rollover

\* Blocks with the same wire number are at least this far apart.
Period(rollover) == Modulus - rollover
=============================================================================
