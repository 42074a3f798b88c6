------------------------------ MODULE Checksum ------------------------------
(***************************************************************************)
(* The checksums of IPv4, ICMP and UDP (net/ipcsum.c).  A sum is that of   *)
(* 16-bit words, an odd byte at the end being padded.  No packet has 2^16  *)
(* words, so that its sum fits the 32 bits that checksum_update() has.     *)
(***************************************************************************)
EXTENDS Integers

CONSTANT Carry              \* 2^16 in the program: the first number that is not a word

ASSUME CarryAssumption == Carry \in Nat /\ Carry >= 4

Ones == Carry - 1           \* a word of ones

Words == 0 .. Ones
Sums == 0 .. Carry * Ones   \* less than 2^32

\* A turn of the loop of checksum_complete(): the carries are added to the word.
Fold(sum) == (sum % Carry) + (sum \div Carry)

\* The loop: see FoldTwice in NetStackProofs.
Folded(sum) ==
  IF sum < Carry THEN sum
  ELSE IF Fold(sum) < Carry THEN Fold(sum) ELSE Fold(Fold(sum))

ChecksumComplete(sum) == Ones - Folded(sum)

\* net_compute_ipv4_checksum(), net_compute_icmp_checksum(): the word that is sent, from
\* the sum of the others.
Computed(sum) == ChecksumComplete(sum)

\* net_verify_ipv4_checksum(), net_verify_icmp_checksum(): from the sum of all words.
Verified(sum) == ChecksumComplete(sum) = 0

\* net_compute_udp_checksum(): 0 would mean that there is none.
UdpComputed(sum) == IF ChecksumComplete(sum) = 0 THEN Ones ELSE ChecksumComplete(sum)

\* net_verify_udp_checksum(), from the checksum in the packet and the sum of all words.
UdpVerified(checksum, sum) == checksum = 0 \/ ChecksumComplete(sum) = 0
=============================================================================
