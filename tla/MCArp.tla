------------------------------- MODULE MCArp --------------------------------
EXTENDS Arp, TLC

CONSTANTS h1, h2, m1, m2, zero

Symmetry == Permutations(Macs)
=============================================================================
