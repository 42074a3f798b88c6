------------------------------ MODULE MCNe2000 ------------------------------
EXTENDS Ne2000
=============================================================================
