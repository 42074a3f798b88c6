---------------------------- MODULE MCTinyAlloc -----------------------------
EXTENDS TinyAlloc
=============================================================================
