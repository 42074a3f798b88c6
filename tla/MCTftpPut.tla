----------------------------- MODULE MCTftpPut ------------------------------
EXTENDS TftpPut
=============================================================================
