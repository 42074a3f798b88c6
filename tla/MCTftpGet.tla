----------------------------- MODULE MCTftpGet ------------------------------
EXTENDS TftpGet
=============================================================================
