------------------------------- MODULE MCTcp -------------------------------
EXTENDS Tcp
=============================================================================
