------------------------------ MODULE MCTunStack ------------------------------
EXTENDS TunStack
=============================================================================
