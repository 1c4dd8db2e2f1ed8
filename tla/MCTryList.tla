------------------------------ MODULE MCTryList ------------------------------
EXTENDS TryList

CONSTANTS s1, s2, p1

\* Supernode s1 listed before s2.
MCPrio == (s1 :> 0) @@ (s2 :> 1)
=============================================================================
