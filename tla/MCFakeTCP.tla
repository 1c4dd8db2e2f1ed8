------------------------------ MODULE MCFakeTCP ------------------------------
(* Instantiates FakeTCP for TLC: two nodes, sequence numbers 6 bits wide   *)
(* so that an initial sequence number of 63 wraps on the handshake's +1.   *)
EXTENDS FakeTCP

MCSeqBits == 6
MCISN == {63}

=============================================================================
