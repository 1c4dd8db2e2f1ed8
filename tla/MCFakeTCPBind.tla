---------------------------- MODULE MCFakeTCPBind ----------------------------
(* Instantiates FakeTCPBind for TLC: two nodes, queues of one slot so that *)
(* full queues are reached.                                                *)
EXTENDS FakeTCPBind

=============================================================================
