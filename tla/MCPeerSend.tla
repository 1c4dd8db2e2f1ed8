------------------------------ MODULE MCPeerSend ------------------------------
(* Instantiation of PeerSend for TLC: one public and one private IPv4     *)
(* address and one public IPv6 address.                                   *)
EXTENDS PeerSend

CONSTANTS pub4, priv4, pub6

MCAddrs4 == {pub4, priv4}
MCAddrs6 == {pub6}
MCPrivate == {priv4}
=============================================================================
