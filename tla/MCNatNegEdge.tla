---------------------------- MODULE MCNatNegEdge ----------------------------
(* Small instances of NAT negotiation behind the proxy for TLC. *)
EXTENDS NatNegEdge

CONSTANTS s1, s2, ipA, ipB, ipC

A == [session |-> s1, client |-> "00", ep |-> [ip |-> ipA, port |-> 1], lport |-> 2]
B == [session |-> s1, client |-> "01", ep |-> [ip |-> ipB, port |-> 1], lport |-> 0]
\* A console whose INIT stops before its local address.
T == [session |-> s2, client |-> "01", ep |-> [ip |-> ipC, port |-> 2], lport |-> 0]

PairAndTerse == {A, B, T}
Short == {T}
=============================================================================
