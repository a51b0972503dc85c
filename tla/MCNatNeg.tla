------------------------------ MODULE MCNatNeg ------------------------------
(* Small instances of the NAT-negotiation server for TLC. *)
EXTENDS NatNeg

CONSTANTS s1, s2, ipA, ipB, ipC

At(ip, port) == [ip |-> ip, port |-> port]
A == [session |-> s1, client |-> "00", ep |-> At(ipA, 1), lport |-> 2]
B == [session |-> s1, client |-> "01", ep |-> At(ipB, 1), lport |-> NoPort]
\* B again, after its router gave it another public port.
B2 == [session |-> s1, client |-> "01", ep |-> At(ipB, 2), lport |-> NoPort]
\* A third client that joins the session of A and B.
C == [session |-> s1, client |-> "02", ep |-> At(ipC, 1), lport |-> NoPort]
\* A console of another session, and one whose INIT is cut short.
D == [session |-> s2, client |-> "00", ep |-> At(ipA, 2), lport |-> NoPort]
T == [session |-> s2, client |-> "01", ep |-> At(ipC, 2), lport |-> NoPort]

Everyone == {A, B, B2, C, D, T}
Pair == {A, B}
Short == {T}
GameServers == {At(ipB, 3)}

AllOps == {"INIT", "INITACK", "CONNECT", "CONNECT_ACK"}
=============================================================================
