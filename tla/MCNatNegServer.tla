--------------------------- MODULE MCNatNegServer ---------------------------
(***************************************************************************)
(* Both exchanges of the NAT-negotiation server for TLC.  The INIT and the *)
(* PREINIT exchange share no state and a handler of one reads nothing of   *)
(* the other, so a behaviour of this module is a behaviour of one of them: *)
(* the play, which Init chooses, says which, and who takes part in it.     *)
(***************************************************************************)
EXTENDS MCNatNeg, NatNegServer

CONSTANTS ep1, ep2, ep3, ep4, ep5, ep6

VARIABLE play  \* what Init chose

K(s, i, ep) == [session |-> s, index |-> i, ep |-> ep]
\* Three consoles of one session, two of them with the same index and two whose
\* PREINIT is repeated, a pair in another, and one that sends session 0.
Twice == {K(s1, 0, ep1), K(s1, 1, ep2)}
Waiters ==
    Twice \cup {K(s1, 0, ep3), K(s2, 0, ep4), K(s2, 1, ep5), K(NoSession, 0, ep6)}
Meetings == {s1, s2, NoSession}

(***************************************************************************)
(* The plays: three clients in one session on a link that loses INITACKs;  *)
(* a console whose public address changes, on a link that loses nothing,   *)
(* while Redis holds a record of it; and the PREINIT exchange.             *)
(***************************************************************************)
Plays ==
    {[exchange |-> "INIT", who |-> {A, B, C, T}, lost |-> {"INITACK"}, known |-> {}],
     [exchange |-> "INIT", who |-> {A, B, B2, D, T}, lost |-> {}, known |-> GameServers],
     [exchange |-> "PREINIT", who |-> {}, lost |-> {}, known |-> {}]}

\* A step of NatNeg that keeps to the play.
InPlay ==
    /\ \A m \in net' \ net :
          /\ m.op = "INIT" => \E k \in play.who : m = InitOf(k)
          /\ m.op = "CONNECT" /\ m.peer \in Advertised => m.peer \in play.known
    /\ \A m \in net \ net' : m.op \in play.lost

PlaysInit == ServerInit /\ play \in Plays

PlaysNext ==
    /\ \/ play.exchange = "INIT" /\ Next /\ InPlay /\ UNCHANGED preinit
       \/ play.exchange = "PREINIT" /\ P!Next /\ UNCHANGED vars
    /\ UNCHANGED play

\* The fairness of Preinit, in its own play.
PlaysSpec ==
    /\ PlaysInit /\ [][PlaysNext]_<<vars, play, preinit>>
    /\ \A k \in Waiters :
          /\ WF_preinit(play.exchange = "PREINIT" /\ P!SendPreinit(k))
          /\ WF_preinit(play.exchange = "PREINIT" /\ P!DeliverPreinit(k))

\* In the play of PREINIT, the two consoles of a session are matched.
PartnersMeet == play.exchange = "PREINIT" => P!PartnersMeet
=============================================================================
