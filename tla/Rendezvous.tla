----------------------------- MODULE Rendezvous -----------------------------
(***************************************************************************)
(* What the NAT-negotiation server promises the clients of a session, with *)
(* no datagrams: a client arrives, is introduced to those who are there    *)
(* and still looking, and settles once it knows somebody.                  *)
(***************************************************************************)
EXTENDS FiniteSets

CONSTANTS Session, ClientId

VARIABLES present,     \* session -> the clients that have arrived
          settled,     \* session -> the clients that look no further
          introduced   \* <<s, c, d>>: in session s, c has been told of d

vars == <<present, settled, introduced>>

Init ==
    /\ present = [s \in Session |-> {}]
    /\ settled = [s \in Session |-> {}]
    /\ introduced = {}

\* Everybody who still looks and the newcomer are told of each other.
Arrive(s, c) ==
    LET looking == (present[s] \ settled[s]) \ {c}
    IN  /\ present' = [present EXCEPT ![s] = @ \cup {c}]
        /\ introduced' = introduced \cup ({s} \X {c} \X looking)
                                    \cup ({s} \X looking \X {c})
        /\ UNCHANGED settled

\* Only a client that was told of somebody settles.
Settle(s, c) ==
    /\ \E d \in present[s] : <<s, c, d>> \in introduced
    /\ settled' = [settled EXCEPT ![s] = @ \cup {c}]
    /\ UNCHANGED <<present, introduced>>

Next == \E s \in Session, c \in ClientId : Arrive(s, c) \/ Settle(s, c)

Spec == Init /\ [][Next]_vars
=============================================================================
