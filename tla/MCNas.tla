-------------------------------- MODULE MCNas --------------------------------
(* Small instances of the authentication server for TLC. *)
EXTENDS Nas, TLC

CONSTANTS cA, cB

\* Both consoles are new, or one of them has a userid already.
NewConsoles == [c \in Console |-> NoUser]
MixedConsoles == cA :> NoUser @@ cB :> 2

\* A new console creates an account and logs in twice.
Few == cA :> 3 @@ cB :> 2
=============================================================================
