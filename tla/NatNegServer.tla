---------------------------- MODULE NatNegServer ----------------------------
(***************************************************************************)
(* The NAT-negotiation server: one NatNegProtocol, to which its adapter    *)
(* hands one datagram at a time, INIT and CONNECT_ACK for module NatNeg    *)
(* and PREINIT for module Preinit.  The handlers of the two exchanges read *)
(* and write different dictionaries.                                       *)
(***************************************************************************)
EXTENDS NatNeg

CONSTANTS Meeting,   \* the sessions of PREINITs
          NoSession, \* and the value 0 of one
          Place,     \* the addresses of the consoles that send PREINIT
          Nobody,    \* nobody waits in a session
          Waiter,    \* the consoles that send PREINIT
          Repeater   \* and those of them whose PREINIT may arrive again

VARIABLES natneg_preinit_session, preinit_net, pending, pairs  \* of Preinit

P == INSTANCE Preinit WITH
        Session <- Meeting, Addr <- Place, Console <- Waiter, Repeated <- Repeater,
        net <- preinit_net

ASSUME PreinitAssumption == P!ConstantsOK

preinit == <<natneg_preinit_session, preinit_net, pending, pairs>>

ServerInit == Init /\ P!Init

\* A datagram of one exchange, or what its consoles and its network do.
ServerNext ==
    \/ Next /\ UNCHANGED preinit
    \/ P!Next /\ UNCHANGED vars

ServerSpec == ServerInit /\ [][ServerNext]_<<vars, preinit>>

----------------------------------------------------------------------------
(* The properties of the PREINIT exchange, by their names in Preinit. *)

\* Consoles are told that they are matched in pairs, both of whom asked for it.
MatchedInPairs == P!MatchedInPairs

\* Who waits is not replaced, but leaves as one of a new pair.
WaiterOnlyLeavesMatched == P!WaiterOnlyLeavesMatched
=============================================================================
