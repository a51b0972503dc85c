----------------------------- MODULE Matchmaking -----------------------------
(***************************************************************************)
(* The two sides of the list of servers: the hosts, whose heartbeats write *)
(* records into it (module Heartbeats), and the games, which search it and *)
(* have messages passed on by it (module Browser).  Heartbeats has the     *)
(* data of a record and Browser the records as they may be, so that the    *)
(* two share no state here.                                                *)
(***************************************************************************)
EXTENDS Browser

CONSTANTS Nul, Unprintable, Kind, NameKind, Number, Beats, MaxBeats \* of Heartbeats

VARIABLES net, asked, closed, session, record, beats                \* of Heartbeats

H == INSTANCE Heartbeats

ASSUME HeartbeatsAssumption == H!ConstantsOK

heartbeats == <<net, asked, closed, session, record, beats>>

MatchInit == Init /\ H!Init

MatchNext ==
    \/ Next /\ UNCHANGED heartbeats
    \/ H!Next /\ UNCHANGED vars

MatchSpec == MatchInit /\ [][MatchNext]_<<vars, heartbeats>>

----------------------------------------------------------------------------
(* The properties of the hosts' side, by their names in Heartbeats.         *)

\* What a host says is what is read, unless it ends in an empty value.
OnlyEmptyEndsAreLost == H!OnlyEmptyEndsAreLost

\* The address in a record is the host's, unless its console was not known.
OnlyUnknownConsolesMislead == H!OnlyUnknownConsolesMislead
=============================================================================
