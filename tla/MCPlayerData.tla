---------------------------- MODULE MCPlayerData ----------------------------
(***************************************************************************)
(* What the servers keep for players, and the streams by which it comes,   *)
(* for TLC.  The storage server, the game statistics server and the        *)
(* framing of messages share no state here, so a behaviour of this module  *)
(* is a behaviour of one of them, and Init chooses which.                  *)
(***************************************************************************)
EXTENDS PlayerData

CONSTANTS c1, c2, p1, p2

VARIABLES service,                                             \* what Init chose
          server, stream, left, said, out, stuck              \* of Framing

----------------------------------------------------------------------------
(* Sake: two games, whose tickets the legacy database knows or does not.    *)

Columns == <<"recordid", "m_file_id", "m_file_id___size">>
SessionRows == {<<>>, "t1" :> "p1"}
Sizes == "small" :> 1 @@ "big" :> 2 @@ "huge" :> 3 @@ "empty" :> 0 @@ "nothing" :> 0

----------------------------------------------------------------------------
(* Gamestats: a player who saves and reads, and another on a connection of  *)
(* his own who logs in as himself, or as the first on a second console, or  *)
(* not at all.                                                              *)

Authenticate(p) == [cmd |-> "authp", profile |-> p]
R1 == <<p1, "0">>
Save(ws) == [cmd |-> "setpd", row |-> R1, words |-> ws]
Get == [cmd |-> "getpd", row |-> R1]

Logins == c1 :> {Authenticate(p1)} @@ c2 :> {Authenticate(p) : p \in {p1, p2, Nobody}}
Requests ==
    c1 :> {Save(<<"a", "1", "b", "2">>), Save(<<"b", "", "a", "4">>),
           Save(<<"a", "1", "b", "">>), Save(<<>>)}
    @@ c2 :> {Save(<<"c", "5">>), Get, [cmd |-> "other"]}

Bounds == c1 :> 4 @@ c2 :> 2
Pending == c1 :> 6 @@ c2 :> 3
gamestats == <<wire, remaining, profileid, ticket, stored,
               failures, sent, handled, odd, raised, acked, hollow, failed>>

----------------------------------------------------------------------------
(* Framing: a keep-alive, a message whose first and last values are empty,  *)
(* and one that repeats nothing of them.                                    *)

KeepAlive == <<<<"ka", "">>>>
Messages ==
    {KeepAlive,
     <<<<"getpd", "">>, <<"pid", "7">>, <<"keys", "">>>>,
     <<<<"status", "1">>, <<"locstring", "">>, <<"statstring", "x">>>>}

F == INSTANCE Framing WITH
        Sep <- "\\", Streams <- [1 .. 2 -> Messages] \union [1 .. 3 -> Messages],
        failed <- stuck
framing == <<server, stream, left, said, out, stuck>>

----------------------------------------------------------------------------

\* The other two services have a start of theirs, and stay there.
ServicesInit ==
    /\ service \in {"gamestats", "framing", "sake"}
    /\ Init /\ G!Init /\ F!Init
    /\ service # "framing" => server = "search" /\ said = <<KeepAlive, KeepAlive>>
    /\ service # "sake" => sessions = <<>>

ServicesNext ==
    /\ \/ service = "sake" /\ Next /\ UNCHANGED <<gamestats, framing>>
       \/ service = "gamestats" /\ G!Next /\ UNCHANGED <<vars, framing>>
       \/ service = "framing" /\ F!Next /\ UNCHANGED <<vars, gamestats>>
    /\ UNCHANGED service

ServicesSpec == ServicesInit /\ [][ServicesNext]_<<vars, service, gamestats, framing>>

\* Messages are parsed as they were created, wherever TCP cuts the stream.
CutAnywhere == F!CutAnywhere
=============================================================================
