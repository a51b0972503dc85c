------------------------------ MODULE PlayerData ------------------------------
(***************************************************************************)
(* The two services that keep data of players: the storage server (module  *)
(* Sake) and the game statistics server (module Gamestats).  They share no *)
(* state but the version of Python (mixes), and each has a specification   *)
(* of its own.                                                             *)
(***************************************************************************)
EXTENDS Sake

CONSTANTS Conn, Profile, Nobody, Index, Key, Message, Login, \* of Gamestats
          MaxSent, MaxPending, MaxFailures

VARIABLES wire, remaining, profileid, ticket, stored,        \* of Gamestats
          failures, sent, handled, odd, raised, acked, hollow, failed

G == INSTANCE Gamestats

ASSUME GamestatsAssumption == G!ConstantsOK

----------------------------------------------------------------------------
(* The properties of Gamestats, by their names there.                       *)

\* No message is lost, repeated or overtaken, and only split chunks lag.
OnlySplitsLag == G!OnlySplitsLag

\* A read shows what was last reported saved.
ReadsAreCurrent == G!ReadsAreCurrent
=============================================================================
