---------------------------- MODULE MCServerList ----------------------------
(* Small instances of the list of game servers for TLC. *)
EXTENDS ServerList
=============================================================================
