------------------------------ MODULE MCProfile ------------------------------
(* Small instances of the profile server for TLC. *)
EXTENDS Profile, TLC

CONSTANTS a1, a2, b1, A, B, mkds

\* User A connects twice, user B once.
TwoUsers == a1 :> A @@ a2 :> A @@ b1 :> B
SameGame == [c \in Conn |-> mkds]

OnlyBKnown == {[user |-> B, profileid |-> 1]}
BothKnown == OnlyBKnown \cup {[user |-> A, profileid |-> 2]}

Friends(names) == [users |-> BothKnown, buddies |-> {<<1, 2>>, <<2, 1>>}, folded |-> names]
Strangers(names) == [users |-> BothKnown, buddies |-> {}, folded |-> names]
Newcomer == [users |-> OnlyBKnown, buddies |-> {}, folded |-> TRUE]

\* Two friends, or a user A that the server has never seen.
FriendsOrNewcomer == {Friends(FALSE), Friends(TRUE), Newcomer}
\* Two users who are not friends, or whose friendship keeps them from logging in.
StrangersOrFriends == {Strangers(FALSE), Strangers(TRUE), Friends(TRUE)}

Says(cmd) == [cmd |-> cmd]
SaysTo(cmd, p) == [cmd |-> cmd, who |-> p]

\* A changes status, or makes friends with B, and comes back to log out.
Reconnecting ==
    [c \in Conn |->
        CASE c = a1 -> {Says("status"), SaysTo("addbuddy", 1)} [] c = a2 -> {Says("logout")} [] c = b1 -> {}]

\* B makes friends with A and drops it again, and they write to each other.
Befriending ==
    [c \in Conn |->
        CASE c = a1 -> {SaysTo("bm", 1)}
          [] c = b1 -> {SaysTo(cmd, 2) : cmd \in {"addbuddy", "delbuddy", "authadd", "bm"}}]
=============================================================================
