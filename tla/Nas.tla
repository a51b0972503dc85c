-------------------------------- MODULE Nas --------------------------------
(***************************************************************************)
(* The Nintendo Authentication Server: the acctcreate, login and svcloc    *)
(* actions of services/nas_server.py and the part of the database behind   *)
(* them, gamespy/pg_database.py.                                           *)
(*                                                                         *)
(* Every HTTP request runs in a thread of its own (ThreadingMixIn).  Its   *)
(* database calls run as coroutines of one event loop (pg_database_sync),  *)
(* each statement is a transaction of its own, and a coroutine lets others *)
(* run at every await.  So a step of this module is one SQL statement, and *)
(* the statements of different requests interleave.                        *)
(*                                                                         *)
(* The consoles are not part of the repository: each asks for one thing at *)
(* a time, and an impatient one gives up on an answer and asks again while *)
(* its first request is still being served.                                *)
(***************************************************************************)
EXTENDS Naturals, Sequences, FiniteSets, FiniteSetsExt

CONSTANTS Console,    \* the consoles, and the game card (gsbrcd) of each
          Impatient,  \* the consoles that may give up on a request
          Banned,     \* the consoles in table banned
          Known,      \* console -> the userid it has from the start, or NoUser
          MaxUserid,  \* bound: userids from here on are not registered
          MaxRequests, \* bound: console -> how often it asks
          Thread,     \* the server threads, one per request in service
          NoThread,   \* the console waits for no answer
          Idle,       \* the thread serves no request
          Token,      \* random authtokens
          NoToken,
          PoolSizes   \* what the asyncpg pool may hold of connections

NoUser == 0
FirstUser == 2       \* '0000000000002'

ASSUME ConsoleAssumption ==
    /\ Impatient \subseteq Console /\ Banned \subseteq Console
    /\ Known \in [Console -> {NoUser} \cup (FirstUser .. MaxUserid)]

ASSUME BoundAssumption ==
    /\ MaxUserid \in Nat /\ MaxUserid > FirstUser
    /\ MaxRequests \in [Console -> Nat]
    /\ PoolSizes \subseteq Nat \ {0}

VARIABLES users,       \* the userids of table users
          nas_logins,  \* the rows of table nas_logins, as they were inserted
          req,         \* thread -> the request it serves
          userid,      \* console -> the userid it was given
          token,       \* console -> the last token it was answered
          waiting,     \* console -> the thread it waits for
          asked,       \* console -> how often it has asked, for the bound
          pool         \* the connections of the pool, which does not change

clients == <<userid, token, waiting, asked>>
vars == <<users, nas_logins, req, clients, pool>>

UserId == FirstUser .. MaxUserid

(***************************************************************************)
(* A row holds the POST it was made for as JSON: what matters here is the  *)
(* userid in it and whose it was.                                          *)
(***************************************************************************)
Data == [userid : UserId, by : Console]
Row == [userid : UserId, authtoken : Token, data : Data]

Request == [action : {"acctcreate", "login", "svcloc"}, by : Console,
            userid : UserId \cup {NoUser}, token : Token \cup {NoToken},
            pc : {"ban", "max", "draw", "find", "insert", "update", "answer", "refuse"}]

ASSUME DistinctAssumption ==
    NoThread \notin Thread /\ NoToken \notin Token /\ Idle \notin Request

Init ==
    /\ users = {}
    /\ nas_logins = << >>
    /\ req = [t \in Thread |-> Idle]
    /\ userid = Known
    /\ token = [c \in Console |-> NoToken]
    /\ waiting = [c \in Console |-> NoThread]
    /\ asked = [c \in Console |-> 0]
    /\ pool \in PoolSizes

-----------------------------------------------------------------------------
(* The server. *)

At(t, label) == req[t] # Idle /\ req[t].pc = label

\* generate_authtoken keeps its connection from its first to its last statement.
Holding == {t \in Thread : At(t, "find") \/ At(t, "insert") \/ At(t, "update")}

Free == Cardinality(Holding) < pool

Tokens == {nas_logins[i].authtoken : i \in DOMAIN nas_logins}

RowsOf(u) == {i \in DOMAIN nas_logins : nas_logins[i].userid = u}

Goto(t, label) == req' = [req EXCEPT ![t].pc = label]

\* svcloc does not look at table banned.
IsBanned(t) ==
    /\ At(t, "ban")
    /\ Free
    /\ Goto(t, IF req[t].by \in Banned THEN "refuse"
               ELSE IF req[t].action = "acctcreate" THEN "max" ELSE "draw")
    /\ UNCHANGED <<users, nas_logins, clients, pool>>

\* The number after the largest userid.  Nothing is inserted.
NextAvailable == IF users = {} THEN FirstUser ELSE Max(users) + 1

GetNextAvailableUserid(t) ==
    /\ At(t, "max")
    /\ Free
    /\ req' = [req EXCEPT ![t].userid = NextAvailable, ![t].pc = "answer"]
    /\ UNCHANGED <<users, nas_logins, clients, pool>>

\* 80 random characters do not repeat what somebody still holds.
Held == {token[c] : c \in Console} \cup {req[t].token : t \in {s \in Thread : req[s] # Idle}}

\* Mutant: the candidate is not looked up.
CandidatesUnchecked == Token \ Held

\* The loop of generate_authtoken: candidates until one is in no row.
Candidates == Token \ (Held \cup Tokens)

\* One free token is as good as another.
DrawToken(t) ==
    /\ At(t, "draw")
    /\ Free
    /\ Candidates # {}
    /\ req' = [req EXCEPT ![t].token = CHOOSE tk \in Candidates : TRUE, ![t].pc = "find"]
    /\ UNCHANGED <<users, nas_logins, clients, pool>>

\* Mutant: the row is looked for by its token.
FindRowByToken(t) ==
    /\ At(t, "find")
    /\ Goto(t, IF req[t].token \in Tokens THEN "update" ELSE "insert")
    /\ UNCHANGED <<users, nas_logins, clients, pool>>

FindRow(t) ==
    /\ At(t, "find")
    /\ Goto(t, IF RowsOf(req[t].userid) # {} THEN "update" ELSE "insert")
    /\ UNCHANGED <<users, nas_logins, clients, pool>>

RowFor(r) ==
    [userid |-> r.userid, authtoken |-> r.token,
     data |-> [userid |-> r.userid, by |-> r.by]]

InsertRow(t) ==
    /\ At(t, "insert")
    /\ nas_logins' = Append(nas_logins, RowFor(req[t]))
    /\ Goto(t, "answer")
    /\ UNCHANGED <<users, clients, pool>>

\* Mutant: the update has no WHERE clause.
UpdateEveryRow(t) ==
    /\ At(t, "update")
    /\ nas_logins' = [i \in DOMAIN nas_logins |->
          [RowFor(req[t]) EXCEPT !.userid = nas_logins[i].userid]]
    /\ Goto(t, "answer")
    /\ UNCHANGED <<users, clients, pool>>

\* Every row of the user is updated.
UpdateRow(t) ==
    /\ At(t, "update")
    /\ nas_logins' = [i \in DOMAIN nas_logins |->
          IF i \in RowsOf(req[t].userid) THEN RowFor(req[t]) ELSE nas_logins[i]]
    /\ Goto(t, "answer")
    /\ UNCHANGED <<users, clients, pool>>

\* Mutant: a refused request is never answered.
AnswerUnlessRefused(t) ==
    LET c == req[t].by
        heard == waiting[c] = t
    IN  /\ At(t, "answer")
        /\ req' = [req EXCEPT ![t] = Idle]
        /\ waiting' = IF heard THEN [waiting EXCEPT ![c] = NoThread] ELSE waiting
        /\ userid' = IF heard /\ req[t].action = "acctcreate"
                     THEN [userid EXCEPT ![c] = req[t].userid] ELSE userid
        /\ token' = IF heard /\ req[t].action # "acctcreate"
                    THEN [token EXCEPT ![c] = req[t].token] ELSE token
        /\ UNCHANGED <<users, nas_logins, asked, pool>>

\* The answer reaches the console if it still waits for it.
Answer(t) ==
    LET c == req[t].by
        heard == waiting[c] = t
    IN  /\ At(t, "answer") \/ At(t, "refuse")
        /\ req' = [req EXCEPT ![t] = Idle]
        /\ waiting' = IF heard THEN [waiting EXCEPT ![c] = NoThread] ELSE waiting
        /\ userid' = IF heard /\ At(t, "answer") /\ req[t].action = "acctcreate"
                     THEN [userid EXCEPT ![c] = req[t].userid] ELSE userid
        /\ token' = IF heard /\ At(t, "answer") /\ req[t].action # "acctcreate"
                    THEN [token EXCEPT ![c] = req[t].token] ELSE token
        /\ UNCHANGED <<users, nas_logins, asked, pool>>

Serve(t) ==
    \/ IsBanned(t) \/ GetNextAvailableUserid(t) \/ DrawToken(t) \/ FindRow(t)
    \/ InsertRow(t) \/ UpdateRow(t) \/ Answer(t)

(***************************************************************************)
(* The profile server registers the userid of a console whose token it     *)
(* finds (login_profile_via_parsed_authtoken).  Of table users only the    *)
(* userids matter here.                                                    *)
(***************************************************************************)
CreateUser(c) ==
    /\ token[c] \in Tokens
    /\ userid[c] < MaxUserid
    /\ users' = users \cup {userid[c]}
    /\ UNCHANGED <<nas_logins, req, clients, pool>>

-----------------------------------------------------------------------------
(* The consoles (external). *)

Ask(c, t, action) ==
    /\ waiting[c] = NoThread
    /\ req[t] = Idle
    /\ action = "acctcreate" <=> userid[c] = NoUser
    /\ asked[c] < MaxRequests[c]
    /\ asked' = [asked EXCEPT ![c] = @ + 1]
    /\ waiting' = [waiting EXCEPT ![c] = t]
    /\ req' = [req EXCEPT ![t] =
          [action |-> action, by |-> c, userid |-> userid[c], token |-> NoToken,
           pc |-> IF action = "svcloc" THEN "draw" ELSE "ban"]]
    /\ UNCHANGED <<users, nas_logins, userid, token, pool>>

GiveUp(c) ==
    /\ c \in Impatient
    /\ waiting[c] # NoThread
    /\ waiting' = [waiting EXCEPT ![c] = NoThread]
    /\ UNCHANGED <<users, nas_logins, req, userid, token, asked, pool>>

Next ==
    \/ \E t \in Thread : Serve(t)
    \/ \E c \in Console : CreateUser(c) \/ GiveUp(c)
    \/ \E c \in Console, t \in Thread :
          \E action \in {"acctcreate", "login", "svcloc"} : Ask(c, t, action)

Spec == Init /\ [][Next]_vars

(***************************************************************************)
(* A thread runs on while it can.  One that waits for a connection gets it *)
(* in turn: the pool queues its waiters, so it is not passed over for ever.*)
(***************************************************************************)
FairSpec == Spec /\ \A t \in Thread : SF_vars(Serve(t))

-----------------------------------------------------------------------------
(* Properties. *)

TypeOK ==
    /\ users \subseteq UserId
    /\ nas_logins \in Seq(Row)
    /\ req \in [Thread -> Request \cup {Idle}]
    /\ userid \in [Console -> UserId \cup {NoUser}]
    /\ token \in [Console -> Token \cup {NoToken}]
    /\ waiting \in [Console -> Thread \cup {NoThread}]
    /\ DOMAIN asked = Console /\ \A c \in Console : asked[c] \in 0 .. MaxRequests[c]
    /\ pool \in PoolSizes

(***************************************************************************)
(* A token never leads to somebody else: the data of a row was sent with   *)
(* the userid of the row, no two userids share a token, and the token of a *)
(* console leads to its own data (get_nas_login takes any row that has the *)
(* token), however logins of several consoles with one userid interleave.  *)
(***************************************************************************)
TokensLeadHome ==
    \A i \in DOMAIN nas_logins :
        LET r == nas_logins[i]
        IN  /\ r.data.userid = r.userid
            /\ \A j \in DOMAIN nas_logins :
                  nas_logins[j].authtoken = r.authtoken => nas_logins[j] = r
            /\ \A c \in Console : token[c] = r.authtoken =>
                  r.data.by = c /\ r.userid = userid[c]

\* No other console was given the userid of c.
Alone(c) == \A d \in Console \ {c} : userid[d] # userid[c]

(***************************************************************************)
(* The token a console was answered last is in the table when it waits for *)
(* nothing, so that the profile server accepts it ("the current active     *)
(* profile context" of docs/servers/nas_server.md), unless another console *)
(* shares the userid.  It takes a console that waits for its answers: the  *)
(* late write of a request given up replaces the token of its successor.   *)
(* (With the types of everything.)                                         *)
(***************************************************************************)
LastTokenResolves ==
    /\ TypeOK
    /\ \A c \in Console \ Impatient :
          Alone(c) /\ waiting[c] = NoThread /\ token[c] # NoToken => token[c] \in Tokens

(***************************************************************************)
(* A userid has at most one row, as the "atomic merge-update" of           *)
(* generate_authtoken intends, while its requests come one after the       *)
(* other: two at a time may both find no row, and then both insert one.    *)
(***************************************************************************)
OneRowPerLoner ==
    \A c \in Console \ Impatient :
        userid[c] # NoUser /\ Alone(c) => Cardinality(RowsOf(userid[c])) <= 1

(***************************************************************************)
(* acctcreate gives every console an id of its own ("reserves global       *)
(* unique integer IDs", docs/servers/nas_server.md).                       *)
(***************************************************************************)
DistinctUserids ==
    \A c, d \in Console : userid[c] = userid[d] /\ userid[c] # NoUser => c = d

(***************************************************************************)
(* A token that was answered is only ever lost to another request for the  *)
(* same userid: its user has a row, whoever wrote it last.  (With the      *)
(* types of everything.)                                                   *)
(***************************************************************************)
AnsweredUsersHaveRows ==
    /\ TypeOK
    /\ \A c \in Console : token[c] # NoToken => RowsOf(userid[c]) # {}

(***************************************************************************)
(* Every request is answered, or given up, in the end: threads that wait   *)
(* for a connection never wait for each other.                             *)
(***************************************************************************)
EveryRequestEnds == \A t \in Thread : req[t] # Idle ~> req[t] = Idle
=============================================================================
