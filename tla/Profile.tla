------------------------------- MODULE Profile -------------------------------
(***************************************************************************)
(* The profile server: the protocol of gamespy/profile_protocol.py, the    *)
(* registry of sessions and the dispatch of effects of                     *)
(* services/gamespy_profile_server.py, and the tables of                   *)
(* gamespy/pg_database.py that they use.                                   *)
(*                                                                         *)
(* All connections share one event loop.  A coroutine runs undisturbed     *)
(* from one database statement to the next: a step of this module is one   *)
(* statement, if any, and the code after it up to the end of the command   *)
(* or the next statement, and variable loop keeps other connections out    *)
(* where the code does not await.  Effects are collected and take place    *)
(* only when all commands of a chunk have been handled.                    *)
(*                                                                         *)
(* A user has one console, which connects again only after it left.  The   *)
(* server may not have noticed by then, so that two connections of a user  *)
(* can be open at once: overlap remembers them.                            *)
(*                                                                         *)
(* PostgreSQL folds the column buddyProfileId to lower case, so that       *)
(* b['buddyProfileId'] raises for whoever has a friend.  Variable folded   *)
(* says whether the database does that: both are modelled, and properties  *)
(* say what holds of each.  That run() does not await on_data_received is  *)
(* a constant, to see what the code does without it: Awaits is FALSE in    *)
(* the code.                                                               *)
(*                                                                         *)
(* Left out: getprofile, ka and updatepro, which touch nothing that is     *)
(* modelled here, the wording of messages, and sdkrevision 11, whose lists *)
(* are empty because add_buddy stores status 0.                            *)
(***************************************************************************)
EXTENDS Naturals, Sequences, FiniteSets, SequencesExt

CONSTANTS Conn,        \* TCP connections, each used once
          NoConn,
          UserOf,      \* connection -> the user (userid, gsbrcd) of its token
          Game,        \* connection -> the first four characters of its gsbrcd
          BadToken,    \* connections whose token may not be in nas_logins
          BadProof,    \* connections that may compute a wrong response
          Tables,      \* what users and buddies may hold at the start: users
                       \* with ids from 1 on, and pairs of ids
          MaxProfile,  \* bound: profile ids
          Command,     \* bound: connection -> the commands its console may send
          MaxCommands, \* bound: commands of a connection after its login
          MaxBatch,    \* bound: commands in one chunk
          Awaits       \* does run() await on_data_received?

Profiles == 1 .. MaxProfile
NoProfile == 0
Statuses == {"0", "1", "2"}
Unseen == "unseen"

Commands == [cmd : {"logout", "status"}]
            \cup [cmd : {"bm", "addbuddy", "delbuddy", "authadd"}, who : Profiles]

ASSUME ConnAssumption ==
    /\ NoConn \notin Conn
    /\ BadToken \subseteq Conn /\ BadProof \subseteq Conn
    /\ Command \in [Conn -> SUBSET Commands]
    /\ Conn \subseteq DOMAIN UserOf

\* profileid is the primary key of users, and a SERIAL; a user has one row.
ASSUME TablesAssumption ==
    \A start \in Tables :
        /\ start.buddies \subseteq Profiles \X Profiles /\ start.folded \in BOOLEAN
        /\ start.users \subseteq [user : Range(UserOf), profileid : Profiles]
        /\ IsFiniteSet(start.users)
        /\ \A u \in start.users : u.profileid <= Cardinality(start.users)
        /\ \A u, v \in start.users :
              u.profileid = v.profileid \/ u.user = v.user => u = v

ASSUME BoundAssumption ==
    MaxProfile \in Nat /\ MaxCommands \in Nat /\ MaxBatch \in Nat \ {0}

VARIABLES pid_map,          \* profile -> the connection registered for it
          s,                \* connection -> its ProfileProtocol and coroutine
          loop,             \* the connection that has not come to an await
          users, buddies, sessions, pending_messages,  \* tables
          folded,           \* are the column names of rows in lower case?
          k,                \* connection -> what its console has seen
          lost,             \* history: messages routed to nobody, or to a
                            \* connection whose console has gone
          raced,            \* history: pairs whose logins or statuses crossed
          raised,           \* history: connections a handler or the teardown of
                            \* which raised
          overlap           \* history: connections of one user, open at once

tables == <<users, buddies, sessions, pending_messages, folded>>
history == <<lost, raced, raised, overlap>>
vars == <<pid_map, s, loop, tables, k, history>>

Message == [by : Conn, to : Profiles]

(***************************************************************************)
(* Effects, and what a console can tell apart of the data they carry.      *)
(***************************************************************************)
Response(m) == [effect |-> "respond", m |-> m]
Route(p, m) == [effect |-> "route", to |-> p, m |-> m]
Register(p) == [effect |-> "register", pid |-> p]
Delete(p) == [effect |-> "delete", pid |-> p]

LoggedIn == [kind |-> "lc"]
Refused == [kind |-> "error"]
Kicked == [kind |-> "logout"]
Request == [kind |-> "br"]
Accepted == [kind |-> "accepted"]
Relay(p, st) == [kind |-> "status", f |-> p, status |-> st]
Mail(msg) == [kind |-> "bm", msg |-> msg]

Init ==
    /\ pid_map = [p \in Profiles |-> NoConn]
    /\ s = [c \in Conn |->
          [pc |-> "new", todo |-> << >>, eff |-> << >>, cur |-> << >>,
           profileid |-> NoProfile, buddies |-> {}, status |-> "0",
           sesskey |-> FALSE]]
    /\ loop = NoConn
    /\ \E start \in Tables :
          users = start.users /\ buddies = start.buddies /\ folded = start.folded
    /\ sessions = {}
    /\ pending_messages = {}
    /\ k = [c \in Conn |->
          [phase |-> "off", seen |-> [p \in Profiles |-> Unseen], got |-> {},
           told |-> FALSE, said |-> {}, chunk |-> << >>]]
    /\ lost = {}
    /\ raced = {}
    /\ raised = {}
    /\ overlap = {}

-----------------------------------------------------------------------------
(* The registry and the dispatch of effects. *)

Active(p) == pid_map[p] # NoConn

Up(c) == k[c].phase \notin {"off", "gone"}

\* What a console makes of a message.  A connection that is lost after its
\* logout relays its status in the name of profile 0, which nobody knows.
Heard(con, m) ==
    CASE m.kind = "status" /\ m.f # NoProfile -> [con EXCEPT !.seen[m.f] = m.status]
      [] m.kind = "bm" -> [con EXCEPT !.got = @ \cup {m.msg}]
      [] m.kind = "logout" -> [con EXCEPT !.told = TRUE]
      [] m.kind = "lc" -> [con EXCEPT !.phase = "in"]
      [] m.kind = "error" -> [con EXCEPT !.phase = "refused"]
      [] OTHER -> con

LoseAt(w, c, m) ==
    IF m.kind = "bm"
    THEN [w EXCEPT !.lost = @ \cup {[msg |-> m.msg, at |-> c,
                                     batched |-> Len(k[m.msg.by].chunk) > 1]}]
    ELSE w

\* A write to a connection whose console has gone is lost.
Write(w, c, m) ==
    IF w.k[c].phase = "gone" THEN LoseAt(w, c, m) ELSE [w EXCEPT !.k[c] = Heard(@, m)]

\* One effect of connection c.
Apply(c, w, e) ==
    CASE e.effect = "respond" -> Write(w, c, e.m)
      [] e.effect = "route" /\ w.map[e.to] # NoConn -> Write(w, w.map[e.to], e.m)
      [] e.effect = "route" /\ w.map[e.to] = NoConn -> LoseAt(w, NoConn, e.m)
      [] e.effect = "register" -> [w EXCEPT !.map[e.pid] = c]
      [] e.effect = "delete" -> [w EXCEPT !.map[e.pid] = NoConn]

\* What the registry and the consoles are when all effects of c took place.
Outcome(c) ==
    LET world[i \in 0 .. Len(s[c].eff)] ==
            IF i = 0 THEN [map |-> pid_map, k |-> k, lost |-> lost]
            ELSE Apply(c, world[i - 1], s[c].eff[i])
    IN  world[Len(s[c].eff)]

ProcessEffects(c) ==
    /\ pid_map' = Outcome(c).map
    /\ k' = Outcome(c).k
    /\ lost' = Outcome(c).lost

\* Friends who are there in the game of c.
Present(c, targets) == {p \in targets : Active(p) /\ Game[pid_map[p]] = Game[c]}

\* The status of whoever is registered for p, when that of c is st.
StatusOf(p, c, st) == IF pid_map[p] = c THEN st ELSE s[pid_map[p]].status

\* Mutant: the state of the friend is not sent back.
RelaysOneWay(c, st, targets) ==
    LET there == SetToSeq(Present(c, targets))
    IN  [i \in DOMAIN there |-> Route(there[i], Relay(s[c].profileid, st))]

\* _yield_status_to_friends: for each friend, the state of c and that of the friend.
Relays(c, st, targets) ==
    LET there == SetToSeq(Present(c, targets))
        Friend(i) == there[(i + 1) \div 2]
    IN  [i \in 1 .. 2 * Cardinality(Present(c, targets)) |->
            IF i % 2 = 1 THEN Route(Friend(i), Relay(s[c].profileid, st))
            ELSE Response(Relay(Friend(i), StatusOf(Friend(i), c, st)))]

\* b['buddyProfileId'] is evaluated for the first buddy.
Raises(c) == folded /\ s[c].buddies # {}

\* Connection d has looked at profile p, and handles the rest of its chunk before
\* the effects of that take place.
Looking(d, p) ==
    /\ s[d].pc \in {"save", "row", "reread"}
    /\ \E st \in Statuses : Contains(s[d].eff, Response(Relay(p, st)))

\* Connections that looked at their friends and are not registered yet, or that
\* looked at c and have not told each other yet.
Crossed(c) == {d \in Conn \ {c} : s[d].pc = "pending" \/ Looking(d, s[c].profileid)}
Cross(c) ==
    raced' = raced \cup ({c} \X Crossed(c)) \cup (Crossed(c) \X {c}) /\ UNCHANGED raised

-----------------------------------------------------------------------------
(* How the coroutine of connection c goes on. *)

At(c, label) == s[c].pc = label /\ loop \in {NoConn, c}

Turn(c, cmd) ==
    At(c, "next") /\ s[c].todo # << >> /\ Head(s[c].todo).cmd = cmd

Who(c) == Head(s[c].todo).who

\* The coroutine goes on at label, with or without letting others run first;
\* state is what it leaves behind.
Await(c, state, label) ==
    s' = [s EXCEPT ![c] = [state EXCEPT !.pc = label]] /\ loop' = NoConn
GoOn(c, state, label) ==
    s' = [s EXCEPT ![c] = [state EXCEPT !.pc = label]] /\ loop' = c

\* The command returns its effects.
Return(c, state, effects) ==
    /\ s' = [s EXCEPT ![c] = [state EXCEPT
          !.pc = "next", !.todo = Tail(@), !.cur = << >>, !.eff = @ \o effects]]
    /\ loop' = c

Fail(c) == raised' = raised \cup {c} /\ UNCHANGED raced

\* It raises: its effects and the commands after it are dropped.
Raise(c, state) ==
    /\ Fail(c)
    /\ s' = [s EXCEPT ![c] = [state EXCEPT
          !.pc = "next", !.todo = << >>, !.cur = << >>]]
    /\ loop' = c

-----------------------------------------------------------------------------
(* login *)

LoginAwaitsToken(c) ==
    /\ Turn(c, "login")
    /\ Await(c, s[c], "check")
    /\ UNCHANGED <<pid_map, tables, k, history>>

\* Mutant: an unknown token is not answered.
UnknownTokenSilently(c) ==
    /\ At(c, "check")
    /\ c \in BadToken
    /\ Return(c, s[c], << >>)
    /\ UNCHANGED <<pid_map, tables, k, history>>

UnknownToken(c) ==
    /\ At(c, "check")
    /\ c \in BadToken
    /\ Return(c, s[c], <<Response(Refused)>>)
    /\ UNCHANGED <<pid_map, tables, k, history>>

\* Mutant: the registration belongs to the conflict.
AdmitRegisteringOnConflict(c, p) ==
    Await(c, [s[c] EXCEPT
                 !.profileid = p,
                 !.cur = IF Active(p) THEN <<Route(p, Kicked), Delete(p), Register(p)>>
                         ELSE << >>], "friends")

\* The rest of the login before its next statement.
Admit(c, p) ==
    \/ /\ c \in BadProof
       /\ Return(c, s[c], <<Response(Refused)>>)
    \/ Await(c, [s[c] EXCEPT
                    !.profileid = p,
                    !.cur = (IF Active(p) THEN <<Route(p, Kicked), Delete(p)>> ELSE << >>)
                            \o <<Register(p)>>], "friends")

\* Mutant: no user is ever found.
NewUserAlways(c) ==
    /\ At(c, "check")
    /\ Await(c, s[c], "create")
    /\ UNCHANGED <<pid_map, tables, k, history>>

\* check_user_exists finds nobody.  The token it comes after stays where it is,
\* so that get_nas_login is one step with it.
NewUser(c) ==
    /\ At(c, "check")
    /\ \A u \in users : u.user # UserOf[c]
    /\ Await(c, s[c], "create")
    /\ UNCHANGED <<pid_map, tables, k, history>>

\* Profile ids are a SERIAL and rows are never deleted.
CreateUser(c) ==
    LET p == Cardinality(users) + 1
    IN  /\ At(c, "create")
        /\ p \in Profiles
        /\ users' = users \cup {[user |-> UserOf[c], profileid |-> p]}
        /\ Admit(c, p)
        /\ UNCHANGED <<pid_map, buddies, sessions, pending_messages, folded, k, history>>

\* It finds a user.  Users stay, so that perform_login, which reads the row in
\* the next statement, is one step with it.
PerformLogin(c) ==
    /\ At(c, "check")
    /\ \E u \in users : u.user = UserOf[c] /\ Admit(c, u.profileid)
    /\ UNCHANGED <<pid_map, tables, k, history>>

BuddyList(p) == {b[2] : b \in {r \in buddies : r[1] = p}}

GetBuddyList(c) ==
    /\ At(c, "friends")
    /\ Await(c, [s[c] EXCEPT !.buddies = BuddyList(s[c].profileid)], "cleanse")
    /\ UNCHANGED <<pid_map, tables, k, history>>

\* Mutant: the sessions there are stay.
CleanseSessionsNot(c) ==
    /\ At(c, "cleanse")
    /\ Await(c, s[c], "insert")
    /\ UNCHANGED <<pid_map, tables, k, history>>

CleanseSessions(c) ==
    /\ At(c, "cleanse")
    /\ sessions' = {r \in sessions : r.profileid # s[c].profileid}
    /\ Await(c, s[c], "insert")
    /\ UNCHANGED <<pid_map, users, buddies, pending_messages, folded, k, history>>

\* The key is fresh, so the row is named by its connection.
InsertSession(c) ==
    LET state == [s[c] EXCEPT !.sesskey = TRUE, !.status = "1"]
    IN  /\ At(c, "insert")
        /\ sessions' = sessions \cup {[session |-> c, profileid |-> s[c].profileid]}
        /\ IF Raises(c) THEN Raise(c, state)
           ELSE /\ Await(c, [state EXCEPT !.cur =
                      @ \o <<Response(LoggedIn)>> \o Relays(c, "1", s[c].buddies)], "pending")
                /\ Cross(c)
        /\ UNCHANGED <<pid_map, users, buddies, pending_messages, folded, k, lost, overlap>>

Waiting(p) == SetToSeq({msg \in pending_messages : msg.to = p})

\* What waits is sent, and stays in the table.
GetPendingMessages(c) ==
    LET mail == Waiting(s[c].profileid)
    IN  /\ At(c, "pending")
        /\ Return(c, s[c], s[c].cur \o [i \in DOMAIN mail |-> Response(Mail(mail[i]))])
        /\ UNCHANGED <<pid_map, tables, k, history>>

-----------------------------------------------------------------------------
(* The other commands. *)

\* sesskey keeps its value, profileid does not.
Logout(c) ==
    LET state == [s[c] EXCEPT !.status = "0"]
        known == s[c].profileid # NoProfile
    IN  /\ Turn(c, "logout")
        /\ IF Raises(c) THEN Raise(c, state)
           ELSE /\ Return(c, [state EXCEPT !.profileid = NoProfile],
                     Relays(c, "0", s[c].buddies)
                     \o IF known THEN <<Delete(s[c].profileid)>> ELSE << >>)
                /\ Cross(c)
        /\ UNCHANGED <<pid_map, tables, k, lost, overlap>>

Status(c) ==
    LET state == [s[c] EXCEPT !.status = "2"]
    IN  /\ Turn(c, "status")
        /\ IF Raises(c) THEN Raise(c, state)
           ELSE Return(c, state, Relays(c, "2", s[c].buddies)) /\ Cross(c)
        /\ UNCHANGED <<pid_map, tables, k, lost, overlap>>

MessageOf(c) == [by |-> c, to |-> Who(c)]

\* Mutant: the message is routed whether or not anybody is there.
BuddyMessageBlindly(c) ==
    /\ Turn(c, "bm")
    /\ Return(c, s[c], <<Route(Who(c), Mail(MessageOf(c)))>>)
    /\ UNCHANGED <<pid_map, tables, k, history>>

BuddyMessage(c) ==
    /\ Turn(c, "bm")
    /\ IF Active(Who(c)) THEN Return(c, s[c], <<Route(Who(c), Mail(MessageOf(c)))>>)
       ELSE Await(c, s[c], "save")
    /\ UNCHANGED <<pid_map, tables, k, history>>

\* Mutant: source and target are swapped.
SavePendingMessageSwapped(c) ==
    /\ At(c, "save")
    /\ pending_messages' = pending_messages \cup {[by |-> c, to |-> s[c].profileid]}
    /\ Return(c, s[c], << >>)
    /\ UNCHANGED <<pid_map, users, buddies, sessions, folded, k, history>>

SavePendingMessage(c) ==
    /\ At(c, "save")
    /\ pending_messages' = pending_messages \cup {MessageOf(c)}
    /\ Return(c, s[c], << >>)
    /\ UNCHANGED <<pid_map, users, buddies, sessions, folded, k, history>>

\* addbuddy and delbuddy change the table, and then read the list again.
AddOrDelAwaits(c) ==
    /\ Turn(c, "addbuddy") \/ Turn(c, "delbuddy")
    /\ Await(c, s[c], "row")
    /\ UNCHANGED <<pid_map, tables, k, history>>

AddOrDelRow(c) ==
    LET row == <<s[c].profileid, Who(c)>>
    IN  /\ At(c, "row")
        /\ buddies' = IF Head(s[c].todo).cmd = "addbuddy"
                      THEN buddies \cup {row} ELSE buddies \ {row}
        /\ Await(c, s[c], "reread")
        /\ UNCHANGED <<pid_map, users, sessions, pending_messages, folded, k, history>>

\* Mutant: the list is read again after addbuddy only.
RereadOnAddOnly(c) ==
    /\ At(c, "reread")
    /\ Return(c, IF Head(s[c].todo).cmd = "addbuddy"
                 THEN [s[c] EXCEPT !.buddies = BuddyList(s[c].profileid)] ELSE s[c], << >>)
    /\ UNCHANGED <<pid_map, tables, k, history>>

RereadBuddyList(c) ==
    /\ At(c, "reread")
    /\ Return(c, [s[c] EXCEPT !.buddies = BuddyList(s[c].profileid)],
              IF Head(s[c].todo).cmd = "addbuddy" /\ Active(Who(c))
              THEN <<Route(Who(c), Request)>> ELSE << >>)
    /\ UNCHANGED <<pid_map, tables, k, history>>

AuthAdd(c) ==
    /\ Turn(c, "authadd")
    /\ IF Raises(c) THEN Raise(c, s[c])
       ELSE /\ Return(c, s[c],
                 (IF Active(Who(c)) THEN <<Route(Who(c), Accepted)>> ELSE << >>)
                 \o Relays(c, s[c].status, s[c].buddies \cap {Who(c)}))
            /\ Cross(c)
    /\ UNCHANGED <<pid_map, tables, k, lost, overlap>>

-----------------------------------------------------------------------------
(* A connection from its start to its end. *)

\* All commands of the chunk are handled: now their effects take place.
EndOfChunk(c) ==
    /\ At(c, "next")
    /\ s[c].todo = << >>
    /\ ProcessEffects(c)
    /\ s' = [s EXCEPT ![c].pc = "read", ![c].eff = << >>]
    /\ loop' = NoConn
    /\ UNCHANGED <<tables, raced, raised, overlap>>

\* read() returns nothing.
EndOfStream(c) ==
    /\ At(c, "read")
    /\ k[c].phase = "gone"
    /\ s' = [s EXCEPT ![c].pc = "lost"]
    /\ loop' = c
    /\ UNCHANGED <<pid_map, tables, k, history>>

\* Mutants: profileid is reset before the session is deleted; a connection with
\* a session key is only removed from the table.
OnConnectionLostForgets(c) ==
    LET state == [s[c] EXCEPT !.status = "0", !.profileid = NoProfile,
                              !.eff = <<Delete(s[c].profileid)>>]
    IN  /\ At(c, "lost")
        /\ IF s[c].sesskey THEN Await(c, state, "unsession") ELSE GoOn(c, s[c], "bye")
        /\ Cross(c)
        /\ UNCHANGED <<pid_map, tables, k, lost, overlap>>
OnConnectionLostKeyed(c) ==
    LET state == [s[c] EXCEPT !.status = "0"]
    IN  /\ At(c, "lost")
        /\ IF s[c].sesskey
           THEN Await(c, [state EXCEPT !.eff = Relays(c, "0", s[c].buddies)], "unsession")
           ELSE GoOn(c, state, "bye")
        /\ Cross(c)
        /\ UNCHANGED <<pid_map, tables, k, lost, overlap>>

\* on_connection_lost: if it raises, nothing else is done.
OnConnectionLost(c) ==
    LET offline == [s[c] EXCEPT !.status = "0"]
        known == s[c].profileid # NoProfile
        state == [offline EXCEPT !.eff = Relays(c, "0", s[c].buddies)
                     \o IF known THEN <<Delete(s[c].profileid)>> ELSE << >>]
    IN  /\ At(c, "lost")
        /\ IF Raises(c) THEN Await(c, offline, "closed") /\ Fail(c)
           ELSE /\ IF s[c].sesskey THEN Await(c, state, "unsession")
                                  ELSE GoOn(c, state, "bye")
                /\ Cross(c)
        /\ UNCHANGED <<pid_map, tables, k, lost, overlap>>

\* delete_session deletes the sessions of the profile, whoever created them.
DeleteSession(c) ==
    /\ At(c, "unsession")
    /\ sessions' = {r \in sessions : r.profileid # s[c].profileid}
    /\ GoOn(c, s[c], "bye")
    /\ UNCHANGED <<pid_map, users, buddies, pending_messages, folded, k, history>>

Close(c) ==
    /\ At(c, "bye")
    /\ ProcessEffects(c)
    /\ s' = [s EXCEPT ![c].pc = "closed", ![c].eff = << >>]
    /\ loop' = NoConn
    /\ UNCHANGED <<tables, raced, raised, overlap>>

Server(c) ==
    \/ LoginAwaitsToken(c) \/ UnknownToken(c) \/ NewUser(c) \/ CreateUser(c) \/ PerformLogin(c)
    \/ GetBuddyList(c) \/ CleanseSessions(c) \/ InsertSession(c) \/ GetPendingMessages(c)
    \/ Logout(c) \/ Status(c) \/ BuddyMessage(c) \/ SavePendingMessage(c)
    \/ AddOrDelAwaits(c) \/ AddOrDelRow(c) \/ RereadBuddyList(c) \/ AuthAdd(c)
    \/ EndOfChunk(c) \/ EndOfStream(c) \/ OnConnectionLost(c) \/ DeleteSession(c) \/ Close(c)
-----------------------------------------------------------------------------
(* The consoles (external), and the chunks that run() reads.  A console    *)
(* logs in first, waits for the answer, says nothing after its logout, and *)
(* may go at any time.                                                     *)

Connect(c) ==
    /\ s[c].pc = "new"
    /\ \A d \in Conn : UserOf[d] = UserOf[c] => k[d].phase \in {"off", "gone"}
    /\ s' = [s EXCEPT ![c].pc = "read"]
    /\ k' = [k EXCEPT ![c].phase = "up"]
    /\ overlap' = overlap \cup
          UNION {{c, d} : d \in {e \in Conn \ {c} : UserOf[e] = UserOf[c]
                                                    /\ s[e].pc \notin {"new", "closed"}}}
    /\ UNCHANGED <<pid_map, loop, tables, lost, raced, raised>>

\* on_data_received takes the chunk, or is never run.
ReadChunk(c, chunk) ==
    /\ At(c, "read")
    /\ IF Awaits THEN GoOn(c, [s[c] EXCEPT !.todo = chunk], "next")
       ELSE GoOn(c, s[c], "lost")
    /\ UNCHANGED <<pid_map, tables, history>>

SayLogin(c) ==
    /\ k[c].phase = "up"
    /\ k' = [k EXCEPT ![c].phase = "asked"]
    /\ ReadChunk(c, <<[cmd |-> "login"]>>)

Chunks(c) ==
    {chunk \in UNION {[1 .. n -> Command[c] \ k[c].said] : n \in 1 .. MaxBatch} :
        /\ IsInjective(chunk)
        /\ \A i \in DOMAIN chunk : chunk[i].cmd = "logout" => i = Len(chunk)
        /\ Cardinality(k[c].said) + Len(chunk) <= MaxCommands}

Say(c) ==
    /\ k[c].phase = "in"
    /\ \E chunk \in Chunks(c) :
          /\ k' = [k EXCEPT ![c].said = @ \cup Range(chunk),
                           ![c].chunk = chunk,
                           ![c].phase = IF Last(chunk).cmd = "logout" THEN "out" ELSE @]
          /\ ReadChunk(c, chunk)

Leave(c) ==
    /\ Up(c)
    /\ k' = [k EXCEPT ![c].phase = "gone"]
    /\ UNCHANGED <<pid_map, s, loop, tables, history>>

Next ==
    \E c \in Conn : Server(c) \/ Connect(c) \/ SayLogin(c) \/ Say(c) \/ Leave(c)

Spec == Init /\ [][Next]_vars

\* The event loop runs every coroutine that can run.
FairSpec == Spec /\ \A c \in Conn : WF_vars(Server(c))

-----------------------------------------------------------------------------
(* Properties. *)

Effect == [effect : {"respond"}, m : [kind : {"lc", "error"}]
                                     \cup [kind : {"status"}, f : Profiles \cup {NoProfile}, status : Statuses]
                                     \cup [kind : {"bm"}, msg : Message]]
          \cup [effect : {"route"}, to : Profiles,
                m : [kind : {"logout", "br", "accepted"}]
                    \cup [kind : {"status"}, f : Profiles \cup {NoProfile}, status : Statuses]
                    \cup [kind : {"bm"}, msg : Message]]
          \cup [effect : {"register", "delete"}, pid : Profiles]

TypeOK ==
    /\ pid_map \in [Profiles -> Conn \cup {NoConn}]
    /\ \A c \in Conn :
          /\ s[c].profileid \in Profiles \cup {NoProfile}
          /\ s[c].buddies \subseteq Profiles
          /\ s[c].status \in Statuses
          /\ Range(s[c].eff) \cup Range(s[c].cur) \subseteq Effect
          /\ k[c].seen \in [Profiles -> Statuses \cup {Unseen}]
          /\ k[c].got \subseteq Message
    /\ loop \in Conn \cup {NoConn}
    /\ users \subseteq [user : Range(UserOf), profileid : Profiles]
    /\ buddies \subseteq Profiles \X Profiles
    /\ sessions \subseteq [session : Conn, profileid : Profiles]
    /\ pending_messages \subseteq Message
    /\ folded \in BOOLEAN
    /\ raised \subseteq Conn
    /\ lost \subseteq [msg : Message, at : Conn \cup {NoConn}, batched : BOOLEAN]
    /\ overlap \subseteq Conn

\* Connection c is logged in, its console is there, and nothing is under way.
Settled(c) == k[c].phase = "in" /\ s[c].pc = "read" /\ ~k[c].told

(***************************************************************************)
(* Whoever is logged in is online: messages for a profile reach its        *)
(* console as long as that stays connected ("Alice marked ONLINE in RAM    *)
(* session vector" of docs/servers/gamespy_profile.md).  It does not hold  *)
(* when a user connects again before the server let go of the connection   *)
(* it had: the end of that one takes its successor out of the registry.    *)
(***************************************************************************)
LoggedInIsOnline ==
    \A c \in Conn : Settled(c) => pid_map[s[c].profileid] = c

(***************************************************************************)
(* The same for users with one connection at a time, over any number of    *)
(* reconnections, and with those of others in between.                     *)
(***************************************************************************)
LonersAreOnline ==
    \A c \in Conn \ overlap : Settled(c) => pid_map[s[c].profileid] = c

(***************************************************************************)
(* The registry holds no connection that is closed, so that no message is  *)
(* routed to a dead stream instead of being saved, however old and new     *)
(* connections of a user come and go: except connections that raised over  *)
(* a folded name, in a handler or in their teardown, which then does not   *)
(* come to their removal.  (With the types of everything.)                 *)
(***************************************************************************)
RegistryIsLive ==
    /\ TypeOK
    /\ \A p \in Profiles :
          Active(p) /\ s[pid_map[p]].pc = "closed" => pid_map[p] \in raised

(***************************************************************************)
(* A closed connection leaves no row in table sessions ("Cleanly delete    *)
(* any existing persistent session" in on_connection_lost), unless it had  *)
(* logged out: a logout resets the profile id that the teardown needs; or  *)
(* unless it raised, in a handler or in its teardown.                      *)
(***************************************************************************)
OnlyLogoutsLeaveSessions ==
    \A r \in sessions :
        s[r.session].pc = "closed" =>
            [cmd |-> "logout"] \in k[r.session].said \/ r.session \in raised

(***************************************************************************)
(* A profile has one session at most, as create_session intends when it    *)
(* deletes those there are ("cleanse previously existing persistence"),    *)
(* and a user has one profile, so that uniquenick, which is made of the    *)
(* user alone, is unique as docs/DATABASE_SCHEMA.md says: unless           *)
(* connections of the user were open at once, and found nothing before     *)
(* either of them inserted.                                                *)
(***************************************************************************)
OnlyOverlapsDuplicate ==
    /\ \A q, r \in sessions :
          q.profileid = r.profileid /\ q # r => {q.session, r.session} \subseteq overlap
    /\ \A u, v \in users :
          u.user = v.user /\ u # v => \E c \in overlap : UserOf[c] = u.user

\* What the console of c shows of profile p is what p is now.
Shows(c, p) ==
    IF Active(p) THEN k[c].seen[p] = s[pid_map[p]].status
    ELSE k[c].seen[p] \in {Unseen, "0"}

\* c and p are friends of each other, and two users.
Mutual(c, p) ==
    p # s[c].profileid /\ p \in s[c].buddies /\ <<p, s[c].profileid>> \in buddies

\* Connection d is one of the user that has profile p.
Plays(d, p) == [user |-> UserOf[d], profileid |-> p] \in users

\* Everybody who has profile p plays what c plays, and none is being handled.
Quiet(c, p) ==
    \A d \in Conn : Plays(d, p) =>
        Game[d] = Game[c] /\ s[d].pc \in {"new", "read", "closed"}

\* Profile p changed its friends since it connected.
Befriends(p) ==
    \E d \in Conn : Plays(d, p) /\ \E x \in k[d].said : x.cmd \in {"addbuddy", "delbuddy"}

\* The console of c may show p as it was.
Misled(c, p) ==
    \/ \E d \in Conn : Plays(d, p) /\ (<<c, d>> \in raced \/ d \in overlap)
    \/ c \in overlap
    \/ Befriends(p) \/ Befriends(s[c].profileid)

(***************************************************************************)
(* Friends in the same game see each other as they are (step 3 and 5 of    *)
(* the sequence in docs/servers/gamespy_profile.md), except for friends    *)
(* one of whom logged in or changed state between the moment the other     *)
(* looked at it and the moment the effects of that took place: at a login, *)
(* or in a chunk of several commands.  That window is the only way to a    *)
(* stale view, and a view that was not raced is never stale.  But where    *)
(* names are folded nobody is ever shown anything of a friend: whoever has *)
(* one raises before it relays.                                            *)
(***************************************************************************)
OnlyRacesMislead ==
    \A c \in Conn, p \in Profiles :
        IF folded THEN k[c].seen[p] = Unseen
        ELSE Settled(c) /\ loop = NoConn /\ Quiet(c, p) /\ Mutual(c, p) /\ ~Misled(c, p)
                => Shows(c, p)

(***************************************************************************)
(* A buddy message is routed only to a profile that is there; otherwise it *)
(* is saved ("If online, route immediately via dispatcher. Else store in   *)
(* SQL db queue" in _perform_bm): unless more commands came in its chunk,  *)
(* which are handled, statements included, before it is routed.            *)
(***************************************************************************)
NothingMisrouted == \A l \in lost : l.at = NoConn => l.batched

(***************************************************************************)
(* No message disappears: what a console sent has reached a console, is in *)
(* the table, is still being handled, or was written to a console that had *)
(* gone before the server knew, or routed too late (see above); or it is   *)
(* from a connection that raised, and may have been dropped with the rest  *)
(* of its chunk.                                                           *)
(***************************************************************************)
MailIsKept ==
    \A c \in Conn : \A cmd \in {x \in k[c].said : x.cmd = "bm"} :
        LET msg == [by |-> c, to |-> cmd.who]
        IN  \/ msg \in pending_messages
            \/ \E d \in Conn : msg \in k[d].got
            \/ \E i \in DOMAIN s[c].todo : s[c].todo[i] = cmd
            \/ \E i \in DOMAIN s[c].eff : s[c].eff[i] = Route(cmd.who, Mail(msg))
            \/ \E l \in lost : l.msg = msg
            \/ c \in raised

(***************************************************************************)
(* The list of friends that statuses are relayed to is the one in the      *)
(* table, through every addbuddy and delbuddy of a user with one           *)
(* connection at a time.                                                   *)
(***************************************************************************)
BuddiesAreCurrent ==
    \A c \in Conn \ overlap : Settled(c) => s[c].buddies = BuddyList(s[c].profileid)

(***************************************************************************)
(* Every login is answered, or its console leaves, unless it raised over a *)
(* folded name.                                                            *)
(***************************************************************************)
LoginsAreAnswered ==
    \A c \in Conn : k[c].phase = "asked" ~> k[c].phase # "asked" \/ c \in raised
=============================================================================
