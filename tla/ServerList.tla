----------------------------- MODULE ServerList -----------------------------
(***************************************************************************)
(* The list of game servers: services/gamespy_qr_server.py, which writes   *)
(* it, services/gamespy_backend_server.py and gamespy/redis_cache.py,      *)
(* which keep it in Redis, and services/internal_stats_server.py, a reader *)
(* that also keeps a copy.                                                 *)
(*                                                                         *)
(* The QR server is one loop over one UDP socket and handles a datagram to *)
(* its end before it reads the next.  But a refresh of the list is two     *)
(* commands to Redis, DEL and SET, and a reader, which is another process, *)
(* lists the keys with SCAN and fetches their values with MGET.  So a step *)
(* of this module is a command to Redis and the code around it.            *)
(*                                                                         *)
(* A host is a console (external) that offers one game, under a session    *)
(* number of its own.  It tells QR its data in heartbeats, answers         *)
(* challenges, and when it closes says so in a last heartbeat, or just     *)
(* vanishes.  Data is a version number.  One tick is a minute, and a key   *)
(* that is set just before a tick lives for less.                          *)
(***************************************************************************)
EXTENDS Naturals

CONSTANTS Host,        \* the consoles that offer a game
          MaxData,     \* bound: the versions of a host's data
          Challenge,   \* random challenges, of each host
          KeyLife,     \* ticks that a key lives: ex=60
          PageLife,    \* ticks between updates of the page: seconds_per_update
          MaxRestarts, \* bound: restarts of the QR server
          TextPackets  \* does the first byte of a packet compare as text?

ASSUME BoundAssumption ==
    /\ MaxData \in Nat \ {0} /\ MaxRestarts \in Nat
    /\ KeyLife \in Nat \ {0} /\ PageLife \in Nat \ {0}
    /\ Challenge \subseteq Nat \ {0}

ASSUME TextAssumption == TextPackets \in BOOLEAN

VARIABLES redis,     \* the gs:srv keys: host -> its data and the ticks left
          sessions,  \* the sessions of the QR server, a dictionary
          pending,   \* the SET that follows the DEL of a refresh, or nothing
          net,       \* the datagrams between hosts and QR
          host,      \* host -> its life and its data
          page,      \* the statistics page: its cached list and its ticks
          repeats,   \* does the network repeat datagrams?  Does not change
          restarts,  \* how often QR has restarted, for the bound
          \* History:
          heard,     \* host -> the data of the last heartbeat handled
          age,       \* host -> ticks since it was listed, up to MaxAge
          struck,    \* the hosts taken off the list since they were listed, or
                     \* left off it by a refresh that a restart cut in two
          late       \* host -> heartbeats handled since it was closed

server == <<redis, sessions, pending, restarts>>
history == <<heard, age, struck, late>>
vars == <<server, net, host, page, repeats, history>>

Data == 1 .. MaxData
Closing == MaxData + 1         \* a heartbeat with statechanged 2
Nothing == 0
MaxAge == KeyLife + PageLife   \* bound: ages from here on are the same

\* Values of late.  Heartbeats after the second are not counted.
Never == 0
Closed == 1
OnceLate == 2
TwiceLate == 3

Datagram ==
    [type : {"heartbeat"}, host : Host, value : Data \union {Closing}]
    \union [type : {"challenge", "answer"}, host : Host, value : Challenge]

Message(t, h, v) == [type |-> t, host |-> h, value |-> v]

\* A datagram that is handled may come again if the network repeats.
Received(d) == IF repeats THEN net ELSE net \ {d}

Listed(h) == h \in DOMAIN redis

\* Listed, not taken off, and not expired since.
Current(h) == age[h] < KeyLife /\ h \notin struck

Without(f, h) == [g \in DOMAIN f \ {h} |-> f[g]]

----------------------------------------------------------------------------
(* The consoles and the network. *)

Send(d) ==
    /\ net' = net \union {d}
    /\ UNCHANGED <<server, page, repeats, history>>

\* The game opens, and says so.
Open(h) ==
    /\ host[h].life = "off"
    /\ host' = [host EXCEPT ![h].life = "up"]
    /\ Send(Message("heartbeat", h, host[h].data))

\* The regular heartbeat.
Beat(h) ==
    /\ host[h].life = "up"
    /\ Send(Message("heartbeat", h, host[h].data))
    /\ UNCHANGED host

\* The data of the game changes, as when a player joins.
Change(h) ==
    /\ host[h].life = "up" /\ host[h].data < MaxData
    /\ host' = [host EXCEPT ![h].data = @ + 1]
    /\ Send(Message("heartbeat", h, host[h].data + 1))

AnswerChallenge(d) ==
    /\ d.type = "challenge" /\ host[d.host].life = "up"
    /\ net' = Received(d) \union {Message("answer", d.host, d.value)}
    /\ UNCHANGED <<server, host, page, repeats, history>>

Close(h) ==
    /\ host[h].life = "up"
    /\ host' = [host EXCEPT ![h].life = "down"]
    /\ Send(Message("heartbeat", h, Closing))

Vanish(h) ==
    /\ host[h].life = "up"
    /\ host' = [host EXCEPT ![h].life = "down"]
    /\ UNCHANGED <<server, net, page, repeats, history>>

Lose(d) ==
    /\ net' = net \ {d}
    /\ UNCHANGED <<server, host, page, repeats, history>>

----------------------------------------------------------------------------
(* The QR server. *)

Idle == pending = {}

\* A session as its constructor makes it; named says whether gamename is set.
\* Every packet that has no session makes one first, so that no session and a
\* new one are the same.
NewSession ==
    [challenge |-> Nothing, sent |-> FALSE, heart |-> Nothing, named |-> FALSE]

\* Mutant: the session of a closed server stays.
UpdateServerListKeeping(h, d) ==
    /\ redis' = Without(redis, h)
    /\ UNCHANGED sessions
    /\ IF d = Closing
       THEN struck' = struck \union {h} /\ UNCHANGED pending
       ELSE pending' = {[host |-> h, data |-> d]} /\ UNCHANGED struck

\* Mutant: a refresh of a listed server only renews the life of its key.
UpdateServerListRenewing(h, d) ==
    IF d = Closing
    THEN /\ redis' = Without(redis, h)
         /\ sessions' = [sessions EXCEPT ![h] = NewSession]
         /\ struck' = struck \union {h} /\ UNCHANGED pending
    ELSE /\ IF Listed(h)
            THEN redis' = [redis EXCEPT ![h].left = KeyLife] /\ UNCHANGED pending
            ELSE pending' = {[host |-> h, data |-> d]} /\ UNCHANGED redis
         /\ UNCHANGED <<sessions, struck>>

\* Mutant: a server that the session has named is deleted and not set again.
UpdateServerListOnce(h, d) ==
    /\ redis' = Without(redis, h)
    /\ IF d = Closing
       THEN /\ sessions' = [sessions EXCEPT ![h] = NewSession]
            /\ struck' = struck \union {h}
            /\ UNCHANGED pending
       ELSE /\ pending' = IF sessions[h].named THEN {} ELSE {[host |-> h, data |-> d]}
            /\ UNCHANGED <<sessions, struck>>

\* update_server_list: a closing heartbeat deletes the server and its
\* session; any other one refreshes the server, which begins with a DEL.
UpdateServerList(h, d) ==
    /\ redis' = Without(redis, h)
    /\ IF d = Closing
       THEN /\ sessions' = [sessions EXCEPT ![h] = NewSession]
            /\ struck' = struck \union {h}
            /\ UNCHANGED pending
       ELSE /\ pending' = {[host |-> h, data |-> d]}
            /\ UNCHANGED <<sessions, struck>>

\* The rest of a refresh: the SET, and the session notes the name of the game.
Upsert(p) ==
    /\ redis' = [h \in DOMAIN redis \union {p.host} |->
                    IF h = p.host THEN [data |-> p.data, left |-> KeyLife]
                    ELSE redis[h]]
    /\ sessions' = [sessions EXCEPT ![p.host].named = TRUE]
    /\ pending' = {}
    /\ age' = [age EXCEPT ![p.host] = 0] /\ struck' = struck \ {p.host}
    /\ UNCHANGED <<restarts, net, host, page, repeats, heard, late>>

\* A random challenge is none that host or server may still know.
FreshChallenges(h) ==
    {c \in Challenge :
        /\ Message("challenge", h, c) \notin net
        /\ Message("answer", h, c) \notin net
        /\ sessions[h].challenge # c}

\* Mutant: heartbeats are challenged until the server was listed.
ChallengeAgain(h, d) ==
    /\ ~sessions[h].named
    /\ \E c \in FreshChallenges(h) :
        /\ sessions' = [sessions EXCEPT ![h].challenge = c, ![h].sent = TRUE,
                                          ![h].heart = d]
        /\ net' = Received(Message("heartbeat", h, d))
                  \union {Message("challenge", h, c)}
    /\ UNCHANGED <<redis, pending, struck>>

\* A heartbeat to which a challenge is due is kept until the answer.
ChallengeHeartbeat(h, d) ==
    /\ ~sessions[h].sent
    /\ \E c \in FreshChallenges(h) :
        /\ sessions' = [sessions EXCEPT ![h].challenge = c, ![h].sent = TRUE,
                                          ![h].heart = d]
        /\ net' = Received(Message("heartbeat", h, d))
                  \union {Message("challenge", h, c)}
    /\ UNCHANGED <<redis, pending, struck>>

\* Once a challenge was sent, answered or not, heartbeats go to the list.
ListHeartbeat(h, d) ==
    /\ sessions[h].sent
    /\ UpdateServerList(h, d)
    /\ net' = Received(Message("heartbeat", h, d))

HandleHeartbeat(h, d) ==
    /\ TextPackets /\ Idle
    /\ Message("heartbeat", h, d) \in net
    /\ ChallengeHeartbeat(h, d) \/ ListHeartbeat(h, d)
    /\ heard' = [heard EXCEPT ![h] = d]
    /\ late' = [late EXCEPT ![h] =
                    CASE d = Closing /\ sessions[h].sent -> Closed
                      [] @ \in {Closed, OnceLate} -> @ + 1
                      [] OTHER -> @]
    /\ UNCHANGED <<restarts, host, page, repeats, age>>

\* The wrong answer: another challenge at the next heartbeat, and the server
\* goes off the list, if this session has put it there.
FailChallenge(h) ==
    /\ sessions' = [sessions EXCEPT ![h].sent = FALSE]
    /\ IF sessions[h].named
       THEN redis' = Without(redis, h) /\ struck' = struck \union {h}
       ELSE UNCHANGED <<redis, struck>>
    /\ UNCHANGED pending

\* The right answer, the first time or again, lists the heartbeat that was kept.
PassChallenge(h) ==
    IF sessions[h].heart # Nothing
    THEN UpdateServerList(h, sessions[h].heart)
    ELSE UNCHANGED <<redis, sessions, pending, struck>>

HandleAnswer(h, c) ==
    /\ TextPackets /\ Idle
    /\ Message("answer", h, c) \in net
    /\ IF sessions[h].challenge = c THEN PassChallenge(h)
       ELSE FailChallenge(h)
    /\ net' = Received(Message("answer", h, c))
    /\ UNCHANGED <<restarts, host, page, repeats, heard, age, late>>

\* The process starts again.  What it kept in memory is gone, Redis is not.
\* Bound: only where the network does not repeat.
Restart ==
    /\ restarts < MaxRestarts /\ ~repeats
    /\ restarts' = restarts + 1
    /\ sessions' = [h \in Host |-> NewSession] /\ pending' = {}
    /\ struck' = struck \union {p.host : p \in pending}
    /\ UNCHANGED <<redis, net, host, page, repeats, heard, age, late>>

----------------------------------------------------------------------------
(* Redis and the statistics page. *)

\* Mutant: keys are set without a time to live.
ExpireNothing == redis

\* A minute later: keys expire.
Expire == [h \in {g \in DOMAIN redis : redis[g].left > 1} |->
              [redis[h] EXCEPT !.left = @ - 1]]

Tick ==
    /\ redis' = Expire
    /\ age' = [h \in Host |-> IF age[h] < MaxAge THEN age[h] + 1 ELSE MaxAge]
    /\ page' = [page EXCEPT !.left = IF @ > 0 THEN @ - 1 ELSE 0]
    /\ UNCHANGED <<sessions, pending, restarts, net, host, repeats, heard, struck, late>>

\* Mutant: the games of the last update stay.
FoundOnTop(seen) == page.shown \union (seen \intersect DOMAIN redis)

\* MGET finds what the SCAN has seen and is still there.
Found(seen) == seen \intersect DOMAIN redis

\* get_server_list of an old cache, or for /json.  The step is the MGET of
\* get_all_servers_for_game; its SCAN, some time before, has seen any keys.
\* A GET of a recent cache changes nothing.
UpdatePage ==
    /\ \E seen \in SUBSET Host : page' = [shown |-> Found(seen), left |-> PageLife]
    /\ UNCHANGED <<server, net, host, repeats, history>>

----------------------------------------------------------------------------

Init ==
    /\ redis = [h \in {} |-> Nothing]
    /\ sessions = [h \in Host |-> NewSession] /\ pending = {} /\ restarts = 0
    /\ net = {}
    /\ host = [h \in Host |-> [life |-> "off", data |-> 1]]
    /\ page = [shown |-> {}, left |-> 0]
    /\ repeats \in BOOLEAN
    /\ heard = [h \in Host |-> Nothing]
    /\ age = [h \in Host |-> MaxAge] /\ struck = {}
    /\ late = [h \in Host |-> Never]

Consoles ==
    \/ \E h \in Host : Open(h) \/ Beat(h) \/ Change(h) \/ Close(h) \/ Vanish(h)
    \/ \E d \in net : AnswerChallenge(d) \/ Lose(d)

QRServer ==
    \/ \E h \in Host : \/ \E d \in Data \union {Closing} : HandleHeartbeat(h, d)
                       \/ \E c \in Challenge : HandleAnswer(h, c)
    \/ \E p \in pending : Upsert(p)

Next == Consoles \/ QRServer \/ Restart \/ Tick \/ UpdatePage

Spec == Init /\ [][Next]_vars

\* The loop serves its socket, Redis answers, time passes.  A host that is up
\* beats for ever, and not all of its heartbeats are lost.
FairSpec ==
    /\ Spec
    /\ WF_vars(Tick)
    /\ WF_vars(\E p \in pending : Upsert(p))
    /\ \A h \in Host :
        /\ WF_vars(Beat(h))
        /\ \A d \in Data \union {Closing} : SF_vars(HandleHeartbeat(h, d))

----------------------------------------------------------------------------
(* Properties. *)

SessionType ==
    [challenge : Challenge \union {Nothing}, sent : BOOLEAN,
     heart : Data \union {Nothing, Closing}, named : BOOLEAN]

\* The type invariant, with what relates the parts: a key has ticks left, and
\* while a refresh is pending there is one, whose key is deleted.
TypeOK ==
    /\ DOMAIN redis \subseteq Host
    /\ \A h \in DOMAIN redis : redis[h] \in [data : Data, left : 1 .. KeyLife]
    /\ sessions \in [Host -> SessionType]
    /\ pending \in SUBSET [host : Host, data : Data]
    /\ \A p, q \in pending : p = q
    /\ \A p \in pending : ~Listed(p.host)
    /\ restarts \in 0 .. MaxRestarts
    /\ net \subseteq Datagram
    /\ host \in [Host -> [life : {"off", "up", "down"}, data : Data]]
    /\ page \in [shown : SUBSET Host, left : 0 .. PageLife]
    /\ repeats \in BOOLEAN
    /\ heard \in [Host -> Data \union {Nothing, Closing}]
    /\ age \in [Host -> 0 .. MaxAge] /\ struck \subseteq Host
    /\ late \in [Host -> Never .. TwiceLate]

\* A server that QR has closed does not come back for one heartbeat that was
\* on its way, nor for an answer: it takes two heartbeats, of which the first
\* makes a new session and the second finds that a challenge was sent.
\* The deletion in update_server_list, the session test of handle_packet and the heartbeat
\* branch decide it together.
ClosedStaysClosed ==
    \A h \in Host : late[h] \in {Closed, OnceLate} => ~Listed(h)

\* Why.  Only hosts that are gone close, so that nobody answers the challenge
\* that the first late heartbeat causes, and no refresh is under way.
ClosersAreDown ==
    \A h \in Host :
        Message("heartbeat", h, Closing) \in net \/ late[h] # Never => host[h].life = "down"

ClosedIsQuiet ==
    \A h \in Host : late[h] \in {Closed, OnceLate} =>
        /\ \A p \in pending : p.host # h
        /\ Message("answer", h, sessions[h].challenge) \notin net
        /\ late[h] = Closed => ~sessions[h].sent

IInv == TypeOK /\ ClosedStaysClosed /\ ClosersAreDown /\ ClosedIsQuiet

\* What a session put on the list is what its last heartbeat said, or what the
\* one said that its challenge was sent for, which the answer lists again even
\* if newer heartbeats were listed before it, also where datagrams repeat.  Only
\* after a restart of QR may an older one stay: the answer to the challenge of a
\* session that is forgotten fails the new challenge, whose answer then lists the
\* server without a challenge sent, and the next heartbeat does not replace it.
ListedWasHeard ==
    \A h \in DOMAIN redis :
        sessions[h].named =>
            restarts > 0 \/ redis[h].data \in {heard[h], sessions[h].heart}

\* Whatever the page shows from its cache was on the list less than the life
\* of a key and an update ago.
PageIsRecent ==
    page.left > 0 => \A h \in page.shown : age[h] < KeyLife + PageLife

\* If the network repeats nothing for ever, a host that is gone goes from the
\* list for good, even if it never said so: the time to live of its key is
\* there "to prevent ghost artifacts".
TheDeadLeave ==
    \A h \in Host : ~repeats /\ host[h].life = "down" ~> [](~Listed(h))

\* A reader misses a server that was listed, was not taken off and has not
\* expired, only between the DEL and the SET of its refresh, a gap that the code
\* does not close ("atomic eviction safety", says update_server_list of the
\* backend): no failed challenge, repeated answer or restart hides one longer.
OnlyRefreshesHide ==
    \A h \in Host : Current(h) => Listed(h) \/ \E p \in pending : p.host = h

\* A host that stays up and whose data stays the same is listed with it again
\* and again, whatever challenges are lost and answers late, if the network does
\* not repeat and QR does not restart.  Otherwise every answer may reach QR just
\* after its challenge was replaced, which fails the new one, and so on for ever.
\* This is what Heartbeat and Challenge are for; as the code stands, it compares a
\* byte with a text, handles neither, and lists nobody (TextPackets is FALSE).
HostsGetListed ==
    \A h \in Host : \A d \in Data :
        ~repeats /\ host[h] = [life |-> "up", data |-> d] ~>
            \/ restarts > 0 \/ host[h] # [life |-> "up", data |-> d]
            \/ Listed(h) /\ redis[h].data = d
=============================================================================
