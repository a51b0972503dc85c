-------------------------- MODULE ServerListProofs --------------------------
(***************************************************************************)
(* Proofs about the list of game servers, for every set of hosts, every    *)
(* number of versions and challenges, and all lives of keys and page.      *)
(***************************************************************************)
EXTENDS ServerList, TLAPS

(***************************************************************************)
(* A datagram is known by its type, host and value.                        *)
(***************************************************************************)
LEMMA MessageInjective ==
    ASSUME NEW t, NEW h, NEW v, NEW u, NEW g, NEW w, Message(t, h, v) = Message(u, g, w)
    PROVE  t = u /\ h = g /\ v = w
BY DEF Message

(***************************************************************************)
(* What hosts and QR send are datagrams.                                   *)
(***************************************************************************)
LEMMA MessageTypes ==
    ASSUME NEW h \in Host
    PROVE  /\ \A d \in Data \union {Closing} : Message("heartbeat", h, d) \in Datagram
           /\ \A c \in Challenge : /\ Message("challenge", h, c) \in Datagram
                                   /\ Message("answer", h, c) \in Datagram
BY DEF Message, Datagram

(***************************************************************************)
(* A heartbeat adds nothing to the datagrams but perhaps a challenge.      *)
(***************************************************************************)
LEMMA HeartbeatNet ==
    ASSUME NEW h \in Host, NEW d \in Data \union {Closing}, HandleHeartbeat(h, d)
    PROVE  \/ net' \subseteq net
           \/ \E c \in FreshChallenges(h) :
                 net' \subseteq net \union {Message("challenge", h, c)}
<1>1. Received(Message("heartbeat", h, d)) \subseteq net
  BY DEF Received
<1>2. CASE ListHeartbeat(h, d)
  BY <1>1, <1>2 DEF ListHeartbeat
<1>3. CASE ChallengeHeartbeat(h, d)
  <2>1. PICK c \in FreshChallenges(h) :
           net' = Received(Message("heartbeat", h, d)) \union {Message("challenge", h, c)}
    BY <1>3 DEF ChallengeHeartbeat
  <2> QED BY <1>1, <2>1
<1> QED BY <1>2, <1>3 DEF HandleHeartbeat

(***************************************************************************)
(* The conjuncts of TypeOK about the list in Redis and its refresh.        *)
(***************************************************************************)
ListOK ==
    /\ DOMAIN redis \subseteq Host
    /\ \A h \in DOMAIN redis : redis[h] \in [data : Data, left : 1 .. KeyLife]
    /\ pending \in SUBSET [host : Host, data : Data]
    /\ \A p, q \in pending : p = q
    /\ \A p \in pending : ~Listed(p.host)

(***************************************************************************)
(* A session stays one when a flag is set.                                 *)
(***************************************************************************)
LEMMA SessionTypes ==
    ASSUME NEW s \in SessionType
    PROVE  /\ [s EXCEPT !.sent = FALSE] \in SessionType
           /\ [s EXCEPT !.named = TRUE] \in SessionType
BY DEF SessionType

(***************************************************************************)
(* What update_server_list does keeps the types.                           *)
(***************************************************************************)
LEMMA UpdateTypes ==
    ASSUME TypeOK, Idle, NEW h \in Host, NEW d \in Data \union {Closing},
           UpdateServerList(h, d)
    PROVE  ListOK' /\ sessions' \in [Host -> SessionType] /\ struck' \subseteq Host
<1>1. /\ DOMAIN redis' = DOMAIN redis \ {h}
      /\ \A g \in DOMAIN redis' : redis'[g] = redis[g]
  BY DEF UpdateServerList, Without
<1>2. CASE d = Closing
  <2>1. NewSession \in SessionType
    BY DEF NewSession, SessionType
  <2> QED BY <1>1, <1>2, <2>1 DEF UpdateServerList, TypeOK, ListOK, Idle
<1>3. CASE d # Closing
  BY <1>1, <1>3 DEF UpdateServerList, TypeOK, ListOK, Listed
<1> QED BY <1>2, <1>3

(***************************************************************************)
(* So does a deletion from the list.                                       *)
(***************************************************************************)
LEMMA DeletionTypes ==
    ASSUME TypeOK, NEW h \in Host, redis' = Without(redis, h), pending' = pending
    PROVE  ListOK'
<1>1. /\ DOMAIN redis' = DOMAIN redis \ {h}
      /\ \A g \in DOMAIN redis' : redis'[g] = redis[g]
  BY DEF Without
<1> QED BY <1>1 DEF TypeOK, ListOK, Listed

(***************************************************************************)
(* Every step preserves the type invariant.                                *)
(***************************************************************************)
LEMMA TypeStep == TypeOK /\ [Next]_vars => TypeOK'
<1> SUFFICES ASSUME TypeOK, [Next]_vars PROVE TypeOK'
  OBVIOUS
<1>. USE BoundAssumption
<1>1. ASSUME NEW h \in Host, Open(h) \/ Beat(h) \/ Change(h) \/ Close(h) \/ Vanish(h)
      PROVE  TypeOK'
  <2>1. host[h].data \in Data /\ (host[h].data < MaxData => host[h].data + 1 \in Data)
    BY DEF TypeOK, Data
  <2>2. host' \in [Host -> [life : {"off", "up", "down"}, data : Data]]
    BY <1>1, <2>1 DEF TypeOK, Open, Beat, Change, Close, Vanish
  <2>3. net' \subseteq Datagram
    BY <1>1, <2>1, MessageTypes DEF TypeOK, Open, Beat, Change, Close, Vanish, Send
  <2>4. UNCHANGED <<server, page, repeats, history>>
    BY <1>1 DEF Open, Beat, Change, Close, Vanish, Send
  <2> QED BY <2>2, <2>3, <2>4 DEF TypeOK, server, history, Listed
<1>2. ASSUME NEW d \in net, AnswerChallenge(d) \/ Lose(d) PROVE TypeOK'
  <2>1. net' \subseteq Datagram
    BY <1>2 DEF TypeOK, AnswerChallenge, Lose, Received, Message, Datagram
  <2> QED BY <1>2, <2>1 DEF TypeOK, AnswerChallenge, Lose, server, history, Listed
<1>3. ASSUME NEW h \in Host, NEW d \in Data \union {Closing}, HandleHeartbeat(h, d)
      PROVE  TypeOK'
  <2>1. ListOK' /\ sessions' \in [Host -> SessionType] /\ struck' \subseteq Host
    <3>1. CASE ListHeartbeat(h, d)
      BY <1>3, <3>1, UpdateTypes DEF HandleHeartbeat, ListHeartbeat
    <3>2. CASE ChallengeHeartbeat(h, d)
      BY <3>2 DEF ChallengeHeartbeat, FreshChallenges, TypeOK, ListOK, Listed, SessionType
    <3> QED BY <1>3, <3>1, <3>2 DEF HandleHeartbeat
  <2>2. net' \subseteq Datagram
    BY <1>3, HeartbeatNet, MessageTypes DEF TypeOK, FreshChallenges
  <2>3. late' \in [Host -> Never .. TwiceLate]
    BY <1>3 DEF HandleHeartbeat, TypeOK, Never, Closed, OnceLate, TwiceLate
  <2>4. heard' \in [Host -> Data \union {Nothing, Closing}]
    BY <1>3 DEF HandleHeartbeat, TypeOK
  <2> QED BY <1>3, <2>1, <2>2, <2>3, <2>4 DEF HandleHeartbeat, TypeOK, ListOK
<1>4. ASSUME NEW h \in Host, NEW c \in Challenge, HandleAnswer(h, c) PROVE TypeOK'
  <2>1. ListOK' /\ sessions' \in [Host -> SessionType] /\ struck' \subseteq Host
    <3>1. CASE PassChallenge(h) /\ sessions[h].heart # Nothing
      <4>1. sessions[h].heart \in Data \union {Closing}
        BY <3>1 DEF TypeOK, SessionType
      <4> QED BY <1>4, <3>1, <4>1, UpdateTypes DEF PassChallenge, HandleAnswer
    <3>2. CASE PassChallenge(h) /\ sessions[h].heart = Nothing
      BY <3>2 DEF PassChallenge, TypeOK, ListOK, Listed
    <3>3. CASE FailChallenge(h)
      <4>1. ListOK'
        <5>1. CASE redis' = redis
          BY <3>3, <5>1 DEF FailChallenge, TypeOK, ListOK, Listed
        <5>2. CASE redis' = Without(redis, h)
          BY <3>3, <5>2, DeletionTypes DEF FailChallenge
        <5> QED BY <3>3, <5>1, <5>2 DEF FailChallenge
      <4>2. sessions' \in [Host -> SessionType]
        <5>1. [sessions[h] EXCEPT !.sent = FALSE] \in SessionType
          BY SessionTypes DEF TypeOK
        <5> QED BY <3>3, <5>1 DEF FailChallenge, TypeOK
      <4> QED BY <3>3, <4>1, <4>2 DEF FailChallenge, TypeOK
    <3> QED BY <1>4, <3>1, <3>2, <3>3 DEF HandleAnswer
  <2> QED BY <1>4, <2>1 DEF HandleAnswer, Received, TypeOK, ListOK
<1>5. ASSUME NEW p \in pending, Upsert(p) PROVE TypeOK'
  <2>1. p.host \in Host /\ p.data \in Data
    BY DEF TypeOK
  <2>2. /\ DOMAIN redis' = DOMAIN redis \union {p.host}
        /\ \A h \in DOMAIN redis' : redis'[h] =
              IF h = p.host THEN [data |-> p.data, left |-> KeyLife] ELSE redis[h]
    BY <1>5 DEF Upsert
  <2>3. ListOK'
    BY <1>5, <2>1, <2>2 DEF Upsert, TypeOK, ListOK, Listed
  <2>4. sessions' \in [Host -> SessionType]
    <3>1. [sessions[p.host] EXCEPT !.named = TRUE] \in SessionType
      BY <2>1, SessionTypes DEF TypeOK
    <3> QED BY <1>5, <2>1, <3>1 DEF Upsert, TypeOK
  <2>5. age' \in [Host -> 0 .. MaxAge] /\ struck' \subseteq Host
    BY <1>5, <2>1 DEF Upsert, TypeOK, MaxAge
  <2> QED BY <1>5, <2>3, <2>4, <2>5 DEF Upsert, TypeOK, ListOK
<1>6. CASE Restart
  <2>1. NewSession \in SessionType
    BY DEF NewSession, SessionType
  <2> QED BY <1>6, <2>1 DEF Restart, TypeOK, history, Listed
<1>7. CASE Tick
  <2>1. /\ DOMAIN redis' \subseteq DOMAIN redis
        /\ \A h \in DOMAIN redis' : redis'[h] \in [data : Data, left : 1 .. KeyLife]
    <3>1. /\ DOMAIN redis' = {g \in DOMAIN redis : redis[g].left > 1}
          /\ \A h \in DOMAIN redis' : redis'[h] = [redis[h] EXCEPT !.left = @ - 1]
      BY <1>7 DEF Tick, Expire
    <3>2. ASSUME NEW h \in DOMAIN redis, redis[h].left > 1
          PROVE  [redis[h] EXCEPT !.left = @ - 1] \in [data : Data, left : 1 .. KeyLife]
      BY <3>2 DEF TypeOK
    <3> QED BY <3>1, <3>2
  <2>2. age' \in [Host -> 0 .. MaxAge]
    BY <1>7 DEF Tick, TypeOK, MaxAge
  <2>3. page' \in [shown : SUBSET Host, left : 0 .. PageLife]
    BY <1>7 DEF Tick, TypeOK
  <2> QED BY <1>7, <2>1, <2>2, <2>3 DEF Tick, TypeOK, Listed
<1>8. CASE UpdatePage
  BY <1>8 DEF UpdatePage, Found, TypeOK, server, history, Listed
<1>9. CASE UNCHANGED vars
  BY <1>9 DEF vars, server, history, TypeOK, Listed
<1> QED BY <1>1, <1>2, <1>3, <1>4, <1>5, <1>6, <1>7, <1>8, <1>9 DEF Next, Consoles, QRServer

(***************************************************************************)
(* The four invariants hold at the start: nothing was sent or listed.      *)
(***************************************************************************)
LEMMA InitIInv == Init => IInv
<1> SUFFICES ASSUME Init PROVE IInv
  OBVIOUS
<1>. USE BoundAssumption
<1>1. NewSession \in SessionType
  BY DEF NewSession, SessionType
<1>2. /\ DOMAIN redis = {}
      /\ sessions \in [Host -> SessionType]
      /\ host \in [Host -> [life : {"off", "up", "down"}, data : Data]]
  BY <1>1 DEF Init, Data
<1>3. heard \in [Host -> Data \union {Nothing, Closing}]
  BY DEF Init
<1>4. age \in [Host -> 0 .. MaxAge] /\ late \in [Host -> Never .. TwiceLate]
  BY DEF Init, MaxAge, Never, TwiceLate
<1>5. page \in [shown : SUBSET Host, left : 0 .. PageLife] /\ restarts \in 0 .. MaxRestarts
  BY DEF Init
<1>6. TypeOK
  BY <1>2, <1>3, <1>4, <1>5 DEF TypeOK, Init
<1>7. \A h \in Host : late[h] = Never
  BY DEF Init
<1>8. ClosedStaysClosed /\ ClosersAreDown /\ ClosedIsQuiet
  BY <1>7 DEF Init, ClosedStaysClosed, ClosersAreDown, ClosedIsQuiet, Never, Closed, OnceLate
<1> QED BY <1>6, <1>8 DEF IInv

(***************************************************************************)
(* Whoever has closed is gone: only Close sends the closing heartbeat, and *)
(* only the handling of one sets late.                                     *)
(***************************************************************************)
LEMMA DownStep == IInv /\ [Next]_vars => ClosersAreDown'
<1> SUFFICES ASSUME IInv, [Next]_vars, NEW h \in Host,
                    Message("heartbeat", h, Closing) \in net' \/ late'[h] # Never
             PROVE  host'[h].life = "down"
  BY DEF ClosersAreDown
<1>. USE BoundAssumption
<1>1. ASSUME Message("heartbeat", h, Closing) \in net \/ late[h] # Never,
             UNCHANGED host
      PROVE  host'[h].life = "down"
  BY <1>1 DEF IInv, ClosersAreDown
<1>2. host[h].data # Closing /\ \A g \in Host : host[g].data \in Data
  BY DEF IInv, TypeOK, Data, Closing
<1>3. ASSUME NEW g \in Host, Open(g) \/ Change(g) PROVE host'[h].life = "down"
  <2>1. host[g].data # Closing /\ (host[g].data < MaxData => host[g].data + 1 # Closing)
    BY <1>2 DEF Data, Closing
  <2>2. Message("heartbeat", h, Closing) \in net \/ late[h] # Never
    BY <1>3, <2>1, MessageInjective DEF Open, Change, Send, history
  <2>3. host[h].life = "down"
    BY <2>2 DEF IInv, ClosersAreDown
  <2> QED BY <1>3, <2>3 DEF Open, Change, IInv, TypeOK
<1>4. ASSUME NEW g \in Host, Beat(g) PROVE host'[h].life = "down"
  <2>1. host[g].data # Closing
    BY <1>2 DEF Data, Closing
  <2> QED BY <1>1, <1>4, <2>1, MessageInjective DEF Beat, Send, history
<1>5. ASSUME NEW g \in Host, Close(g) \/ Vanish(g) PROVE host'[h].life = "down"
  <2>1. CASE g = h
    BY <1>5, <2>1 DEF Close, Vanish, IInv, TypeOK
  <2>2. CASE g # h
    <3>1. Message("heartbeat", h, Closing) \in net \/ late[h] # Never
      BY <1>5, <2>2, MessageInjective DEF Close, Vanish, Send, history
    <3> QED BY <1>5, <2>2, <3>1 DEF Close, Vanish, IInv, ClosersAreDown, TypeOK
  <2> QED BY <2>1, <2>2
<1>6. ASSUME NEW d \in net, AnswerChallenge(d) \/ Lose(d) PROVE host'[h].life = "down"
  BY <1>1, <1>6, MessageInjective DEF AnswerChallenge, Lose, Received, history, Message
<1>7. ASSUME NEW g \in Host, NEW d \in Data \union {Closing}, HandleHeartbeat(g, d)
      PROVE  host'[h].life = "down"
  <2>1. Message("heartbeat", h, Closing) \in net' => Message("heartbeat", h, Closing) \in net
    BY <1>7, HeartbeatNet, MessageInjective
  <2>2. late'[h] # Never => late[h] # Never \/ Message("heartbeat", h, Closing) \in net
    BY <1>7 DEF HandleHeartbeat, IInv, TypeOK, Never, Closed, OnceLate
  <2> QED BY <1>1, <1>7, <2>1, <2>2 DEF HandleHeartbeat
<1>8. ASSUME NEW g \in Host, NEW c \in Challenge, HandleAnswer(g, c)
      PROVE  host'[h].life = "down"
  BY <1>1, <1>8 DEF HandleAnswer, Received
<1>9. ASSUME NEW p \in pending, Upsert(p) PROVE host'[h].life = "down"
  BY <1>1, <1>9 DEF Upsert
<1>10. CASE Restart \/ Tick \/ UpdatePage \/ UNCHANGED vars
  BY <1>1, <1>10 DEF Restart, Tick, UpdatePage, vars, history
<1> QED BY <1>3, <1>4, <1>5, <1>6, <1>7, <1>8, <1>9, <1>10 DEF Next, Consoles, QRServer

(***************************************************************************)
(* A closed server stays off the list, and quiet, until two heartbeats     *)
(* have come.                                                              *)
(***************************************************************************)
LEMMA QuietStep == IInv /\ [Next]_vars => ClosedStaysClosed' /\ ClosedIsQuiet'
<1> SUFFICES ASSUME IInv, [Next]_vars, NEW h \in Host, late'[h] \in {Closed, OnceLate}
             PROVE  /\ ~Listed(h)'
                    /\ \A p \in pending' : p.host # h
                    /\ Message("answer", h, sessions'[h].challenge) \notin net'
                    /\ late'[h] = Closed => ~sessions'[h].sent
  BY DEF ClosedStaysClosed, ClosedIsQuiet
<1>. USE BoundAssumption
<1>. DEFINE Quiet == /\ ~Listed(h)
                     /\ \A p \in pending : p.host # h
                     /\ Message("answer", h, sessions[h].challenge) \notin net
                     /\ late[h] = Closed => ~sessions[h].sent
<1>1. late[h] \in {Closed, OnceLate} => Quiet /\ host[h].life = "down"
  BY DEF IInv, ClosedStaysClosed, ClosedIsQuiet, ClosersAreDown, Never, Closed, OnceLate
<1>2. Message("answer", h, Nothing) \notin net
  BY DEF IInv, TypeOK, Datagram, Message, Nothing
<1>3. ASSUME late'[h] = late[h], Listed(h)' => Listed(h),
             \A p \in pending' : p.host = h => p \in pending,
             sessions'[h].challenge = sessions[h].challenge,
             sessions'[h].sent => sessions[h].sent,
             \A c : Message("answer", h, c) \in net' => Message("answer", h, c) \in net
      PROVE  Quiet'
  BY <1>1, <1>3
<1>4. ASSUME UNCHANGED <<sessions, redis, pending, late>>,
             \A c : Message("answer", h, c) \in net' => Message("answer", h, c) \in net
      PROVE  Quiet'
  BY <1>3, <1>4 DEF Listed
<1>5. ASSUME NEW g \in Host, Open(g) \/ Beat(g) \/ Change(g) \/ Close(g) \/ Vanish(g)
      PROVE  Quiet'
  <2>1. \A c : Message("answer", h, c) \in net' => Message("answer", h, c) \in net
    BY <1>5, MessageInjective DEF Open, Beat, Change, Close, Vanish, Send
  <2> QED BY <1>4, <1>5, <2>1 DEF Open, Beat, Change, Close, Vanish, Send, server, history
<1>6. ASSUME NEW d \in net, AnswerChallenge(d) PROVE Quiet'
  <2>1. UNCHANGED <<sessions, redis, pending, late, host>>
    BY <1>6 DEF AnswerChallenge, server, history
  <2>2. d.host # h
    BY <1>1, <1>6, <2>1 DEF AnswerChallenge
  <2>3. \A c : Message("answer", h, c) \in net' => Message("answer", h, c) \in net
    BY <1>6, <2>2, MessageInjective DEF AnswerChallenge, Received
  <2> QED BY <1>4, <2>1, <2>3
<1>7. ASSUME NEW d \in net, Lose(d) PROVE Quiet'
  BY <1>4, <1>7 DEF Lose, server, history
<1>8. ASSUME NEW g \in Host, g # h, NEW d \in Data \union {Closing}, Idle,
             UpdateServerList(g, d), late'[h] = late[h],
             \A c : Message("answer", h, c) \in net' => Message("answer", h, c) \in net
      PROVE  Quiet'
  <2>1. sessions'[h] = sessions[h]
    BY <1>8 DEF UpdateServerList, IInv, TypeOK
  <2>2. Listed(h)' => Listed(h)
    BY <1>8 DEF UpdateServerList, Without, Listed
  <2>3. \A p \in pending' : p.host = h => p \in pending
    BY <1>8 DEF UpdateServerList
  <2> QED BY <1>3, <1>8, <2>1, <2>2, <2>3
<1>9. ASSUME NEW g \in Host, NEW d \in Data \union {Closing}, HandleHeartbeat(g, d)
      PROVE  Quiet'
  <2>1. \A c : Message("answer", h, c) \in net' => Message("answer", h, c) \in net
    BY <1>9, HeartbeatNet, MessageInjective
  <2>2. CASE g # h
    <3>1. late'[h] = late[h]
      BY <1>9, <2>2 DEF HandleHeartbeat, IInv, TypeOK
    <3>2. CASE ListHeartbeat(g, d)
      BY <1>8, <1>9, <2>1, <2>2, <3>1, <3>2 DEF HandleHeartbeat, ListHeartbeat
    <3>3. CASE ChallengeHeartbeat(g, d)
      <4>1. sessions'[h] = sessions[h] /\ UNCHANGED <<redis, pending>>
        BY <2>2, <3>3 DEF ChallengeHeartbeat, IInv, TypeOK
      <4> QED BY <1>3, <2>1, <3>1, <4>1 DEF Listed
    <3> QED BY <1>9, <3>2, <3>3 DEF HandleHeartbeat
  <2>3. CASE g = h /\ ListHeartbeat(g, d)
    <3>1. d = Closing
      BY <1>1, <1>9, <2>3 DEF HandleHeartbeat, ListHeartbeat, IInv, TypeOK, Closed, OnceLate
    <3>2. sessions'[h] = NewSession /\ ~Listed(h)' /\ pending' = {}
      BY <1>9, <2>3, <3>1 DEF HandleHeartbeat, ListHeartbeat, UpdateServerList, Without,
                              Listed, Idle, IInv, TypeOK
    <3> QED BY <1>2, <2>1, <3>2 DEF NewSession
  <2>4. CASE g = h /\ ChallengeHeartbeat(g, d)
    <3>1. late[h] = Closed /\ late'[h] = OnceLate
      <4>1. ~sessions[h].sent /\ late[h] \in 0 .. 3
        BY <2>4 DEF ChallengeHeartbeat, IInv, TypeOK, Never, TwiceLate
      <4>2. late'[h] = IF late[h] \in {Closed, OnceLate} THEN late[h] + 1 ELSE late[h]
        BY <1>9, <2>4, <4>1 DEF HandleHeartbeat, IInv, TypeOK
      <4> QED BY <4>1, <4>2 DEF Closed, OnceLate
    <3>2. PICK c \in FreshChallenges(h) : sessions'[h].challenge = c
      BY <2>4 DEF ChallengeHeartbeat, IInv, TypeOK, SessionType
    <3>3. Message("answer", h, c) \notin net'
      BY <2>1, <3>2 DEF FreshChallenges
    <3>4. UNCHANGED <<redis, pending>>
      BY <2>4 DEF ChallengeHeartbeat
    <3> QED BY <1>1, <3>1, <3>2, <3>3, <3>4 DEF Listed, Closed, OnceLate
  <2> QED BY <1>9, <2>2, <2>3, <2>4 DEF HandleHeartbeat
<1>10. ASSUME NEW g \in Host, NEW c \in Challenge, HandleAnswer(g, c) PROVE Quiet'
  <2>1. late' = late /\ \A v : Message("answer", h, v) \in net' => Message("answer", h, v) \in net
    BY <1>10 DEF HandleAnswer, Received
  <2>2. CASE g # h /\ PassChallenge(g)
    <3>1. CASE sessions[g].heart # Nothing
      <4>1. sessions[g].heart \in Data \union {Closing}
        BY <3>1 DEF IInv, TypeOK, SessionType
      <4> QED BY <1>8, <1>10, <2>1, <2>2, <3>1, <4>1 DEF PassChallenge, HandleAnswer
    <3>2. CASE sessions[g].heart = Nothing
      BY <1>4, <2>1, <2>2, <3>2 DEF PassChallenge
    <3> QED BY <3>1, <3>2
  <2>3. CASE g = h /\ PassChallenge(g) /\ sessions[h].challenge = c
    BY <1>1, <1>10, <2>1, <2>3 DEF HandleAnswer
  <2>4. CASE FailChallenge(g)
    <3>1. /\ sessions'[h].challenge = sessions[h].challenge
          /\ sessions'[h].sent => sessions[h].sent
      BY <2>4 DEF FailChallenge, IInv, TypeOK, SessionType
    <3>2. (Listed(h)' => Listed(h)) /\ pending' = pending
      BY <2>4 DEF FailChallenge, Without, Listed
    <3> QED BY <1>3, <2>1, <3>1, <3>2
  <2> QED BY <1>10, <2>2, <2>3, <2>4 DEF HandleAnswer
<1>11. ASSUME NEW p \in pending, Upsert(p) PROVE Quiet'
  <2>1. late' = late /\ net' = net /\ p.host # h /\ pending' = {}
    BY <1>1, <1>11 DEF Upsert
  <2>2. sessions'[h] = sessions[h]
    BY <1>11, <2>1 DEF Upsert, IInv, TypeOK
  <2>3. Listed(h)' => Listed(h)
    BY <1>11, <2>1 DEF Upsert, Listed
  <2> QED BY <1>3, <2>1, <2>2, <2>3
<1>12. CASE Restart
  <2>1. /\ sessions'[h] = NewSession /\ pending' = {}
        /\ UNCHANGED <<redis, net, late>>
    BY <1>12 DEF Restart, history
  <2> QED BY <1>1, <1>2, <2>1 DEF NewSession, Listed
<1>13. CASE Tick
  <2>1. UNCHANGED <<sessions, pending, net, late>> /\ (Listed(h)' => Listed(h))
    BY <1>13 DEF Tick, Expire, Listed
  <2> QED BY <1>3, <2>1
<1>14. CASE UpdatePage \/ UNCHANGED vars
  BY <1>4, <1>14 DEF UpdatePage, vars, server, history
<1> QED BY <1>5, <1>6, <1>7, <1>9, <1>10, <1>11, <1>12, <1>13, <1>14
     DEF Next, Consoles, QRServer

(***************************************************************************)
(* The inductive invariant.                                                *)
(***************************************************************************)
THEOREM Invariance == Spec => []IInv
<1>1. IInv /\ [Next]_vars => IInv'
  BY TypeStep, DownStep, QuietStep DEF IInv
<1> QED BY InitIInv, <1>1, PTL DEF Spec

(***************************************************************************)
(* Types are kept: in particular a key of Redis has a life left, and while *)
(* a refresh is between its DEL and its SET the key is not there.          *)
(***************************************************************************)
THEOREM TypeCorrect == Spec => []TypeOK
BY Invariance, PTL DEF IInv

(***************************************************************************)
(* A server that QR has closed is not listed again by a single late        *)
(* heartbeat, nor by answers, repetitions or a restart of QR.              *)
(***************************************************************************)
THEOREM ClosedServersStayClosed == Spec => []ClosedStaysClosed
BY Invariance, PTL DEF IInv

----------------------------------------------------------------------------
(***************************************************************************)
(* What the list says.                                                     *)
(***************************************************************************)

\* Challenge c of host h is on its way, or its answer is.
Asked(h, c) == Message("challenge", h, c) \in net \/ Message("answer", h, c) \in net

\* An answer that QR will find right is on its way.
Right(h) == Message("answer", h, sessions[h].challenge) \in net

(***************************************************************************)
(* Until QR restarts, a server is on the list, or on its way there, only   *)
(* after its session has sent a challenge, with the data of the session.   *)
(* A challenge that is not the one last sent is of a session that was      *)
(* closed, so that its answer, which fails the new challenge, finds a host *)
(* that is down and will never give the right one.                         *)
(***************************************************************************)
HeardOK(h) ==
    /\ Listed(h) => /\ sessions[h].sent /\ sessions[h].named
                    /\ redis[h].data \in {heard[h], sessions[h].heart}
    /\ \A p \in pending : p.host = h =>
          sessions[h].sent /\ p.data \in {heard[h], sessions[h].heart}
    /\ sessions[h].heart = Closing => host[h].life = "down"
    /\ \A c \in Challenge : Asked(h, c) /\ (c # sessions[h].challenge \/ ~sessions[h].sent) =>
          host[h].life = "down" /\ ~Right(h)

HeardInv == restarts > 0 \/ \A h \in Host : HeardOK(h)

(***************************************************************************)
(* Nothing was sent or listed at the start.                                *)
(***************************************************************************)
LEMMA InitHeard == Init => HeardInv
<1> SUFFICES ASSUME Init, NEW h \in Host PROVE HeardOK(h)
  BY DEF HeardInv
<1>1. ~Listed(h) /\ pending = {} /\ net = {}
  BY DEF Init, Listed
<1>2. sessions[h].heart # Closing
  BY BoundAssumption DEF Init, NewSession, Nothing, Closing
<1> QED BY <1>1, <1>2 DEF HeardOK, Asked

(***************************************************************************)
(* The part of a host that a step does not touch stays as it is.           *)
(***************************************************************************)
LEMMA HeardFrame ==
    ASSUME NEW h \in Host, HeardOK(h),
           heard'[h] = heard[h], sessions'[h] = sessions[h],
           Listed(h)' => Listed(h) /\ redis'[h].data = redis[h].data,
           \A p \in pending' : p.host = h => p \in pending,
           \A c : Message("challenge", h, c) \in net' => Message("challenge", h, c) \in net,
           \A c : Message("answer", h, c) \in net' => Message("answer", h, c) \in net,
           host[h].life = "down" => host'[h].life = "down"
    PROVE  HeardOK(h)'
BY DEF HeardOK, Asked, Right

(***************************************************************************)
(* Without a restart the list keeps what was heard.                        *)
(***************************************************************************)
LEMMA HeardStep == IInv /\ HeardInv /\ [Next]_vars => HeardInv'
<1> SUFFICES ASSUME IInv, HeardInv, [Next]_vars, ~(restarts' > 0), NEW h \in Host
             PROVE  HeardOK(h)'
  BY DEF HeardInv
<1>. USE BoundAssumption
<1>1. HeardOK(h) /\ restarts = 0 /\ restarts' = 0
  <2>1. restarts' = restarts \/ restarts' = restarts + 1
    <3>1. CASE Consoles
      BY <3>1 DEF Consoles, Open, Beat, Change, Close, Vanish, Send, AnswerChallenge, Lose,
                  server
    <3>2. CASE QRServer
      BY <3>2 DEF QRServer, HandleHeartbeat, HandleAnswer, Upsert
    <3>3. CASE Restart \/ Tick \/ UpdatePage \/ UNCHANGED vars
      BY <3>3 DEF Restart, Tick, UpdatePage, vars, server
    <3> QED BY <3>1, <3>2, <3>3 DEF Next
  <2>2. restarts \in Nat
    BY DEF IInv, TypeOK
  <2> QED BY <2>1, <2>2 DEF HeardInv
<1>2. ASSUME UNCHANGED <<heard, sessions, redis, pending>>,
             \A c : Message("challenge", h, c) \in net' => Message("challenge", h, c) \in net,
             \A c : Message("answer", h, c) \in net' => Message("answer", h, c) \in net,
             host[h].life = "down" => host'[h].life = "down"
      PROVE  HeardOK(h)'
  BY <1>1, <1>2, HeardFrame DEF Listed
<1>3. ASSUME NEW g \in Host, Open(g) \/ Beat(g) \/ Change(g) \/ Close(g) \/ Vanish(g)
      PROVE  HeardOK(h)'
  <2>1. /\ \A c : Message("challenge", h, c) \in net' => Message("challenge", h, c) \in net
        /\ \A c : Message("answer", h, c) \in net' => Message("answer", h, c) \in net
    BY <1>3, MessageInjective DEF Open, Beat, Change, Close, Vanish, Send
  <2>2. host[h].life = "down" => host'[h].life = "down"
    BY <1>3 DEF Open, Beat, Change, Close, Vanish, IInv, TypeOK
  <2> QED BY <1>2, <1>3, <2>1, <2>2
          DEF Open, Beat, Change, Close, Vanish, Send, server, history
<1>4. ASSUME NEW d \in net, AnswerChallenge(d) PROVE HeardOK(h)'
  <2>1. /\ UNCHANGED <<heard, sessions, redis, pending, host>>
        /\ d.type = "challenge" /\ d \in Datagram /\ host[d.host].life = "up"
        /\ net' \subseteq net \union {Message("answer", d.host, d.value)}
    BY <1>4 DEF AnswerChallenge, Received, server, history, IInv, TypeOK
  <2>2. d.host \in Host /\ d.value \in Challenge /\ d = Message("challenge", d.host, d.value)
    BY <2>1 DEF Datagram, Message
  <2>3. CASE d.host # h
    BY <1>2, <2>1, <2>3, MessageInjective
  <2>4. CASE d.host = h
    <3>1. \A c \in Challenge : Asked(h, c) => c = sessions[h].challenge /\ sessions[h].sent
      BY <1>1, <2>1, <2>4 DEF HeardOK
    <3>2. Asked(h, d.value)
      BY <2>2, <2>4 DEF Asked
    <3>3. \A c \in Challenge : Asked(h, c)' => Asked(h, c)
      BY <2>1, <2>4, <3>2, MessageInjective DEF Asked
    <3> QED BY <1>1, <2>1, <3>1, <3>3 DEF HeardOK, Listed
  <2> QED BY <2>3, <2>4
<1>5. ASSUME NEW d \in net, Lose(d) PROVE HeardOK(h)'
  BY <1>2, <1>5 DEF Lose, server, history
<1>6. ASSUME NEW g \in Host, g # h, NEW d \in Data \union {Closing}, Idle,
             UpdateServerList(g, d), heard'[h] = heard[h], UNCHANGED host,
             \A c : Message("challenge", h, c) \in net' => Message("challenge", h, c) \in net,
             \A c : Message("answer", h, c) \in net' => Message("answer", h, c) \in net
      PROVE  HeardOK(h)'
  <2>1. sessions'[h] = sessions[h]
    BY <1>6 DEF UpdateServerList, IInv, TypeOK
  <2>2. Listed(h)' => Listed(h) /\ redis'[h].data = redis[h].data
    BY <1>6 DEF UpdateServerList, Without, Listed
  <2>3. \A p \in pending' : p.host = h => p \in pending
    BY <1>6 DEF UpdateServerList
  <2> QED BY <1>1, <1>6, <2>1, <2>2, <2>3, HeardFrame
<1>7. ASSUME Idle, UpdateServerList(h, Closing), host[h].life = "down", UNCHANGED host,
             net' \subseteq net
      PROVE  HeardOK(h)'
  <2>1. sessions'[h] = NewSession /\ ~Listed(h)' /\ pending' = {}
    BY <1>7 DEF UpdateServerList, Without, Listed, Idle, IInv, TypeOK
  <2>2. ~Right(h)'
    BY <1>7, <2>1 DEF Right, NewSession, IInv, TypeOK, Datagram, Message, Nothing
  <2> QED BY <1>7, <2>1, <2>2 DEF HeardOK, NewSession
<1>8. ASSUME NEW d \in Data, Idle, UpdateServerList(h, d), sessions[h].sent,
             d \in {heard'[h], sessions[h].heart}, UNCHANGED host, net' \subseteq net
      PROVE  HeardOK(h)'
  <2>1. /\ sessions' = sessions /\ ~Listed(h)'
        /\ pending' = {[host |-> h, data |-> d]}
    BY <1>8 DEF UpdateServerList, Without, Listed, Data, Closing
  <2>2. (\A c : Asked(h, c)' => Asked(h, c)) /\ (Right(h)' => Right(h))
    BY <1>8, <2>1 DEF Asked, Right
  <2> QED BY <1>1, <1>8, <2>1, <2>2 DEF HeardOK
<1>9. ASSUME NEW g \in Host, NEW d \in Data \union {Closing}, HandleHeartbeat(g, d)
      PROVE  HeardOK(h)'
  <2>1. /\ Idle /\ UNCHANGED host /\ heard' = [heard EXCEPT ![g] = d]
        /\ Message("heartbeat", g, d) \in net
        /\ \A c : Message("answer", h, c) \in net' => Message("answer", h, c) \in net
    <3>1. \A c : Message("answer", h, c) \in net' => Message("answer", h, c) \in net
      BY <1>9, HeartbeatNet, MessageInjective
    <3> QED BY <1>9, <3>1 DEF HandleHeartbeat
  <2>2. CASE ListHeartbeat(g, d)
    <3>1. net' \subseteq net
      BY <2>2 DEF ListHeartbeat, Received
    <3>2. CASE g # h
      <4>1. heard'[h] = heard[h]
        BY <2>1, <3>2 DEF IInv, TypeOK
      <4> QED BY <1>6, <2>1, <2>2, <3>1, <3>2, <4>1 DEF ListHeartbeat
    <3>3. CASE g = h /\ d = Closing
      <4>1. host[h].life = "down"
        BY <2>1, <3>3 DEF IInv, ClosersAreDown
      <4> QED BY <1>7, <2>1, <2>2, <3>1, <3>3, <4>1 DEF ListHeartbeat
    <3>4. CASE g = h /\ d # Closing
      <4>1. heard'[h] = d
        BY <2>1, <3>4 DEF IInv, TypeOK
      <4> QED BY <1>8, <2>1, <2>2, <3>1, <3>4, <4>1 DEF ListHeartbeat
    <3> QED BY <3>2, <3>3, <3>4
  <2>3. CASE ChallengeHeartbeat(g, d)
    <3>1. PICK v \in FreshChallenges(g) :
             /\ sessions' = [sessions EXCEPT ![g].challenge = v, ![g].sent = TRUE,
                                               ![g].heart = d]
             /\ net' = Received(Message("heartbeat", g, d))
                       \union {Message("challenge", g, v)}
      BY <2>3 DEF ChallengeHeartbeat
    <3>2. ~sessions[g].sent /\ UNCHANGED <<redis, pending>>
      BY <2>3 DEF ChallengeHeartbeat
    <3>3. CASE g # h
      <4>1. heard'[h] = heard[h] /\ sessions'[h] = sessions[h]
        BY <2>1, <3>1, <3>3 DEF IInv, TypeOK
      <4>2. \A c : Message("challenge", h, c) \in net' => Message("challenge", h, c) \in net
        BY <3>1, <3>3, MessageInjective DEF Received
      <4> QED BY <1>1, <2>1, <3>2, <4>1, <4>2, HeardFrame DEF Listed
    <3>4. CASE g = h
      <4>1. ~Listed(h)' /\ pending' = {}
        BY <1>1, <2>1, <3>2, <3>4 DEF HeardOK, Listed, Idle
      <4>2. sessions'[h].challenge = v /\ sessions'[h].sent /\ sessions'[h].heart = d
        BY <3>1, <3>4 DEF IInv, TypeOK, SessionType
      <4>3. d = Closing => host'[h].life = "down"
        BY <2>1, <3>4 DEF IInv, ClosersAreDown
      <4>4. ~Right(h)'
        BY <2>1, <3>4, <4>2 DEF Right, FreshChallenges
      <4>5. ASSUME NEW c \in Challenge, Asked(h, c)', c # v PROVE host'[h].life = "down"
        <5>1. Asked(h, c)
          BY <2>1, <3>1, <3>4, <4>5, MessageInjective DEF Asked, Received
        <5> QED BY <1>1, <2>1, <3>2, <3>4, <5>1 DEF HeardOK
      <4> QED BY <4>1, <4>2, <4>3, <4>4, <4>5 DEF HeardOK
    <3> QED BY <3>3, <3>4
  <2> QED BY <1>9, <2>2, <2>3 DEF HandleHeartbeat
<1>10. ASSUME NEW g \in Host, NEW c \in Challenge, HandleAnswer(g, c) PROVE HeardOK(h)'
  <2>1. /\ Idle /\ UNCHANGED <<host, heard>> /\ net' \subseteq net
        /\ Message("answer", g, c) \in net
    BY <1>10 DEF HandleAnswer, Received
  <2>2. CASE PassChallenge(g) /\ sessions[g].heart = Nothing
    BY <1>2, <2>1, <2>2 DEF PassChallenge
  <2>3. CASE PassChallenge(g) /\ sessions[g].heart # Nothing /\ sessions[g].challenge = c
    <3>1. /\ UpdateServerList(g, sessions[g].heart)
          /\ sessions[g].heart \in Data \union {Closing}
      BY <2>3 DEF PassChallenge, IInv, TypeOK, SessionType
    <3>2. CASE g # h
      BY <1>6, <2>1, <3>1, <3>2
    <3>3. CASE g = h
      <4>1. sessions[h].sent
        BY <1>1, <2>1, <2>3, <3>3 DEF HeardOK, Asked, Right
      <4>2. CASE sessions[h].heart = Closing
        BY <1>1, <1>7, <2>1, <3>1, <3>3, <4>2 DEF HeardOK
      <4>3. CASE sessions[h].heart # Closing
        BY <1>8, <2>1, <3>1, <3>3, <4>1, <4>3
      <4> QED BY <4>2, <4>3
    <3> QED BY <3>2, <3>3
  <2>4. CASE FailChallenge(g) /\ sessions[g].challenge # c
    <3>1. /\ sessions' = [sessions EXCEPT ![g].sent = FALSE] /\ UNCHANGED pending
          /\ redis' = redis \/ redis' = Without(redis, g)
          /\ sessions[g].named => ~Listed(g)'
      BY <2>4 DEF FailChallenge, Without, Listed
    <3>2. Listed(h)' => Listed(h) /\ redis'[h].data = redis[h].data
      BY <3>1 DEF Without, Listed
    <3>3. CASE g # h
      <4>1. sessions'[h] = sessions[h]
        BY <3>1, <3>3 DEF IInv, TypeOK
      <4> QED BY <1>1, <2>1, <3>1, <3>2, <4>1, HeardFrame
    <3>4. CASE g = h
      <4>1. host[h].life = "down" /\ ~Right(h)
        BY <1>1, <2>1, <2>4, <3>4 DEF HeardOK, Asked
      <4>2. /\ sessions'[h].challenge = sessions[h].challenge
            /\ sessions'[h].heart = sessions[h].heart
        BY <3>1, <3>4 DEF IInv, TypeOK, SessionType
      <4>3. ~Listed(h)' /\ pending' = {}
        BY <1>1, <2>1, <3>1, <3>2, <3>4 DEF HeardOK, Idle
      <4> QED BY <2>1, <4>1, <4>2, <4>3 DEF HeardOK, Right
    <3> QED BY <3>3, <3>4
  <2> QED BY <1>10, <2>2, <2>3, <2>4 DEF HandleAnswer
<1>11. ASSUME NEW p \in pending, Upsert(p) PROVE HeardOK(h)'
  <2>1. /\ UNCHANGED <<host, heard, net>> /\ pending' = {} /\ p.host \in Host
        /\ sessions' = [sessions EXCEPT ![p.host].named = TRUE]
    BY <1>11 DEF Upsert, IInv, TypeOK
  <2>2. CASE p.host # h
    <3>1. sessions'[h] = sessions[h]
      BY <2>1, <2>2 DEF IInv, TypeOK
    <3>2. Listed(h)' => Listed(h) /\ redis'[h].data = redis[h].data
      BY <1>11, <2>2 DEF Upsert, Listed
    <3> QED BY <1>1, <2>1, <3>1, <3>2, HeardFrame
  <2>3. CASE p.host = h
    <3>1. /\ sessions'[h].challenge = sessions[h].challenge
          /\ sessions'[h].heart = sessions[h].heart
          /\ sessions'[h].sent = sessions[h].sent /\ sessions'[h].named
      BY <2>1, <2>3 DEF IInv, TypeOK, SessionType
    <3>2. redis'[h].data = p.data
      BY <1>11, <2>3 DEF Upsert
    <3>3. sessions[h].sent /\ p.data \in {heard[h], sessions[h].heart}
      BY <1>1, <2>3 DEF HeardOK
    <3> QED BY <1>1, <2>1, <3>1, <3>2, <3>3 DEF HeardOK, Asked, Right
  <2> QED BY <2>2, <2>3
<1>12. CASE Restart
  BY <1>1, <1>12 DEF Restart
<1>13. CASE Tick
  <2>1. UNCHANGED <<sessions, pending, net, host, heard>>
    BY <1>13 DEF Tick
  <2>2. Listed(h)' => Listed(h) /\ redis'[h].data = redis[h].data
    <3>1. Listed(h)' => Listed(h) /\ redis'[h] = [redis[h] EXCEPT !.left = @ - 1]
      BY <1>13 DEF Tick, Expire, Listed
    <3> QED BY <3>1 DEF IInv, TypeOK, Listed
  <2> QED BY <1>1, <2>1, <2>2, HeardFrame
<1>14. CASE UpdatePage \/ UNCHANGED vars
  BY <1>2, <1>14 DEF UpdatePage, vars, server, history
<1> QED BY <1>3, <1>4, <1>5, <1>9, <1>10, <1>11, <1>12, <1>13, <1>14
     DEF Next, Consoles, QRServer

(***************************************************************************)
(* Until a restart, what a session put on the list is what the host's last *)
(* heartbeat said, or what the one said that was kept for its challenge.   *)
(***************************************************************************)
THEOREM ListedWereHeard == Spec => []ListedWasHeard
<1>1. HeardInv /\ IInv => ListedWasHeard
  BY DEF HeardInv, HeardOK, IInv, TypeOK, ListedWasHeard, Listed
<1> QED BY InitHeard, HeardStep, Invariance, <1>1, PTL DEF Spec

----------------------------------------------------------------------------
(***************************************************************************)
(* How old the list and its copies are.                                    *)
(***************************************************************************)

\* A key has lived as long as it was listed, and the page is as old as its
\* copy.
AgeInv ==
    /\ \A h \in DOMAIN redis : age[h] + redis[h].left <= KeyLife
    /\ page.left > 0 => \A h \in page.shown : age[h] + page.left < MaxAge

(***************************************************************************)
(* Every step keeps the ages.                                              *)
(***************************************************************************)
LEMMA AgeStep == TypeOK /\ AgeInv /\ [Next]_vars => AgeInv'
<1> SUFFICES ASSUME TypeOK, AgeInv, [Next]_vars PROVE AgeInv'
  OBVIOUS
<1>. USE BoundAssumption
<1>1. ASSUME UNCHANGED <<age, page>>,
             \A h \in DOMAIN redis' : Listed(h) /\ redis'[h] = redis[h]
      PROVE  AgeInv'
  BY <1>1 DEF AgeInv, Listed
<1>2. CASE Consoles \/ UNCHANGED vars
  BY <1>1, <1>2 DEF Consoles, Open, Beat, Change, Close, Vanish, Send, AnswerChallenge, Lose,
                    vars, server, history, Listed
<1>3. ASSUME NEW h \in Host, NEW d \in Data \union {Closing}, HandleHeartbeat(h, d)
      PROVE  AgeInv'
  BY <1>1, <1>3 DEF HandleHeartbeat, ListHeartbeat, ChallengeHeartbeat, UpdateServerList,
                    Without, Listed
<1>4. ASSUME NEW h \in Host, NEW c \in Challenge, HandleAnswer(h, c) PROVE AgeInv'
  BY <1>1, <1>4 DEF HandleAnswer, PassChallenge, FailChallenge, UpdateServerList, Without, Listed
<1>5. ASSUME NEW p \in pending, Upsert(p) PROVE AgeInv'
  <2>1. p.host \in Host /\ page' = page /\ age' = [age EXCEPT ![p.host] = 0]
    BY <1>5 DEF Upsert, TypeOK
  <2>2. ASSUME NEW h \in Host
        PROVE  age'[h] \in Nat /\ age[h] \in Nat /\ age'[h] <= age[h]
    BY <2>1 DEF TypeOK, MaxAge
  <2>3. ASSUME NEW h \in DOMAIN redis' PROVE age'[h] + redis'[h].left <= KeyLife
    <3>1. CASE h = p.host
      BY <1>5, <2>1, <3>1 DEF Upsert, TypeOK, MaxAge
    <3>2. CASE h # p.host
      BY <1>5, <2>1, <3>2 DEF Upsert, TypeOK, AgeInv
    <3> QED BY <3>1, <3>2
  <2>4. ASSUME page.left > 0, NEW h \in page.shown PROVE age'[h] + page.left < MaxAge
    BY <2>2, <2>4 DEF TypeOK, AgeInv, MaxAge
  <2> QED BY <2>1, <2>3, <2>4 DEF AgeInv
<1>6. CASE Restart
  BY <1>1, <1>6 DEF Restart, history, Listed
<1>7. CASE Tick
  <2>1. ASSUME NEW h \in Host
        PROVE  age'[h] \in Nat /\ age[h] \in Nat /\ age'[h] <= age[h] + 1
    BY <1>7 DEF Tick, TypeOK, MaxAge
  <2>2. ASSUME NEW h \in DOMAIN redis' PROVE age'[h] + redis'[h].left <= KeyLife
    <3>1. /\ h \in DOMAIN redis /\ redis'[h].left = redis[h].left - 1
          /\ redis[h].left \in Nat /\ h \in Host
      BY <1>7 DEF Tick, Expire, TypeOK
    <3> QED BY <2>1, <3>1 DEF AgeInv
  <2>3. /\ page'.shown = page.shown
        /\ page.left \in Nat /\ page'.left \in Nat
        /\ page'.left > 0 => page'.left = page.left - 1
    BY <1>7 DEF Tick, TypeOK
  <2>4. ASSUME page'.left > 0, NEW h \in page'.shown PROVE age'[h] + page'.left < MaxAge
    <3>1. h \in Host /\ page.left > 0 /\ age[h] + page.left < MaxAge
      BY <2>3, <2>4 DEF TypeOK, AgeInv
    <3> QED BY <2>1, <2>3, <2>4, <3>1 DEF MaxAge
  <2> QED BY <2>2, <2>4 DEF AgeInv
<1>8. CASE UpdatePage
  <2>1. /\ UNCHANGED <<redis, age>> /\ page'.left = PageLife
        /\ page'.shown \subseteq DOMAIN redis
    BY <1>8 DEF UpdatePage, Found, server, history
  <2>2. ASSUME NEW h \in DOMAIN redis PROVE age[h] + PageLife < MaxAge
    <3>1. age[h] \in Nat /\ redis[h].left \in Nat \ {0} /\ age[h] + redis[h].left <= KeyLife
      BY DEF TypeOK, AgeInv, MaxAge
    <3> QED BY <3>1 DEF MaxAge
  <2> QED BY <2>1, <2>2 DEF AgeInv
<1> QED BY <1>2, <1>3, <1>4, <1>5, <1>6, <1>7, <1>8 DEF Next, QRServer

(***************************************************************************)
(* What the page shows was on the list less than the life of a key and an  *)
(* update of the page ago.                                                 *)
(***************************************************************************)
THEOREM PageShowsRecent == Spec => []PageIsRecent
<1>1. Init => AgeInv
  BY DEF Init, AgeInv
<1>2. TypeOK /\ AgeInv => PageIsRecent
  BY BoundAssumption DEF TypeOK, AgeInv, PageIsRecent, MaxAge
<1> QED BY <1>1, <1>2, AgeStep, TypeCorrect, PTL DEF Spec
----------------------------------------------------------------------------
(***************************************************************************)
(* A key does not expire before its life is over, and whatever else takes  *)
(* a server off the list is recorded.                                      *)
(***************************************************************************)
HideInv ==
    /\ \A h \in DOMAIN redis : age[h] + redis[h].left >= KeyLife
    /\ OnlyRefreshesHide

\* An update of the list hides its host behind its refresh, or strikes it off.
LEMMA UpdateHides ==
    ASSUME TypeOK, HideInv, NEW g \in Host, NEW d, Idle, UpdateServerList(g, d),
           age' = age
    PROVE  HideInv'
<1>1. /\ DOMAIN redis' = DOMAIN redis \ {g}
      /\ \A h \in DOMAIN redis' : redis'[h] = redis[h]
  BY DEF UpdateServerList, Without
<1>2. g \in struck' \/ \E p \in pending' : p.host = g
  <2>1. CASE d = Closing
    BY <2>1 DEF UpdateServerList
  <2>2. CASE d # Closing
    <3>1. [host |-> g, data |-> d] \in pending'
      BY <2>2 DEF UpdateServerList
    <3> QED BY <3>1
  <2> QED BY <2>1, <2>2
<1>3. struck \subseteq struck'
  BY DEF UpdateServerList
<1> QED BY <1>1, <1>2, <1>3 DEF HideInv, OnlyRefreshesHide, Current, Listed, Idle

LEMMA HideStep == TypeOK /\ HideInv /\ [Next]_vars => HideInv'
<1> SUFFICES ASSUME TypeOK, HideInv, [Next]_vars PROVE HideInv'
  OBVIOUS
<1>. USE BoundAssumption
<1>1. ASSUME UNCHANGED <<redis, age, struck, pending>> PROVE HideInv'
  BY <1>1 DEF HideInv, OnlyRefreshesHide, Current, Listed
<1>2. CASE Consoles \/ UpdatePage \/ UNCHANGED vars
  BY <1>1, <1>2 DEF Consoles, Open, Beat, Change, Close, Vanish, Send, AnswerChallenge, Lose,
                    UpdatePage, vars, server, history
<1>3. ASSUME NEW h \in Host, NEW d \in Data \union {Closing}, HandleHeartbeat(h, d)
      PROVE  HideInv'
  BY <1>1, <1>3, UpdateHides DEF HandleHeartbeat, ListHeartbeat, ChallengeHeartbeat
<1>4. ASSUME NEW h \in Host, NEW c \in Challenge, HandleAnswer(h, c) PROVE HideInv'
  <2>1. CASE PassChallenge(h)
    BY <1>1, <1>4, <2>1, UpdateHides DEF HandleAnswer, PassChallenge
  <2>2. CASE FailChallenge(h)
    BY <1>1, <1>4, <2>2 DEF HandleAnswer, FailChallenge, Without, HideInv, OnlyRefreshesHide,
                            Current, Listed
  <2> QED BY <1>4, <2>1, <2>2 DEF HandleAnswer
<1>5. ASSUME NEW p \in pending, Upsert(p) PROVE HideInv'
  <2>1. /\ p.host \in Host /\ age' = [age EXCEPT ![p.host] = 0] /\ struck' = struck \ {p.host}
        /\ DOMAIN redis' = DOMAIN redis \union {p.host} /\ pending' = {}
        /\ \A h \in DOMAIN redis \ {p.host} : redis'[h] = redis[h]
        /\ redis'[p.host].left = KeyLife
    BY <1>5 DEF Upsert, TypeOK
  <2>2. \A q \in pending : q = p
    BY DEF TypeOK
  <2>3. DOMAIN redis \subseteq Host /\ DOMAIN age = Host
    BY DEF TypeOK
  <2> QED BY <2>1, <2>2, <2>3 DEF HideInv, OnlyRefreshesHide, Current, Listed
<1>6. CASE Restart
  BY <1>6 DEF Restart, HideInv, OnlyRefreshesHide, Current, Listed
<1>7. CASE Tick
  <2>1. /\ \A h \in Host : age[h] \in Nat /\ age'[h] \in Nat
        /\ \A h \in Host : age'[h] >= age[h] /\ (age'[h] = age[h] + 1 \/ age'[h] = MaxAge)
    BY <1>7 DEF Tick, TypeOK, MaxAge
  <2>2. /\ DOMAIN redis' = {g \in DOMAIN redis : redis[g].left > 1}
        /\ \A h \in DOMAIN redis' : redis'[h].left = redis[h].left - 1
        /\ \A h \in DOMAIN redis : h \in Host /\ redis[h].left \in Nat
        /\ UNCHANGED <<struck, pending>>
    BY <1>7 DEF Tick, Expire, TypeOK
  <2>3. ASSUME NEW h \in DOMAIN redis' PROVE age'[h] + redis'[h].left >= KeyLife
    <3>1. h \in DOMAIN redis /\ age[h] + redis[h].left >= KeyLife
      BY <2>2 DEF HideInv
    <3> QED BY <2>1, <2>2, <3>1 DEF MaxAge
  <2>4. ASSUME NEW h \in Host, Current(h)', ~Listed(h)'
        PROVE  \E p \in pending' : p.host = h
    <3>1. age'[h] < KeyLife /\ h \notin struck
      BY <2>2, <2>4 DEF Current
    <3>2. Current(h)
      BY <2>1, <3>1 DEF Current
    <3>3. ~Listed(h)
      <4>1. ASSUME h \in DOMAIN redis PROVE FALSE
        <5>1. redis[h].left \in Nat /\ ~(redis[h].left > 1) /\ age[h] + redis[h].left >= KeyLife
          BY <2>2, <2>4, <4>1 DEF HideInv, Listed
        <5> QED BY <2>1, <3>1, <5>1 DEF MaxAge
      <4> QED BY <4>1 DEF Listed
    <3> QED BY <2>2, <3>2, <3>3 DEF HideInv, OnlyRefreshesHide
  <2> QED BY <2>3, <2>4 DEF HideInv, OnlyRefreshesHide
<1> QED BY <1>2, <1>3, <1>4, <1>5, <1>6, <1>7 DEF Next, QRServer

(***************************************************************************)
(* A reader misses a server that is current only in the middle of its      *)
(* refresh (OnlyRefreshesHide), for any hosts, lives and challenges,       *)
(* whatever is repeated or lost and however often QR restarts.             *)
(***************************************************************************)
THEOREM RefreshesAloneHide == Spec => []OnlyRefreshesHide
<1>1. Init => HideInv
  BY BoundAssumption DEF Init, HideInv, OnlyRefreshesHide, Current, Listed, MaxAge
<1>2. HideInv => OnlyRefreshesHide
  BY DEF HideInv
<1> QED BY <1>1, <1>2, HideStep, TypeCorrect, PTL DEF Spec
=============================================================================
