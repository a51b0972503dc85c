---------------------------- MODULE NatNegProofs ----------------------------
(***************************************************************************)
(* Proofs about the NAT-negotiation server, for every set of consoles,     *)
(* sessions, client ids, addresses and advertised game servers.            *)
(***************************************************************************)
EXTENDS NatNeg, TLAPS

(***************************************************************************)
(* What InitOf builds from a console is a well-formed INIT.                *)
(***************************************************************************)
LEMMA InitOfType ==
    ASSUME NEW k \in Console
    PROVE  InitOf(k) \in InitPkt
BY ConsoleAssumption DEF InitOf, InitPkt, ConsoleType

(***************************************************************************)
(* Whatever the resolver returned, the address that a console's entry is   *)
(* turned into is one of the places where that console may be found.       *)
(***************************************************************************)
LEMMA TargetIsPlace ==
    ASSUME NEW k \in Console, NEW e \in Entry, NEW port \in Resolve(k.ep),
           e.addr = k.ep, e.lport = k.lport
    PROVE  /\ Target(e, port) \in Addr
           /\ Target(e, port) \in PlacesOf(k)
<1>1. k.ep \in Addr /\ k.lport \in Port \cup {NoPort}
  BY ConsoleAssumption DEF ConsoleType
<1>2. k.ep = [ip |-> k.ep.ip, port |-> k.ep.port]
  BY <1>1 DEF Addr
<1>3. CASE port # NoPort
  <2>1. PICK r \in Advertised : r.ip = k.ep.ip /\ r.port = port
    BY <1>3 DEF Resolve
  <2>2. r \in Addr /\ r = [ip |-> r.ip, port |-> r.port]
    BY <2>1, AdvertisedAssumption DEF Addr
  <2>3. Target(e, port) = r
    BY <1>3, <2>1, <2>2 DEF Target
  <2> QED BY <2>1, <2>2, <2>3 DEF PlacesOf
<1>4. CASE port = NoPort /\ e.lport # NoPort
  BY <1>1, <1>4 DEF Target, PlacesOf, Addr
<1>5. CASE port = NoPort /\ e.lport = NoPort
  <2>1. Target(e, port) = k.ep
    BY <1>2, <1>5 DEF Target
  <2> QED BY <1>1, <2>1 DEF PlacesOf
<1> QED BY <1>3, <1>4, <1>5

(***************************************************************************)
(* An entry table is a function from some client ids to entries.           *)
(***************************************************************************)
LEMMA EntryTables ==
    /\ \A D \in SUBSET ClientId : \A T \in [D -> Entry] : T \in EntryTable
    /\ \A T \in EntryTable : DOMAIN T \subseteq ClientId /\ T \in [DOMAIN T -> Entry]
<1>1. ASSUME NEW D \in SUBSET ClientId, NEW T \in [D -> Entry]
      PROVE  T \in EntryTable
  BY <1>1, Zenon DEF EntryTable
<1>2. ASSUME NEW T \in EntryTable
      PROVE  DOMAIN T \subseteq ClientId /\ T \in [DOMAIN T -> Entry]
  <2>1. PICK D \in SUBSET ClientId : T \in [D -> Entry]
    BY <1>2, Zenon DEF EntryTable
  <2> QED BY <2>1
<1> QED BY <1>1, <1>2

(***************************************************************************)
(* The step of a whole INIT of console k, taken apart: the entry table,    *)
(* the clients that are registered and connected after it.                 *)
(***************************************************************************)
LEMMA HandleInitEffect ==
    ASSUME TypeOK, NEW p \in net, NEW k \in Console, p = InitOf(k), HandleInit(p)
    PROVE  /\ Refreshed(p) \in Entry
           /\ session_list' \in [Session -> EntryTable]
           /\ \A s \in Session : Registered(s)' =
                IF s = p.session THEN Registered(s) \cup {p.client} ELSE Registered(s)
           /\ \A s \in Session : Connected(s)' = Connected(s)
           /\ \A s \in Session : \A c \in Registered(s)' :
                session_list'[s][c] =
                   IF s = p.session /\ c = p.client THEN Refreshed(p)
                                                     ELSE session_list[s][c]
<1>. DEFINE s0 == p.session
            c0 == p.client
            T == [c \in Registered(s0) \cup {c0} |->
                    IF c = c0 THEN Refreshed(p) ELSE session_list[s0][c]]
<1>1. p \in InitPkt /\ s0 \in Session /\ c0 \in ClientId
  BY InitOfType DEF InitPkt
<1>2. Refreshed(p) \in Entry /\ Refreshed(p).connected = (c0 \in Connected(s0))
  BY <1>1 DEF Refreshed, Entry, InitPkt
<1>3. \A s \in Session : /\ Registered(s) \subseteq ClientId
                         /\ session_list[s] \in [Registered(s) -> Entry]
  BY EntryTables DEF TypeOK, Registered
<1>4. T \in [Registered(s0) \cup {c0} -> Entry]
  BY <1>1, <1>2, <1>3
<1>5. T \in EntryTable
  <2>1. Registered(s0) \cup {c0} \in SUBSET ClientId
    BY <1>1, <1>3
  <2> QED BY <1>4, <2>1, EntryTables, Zenon
<1>6. session_list' = [session_list EXCEPT ![s0] = T]
  BY DEF HandleInit
<1>7. session_list' \in [Session -> EntryTable]
  BY <1>5, <1>6 DEF TypeOK
<1>8. \A s \in Session : session_list'[s] = IF s = s0 THEN T ELSE session_list[s]
  BY <1>6 DEF TypeOK
<1>9. \A s \in Session : Registered(s)' =
         IF s = s0 THEN Registered(s) \cup {c0} ELSE Registered(s)
  BY <1>8 DEF Registered
<1>10. \A s \in Session : \A c \in Registered(s)' :
          session_list'[s][c] = IF s = s0 /\ c = c0 THEN Refreshed(p)
                                                    ELSE session_list[s][c]
  <2> SUFFICES ASSUME NEW s \in Session, NEW c \in Registered(s)'
               PROVE  session_list'[s][c] =
                         IF s = s0 /\ c = c0 THEN Refreshed(p) ELSE session_list[s][c]
    OBVIOUS
  <2>1. CASE s = s0
    <3>1. session_list'[s] = T /\ c \in Registered(s0) \cup {c0}
      BY <1>8, <1>9, <2>1
    <3> QED BY <2>1, <3>1
  <2>2. CASE s # s0
    BY <1>8, <2>2
  <2> QED BY <2>1, <2>2
<1>11. \A s \in Session : Connected(s)' = Connected(s)
  <2> SUFFICES ASSUME NEW s \in Session, NEW c
               PROVE  c \in Connected(s)' <=> c \in Connected(s)
    OBVIOUS
  <2>1. c \in Connected(s)' <=> c \in Registered(s)' /\ session_list'[s][c].connected
    BY DEF Connected
  <2>2. c \in Connected(s) <=> c \in Registered(s) /\ session_list[s][c].connected
    BY DEF Connected
  <2>3. CASE s = s0 /\ c = c0
    BY <1>1, <1>2, <1>9, <1>10, <2>1, <2>3
  <2>4. CASE ~(s = s0 /\ c = c0)
    BY <1>9, <1>10, <2>1, <2>2, <2>4
  <2> QED BY <2>3, <2>4
<1> QED BY <1>2, <1>7, <1>9, <1>10, <1>11

(***************************************************************************)
(* An acknowledgement adds its client to the connected ones and changes    *)
(* nothing else of any entry.                                              *)
(***************************************************************************)
LEMMA HandleConnectAckEffect ==
    ASSUME TypeOK, NEW p \in net, HandleConnectAck(p)
    PROVE  /\ p.session \in Session
           /\ session_list' \in [Session -> EntryTable]
           /\ \A s \in Session : Registered(s)' = Registered(s)
           /\ \A s \in Session : Connected(s)' =
                IF s = p.session THEN Connected(s) \cup {p.client} ELSE Connected(s)
           /\ \A s \in Session : \A c \in Registered(s) :
                /\ session_list'[s][c].addr = session_list[s][c].addr
                /\ session_list'[s][c].lport = session_list[s][c].lport
<1>. DEFINE s0 == p.session
            c0 == p.client
            F == [session_list[s0][c0] EXCEPT !.connected = TRUE]
            T == [session_list[s0] EXCEPT ![c0] = F]
<1>1. p \in ConnectAckPkt /\ s0 \in Session /\ c0 \in Registered(s0)
  BY DEF TypeOK, Datagram, InitPkt, InitAckPkt, ConnectPkt, ConnectAckPkt, HandleConnectAck
<1>2. \A s \in Session : /\ Registered(s) \subseteq ClientId
                         /\ session_list[s] \in [Registered(s) -> Entry]
  BY EntryTables DEF TypeOK, Registered
<1>3. /\ F \in Entry /\ F.connected = TRUE
      /\ F.addr = session_list[s0][c0].addr
      /\ F.lport = session_list[s0][c0].lport
  <2>1. session_list[s0][c0] \in Entry
    BY <1>1, <1>2
  <2> QED BY <2>1 DEF Entry
<1>3a. /\ T \in [Registered(s0) -> Entry]
       /\ T[c0] = F
       /\ \A c \in Registered(s0) : c # c0 => T[c] = session_list[s0][c]
  <2> HIDE DEF F
  <2> QED BY <1>1, <1>2, <1>3
<1>4. T \in EntryTable
  <2>1. Registered(s0) \in SUBSET ClientId
    BY <1>1, <1>2
  <2> QED BY <1>3a, <2>1, EntryTables, Zenon
<1>5. session_list' = [session_list EXCEPT ![s0] = T]
  BY DEF HandleConnectAck
<1>6. session_list' \in [Session -> EntryTable]
  BY <1>4, <1>5 DEF TypeOK
<1>7. \A s \in Session : session_list'[s] = IF s = s0 THEN T ELSE session_list[s]
  BY <1>5 DEF TypeOK
<1>8. \A s \in Session : Registered(s)' = Registered(s)
  <2> HIDE DEF T
  <2> QED BY <1>3a, <1>7 DEF Registered
<1>9. \A s \in Session : \A c \in Registered(s) :
         /\ session_list'[s][c].addr = session_list[s][c].addr
         /\ session_list'[s][c].lport = session_list[s][c].lport
         /\ session_list'[s][c].connected =
               (session_list[s][c].connected \/ (s = s0 /\ c = c0))
  <2> SUFFICES ASSUME NEW s \in Session, NEW c \in Registered(s)
               PROVE  /\ session_list'[s][c].addr = session_list[s][c].addr
                      /\ session_list'[s][c].lport = session_list[s][c].lport
                      /\ session_list'[s][c].connected =
                            (session_list[s][c].connected \/ (s = s0 /\ c = c0))
    OBVIOUS
  <2> HIDE DEF T, F
  <2>1. CASE s = s0 /\ c = c0
    <3>1. session_list'[s][c] = F
      BY <1>3a, <1>7, <2>1
    <3> QED BY <1>3, <2>1, <3>1
  <2>2. CASE ~(s = s0 /\ c = c0)
    <3>1. session_list'[s][c] = session_list[s][c]
      BY <1>3a, <1>7, <2>2
    <3>2. session_list[s][c].connected \in BOOLEAN
      BY <1>2 DEF Entry
    <3> QED BY <2>2, <3>1, <3>2
  <2> QED BY <2>1, <2>2
<1>10. \A s \in Session : Connected(s)' =
          IF s = s0 THEN Connected(s) \cup {c0} ELSE Connected(s)
  <2> SUFFICES ASSUME NEW s \in Session, NEW c
               PROVE  c \in Connected(s)' <=>
                         c \in Connected(s) \/ (s = s0 /\ c = c0)
    OBVIOUS
  <2>1. c \in Connected(s)' <=> c \in Registered(s)' /\ session_list'[s][c].connected
    BY DEF Connected
  <2>2. c \in Connected(s) <=> c \in Registered(s) /\ session_list[s][c].connected
    BY DEF Connected
  <2>3. CASE c \in Registered(s)
    <3>1. c \in Registered(s)'
      BY <1>8, <2>3
    <3>2. session_list'[s][c].connected <=>
             session_list[s][c].connected \/ (s = s0 /\ c = c0)
      BY <1>9, <2>3
    <3> QED BY <2>1, <2>2, <2>3, <3>1, <3>2
  <2>4. CASE c \notin Registered(s)
    BY <1>1, <1>8, <2>1, <2>2, <2>4
  <2> QED BY <2>3, <2>4
<1> QED BY <1>1, <1>6, <1>8, <1>9, <1>10

(***************************************************************************)
(* Datagram m tells one of client c and client d of session s a place of   *)
(* the other.                                                              *)
(***************************************************************************)
Tells(m, s, c, d) ==
    /\ m \in ConnectPkt
    /\ m.session = s
    /\ \E a, b \in Console :
         /\ a.session = s /\ b.session = s
         /\ \/ a.client = c /\ b.client = d
            \/ a.client = d /\ b.client = c
         /\ m.to = a.ep
         /\ m.peer \in PlacesOf(b)

(***************************************************************************)
(* Both CONNECTs of an introduction go to a console of the session and     *)
(* name a place of the other one.                                          *)
(***************************************************************************)
LEMMA IntroduceAuthentic ==
    ASSUME TypeOK, EntriesReal, NEW p \in net, NEW k \in Console, p = InitOf(k),
           NEW d \in OpenPeers(p),
           NEW peerport \in Resolve(session_list[p.session][d].addr),
           NEW ownport \in Resolve(p.from),
           NEW m \in Introduce(p, d, peerport, ownport)
    PROVE  Tells(m, p.session, p.client, d)
<1>. DEFINE s0 == p.session
            peer == session_list[s0][d]
            own == Refreshed(p)
<1>1. /\ p \in InitPkt /\ s0 \in Session /\ p.from = k.ep
      /\ k.session = s0 /\ k.client = p.client /\ p.lport = k.lport
  BY InitOfType DEF InitPkt, InitOf
<1>2. d \in Registered(s0)
  BY DEF OpenPeers
<1>3. PICK q \in Console : /\ q.session = s0 /\ q.client = d
                          /\ peer.addr = q.ep /\ peer.lport = q.lport
  BY <1>1, <1>2 DEF EntriesReal
<1>4. peer \in Entry /\ own \in Entry
  <2>1. session_list[s0] \in [Registered(s0) -> Entry]
    BY <1>1, EntryTables DEF TypeOK, Registered
  <2>2. own \in Entry
    BY <1>1 DEF Refreshed, Entry, InitPkt
  <2> QED BY <1>2, <2>1, <2>2
<1>5. Target(peer, peerport) \in Addr /\ Target(peer, peerport) \in PlacesOf(q)
  BY <1>3, <1>4, TargetIsPlace
<1>6. Target(own, ownport) \in Addr /\ Target(own, ownport) \in PlacesOf(k)
  <2>1. own.addr = k.ep /\ own.lport = k.lport
    BY <1>1 DEF Refreshed
  <2> QED BY <1>1, <1>4, <2>1, TargetIsPlace
<1>7. k.ep \in Addr /\ q.ep \in Addr
  BY <1>1, <1>3, ConsoleAssumption DEF ConsoleType
<1>8. CASE m = [op |-> "CONNECT", to |-> p.from, session |-> s0,
               peer |-> Target(peer, peerport)]
  <2>1. m \in ConnectPkt /\ m.session = s0 /\ m.to = k.ep /\ m.peer \in PlacesOf(q)
    BY <1>1, <1>5, <1>7, <1>8 DEF ConnectPkt
  <2> QED BY <1>1, <1>3, <2>1 DEF Tells
<1>9. CASE m = [op |-> "CONNECT", to |-> peer.addr, session |-> s0,
               peer |-> Target(own, ownport)]
  <2>1. m \in ConnectPkt /\ m.session = s0 /\ m.to = q.ep /\ m.peer \in PlacesOf(k)
    BY <1>1, <1>3, <1>6, <1>7, <1>9 DEF ConnectPkt
  <2> QED BY <1>1, <1>3, <2>1 DEF Tells
<1> QED BY <1>8, <1>9 DEF Introduce

(***************************************************************************)
(* What handling a whole INIT adds to the network.                         *)
(***************************************************************************)
LEMMA HandleInitSends ==
    ASSUME TypeOK, EntriesReal, NEW p \in net, NEW k \in Console, p = InitOf(k), HandleInit(p)
    PROVE  \A m \in net' :
              \/ m \in net
              \/ m \in InitAckPkt
              \/ \E d \in OpenPeers(p) : Tells(m, p.session, p.client, d)
<1>1. PICK found \in Lookups(p) :
         /\ LookupOk(p, found)
         /\ net' = net \cup {AckOf(p)} \cup
               UNION {Introduce(p, d, found[d][1], found[d][2]) : d \in OpenPeers(p)}
  BY Zenon DEF HandleInit
<1>2. AckOf(p) \in InitAckPkt
  <2>1. p \in InitPkt
    BY InitOfType
  <2> QED BY <2>1 DEF AckOf, InitAckPkt, InitPkt
<1>3. ASSUME NEW d \in OpenPeers(p),
             NEW m \in Introduce(p, d, found[d][1], found[d][2])
      PROVE  Tells(m, p.session, p.client, d)
  <2>1. /\ found[d][1] \in Resolve(session_list[p.session][d].addr)
        /\ found[d][2] \in Resolve(p.from)
    BY <1>1 DEF LookupOk
  <2> QED BY <2>1, IntroduceAuthentic
<1>4. \A m \in net' :
         \/ m \in net \/ m = AckOf(p)
         \/ \E d \in OpenPeers(p) : m \in Introduce(p, d, found[d][1], found[d][2])
  BY <1>1
<1> QED BY <1>2, <1>3, <1>4

-----------------------------------------------------------------------------
(***************************************************************************)
(* What holds whatever the server remembers: an INIT in flight was sent by *)
(* a console, an entry holds what a console of its client sent, and a      *)
(* CONNECT tells a console of a place of another client of its session.    *)
(* Nothing of this is about the history, so that it also holds of a server *)
(* that has lost its memory.                                               *)
(***************************************************************************)
ConnectsReal ==
    \A m \in net : m.op = "CONNECT" =>
        \E a, b \in Console :
            /\ a.session = m.session /\ b.session = m.session
            /\ a.client # b.client
            /\ m.to = a.ep
            /\ m.peer \in PlacesOf(b)

Real == TypeOK /\ InitsReal /\ EntriesReal /\ ConnectsReal

\* Whoever a console was told of is another client of its session.
MetReal ==
    \A k \in Console : \A a \in met[k] :
        \E l \in Console :
            l.session = k.session /\ l.client # k.client /\ a \in PlacesOf(l)

LEMMA HandleInitReal ==
    ASSUME Real, NEW p \in net, HandleInit(p)
    PROVE  Real'
<1>. DEFINE s0 == p.session
            c0 == p.client
            fresh == {<<s0, c0, d>> : d \in OpenPeers(p)}
                        \cup {<<s0, d, c0>> : d \in OpenPeers(p)}
<1>1. PICK k \in Console : p = InitOf(k)
  BY DEF HandleInit, Real, InitsReal
<1>2. /\ p \in InitPkt /\ s0 \in Session /\ c0 \in ClientId
      /\ k.session = s0 /\ k.client = c0 /\ p.from = k.ep /\ p.lport = k.lport
  BY <1>1, InitOfType DEF InitPkt, InitOf
<1>3. /\ session_list' \in [Session -> EntryTable]
      /\ \A s \in Session : \A c \in Registered(s)' :
            session_list'[s][c] = IF s = s0 /\ c = c0 THEN Refreshed(p)
                                                      ELSE session_list[s][c]
      /\ \A s \in Session : Registered(s)' =
            IF s = s0 THEN Registered(s) \cup {c0} ELSE Registered(s)
  BY <1>1, HandleInitEffect DEF Real
<1>4. introduced' = introduced \cup fresh /\ met' = met
  BY DEF HandleInit
<1>5. /\ OpenPeers(p) \subseteq ClientId /\ \A d \in OpenPeers(p) : d # c0
  <2>1. Registered(s0) \subseteq ClientId
    BY <1>2, EntryTables DEF Real, TypeOK, Registered
  <2> QED BY <2>1 DEF OpenPeers
<1>6. \A m \in net' :
         \/ m \in net
         \/ m \in InitAckPkt
         \/ m \in ConnectPkt /\ \E d \in OpenPeers(p) : Tells(m, s0, c0, d)
  BY <1>1, HandleInitSends DEF Real, Tells
<1>7. TypeOK'
  <2>1. net' \subseteq Datagram
    BY <1>6 DEF Real, TypeOK, Datagram
  <2>2. fresh \subseteq Session \X ClientId \X ClientId
    BY <1>2, <1>5
  <2>3. introduced' \subseteq Session \X ClientId \X ClientId
    BY <1>4, <2>2 DEF Real, TypeOK
  <2> QED BY <1>3, <1>4, <2>1, <2>3 DEF Real, TypeOK
<1>8. InitsReal'
  BY <1>6 DEF Real, InitsReal, InitAckPkt, ConnectPkt
<1>9. EntriesReal'
  <2> SUFFICES ASSUME NEW s \in Session, NEW c \in Registered(s)'
               PROVE  \E l \in Console : /\ l.session = s /\ l.client = c
                                         /\ session_list'[s][c].addr = l.ep
                                         /\ session_list'[s][c].lport = l.lport
    BY DEF EntriesReal
  <2>1. CASE s = s0 /\ c = c0
    BY <1>2, <1>3, <2>1 DEF Refreshed
  <2>2. CASE ~(s = s0 /\ c = c0)
    BY <1>3, <2>2 DEF Real, EntriesReal
  <2> QED BY <2>1, <2>2
<1>10. ConnectsReal'
  <2> SUFFICES ASSUME NEW m \in net', m.op = "CONNECT"
               PROVE  \E a, b \in Console :
                         /\ a.session = m.session /\ b.session = m.session
                         /\ a.client # b.client
                         /\ m.to = a.ep
                         /\ m.peer \in PlacesOf(b)
    BY DEF ConnectsReal
  <2>1. CASE m \in net
    BY <2>1 DEF Real, ConnectsReal
  <2>2. CASE m \in InitAckPkt
    BY <2>2 DEF InitAckPkt
  <2>3. ASSUME NEW d \in OpenPeers(p), Tells(m, s0, c0, d)
        PROVE  \E a, b \in Console :
                  /\ a.session = m.session /\ b.session = m.session
                  /\ a.client # b.client
                  /\ m.to = a.ep
                  /\ m.peer \in PlacesOf(b)
    BY <1>5, <2>3 DEF Tells
  <2> QED BY <1>6, <2>1, <2>2, <2>3, Zenon
<1> QED BY <1>7, <1>8, <1>9, <1>10 DEF Real

\* A step that touches no entry, and sends nothing that names an address.
LEMMA QuietReal ==
    ASSUME Real, session_list' = session_list, introduced' = introduced,
           met' \in [Console -> SUBSET Addr],
           \A m \in net' : m \in net \/
              (m \in Datagram /\ m.op # "CONNECT"
                 /\ (m.op = "INIT" => \E k \in Console : m = InitOf(k)))
    PROVE  Real'
<1>1. TypeOK'
  BY DEF Real, TypeOK
<1>2. EntriesReal'
  BY DEF Real, EntriesReal, Registered
<1>3. InitsReal' /\ ConnectsReal'
  BY DEF Real, InitsReal, ConnectsReal
<1> QED BY <1>1, <1>2, <1>3 DEF Real

LEMMA RealStep ==
    ASSUME Real, [Next]_vars
    PROVE  Real'
<1>1. ASSUME NEW p \in net, HandleInit(p) PROVE Real'
  BY <1>1, HandleInitReal
<1>2. ASSUME NEW p \in net, HandleTerseInit(p) PROVE Real'
  <2>1. p \in InitPkt
    BY <1>2, InitOfType DEF HandleTerseInit, Real, InitsReal
  <2>2. AckOf(p) \in InitAckPkt
    BY <2>1 DEF AckOf, InitAckPkt, InitPkt
  <2>3. AckOf(p) \in Datagram /\ AckOf(p).op = "INITACK"
    BY <2>2 DEF Datagram, AckOf
  <2> QED BY <1>2, <2>3, QuietReal DEF HandleTerseInit, Real, TypeOK
<1>3. ASSUME NEW p \in net, HandleConnectAck(p) PROVE Real'
  <2>1. /\ session_list' \in [Session -> EntryTable]
        /\ \A s \in Session : Registered(s)' = Registered(s)
        /\ \A s \in Session : \A c \in Registered(s) :
              /\ session_list'[s][c].addr = session_list[s][c].addr
              /\ session_list'[s][c].lport = session_list[s][c].lport
    BY <1>3, HandleConnectAckEffect DEF Real
  <2>2. UNCHANGED <<net, met, introduced>>
    BY <1>3 DEF HandleConnectAck
  <2>3. TypeOK' /\ InitsReal' /\ ConnectsReal'
    BY <2>1, <2>2 DEF Real, TypeOK, InitsReal, ConnectsReal
  <2>4. EntriesReal'
    BY <2>1 DEF Real, EntriesReal
  <2> QED BY <2>3, <2>4 DEF Real
<1>4. ASSUME NEW p \in net, Lose(p) PROVE Real'
  BY <1>4, QuietReal DEF Lose, Real, TypeOK
<1>5. ASSUME NEW k \in Console, SendInit(k) PROVE Real'
  <2>1. InitOf(k) \in Datagram /\ InitOf(k).op = "INIT"
    BY InitOfType DEF Datagram, InitPkt
  <2> QED BY <1>5, <2>1, QuietReal DEF SendInit, Real, TypeOK
<1>6. ASSUME NEW k \in Console, ReceiveConnect(k) PROVE Real'
  <2>. DEFINE ack == [op |-> "CONNECT_ACK", session |-> k.session, client |-> k.client]
  <2>1. PICK m \in net : /\ m.op = "CONNECT"
                         /\ met' = [met EXCEPT ![k] = @ \cup {m.peer}]
                         /\ net' = net \cup {ack}
                         /\ UNCHANGED <<session_list, introduced>>
    BY <1>6 DEF ReceiveConnect
  <2>2. ack \in Datagram /\ ack.op = "CONNECT_ACK"
    BY ConsoleAssumption DEF ConsoleType, ConnectAckPkt, Datagram
  <2>3. m \in ConnectPkt
    BY <2>1 DEF Real, TypeOK, Datagram, InitPkt, InitAckPkt, ConnectAckPkt
  <2>4. met' \in [Console -> SUBSET Addr]
    BY <2>1, <2>3 DEF Real, TypeOK, ConnectPkt
  <2> HIDE DEF ack
  <2> QED BY <2>1, <2>2, <2>4, QuietReal
<1>7. CASE UNCHANGED vars
  BY <1>7, QuietReal DEF vars, Real, TypeOK
<1> QED BY <1>1, <1>2, <1>3, <1>4, <1>5, <1>6, <1>7 DEF Next, Handle

\* A CONNECT only reaches the console it is for, which has its address alone.
LEMMA MetStep ==
    ASSUME Real, MetReal, [Next]_vars
    PROVE  MetReal'
<1>1. ASSUME NEW k \in Console, ReceiveConnect(k) PROVE MetReal'
  <2>1. PICK m \in net :
           /\ m.op = "CONNECT" /\ m.to = k.ep /\ m.session = k.session
           /\ met' = [met EXCEPT ![k] = @ \cup {m.peer}]
    BY <1>1 DEF ReceiveConnect
  <2>2. PICK a \in Console, b \in Console :
           /\ a.session = m.session /\ b.session = m.session /\ a.client # b.client
           /\ m.to = a.ep /\ m.peer \in PlacesOf(b)
    BY <2>1 DEF Real, ConnectsReal
  <2>3. a = k
    BY <2>1, <2>2, ConsoleAssumption
  <2> QED BY <2>1, <2>2, <2>3 DEF MetReal, Real, TypeOK
<1>2. CASE met' = met
  BY <1>2 DEF MetReal
<1> QED BY <1>1, <1>2 DEF Next, Handle, HandleInit, HandleTerseInit, HandleConnectAck,
     Lose, SendInit, vars

-----------------------------------------------------------------------------
(***************************************************************************)
(* The inductive invariant, one lemma per action.                          *)
(***************************************************************************)
LEMMA InitInv == Init => IInv
<1> SUFFICES ASSUME Init PROVE IInv
  OBVIOUS
<1>1. \A s \in Session : session_list[s] = << >> /\ Registered(s) = {} /\ Connected(s) = {}
  BY DEF Init, Registered, Connected
<1>2. << >> \in EntryTable
  <2>1. << >> \in [{} -> Entry]
    OBVIOUS
  <2> QED BY <2>1, EntryTables
<1>3. TypeOK
  BY <1>1, <1>2 DEF Init, TypeOK
<1>4. /\ InitsReal /\ EntriesReal /\ IntroducedRegistered
      /\ AcksIntroduced /\ ConnectAuthentic /\ ConnectedWasIntroduced
      /\ NobodyForgotten
  BY <1>1 DEF Init, InitsReal, EntriesReal, IntroducedRegistered, AcksIntroduced,
              ConnectAuthentic, ConnectedWasIntroduced, NobodyForgotten
<1> QED BY <1>3, <1>4 DEF IInv

\* An INIT in flight was sent by a console.
LEMMA InitSender ==
    ASSUME IInv, NEW p \in net, p.op = "INIT"
    PROVE  \E k \in Console : p = InitOf(k)
BY DEF IInv, InitsReal

LEMMA HandleInitInv ==
    ASSUME IInv, NEW p \in net, HandleInit(p)
    PROVE  IInv'
<1>. DEFINE s0 == p.session
            c0 == p.client
            fresh == {<<s0, c0, d>> : d \in OpenPeers(p)}
                        \cup {<<s0, d, c0>> : d \in OpenPeers(p)}
<1>1. PICK k \in Console : p = InitOf(k)
  BY InitSender DEF HandleInit
<1>2. /\ p \in InitPkt /\ s0 \in Session /\ c0 \in ClientId
      /\ k.session = s0 /\ k.client = c0 /\ p.from = k.ep /\ p.lport = k.lport
  BY <1>1, InitOfType DEF InitPkt, InitOf
<1>3. /\ Refreshed(p) \in Entry
      /\ session_list' \in [Session -> EntryTable]
      /\ \A s \in Session : Registered(s)' =
            IF s = s0 THEN Registered(s) \cup {c0} ELSE Registered(s)
      /\ \A s \in Session : Connected(s)' = Connected(s)
      /\ \A s \in Session : \A c \in Registered(s)' :
            session_list'[s][c] = IF s = s0 /\ c = c0 THEN Refreshed(p)
                                                      ELSE session_list[s][c]
  BY <1>1, HandleInitEffect DEF IInv
<1>4. /\ introduced' = introduced \cup fresh
      /\ met' = met
  BY DEF HandleInit
<1>5. \A s \in Session : /\ Registered(s) \subseteq ClientId
                         /\ Connected(s) \subseteq Registered(s)
  BY EntryTables DEF IInv, TypeOK, Registered, Connected
<1>6. /\ OpenPeers(p) \subseteq Registered(s0)
      /\ \A d \in OpenPeers(p) : d # c0 /\ d \notin Connected(s0)
  BY DEF OpenPeers
<1>7. \A m \in net' :
         \/ m \in net
         \/ m \in InitAckPkt
         \/ m \in ConnectPkt /\ \E d \in OpenPeers(p) : Tells(m, s0, c0, d)
  BY <1>1, HandleInitSends DEF IInv, Tells
<1>8. TypeOK' /\ InitsReal' /\ EntriesReal'
  <2>1. Real
    BY DEF IInv, Real, ConnectsReal, ConnectAuthentic
  <2> QED BY <2>1, HandleInitReal DEF Real
<1>11. IntroducedRegistered'
  <2> SUFFICES ASSUME NEW s \in Session, NEW c \in ClientId, NEW d \in ClientId,
                      <<s, c, d>> \in introduced'
               PROVE  /\ {c, d} \subseteq Registered(s)'
                      /\ c # d
                      /\ <<s, d, c>> \in introduced'
    BY DEF IntroducedRegistered
  <2>1. CASE <<s, c, d>> \in introduced
    BY <1>3, <1>4, <2>1 DEF IInv, IntroducedRegistered
  <2>2. CASE <<s, c, d>> \in fresh
    BY <1>3, <1>4, <1>6, <2>2
  <2> QED BY <1>4, <2>1, <2>2
<1>12. AcksIntroduced'
  BY <1>4, <1>7 DEF IInv, AcksIntroduced, InitAckPkt, ConnectPkt
<1>13. ConnectAuthentic'
  <2> SUFFICES ASSUME NEW m \in net', m.op = "CONNECT"
               PROVE  \E a, b \in Console :
                         /\ a.session = m.session /\ b.session = m.session
                         /\ a.client # b.client
                         /\ <<m.session, a.client, b.client>> \in introduced'
                         /\ m.to = a.ep
                         /\ m.peer \in PlacesOf(b)
    BY DEF ConnectAuthentic
  <2>1. CASE m \in net
    BY <1>4, <2>1 DEF IInv, ConnectAuthentic
  <2>2. CASE m \in InitAckPkt
    BY <2>2 DEF InitAckPkt
  <2>3. ASSUME NEW d \in OpenPeers(p), Tells(m, s0, c0, d)
        PROVE  \E a, b \in Console :
                  /\ a.session = m.session /\ b.session = m.session
                  /\ a.client # b.client
                  /\ <<m.session, a.client, b.client>> \in introduced'
                  /\ m.to = a.ep
                  /\ m.peer \in PlacesOf(b)
    <3>1. PICK a \in Console, b \in Console :
             /\ m.session = s0
             /\ a.session = s0 /\ b.session = s0
             /\ (a.client = c0 /\ b.client = d) \/ (a.client = d /\ b.client = c0)
             /\ m.to = a.ep
             /\ m.peer \in PlacesOf(b)
      BY <2>3 DEF Tells
    <3>2. <<m.session, a.client, b.client>> \in introduced'
      BY <1>4, <3>1
    <3>3. a.client # b.client
      BY <1>6, <3>1
    <3> QED BY <3>1, <3>2, <3>3
  <2> QED BY <1>7, <2>1, <2>2, <2>3, Zenon
<1>14. ConnectedWasIntroduced'
  BY <1>3, <1>4 DEF IInv, ConnectedWasIntroduced
<1>15. NobodyForgotten'
  <2> SUFFICES ASSUME NEW s \in Session, NEW c \in Registered(s)',
                      NEW d \in Registered(s)', c # d
               PROVE  \/ <<s, c, d>> \in introduced' /\ <<s, d, c>> \in introduced'
                      \/ MetAnother(s, c, d)'
                      \/ MetAnother(s, d, c)'
    BY DEF NobodyForgotten
  <2>1. CASE c \in Registered(s) /\ d \in Registered(s)
    <3>1. \/ <<s, c, d>> \in introduced /\ <<s, d, c>> \in introduced
          \/ MetAnother(s, c, d) \/ MetAnother(s, d, c)
      BY <2>1 DEF IInv, NobodyForgotten
    <3>2. /\ Registered(s) \subseteq Registered(s)'
          /\ Connected(s)' = Connected(s) /\ introduced \subseteq introduced'
      BY <1>3, <1>4
    <3> QED BY <3>1, <3>2 DEF MetAnother
  <2>2. ASSUME NEW a \in Registered(s), s = s0, c0 \notin Registered(s)
        PROVE  \/ <<s, c0, a>> \in introduced' /\ <<s, a, c0>> \in introduced'
               \/ MetAnother(s, a, c0)'
    <3>1. CASE a \in OpenPeers(p)
      BY <1>4, <2>2, <3>1
    <3>2. CASE a \in Connected(s)
      <4>1. PICK e \in Registered(s) : <<s, a, e>> \in introduced
        BY <3>2 DEF IInv, ConnectedWasIntroduced
      <4>2. a # e
        BY <1>5, <4>1 DEF IInv, IntroducedRegistered
      <4> QED BY <1>3, <1>4, <2>2, <3>2, <4>1, <4>2 DEF MetAnother
    <3> QED BY <2>2, <3>1, <3>2 DEF OpenPeers
  <2>3. CASE s = s0 /\ c = c0 /\ c0 \notin Registered(s) /\ d \in Registered(s)
    BY <2>2, <2>3
  <2>4. CASE s = s0 /\ d = c0 /\ c0 \notin Registered(s) /\ c \in Registered(s)
    BY <2>2, <2>4
  <2> QED BY <1>3, <2>1, <2>3, <2>4
<1> QED BY <1>8, <1>11, <1>12, <1>13, <1>14, <1>15 DEF IInv

LEMMA HandleConnectAckInv ==
    ASSUME IInv, NEW p \in net, HandleConnectAck(p)
    PROVE  IInv'
<1>. DEFINE s0 == p.session
            c0 == p.client
<1>1. /\ s0 \in Session
      /\ session_list' \in [Session -> EntryTable]
      /\ \A s \in Session : Registered(s)' = Registered(s)
      /\ \A s \in Session : Connected(s)' =
            IF s = s0 THEN Connected(s) \cup {c0} ELSE Connected(s)
      /\ \A s \in Session : \A c \in Registered(s) :
            /\ session_list'[s][c].addr = session_list[s][c].addr
            /\ session_list'[s][c].lport = session_list[s][c].lport
  BY HandleConnectAckEffect DEF IInv
<1>2. UNCHANGED <<net, met, introduced>>
  BY DEF HandleConnectAck
<1>3. \A s \in Session : Registered(s) \subseteq ClientId
  BY EntryTables DEF IInv, TypeOK, Registered
<1>4. \E d \in Registered(s0) : <<s0, c0, d>> \in introduced
  <2>1. PICK d \in ClientId : <<s0, c0, d>> \in introduced
    BY DEF IInv, AcksIntroduced, HandleConnectAck
  <2>2. c0 \in ClientId
    BY <1>1, <1>3 DEF HandleConnectAck
  <2> QED BY <1>1, <2>1, <2>2 DEF IInv, IntroducedRegistered
<1>5. TypeOK' /\ InitsReal' /\ AcksIntroduced' /\ ConnectAuthentic'
  BY <1>1, <1>2 DEF IInv, TypeOK, InitsReal, AcksIntroduced, ConnectAuthentic
<1>6. EntriesReal'
  BY <1>1 DEF IInv, EntriesReal
<1>7. IntroducedRegistered'
  BY <1>1, <1>2 DEF IInv, IntroducedRegistered
<1>8. ConnectedWasIntroduced'
  BY <1>1, <1>2, <1>4 DEF IInv, ConnectedWasIntroduced
<1>9. NobodyForgotten'
  <2> SUFFICES ASSUME NEW s \in Session, NEW c \in Registered(s)',
                      NEW d \in Registered(s)', c # d
               PROVE  \/ <<s, c, d>> \in introduced' /\ <<s, d, c>> \in introduced'
                      \/ MetAnother(s, c, d)'
                      \/ MetAnother(s, d, c)'
    BY DEF NobodyForgotten
  <2>1. c \in Registered(s) /\ d \in Registered(s)
    BY <1>1
  <2>2. \/ <<s, c, d>> \in introduced /\ <<s, d, c>> \in introduced
        \/ MetAnother(s, c, d) \/ MetAnother(s, d, c)
    BY <2>1 DEF IInv, NobodyForgotten
  <2>3. /\ Registered(s)' = Registered(s) /\ introduced' = introduced
        /\ Connected(s) \subseteq Connected(s)'
    BY <1>1, <1>2
  <2> QED BY <2>2, <2>3 DEF MetAnother
<1> QED BY <1>5, <1>6, <1>7, <1>8, <1>9 DEF IInv

(***************************************************************************)
(* A datagram that may be sent without touching an entry: an INITACK, an   *)
(* INIT of a console or the acknowledgement of an introduced client.       *)
(***************************************************************************)
Harmless(m) ==
    /\ m \in Datagram
    /\ \/ m.op = "INITACK"
       \/ m.op = "INIT" /\ \E k \in Console : m = InitOf(k)
       \/ /\ m.op = "CONNECT_ACK"
          /\ \E d \in ClientId : <<m.session, m.client, d>> \in introduced

(***************************************************************************)
(* A step that touches no entry and no introduction only has to keep what  *)
(* the datagrams in flight say.                                            *)
(***************************************************************************)
LEMMA QuietStepInv ==
    ASSUME IInv, session_list' = session_list, introduced' = introduced,
           met' \in [Console -> SUBSET Addr],
           \A m \in net' : m \in net \/ Harmless(m)
    PROVE  IInv'
<1>1. \A s \in Session : Registered(s)' = Registered(s) /\ Connected(s)' = Connected(s)
  BY DEF Registered, Connected
<1>2. TypeOK'
  BY DEF IInv, TypeOK, Harmless
<1>3. InitsReal' /\ AcksIntroduced' /\ ConnectAuthentic'
  BY DEF IInv, InitsReal, AcksIntroduced, ConnectAuthentic, Harmless
<1>4. EntriesReal' /\ IntroducedRegistered'
  BY <1>1 DEF IInv, EntriesReal, IntroducedRegistered
<1>5. ConnectedWasIntroduced'
  BY <1>1 DEF IInv, ConnectedWasIntroduced
<1>6. NobodyForgotten'
  <2>1. \A s \in Session : \A c, d : MetAnother(s, c, d)' <=> MetAnother(s, c, d)
    BY <1>1 DEF MetAnother
  <2> QED BY <1>1, <2>1 DEF IInv, NobodyForgotten
<1> QED BY <1>2, <1>3, <1>4, <1>5, <1>6 DEF IInv

LEMMA HandleTerseInitInv ==
    ASSUME IInv, NEW p \in net, HandleTerseInit(p)
    PROVE  IInv'
<1>1. p \in InitPkt
  BY InitSender, InitOfType DEF HandleTerseInit
<1>2. AckOf(p) \in InitAckPkt
  BY <1>1 DEF AckOf, InitAckPkt, InitPkt
<1>3. Harmless(AckOf(p))
  BY <1>2 DEF Datagram, AckOf, Harmless
<1> QED BY <1>3, QuietStepInv DEF HandleTerseInit, IInv, TypeOK

LEMMA SendInitInv ==
    ASSUME IInv, NEW k \in Console, SendInit(k)
    PROVE  IInv'
<1>1. Harmless(InitOf(k))
  BY InitOfType DEF Datagram, InitPkt, Harmless
<1> QED BY <1>1, QuietStepInv DEF SendInit, IInv, TypeOK

(***************************************************************************)
(* The console that receives a CONNECT is the one it was meant for, since  *)
(* no other console of its session has its address: its acknowledgement    *)
(* comes from an introduced client.                                        *)
(***************************************************************************)
LEMMA ReceiveConnectInv ==
    ASSUME IInv, NEW k \in Console, ReceiveConnect(k)
    PROVE  IInv'
<1>. DEFINE ack == [op |-> "CONNECT_ACK", session |-> k.session, client |-> k.client]
<1>1. PICK m \in net :
         /\ m.op = "CONNECT" /\ m.to = k.ep /\ m.session = k.session
         /\ met' = [met EXCEPT ![k] = @ \cup {m.peer}]
         /\ net' = net \cup {ack}
         /\ UNCHANGED <<session_list, introduced>>
  BY DEF ReceiveConnect
<1>2. k \in ConsoleType
  BY ConsoleAssumption
<1>3. PICK a \in Console, b \in Console :
         /\ a.session = m.session /\ m.to = a.ep
         /\ <<m.session, a.client, b.client>> \in introduced
  BY <1>1 DEF IInv, ConnectAuthentic
<1>4. a = k
  BY <1>1, <1>3, ConsoleAssumption
<1>5. b.client \in ClientId /\ <<k.session, k.client, b.client>> \in introduced
  BY <1>1, <1>3, <1>4, ConsoleAssumption DEF ConsoleType
<1>6. ack \in ConnectAckPkt
  BY <1>2 DEF ConsoleType, ConnectAckPkt
<1>7. Harmless(ack)
  BY <1>5, <1>6 DEF Datagram, Harmless
<1>8. m.peer \in Addr
  <2>1. m \in ConnectPkt
    BY <1>1 DEF IInv, TypeOK, Datagram, InitPkt, InitAckPkt, ConnectAckPkt
  <2> QED BY <2>1 DEF ConnectPkt
<1>9. met' \in [Console -> SUBSET Addr]
  BY <1>1, <1>8 DEF IInv, TypeOK
<1> HIDE DEF ack
<1> QED BY <1>1, <1>7, <1>9, QuietStepInv

LEMMA LoseInv ==
    ASSUME IInv, NEW p \in net, Lose(p)
    PROVE  IInv'
<1>1. net' \subseteq net
  BY DEF Lose
<1> QED BY <1>1, QuietStepInv DEF Lose, IInv, TypeOK

LEMMA StutterInv ==
    ASSUME IInv, UNCHANGED vars
    PROVE  IInv'
<1>1. net' \subseteq net
  BY DEF vars
<1> QED BY <1>1, QuietStepInv DEF vars, IInv, TypeOK

\* Every step keeps the inductive invariant.
LEMMA StepInv ==
    ASSUME IInv, [Next]_vars
    PROVE  IInv'
<1>1. ASSUME NEW p \in net, Handle(p) PROVE IInv'
  BY <1>1, HandleInitInv, HandleTerseInitInv, HandleConnectAckInv DEF Handle
<1>2. ASSUME NEW p \in net, Lose(p) PROVE IInv'
  BY <1>2, LoseInv
<1>3. ASSUME NEW k \in Console, SendInit(k) PROVE IInv'
  BY <1>3, SendInitInv
<1>4. ASSUME NEW k \in Console, ReceiveConnect(k) PROVE IInv'
  BY <1>4, ReceiveConnectInv
<1>5. CASE UNCHANGED vars
  BY <1>5, StutterInv
<1> QED BY <1>1, <1>2, <1>3, <1>4, <1>5 DEF Next

(***************************************************************************)
(* The inductive invariant holds in every reachable state.                 *)
(***************************************************************************)
THEOREM Invariance == Spec => []IInv
<1>1. IInv /\ [Next]_vars => IInv'
  BY StepInv
<1> QED BY <1>1, InitInv, PTL DEF Spec

(***************************************************************************)
(* Every variable keeps its type (TypeOK).                                 *)
(***************************************************************************)
THEOREM TypeCorrect == Spec => []TypeOK
<1>1. IInv => TypeOK
  BY DEF IInv
<1> QED BY <1>1, Invariance, PTL

(***************************************************************************)
(* No console is ever told about itself, a stranger or a wrong place: each *)
(* CONNECT in flight goes to one client of a session and names a place of  *)
(* another client of the same session.                                     *)
(***************************************************************************)
THEOREM ConnectsAreAuthentic == Spec => []ConnectAuthentic
<1>1. IInv => ConnectAuthentic
  BY DEF IInv
<1> QED BY <1>1, Invariance, PTL

(***************************************************************************)
(* Whoever is marked connected had been introduced to a registered client. *)
(***************************************************************************)
THEOREM ConnectedOnlyIfIntroduced == Spec => []ConnectedWasIntroduced
<1>1. IInv => ConnectedWasIntroduced
  BY DEF IInv
<1> QED BY <1>1, Invariance, PTL

(***************************************************************************)
(* No two registered clients of a session are left without an introduction *)
(* unless one of them is already busy with a third.                        *)
(***************************************************************************)
THEOREM NobodyIsForgotten == Spec => []NobodyForgotten
<1>1. IInv => NobodyForgotten
  BY DEF IInv
<1> QED BY <1>1, Invariance, PTL

(***************************************************************************)
(* In a session of two, as the game uses them, the two clients have always *)
(* been introduced to each other as soon as both are registered.           *)
(***************************************************************************)
THEOREM PairsAreIntroduced ==
    ASSUME NEW a, NEW b, ClientId = {a, b}
    PROVE  Spec => [](\A s \in Session : a # b /\ {a, b} \subseteq Registered(s)
                         => <<s, a, b>> \in introduced /\ <<s, b, a>> \in introduced)
<1>1. IInv => \A s \in Session : a # b /\ {a, b} \subseteq Registered(s)
                 => <<s, a, b>> \in introduced /\ <<s, b, a>> \in introduced
  <2> SUFFICES ASSUME IInv, NEW s \in Session, a # b, {a, b} \subseteq Registered(s)
               PROVE  <<s, a, b>> \in introduced /\ <<s, b, a>> \in introduced
    OBVIOUS
  <2>1. Registered(s) \subseteq ClientId
    BY EntryTables DEF IInv, TypeOK, Registered
  <2>2. ~MetAnother(s, a, b) /\ ~MetAnother(s, b, a)
    BY <2>1 DEF MetAnother
  <2> QED BY <2>2 DEF IInv, NobodyForgotten
<1> QED BY <1>1, Invariance, PTL

-----------------------------------------------------------------------------
(***************************************************************************)
(* Once acknowledged, a console with complete INITs has its entry.         *)
(***************************************************************************)
THEOREM AckedConsolesAreRegistered == Spec => []InitAckMeansRegistered
<1>1. Init => InitAckMeansRegistered
  BY DEF Init, InitAckMeansRegistered
<1>2. IInv /\ InitAckMeansRegistered /\ [Next]_vars => InitAckMeansRegistered'
  <2> SUFFICES ASSUME IInv, InitAckMeansRegistered, [Next]_vars,
                      NEW m \in net', m.op = "INITACK", NEW k \in Console \ Terse,
                      k.session = m.session, k.ep = m.to
               PROVE  k.client \in Registered(k.session)'
    BY DEF InitAckMeansRegistered
  <2>1. k.session \in Session
    BY ConsoleAssumption DEF ConsoleType
  <2>2. ASSUME \A s \in Session : Registered(s) \subseteq Registered(s)', m \in net
        PROVE  k.client \in Registered(k.session)'
    BY <2>1, <2>2 DEF InitAckMeansRegistered
  <2>3. ASSUME NEW p \in net, HandleInit(p) PROVE k.client \in Registered(k.session)'
    <3>1. PICK l \in Console : p = InitOf(l)
      BY <2>3, InitSender DEF HandleInit
    <3>2. /\ p.session = l.session /\ p.client = l.client /\ p.from = l.ep
          /\ p.session \in Session
      BY <3>1, InitOfType DEF InitOf, InitPkt
    <3>3. \A s \in Session : Registered(s)' =
             IF s = p.session THEN Registered(s) \cup {p.client} ELSE Registered(s)
      BY <2>3, <3>1, HandleInitEffect DEF IInv
    <3>4. CASE m \in net
      BY <2>2, <3>3, <3>4
    <3>5. CASE m \notin net
      <4>1. m = AckOf(p)
        <5>1. \A x \in net' : x \in net \/ x = AckOf(p) \/ x.op = "CONNECT"
          BY <2>3 DEF HandleInit, Introduce
        <5> QED BY <3>5, <5>1
      <4>2. k = l
        BY <3>2, <4>1, ConsoleAssumption DEF AckOf
      <4> QED BY <2>1, <3>2, <3>3, <4>2
    <3> QED BY <3>4, <3>5
  <2>4. ASSUME NEW p \in net, HandleTerseInit(p) PROVE k.client \in Registered(k.session)'
    <3>1. \A s \in Session : Registered(s)' = Registered(s)
      BY <2>4 DEF HandleTerseInit, Registered
    <3>2. m \in net
      <4>1. PICK l \in Console : p = InitOf(l)
        BY <2>4, InitSender DEF HandleTerseInit
      <4>2. l \in Terse
        BY <2>4, <4>1 DEF HandleTerseInit, InitOf
      <4>3. CASE m = AckOf(p)
        <5>1. k = l
          BY <4>1, <4>3, ConsoleAssumption DEF AckOf, InitOf
        <5> QED BY <4>2, <5>1
      <4> QED BY <2>4, <4>3 DEF HandleTerseInit
    <3> QED BY <2>2, <3>1, <3>2
  <2>5. ASSUME NEW p \in net, HandleConnectAck(p) PROVE k.client \in Registered(k.session)'
    <3>1. \A s \in Session : Registered(s)' = Registered(s)
      BY <2>5, HandleConnectAckEffect DEF IInv
    <3> QED BY <2>2, <2>5, <3>1 DEF HandleConnectAck
  <2>6. ASSUME session_list' = session_list, m \in net
        PROVE  k.client \in Registered(k.session)'
    BY <2>2, <2>6 DEF Registered
  <2>7. ASSUME NEW p \in net, Lose(p) PROVE k.client \in Registered(k.session)'
    BY <2>6, <2>7 DEF Lose
  <2>8. ASSUME NEW l \in Console, SendInit(l) PROVE k.client \in Registered(k.session)'
    BY <2>6, <2>8 DEF SendInit, InitOf
  <2>9. ASSUME NEW l \in Console, ReceiveConnect(l) PROVE k.client \in Registered(k.session)'
    BY <2>6, <2>9 DEF ReceiveConnect
  <2>10. CASE UNCHANGED vars
    BY <2>6, <2>10 DEF vars
  <2> QED BY <2>3, <2>4, <2>5, <2>7, <2>8, <2>9, <2>10 DEF Next, Handle
<1> QED BY <1>1, <1>2, Invariance, PTL DEF Spec

(***************************************************************************)
(* The server implements Rendezvous: a whole INIT is an arrival, an        *)
(* acknowledgement settles its client, every other step changes nothing    *)
(* that Rendezvous can see.                                                *)
(***************************************************************************)
THEOREM Refinement == Spec => ImplementsRendezvous
<1>1. Init => R!Init
  <2> SUFFICES ASSUME Init PROVE R!Init
    OBVIOUS
  <2>1. \A s \in Session : Registered(s) = {} /\ Connected(s) = {}
    BY DEF Init, Registered, Connected
  <2> QED BY <2>1 DEF Init, R!Init
<1>2. IInv /\ [Next]_vars => [R!Next]_(R!vars)
  <2> SUFFICES ASSUME IInv, [Next]_vars PROVE R!Next \/ UNCHANGED R!vars
    OBVIOUS
  <2>1. ASSUME NEW p \in net, HandleInit(p) PROVE R!Next
    <3>. DEFINE s0 == p.session
                c0 == p.client
    <3>1. PICK k \in Console : p = InitOf(k)
      BY <2>1, InitSender DEF HandleInit
    <3>2. s0 \in Session /\ c0 \in ClientId
      BY <3>1, InitOfType DEF InitPkt
    <3>3. /\ \A s \in Session : Registered(s)' =
               IF s = s0 THEN Registered(s) \cup {c0} ELSE Registered(s)
          /\ \A s \in Session : Connected(s)' = Connected(s)
      BY <2>1, <3>1, HandleInitEffect DEF IInv
    <3>4. introduced' = introduced \cup ({s0} \X {c0} \X OpenPeers(p))
                                   \cup ({s0} \X OpenPeers(p) \X {c0})
      BY <2>1 DEF HandleInit
    <3>5. R!Arrive(s0, c0)
      BY <3>2, <3>3, <3>4 DEF R!Arrive, OpenPeers
    <3> QED BY <3>2, <3>5 DEF R!Next
  <2>2. ASSUME NEW p \in net, HandleConnectAck(p) PROVE R!Next
    <3>. DEFINE s0 == p.session
                c0 == p.client
    <3>1. /\ s0 \in Session
          /\ \A s \in Session : Registered(s)' = Registered(s)
          /\ \A s \in Session : Connected(s)' =
               IF s = s0 THEN Connected(s) \cup {c0} ELSE Connected(s)
      BY <2>2, HandleConnectAckEffect DEF IInv
    <3>2. introduced' = introduced
      BY <2>2 DEF HandleConnectAck
    <3>3. c0 \in ClientId
      <4>1. Registered(s0) \subseteq ClientId
        BY <3>1, EntryTables DEF IInv, TypeOK, Registered
      <4> QED BY <2>2, <4>1 DEF HandleConnectAck
    <3>4. \E d \in Registered(s0) : <<s0, c0, d>> \in introduced
      <4>1. PICK d \in ClientId : <<s0, c0, d>> \in introduced
        BY <2>2 DEF IInv, AcksIntroduced, HandleConnectAck
      <4> QED BY <3>1, <3>3, <4>1 DEF IInv, IntroducedRegistered
    <3>5. R!Settle(s0, c0)
      BY <3>1, <3>2, <3>4 DEF R!Settle
    <3> QED BY <3>1, <3>3, <3>5 DEF R!Next
  <2>3. ASSUME session_list' = session_list, introduced' = introduced
        PROVE  UNCHANGED R!vars
    BY <2>3 DEF R!vars, Registered, Connected
  <2>4. ASSUME NEW p \in net, HandleTerseInit(p) \/ Lose(p) PROVE UNCHANGED R!vars
    BY <2>3, <2>4 DEF HandleTerseInit, Lose
  <2>5. ASSUME NEW k \in Console, SendInit(k) \/ ReceiveConnect(k) PROVE UNCHANGED R!vars
    BY <2>3, <2>5 DEF SendInit, ReceiveConnect
  <2>6. CASE UNCHANGED vars
    BY <2>3, <2>6 DEF vars
  <2> QED BY <2>1, <2>2, <2>4, <2>5, <2>6 DEF Next, Handle
<1> QED BY <1>1, <1>2, Invariance, PTL DEF Spec, ImplementsRendezvous, R!Spec
=============================================================================
