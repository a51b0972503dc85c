------------------------------- MODULE NatNeg -------------------------------
(***************************************************************************)
(* The NAT-negotiation server: the INIT / CONNECT / CONNECT_ACK exchange   *)
(* of gamespy/natneg_protocol.py, the resolver and the UDP adapter of      *)
(* services/gamespy_natneg_server.py, the consoles that talk to it and the *)
(* UDP network between them.                                               *)
(*                                                                         *)
(* asyncio calls datagram_received for one datagram at a time and no       *)
(* handler awaits, so a handler is one atomic step.  The network may       *)
(* reorder, repeat and lose datagrams: a datagram stays in net when it is  *)
(* delivered, so it may be delivered again, and Lose takes it out.         *)
(*                                                                         *)
(* The consoles are not part of the repository: they send INIT until they  *)
(* have been told where a peer is, and acknowledge each CONNECT.           *)
(***************************************************************************)
EXTENDS Naturals, FiniteSets

CONSTANTS Session,     \* the 4-byte cookies two consoles agreed to match on
          ClientId,    \* byte 13 of a packet: the console's index in its session
          IP, Port,    \* public addresses and non-zero UDP ports
          Console,     \* the consoles (one more record per NAT rebinding of one)
          Terse,       \* the consoles whose INIT stops before the local address
          Advertised,  \* the game servers that Redis may hold, public ip and port
          Lossy        \* the operations whose datagrams the network may lose

NoPort == 0            \* "no local port" in an INIT, and the resolver's None

Addr == [ip : IP, port : Port]

(***************************************************************************)
(* A console knows its session and its index, is seen from the address     *)
(* ep, and writes its local port in its INIT.  Two sockets never share an  *)
(* address, so an address stands for one console of a session.             *)
(***************************************************************************)
ConsoleType ==
    [session : Session, client : ClientId, ep : Addr, lport : Port \cup {NoPort}]

ASSUME PortAssumption == Port \subseteq Nat \ {NoPort}

ASSUME ConsoleAssumption ==
    /\ Console \subseteq ConsoleType
    /\ Terse \subseteq Console
    /\ \A k, l \in Console :
          k.session = l.session /\ k.ep = l.ep => k = l

ASSUME AdvertisedAssumption == Advertised \subseteq Addr

VARIABLES session_list,  \* session -> client id -> entry, as the nested dicts
          net,           \* the datagrams in flight
          met,           \* console -> the peer addresses it has been told
          introduced     \* history: <<s, c, d>> if c was sent the address of d

vars == <<session_list, net, met, introduced>>

Entry == [connected : BOOLEAN, addr : Addr, lport : Port \cup {NoPort}]

InitPkt == [op : {"INIT"}, from : Addr, session : Session, client : ClientId,
            lport : Port \cup {NoPort}, whole : BOOLEAN]
InitAckPkt == [op : {"INITACK"}, to : Addr, session : Session]
ConnectPkt == [op : {"CONNECT"}, to : Addr, session : Session, peer : Addr]
ConnectAckPkt == [op : {"CONNECT_ACK"}, session : Session, client : ClientId]

Datagram == InitPkt \cup InitAckPkt \cup ConnectPkt \cup ConnectAckPkt

\* The clients that session s has an entry for.
Registered(s) == DOMAIN session_list[s]

Connected(s) == {c \in Registered(s) : session_list[s][c].connected}

Init ==
    /\ session_list = [s \in Session |-> << >>]
    /\ net = {}
    /\ met = [k \in Console |-> {}]
    /\ introduced = {}

-----------------------------------------------------------------------------
(* The server. *)

(***************************************************************************)
(* What ServerDataProxyResolver may return for a console seen at a: the    *)
(* record of a server with its public ip, or None.  A record may have      *)
(* expired or not be there yet, and every exception is turned into None,   *)
(* so None is always possible.  A record counts for its public port only.  *)
(***************************************************************************)
Resolve(a) == {NoPort} \cup {r.port : r \in {q \in Advertised : q.ip = a.ip}}

\* The address of the console with entry e that its peer is given.
Target(e, publicport) ==
    [ip |-> e.addr.ip,
     port |-> IF publicport # NoPort THEN publicport
              ELSE IF e.lport # NoPort THEN e.lport
              ELSE e.addr.port]

\* Mutant: a repeated INIT counts as an acknowledgement.
RefreshedOnRepeat(p) ==
    [connected |-> p.client \in Registered(p.session),
     addr |-> p.from, lport |-> p.lport]

\* The entry of the sender of INIT p: a new one or the old one overwritten.
Refreshed(p) ==
    [connected |-> p.client \in Connected(p.session),
     addr |-> p.from, lport |-> p.lport]

\* Mutants: the loop stops at its first peer, rematches the connected, or
\* does not skip the sender itself.
OnlyFirstPeer(p) ==
    LET open == (Registered(p.session) \ Connected(p.session)) \ {p.client}
    IN  {c \in open : c = CHOOSE d \in open : TRUE}
EveryPeer(p) == Registered(p.session) \ {p.client}
PeersAndSelf(p) == Registered(p.session) \ Connected(p.session)

\* The peers that an INIT is matched with: all but those that acknowledged.
OpenPeers(p) == (Registered(p.session) \ Connected(p.session)) \ {p.client}

(***************************************************************************)
(* The datagrams of _handle_init for peer d: each side gets the other's    *)
(* address.  The two lookups are round trips of their own.                 *)
(***************************************************************************)
Introduce(p, d, peerport, ownport) ==
    LET peer == session_list[p.session][d]
    IN  {[op |-> "CONNECT", to |-> p.from, session |-> p.session,
          peer |-> Target(peer, peerport)],
         [op |-> "CONNECT", to |-> peer.addr, session |-> p.session,
          peer |-> Target(Refreshed(p), ownport)]}

AckOf(p) == [op |-> "INITACK", to |-> p.from, session |-> p.session]

\* One choice of the two lookups for every open peer of the sender of p.
Lookups(p) ==
    [OpenPeers(p) -> (Port \cup {NoPort}) \X (Port \cup {NoPort})]

LookupOk(p, found) ==
    \A d \in OpenPeers(p) :
        /\ found[d][1] \in Resolve(session_list[p.session][d].addr)
        /\ found[d][2] \in Resolve(p.from)

HandleInit(p) ==
    /\ p.op = "INIT"
    /\ p.whole
    /\ session_list' = [session_list EXCEPT ![p.session] =
          [c \in Registered(p.session) \cup {p.client} |->
              IF c = p.client THEN Refreshed(p) ELSE session_list[p.session][c]]]
    /\ \E found \in Lookups(p) :
          /\ LookupOk(p, found)
          /\ net' = net \cup {AckOf(p)} \cup
                UNION {Introduce(p, d, found[d][1], found[d][2]) : d \in OpenPeers(p)}
    /\ introduced' = introduced
          \cup {<<p.session, p.client, d>> : d \in OpenPeers(p)}
          \cup {<<p.session, d, p.client>> : d \in OpenPeers(p)}
    /\ UNCHANGED met

(***************************************************************************)
(* An INIT without its local address: the INITACK is appended before       *)
(* get_local_addr raises, and handle_packet still returns it.              *)
(***************************************************************************)
HandleTerseInit(p) ==
    /\ p.op = "INIT"
    /\ ~p.whole
    /\ net' = net \cup {AckOf(p)}
    /\ UNCHANGED <<session_list, met, introduced>>

\* Mutant: an acknowledgement cleans the entry up.
HandleConnectAckDeleting(p) ==
    /\ p.op = "CONNECT_ACK"
    /\ p.client \in Registered(p.session)
    /\ session_list' = [session_list EXCEPT ![p.session] =
          [c \in Registered(p.session) \ {p.client} |-> session_list[p.session][c]]]
    /\ UNCHANGED <<net, met, introduced>>

\* An acknowledgement counts only for a client the session has an entry for.
HandleConnectAck(p) ==
    /\ p.op = "CONNECT_ACK"
    /\ p.client \in Registered(p.session)
    /\ session_list' = [session_list EXCEPT ![p.session][p.client].connected = TRUE]
    /\ UNCHANGED <<net, met, introduced>>

Handle(p) == HandleInit(p) \/ HandleTerseInit(p) \/ HandleConnectAck(p)

-----------------------------------------------------------------------------
(* The consoles (external) and the network. *)

InitOf(k) == [op |-> "INIT", from |-> k.ep, session |-> k.session,
              client |-> k.client, lport |-> k.lport, whole |-> k \notin Terse]

\* A console asks again until it knows a peer.
SendInit(k) ==
    /\ met[k] = {}
    /\ net' = net \cup {InitOf(k)}
    /\ UNCHANGED <<session_list, met, introduced>>

ReceiveConnect(k) ==
    \E m \in net :
        /\ m.op = "CONNECT"
        /\ m.to = k.ep
        /\ m.session = k.session
        /\ met' = [met EXCEPT ![k] = @ \cup {m.peer}]
        /\ net' = net \cup {[op |-> "CONNECT_ACK", session |-> k.session,
                             client |-> k.client]}
        /\ UNCHANGED <<session_list, introduced>>

Lose(p) ==
    /\ p.op \in Lossy
    /\ net' = net \ {p}
    /\ UNCHANGED <<session_list, met, introduced>>

Next ==
    \/ \E p \in net : Handle(p) \/ Lose(p)
    \/ \E k \in Console : SendInit(k) \/ ReceiveConnect(k)

Spec == Init /\ [][Next]_vars

(***************************************************************************)
(* The event loop handles every datagram that reaches the socket.  Strong  *)
(* fairness for a datagram that is in flight again and again is the usual  *)
(* assumption about a lossy link: it does not lose all copies for ever.    *)
(* Consoles keep asking while they know no peer.                           *)
(***************************************************************************)
Fairness ==
    /\ \A p \in {InitOf(k) : k \in Console} : SF_vars(p \in net /\ Handle(p))
    /\ \A k \in Console : WF_vars(SendInit(k)) /\ SF_vars(ReceiveConnect(k))

FairSpec == Spec /\ Fairness

-----------------------------------------------------------------------------
(* Properties. *)

EntryTable == UNION {[D -> Entry] : D \in SUBSET ClientId}

TypeOK ==
    /\ session_list \in [Session -> EntryTable]
    /\ net \subseteq Datagram
    /\ met \in [Console -> SUBSET Addr]
    /\ introduced \subseteq Session \X ClientId \X ClientId

\* Where a peer of console l may be told to find it.
PlacesOf(l) ==
    {l.ep, [ip |-> l.ep.ip, port |-> l.lport]}
        \cup {r \in Advertised : r.ip = l.ep.ip}

(***************************************************************************)
(* A CONNECT is only ever sent to a console of the session, and it names a *)
(* place of another client of the same session: whatever order the INITs   *)
(* of several sessions and of rebound consoles arrive in, nobody is told   *)
(* about itself or about a stranger (_handle_init's cross-matching).       *)
(***************************************************************************)
ConnectAuthentic ==
    \A m \in net : m.op = "CONNECT" =>
        \E k, l \in Console :
            /\ k.session = m.session /\ l.session = m.session
            /\ k.client # l.client
            /\ <<m.session, k.client, l.client>> \in introduced
            /\ m.to = k.ep
            /\ m.peer \in PlacesOf(l)

(***************************************************************************)
(* A client is only marked connected if it had been told where a peer is:  *)
(* an acknowledgement, however late or repeated, never marks a client that *)
(* was not introduced (_handle_connect_ack checks no state but the entry). *)
(***************************************************************************)
ConnectedWasIntroduced ==
    \A s \in Session : \A c \in Connected(s) :
        \E d \in Registered(s) : <<s, c, d>> \in introduced

\* Client c has acknowledged, and was introduced to somebody else than d.
MetAnother(s, c, d) ==
    /\ c \in Connected(s)
    /\ \E e \in Registered(s) \ {c, d} : <<s, c, e>> \in introduced

(***************************************************************************)
(* Two clients that are both registered have been introduced to each       *)
(* other, in both directions, unless one of them had met a third before:   *)
(* whichever INIT comes second finds the first (_handle_init).             *)
(***************************************************************************)
NobodyForgotten ==
    \A s \in Session : \A c, d \in Registered(s) :
        c # d =>
            \/ <<s, c, d>> \in introduced /\ <<s, d, c>> \in introduced
            \/ MetAnother(s, c, d)
            \/ MetAnother(s, d, c)

(***************************************************************************)
(* A console that sends complete INITs and got an INITACK has an entry in  *)
(* its session, although the INITACK is appended before the entry is made, *)
(* and keeps it for ever: nothing in the code takes an entry out, although *)
(* docs/servers/gamespy_natneg.md has one without a companion expire after *)
(* 30 seconds.                                                             *)
(***************************************************************************)
InitAckMeansRegistered ==
    \A m \in net : m.op = "INITACK" =>
        \A k \in Console \ Terse :
            k.session = m.session /\ k.ep = m.to => k.client \in Registered(k.session)

(***************************************************************************)
(* The inductive invariant: what the datagrams in flight and the history   *)
(* say of the entries.  ConnectAuthentic and ConnectedWasIntroduced are    *)
(* consequences of each other only through it: an entry holds what some    *)
(* console of its client sent, an acknowledgement in flight belongs to an  *)
(* introduced client, and introduced clients are registered.               *)
(***************************************************************************)
InitsReal ==
    \A p \in net : p.op = "INIT" => \E k \in Console : p = InitOf(k)

EntriesReal ==
    \A s \in Session : \A c \in Registered(s) :
        \E k \in Console :
            /\ k.session = s /\ k.client = c
            /\ session_list[s][c].addr = k.ep
            /\ session_list[s][c].lport = k.lport

IntroducedRegistered ==
    \A s \in Session : \A c, d \in ClientId :
        <<s, c, d>> \in introduced =>
            /\ {c, d} \subseteq Registered(s)
            /\ c # d
            /\ <<s, d, c>> \in introduced

AcksIntroduced ==
    \A p \in net : p.op = "CONNECT_ACK" =>
        \E d \in ClientId : <<p.session, p.client, d>> \in introduced

IInv ==
    /\ TypeOK /\ InitsReal /\ EntriesReal /\ IntroducedRegistered
    /\ AcksIntroduced /\ ConnectAuthentic /\ ConnectedWasIntroduced
    /\ NobodyForgotten

(***************************************************************************)
(* The server implements Rendezvous, which knows no datagrams: a client is *)
(* present once it has an entry, and settled once its entry is connected.  *)
(***************************************************************************)
R == INSTANCE Rendezvous WITH
        present <- [s \in Session |-> Registered(s)],
        settled <- [s \in Session |-> Connected(s)]

ImplementsRendezvous == R!Spec

(***************************************************************************)
(* Both consoles of a session are told where the other is, as promised by  *)
(* docs/servers/gamespy_natneg.md.  It needs the network to keep every     *)
(* CONNECT: _handle_init skips a peer that has acknowledged, so a console  *)
(* whose CONNECT was lost can no longer make the server send it again.     *)
(***************************************************************************)
BothMeet ==
    \A k, l \in Console \ Terse :
        k.session = l.session /\ k.client # l.client
            => <>(met[k] # {} /\ met[l] # {})

=============================================================================
