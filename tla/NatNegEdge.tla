----------------------------- MODULE NatNegEdge -----------------------------
(***************************************************************************)
(* NAT negotiation as it is deployed: the consoles speak to the UDP proxy  *)
(* of dpi_proxy/dpi_proxy.c, which wraps what its filter lets through in a *)
(* SOV header with the address of the sender and relays it to the server.  *)
(* The adapter of services/gamespy_natneg_server.py takes the header off,  *)
(* lets the logic of NatNeg handle the datagram, and wraps each datagram   *)
(* it sends in a header with the address it is for.                        *)
(*                                                                         *)
(* The server may restart: its memory is lost, and the container may come  *)
(* back with another address.  The proxy looked its address up once.       *)
(*                                                                         *)
(* The proxy is one loop that handles one datagram at a time, so handling  *)
(* one is a step.                                                          *)
(***************************************************************************)
EXTENDS Naturals, FiniteSets

CONSTANTS Session, ClientId, IP, Port, Console, Terse, Advertised, Lossy,
                       \* as in NatNeg
          BackendIP,   \* the addresses the container of the server may get
          Home,        \* the one it has when the proxy starts
          MaxRestarts  \* bound on the restarts of the server

ASSUME EdgeAssumption == Home \in BackendIP /\ MaxRestarts \in Nat

VARIABLES session_list, met, introduced, \* as in NatNeg
          outside,        \* datagrams between the consoles and the proxy
          inside,         \* datagrams between the proxy and the server
          backend,        \* the address of the server
          resolved_addr,  \* the address the proxy has for it
          restarts        \* how often the server has restarted

server == <<session_list, introduced>>
network == <<outside, inside>>
placement == <<backend, resolved_addr, restarts>>
vars == <<server, met, network, placement>>

(***************************************************************************)
(* A payload has no addresses.  Outside, a datagram to the proxy comes     *)
(* from peer, and one to a console goes to peer.  Inside, peer is what the *)
(* SOV header says and node is the container at the other end.             *)
(***************************************************************************)
Upstream == [op : {"INIT"}, session : Session, client : ClientId,
             lport : Port \cup {0}, whole : BOOLEAN]
            \cup [op : {"CONNECT_ACK"}, session : Session, client : ClientId]
Downstream == [op : {"INITACK"}, session : Session]
              \cup [op : {"CONNECT"}, session : Session, peer : [ip : IP, port : Port]]

Outside(dir, peer, data) == [dir |-> dir, peer |-> peer, data |-> data]
Inside(dir, node, peer, data) ==
    [dir |-> dir, node |-> node, peer |-> peer, data |-> data]

(***************************************************************************)
(* The datagram of NatNeg that a payload from or to an address stands for, *)
(* and the payload of a datagram that the logic sends.                     *)
(***************************************************************************)
Unwrap(m) ==
    CASE m.data.op = "INIT" ->
           [op |-> "INIT", from |-> m.peer, session |-> m.data.session,
            client |-> m.data.client, lport |-> m.data.lport, whole |-> m.data.whole]
      [] m.data.op = "CONNECT_ACK" -> m.data
      [] m.data.op = "INITACK" ->
           [op |-> "INITACK", to |-> m.peer, session |-> m.data.session]
      [] m.data.op = "CONNECT" ->
           [op |-> "CONNECT", to |-> m.peer, session |-> m.data.session,
            peer |-> m.data.peer]

Payload(p) ==
    IF p.op = "CONNECT"
    THEN [op |-> "CONNECT", session |-> p.session, peer |-> p.peer]
    ELSE [op |-> "INITACK", session |-> p.session]

\* The network that the consoles and the logic see.
N == INSTANCE NatNeg WITH net <- {Unwrap(m) : m \in outside \cup inside}

\* The assumptions of NatNeg about the consoles and the game servers.
ASSUME NatNegAssumption ==
    /\ Port \subseteq Nat \ {N!NoPort}
    /\ Console \subseteq N!ConsoleType
    /\ Terse \subseteq Console
    /\ \A k, l \in Console : k.session = l.session /\ k.ep = l.ep => k = l
    /\ Advertised \subseteq N!Addr

Init ==
    /\ session_list = [s \in Session |-> << >>]
    /\ met = [k \in Console |-> {}]
    /\ introduced = {}
    /\ outside = {}
    /\ inside = {}
    /\ backend = Home
    /\ resolved_addr = Home
    /\ restarts = 0

-----------------------------------------------------------------------------
(* The proxy. *)

(***************************************************************************)
(* Every datagram of a console passes the filter: it has the magic and an  *)
(* opcode up to 0x10.  One that a server has wrapped begins with the magic *)
(* of the SOV header instead.                                              *)
(***************************************************************************)
InspectNatneg(m) == m.dir = "up"

ProxyForward(m) ==
    /\ InspectNatneg(m)
    /\ inside' = inside \cup {Inside("up", resolved_addr, m.peer, m.data)}
    /\ UNCHANGED <<server, met, outside, placement>>

\* Mutant: the comparison with the address of the server is inverted.
ProxyReturnInverted(m) ==
    /\ m.dir = "down"
    /\ m.node # resolved_addr
    /\ outside' = outside \cup {Outside("down", m.peer, m.data)}
    /\ UNCHANGED <<server, met, inside, placement>>

(***************************************************************************)
(* Only a datagram from the address of the server is relayed.  From any    *)
(* other it is inspected like one of a console, and dropped.               *)
(***************************************************************************)
ProxyReturn(m) ==
    /\ m.dir = "down"
    /\ m.node = resolved_addr
    /\ outside' = outside \cup {Outside("down", m.peer, m.data)}
    /\ UNCHANGED <<server, met, inside, placement>>

-----------------------------------------------------------------------------
(* The server: adapter and logic. *)

\* Mutant: every header names the console that sent the INIT.
WrappedForSender(m, sent) == {Inside("down", backend, m.peer, Payload(p)) : p \in sent}

\* Each datagram goes to the proxy with a header that names its console.
Wrapped(m, sent) == {Inside("down", backend, p.to, Payload(p)) : p \in sent}

BackendInit(m) ==
    LET p == Unwrap(m)
        open == N!OpenPeers(p)
    IN  /\ p.op = "INIT"
        /\ p.whole
        /\ session_list' = [session_list EXCEPT ![p.session] =
              [c \in N!Registered(p.session) \cup {p.client} |->
                  IF c = p.client THEN N!Refreshed(p) ELSE session_list[p.session][c]]]
        /\ introduced' = introduced \cup ({p.session} \X {p.client} \X open)
                                    \cup ({p.session} \X open \X {p.client})
        /\ \E found \in N!Lookups(p) :
              /\ N!LookupOk(p, found)
              /\ inside' = inside \cup Wrapped(m, {N!AckOf(p)} \cup
                    UNION {N!Introduce(p, d, found[d][1], found[d][2]) : d \in open})

BackendTerseInit(m) ==
    LET p == Unwrap(m)
    IN  /\ p.op = "INIT"
        /\ ~p.whole
        /\ inside' = inside \cup Wrapped(m, {N!AckOf(p)})
        /\ UNCHANGED server

BackendConnectAck(m) ==
    LET p == Unwrap(m)
    IN  /\ p.op = "CONNECT_ACK"
        /\ p.client \in N!Registered(p.session)
        /\ session_list' = [session_list EXCEPT ![p.session][p.client].connected = TRUE]
        /\ UNCHANGED <<introduced, inside>>

DatagramReceived(m) ==
    /\ m.dir = "up"
    /\ m.node = backend
    /\ BackendInit(m) \/ BackendTerseInit(m) \/ BackendConnectAck(m)
    /\ UNCHANGED <<met, outside, placement>>

\* The container is restarted or recreated: "restart: always", update.sh.
Restart(address) ==
    /\ restarts < MaxRestarts
    /\ restarts' = restarts + 1
    /\ backend' = address
    /\ session_list' = [s \in Session |-> << >>]
    /\ UNCHANGED <<met, introduced, network, resolved_addr>>

-----------------------------------------------------------------------------
(* The consoles (external) and the loss of datagrams. *)

InitPayload(k) == [op |-> "INIT", session |-> k.session, client |-> k.client,
                   lport |-> k.lport, whole |-> k \notin Terse]

SendInit(k) ==
    /\ met[k] = {}
    /\ outside' = outside \cup {Outside("up", k.ep, InitPayload(k))}
    /\ UNCHANGED <<server, met, inside, placement>>

ReceiveConnect(k) ==
    \E m \in outside :
        /\ m.dir = "down"
        /\ m.data.op = "CONNECT"
        /\ m.peer = k.ep
        /\ m.data.session = k.session
        /\ met' = [met EXCEPT ![k] = @ \cup {m.data.peer}]
        /\ outside' = outside \cup {Outside("up", k.ep,
              [op |-> "CONNECT_ACK", session |-> k.session, client |-> k.client])}
        /\ UNCHANGED <<server, inside, placement>>

LoseOutside(m) ==
    /\ m.data.op \in Lossy
    /\ outside' = outside \ {m}
    /\ UNCHANGED <<server, met, inside, placement>>

LoseInside(m) ==
    /\ m.data.op \in Lossy
    /\ inside' = inside \ {m}
    /\ UNCHANGED <<server, met, outside, placement>>

Next ==
    \/ \E m \in outside : ProxyForward(m) \/ LoseOutside(m)
    \/ \E m \in inside : ProxyReturn(m) \/ DatagramReceived(m) \/ LoseInside(m)
    \/ \E k \in Console : SendInit(k) \/ ReceiveConnect(k)
    \/ \E address \in BackendIP : Restart(address)

Spec == Init /\ [][Next]_vars

(***************************************************************************)
(* Fairness as in NatNeg, at each hop: the two loops handle what reaches   *)
(* their sockets, the links do not lose every copy for ever, and consoles  *)
(* keep asking while they know no peer.                                    *)
(***************************************************************************)
Fairness ==
    \A k \in Console :
        LET asked == Outside("up", k.ep, InitPayload(k))
        IN  /\ WF_vars(SendInit(k))
            /\ SF_vars(ReceiveConnect(k))
            /\ SF_vars(asked \in outside /\ ProxyForward(asked))
            /\ SF_vars(\E m \in inside :
                          /\ m.peer = k.ep /\ m.data = InitPayload(k)
                          /\ DatagramReceived(m))
            /\ SF_vars(\E m \in inside :
                          /\ m.peer = k.ep /\ m.data.op = "CONNECT"
                          /\ ProxyReturn(m))

FairSpec == Spec /\ Fairness

-----------------------------------------------------------------------------
(* Properties. *)

TypeOK ==
    /\ session_list \in [Session -> N!EntryTable]
    /\ met \in [Console -> SUBSET N!Addr]
    /\ introduced \subseteq Session \X ClientId \X ClientId
    /\ outside \subseteq [dir : {"up"}, peer : N!Addr, data : Upstream]
                         \cup [dir : {"down"}, peer : N!Addr, data : Downstream]
    /\ inside \subseteq [dir : {"up"}, node : BackendIP, peer : N!Addr, data : Upstream]
                        \cup [dir : {"down"}, node : BackendIP, peer : N!Addr, data : Downstream]
    /\ {backend, resolved_addr} \subseteq BackendIP
    /\ restarts \in 0 .. MaxRestarts

(***************************************************************************)
(* The proxy is transparent: every step but a restart is one of NatNeg, or *)
(* moves a datagram that the consoles and the logic cannot tell from where *)
(* it was, so that the theorems of NatNeg hold for the deployed system     *)
(* until its first restart (handle_incoming_packet and datagram_received   *)
(* put back the addresses that each other took off).                       *)
(***************************************************************************)
ImplementsNatNeg ==
    N!Init /\ [][restarts' = restarts => [N!Next]_(N!vars)]_vars

(***************************************************************************)
(* Whatever the restarts, a console is only told of places of another      *)
(* client of its session: what a server sends after it lost its memory, or *)
(* what is still in flight from before, misleads nobody.  (With the types  *)
(* of everything.)                                                         *)
(***************************************************************************)
ToldOnlyPeers ==
    /\ TypeOK
    /\ \A k \in Console : \A a \in met[k] :
          \E l \in Console :
              /\ l.session = k.session
              /\ l.client # k.client
              /\ a \in N!PlacesOf(l)

(***************************************************************************)
(* A server that restarts loses the sessions, and the consoles that keep   *)
(* asking fill them again: somebody is told of its peer all the same, if   *)
(* the server comes back at the address the proxy looked up when it        *)
(* started (dpi_proxy.h calls the host name dynamic, but it is resolved    *)
(* only once).                                                             *)
(***************************************************************************)
SomeoneMeets ==
    \A k, l \in Console \ Terse :
        k.session = l.session /\ k.client # l.client /\ <>[](backend = resolved_addr)
            => <>(met[k] # {} \/ met[l] # {})
=============================================================================
