-------------------------- MODULE NatNegEdgeProofs --------------------------
(***************************************************************************)
(* Proofs about NAT negotiation behind the proxy.  Without restarts the    *)
(* deployed system implements NatNeg, step by step, and so inherits its    *)
(* theorems.  A restart is no step of NatNeg, but what consoles are told   *)
(* depends on no memory of the server, and stays true.                     *)
(***************************************************************************)
EXTENDS NatNegEdge, TLAPS

\* The lemmas and theorems of NatNeg, about the network that N sees.
NP == INSTANCE NatNegProofs WITH net <- {Unwrap(m) : m \in outside \cup inside}

net == {Unwrap(m) : m \in outside \cup inside}

LEMMA Assumptions == NP!PortAssumption /\ NP!ConsoleAssumption /\ NP!AdvertisedAssumption
BY NatNegAssumption DEF NP!PortAssumption, NP!ConsoleAssumption, NP!AdvertisedAssumption,
   N!NoPort, NP!NoPort, N!ConsoleType, NP!ConsoleType, N!Addr, NP!Addr

(***************************************************************************)
(* N and NP have the same definitions, those of NatNeg.                    *)
(***************************************************************************)
LEMMA SameTypes ==
    /\ N!Addr = NP!Addr /\ N!EntryTable = NP!EntryTable
    /\ \A k : N!InitOf(k) = NP!InitOf(k) /\ N!PlacesOf(k) = NP!PlacesOf(k)
    /\ N!Init <=> NP!Init
BY DEF N!Addr, NP!Addr, N!EntryTable, NP!EntryTable, N!Entry, NP!Entry,
   N!InitOf, NP!InitOf, N!PlacesOf, NP!PlacesOf, N!Init, NP!Init, N!NoPort, NP!NoPort

LEMMA SameNext == N!Next <=> NP!Next
BY DEF N!Next, NP!Next, N!Handle, NP!Handle, N!HandleInit, NP!HandleInit,
   N!HandleTerseInit, NP!HandleTerseInit, N!HandleConnectAck, NP!HandleConnectAck,
   N!Lose, NP!Lose, N!SendInit, NP!SendInit, N!ReceiveConnect, NP!ReceiveConnect,
   N!InitOf, NP!InitOf, N!Registered, NP!Registered, N!Connected, NP!Connected,
   N!Refreshed, NP!Refreshed, N!OpenPeers, NP!OpenPeers, N!Lookups, NP!Lookups,
   N!LookupOk, NP!LookupOk, N!Resolve, NP!Resolve, N!Introduce, NP!Introduce,
   N!Target, NP!Target, N!AckOf, NP!AckOf, N!NoPort, NP!NoPort

LEMMA SameStep == [N!Next]_(N!vars) <=> [NP!Next]_(NP!vars)
BY SameNext DEF N!vars, NP!vars

-----------------------------------------------------------------------------
(***************************************************************************)
(* What Unwrap makes of the datagrams that are sent.                       *)
(***************************************************************************)

\* Unwrap reads the address and the payload, not where a datagram is.
LEMMA UnwrapMoved ==
    ASSUME NEW m, NEW dir, NEW node
    PROVE  /\ Unwrap(Inside(dir, node, m.peer, m.data)) = Unwrap(m)
           /\ Unwrap(Outside(dir, m.peer, m.data)) = Unwrap(m)
BY DEF Unwrap, Inside, Outside

\* The header that the adapter puts on brings back the address of the console.
LEMMA UnwrapAck ==
    ASSUME NEW node, NEW to, NEW s
    PROVE  LET p == [op |-> "INITACK", to |-> to, session |-> s]
           IN  Unwrap(Inside("down", node, p.to, Payload(p))) = p
BY DEF Unwrap, Inside, Payload

LEMMA UnwrapConnect ==
    ASSUME NEW node, NEW to, NEW s, NEW a
    PROVE  LET p == [op |-> "CONNECT", to |-> to, session |-> s, peer |-> a]
           IN  Unwrap(Inside("down", node, p.to, Payload(p))) = p
BY DEF Unwrap, Inside, Payload

\* What the logic of NatNeg sends.
Answers(p) ==
    \/ \E to, s : p = [op |-> "INITACK", to |-> to, session |-> s]
    \/ \E to, s, a : p = [op |-> "CONNECT", to |-> to, session |-> s, peer |-> a]

LEMMA UnwrapWrapped ==
    ASSUME NEW m, NEW sent, \A p \in sent : Answers(p)
    PROVE  {Unwrap(x) : x \in Wrapped(m, sent)} = sent
<1>1. ASSUME NEW p \in sent
      PROVE  Unwrap(Inside("down", backend, p.to, Payload(p))) = p
  BY UnwrapAck, UnwrapConnect DEF Answers
<1> QED BY <1>1 DEF Wrapped

\* What a console sends is in the network of NatNeg as NatNeg has it.
LEMMA UnwrapSent ==
    ASSUME NEW k
    PROVE  /\ Unwrap(Outside("up", k.ep, InitPayload(k))) = N!InitOf(k)
           /\ \A q : q.op = "CONNECT_ACK" => Unwrap(Outside("up", k.ep, q)) = q
BY DEF Unwrap, Outside, InitPayload, N!InitOf

\* The datagrams of the consoles and of the server are of four kinds.
LEMMA Kinds ==
    ASSUME TypeOK, NEW m \in outside \cup inside
    PROVE  /\ m.data.op \in {"INIT", "INITACK", "CONNECT", "CONNECT_ACK"}
           /\ Unwrap(m).op = m.data.op
<1>1. m.data \in Upstream \cup Downstream
  BY DEF TypeOK
<1>2. m.data.op \in {"INIT", "INITACK", "CONNECT", "CONNECT_ACK"}
  BY <1>1 DEF Upstream, Downstream
<1> QED BY <1>2 DEF Unwrap

-----------------------------------------------------------------------------
(***************************************************************************)
(* Every step but a restart is a step of NatNeg, or changes nothing there. *)
(***************************************************************************)

\* The proxy moves a datagram that NatNeg has already.
LEMMA ProxyStep ==
    ASSUME NEW m, (m \in outside /\ ProxyForward(m)) \/ (m \in inside /\ ProxyReturn(m))
    PROVE  UNCHANGED (N!vars)
<1>1. CASE m \in outside /\ ProxyForward(m)
  <2>1. PICK x : /\ x = Inside("up", resolved_addr, m.peer, m.data)
                 /\ inside' = inside \cup {x} /\ outside' = outside
                 /\ UNCHANGED <<session_list, introduced, met>>
    BY <1>1 DEF ProxyForward, server
  <2>2. Unwrap(x) = Unwrap(m)
    BY <2>1, UnwrapMoved
  <2>3. net' = net
    BY <1>1, <2>1, <2>2 DEF net
  <2> QED BY <2>1, <2>3 DEF net, N!vars
<1>2. CASE m \in inside /\ ProxyReturn(m)
  <2>1. PICK x : /\ x = Outside("down", m.peer, m.data)
                 /\ outside' = outside \cup {x} /\ inside' = inside
                 /\ UNCHANGED <<session_list, introduced, met>>
    BY <1>2 DEF ProxyReturn, server
  <2>2. Unwrap(x) = Unwrap(m)
    BY <2>1, UnwrapMoved
  <2>3. net' = net
    BY <1>2, <2>1, <2>2 DEF net
  <2> QED BY <2>1, <2>3 DEF net, N!vars
<1> QED BY <1>1, <1>2

\* The adapter lets the logic of NatNeg handle what it has unwrapped.
LEMMA BackendStep ==
    ASSUME NEW m \in inside, DatagramReceived(m)
    PROVE  N!Handle(Unwrap(m))
<1>1. PICK p : p = Unwrap(m)
  OBVIOUS
<1>2. UNCHANGED <<met, outside>>
  BY DEF DatagramReceived
<1>3. N!AckOf(p) = [op |-> "INITACK", to |-> p.from, session |-> p.session]
  BY DEF N!AckOf
<1>4. CASE BackendInit(m)
  <2>1. PICK found \in N!Lookups(p) :
           /\ N!LookupOk(p, found)
           /\ inside' = inside \cup Wrapped(m, {N!AckOf(p)} \cup
                 UNION {N!Introduce(p, d, found[d][1], found[d][2]) : d \in N!OpenPeers(p)})
    BY <1>1, <1>4 DEF BackendInit
  <2>2. PICK sent : sent = {N!AckOf(p)} \cup
                 UNION {N!Introduce(p, d, found[d][1], found[d][2]) : d \in N!OpenPeers(p)}
    OBVIOUS
  <2>3. ASSUME NEW q \in sent PROVE Answers(q)
    <3>1. CASE q = N!AckOf(p)
      BY <1>3, <3>1 DEF Answers
    <3>2. ASSUME NEW d \in N!OpenPeers(p), q \in N!Introduce(p, d, found[d][1], found[d][2])
          PROVE  Answers(q)
      BY <3>2 DEF N!Introduce, Answers
    <3> QED BY <2>2, <3>1, <3>2
  <2>4. {Unwrap(x) : x \in Wrapped(m, sent)} = sent
    BY <2>3, UnwrapWrapped
  <2>5. net' = net \cup sent
    BY <1>2, <2>1, <2>2, <2>4 DEF net
  <2>6. net' = net \cup {N!AckOf(p)} \cup
           UNION {N!Introduce(p, d, found[d][1], found[d][2]) : d \in N!OpenPeers(p)}
    BY <2>2, <2>5
  <2>7. introduced' = introduced
           \cup {<<p.session, p.client, d>> : d \in N!OpenPeers(p)}
           \cup {<<p.session, d, p.client>> : d \in N!OpenPeers(p)}
    <3>1. introduced' = introduced \cup ({p.session} \X {p.client} \X N!OpenPeers(p))
                                   \cup ({p.session} \X N!OpenPeers(p) \X {p.client})
      BY <1>1, <1>4 DEF BackendInit
    <3>2. {p.session} \X {p.client} \X N!OpenPeers(p)
             = {<<p.session, p.client, d>> : d \in N!OpenPeers(p)}
      OBVIOUS
    <3>3. {p.session} \X N!OpenPeers(p) \X {p.client}
             = {<<p.session, d, p.client>> : d \in N!OpenPeers(p)}
      OBVIOUS
    <3> QED BY <3>1, <3>2, <3>3
  <2>8. /\ p.op = "INIT" /\ p.whole
        /\ session_list' = [session_list EXCEPT ![p.session] =
              [c \in N!Registered(p.session) \cup {p.client} |->
                  IF c = p.client THEN N!Refreshed(p) ELSE session_list[p.session][c]]]
    BY <1>1, <1>4 DEF BackendInit
  <2>9. N!HandleInit(p)
    BY <1>2, <2>1, <2>6, <2>7, <2>8 DEF N!HandleInit, net
  <2> QED BY <1>1, <2>9 DEF N!Handle
<1>5. CASE BackendTerseInit(m)
  <2>1. /\ p.op = "INIT" /\ ~ p.whole /\ inside' = inside \cup Wrapped(m, {N!AckOf(p)})
        /\ UNCHANGED <<session_list, introduced>>
    BY <1>1, <1>5 DEF BackendTerseInit, server
  <2>2. {Unwrap(x) : x \in Wrapped(m, {N!AckOf(p)})} = {N!AckOf(p)}
    BY <1>3, UnwrapWrapped DEF Answers
  <2>3. net' = net \cup {N!AckOf(p)}
    BY <1>2, <2>1, <2>2 DEF net
  <2> QED BY <1>1, <1>2, <2>1, <2>3 DEF N!Handle, N!HandleTerseInit, net
<1>6. CASE BackendConnectAck(m)
  <2>1. net' = net
    BY <1>2, <1>6 DEF net, BackendConnectAck
  <2> QED BY <1>1, <1>2, <1>6, <2>1 DEF BackendConnectAck, N!Handle, N!HandleConnectAck, net
<1> QED BY <1>4, <1>5, <1>6 DEF DatagramReceived

\* A datagram that is lost may still be on the other side of the proxy.
LEMMA LoseStep ==
    ASSUME TypeOK, NEW m,
           (m \in outside /\ LoseOutside(m)) \/ (m \in inside /\ LoseInside(m))
    PROVE  N!Lose(Unwrap(m)) \/ UNCHANGED (N!vars)
<1>1. /\ m \in outside \cup inside /\ m.data.op \in Lossy
      /\ UNCHANGED <<session_list, introduced, met>>
  BY DEF LoseOutside, LoseInside, server
<1>2. Unwrap(m).op \in Lossy
  BY <1>1, Kinds
<1>3. net \ {Unwrap(m)} \subseteq net' /\ net' \subseteq net
  BY DEF LoseOutside, LoseInside, net
<1>4. net' = net \/ net' = net \ {Unwrap(m)}
  BY <1>1, <1>3 DEF net
<1> QED BY <1>1, <1>2, <1>4 DEF N!Lose, N!vars, net

LEMMA ConsoleStep ==
    ASSUME TypeOK, NEW k \in Console, SendInit(k) \/ ReceiveConnect(k)
    PROVE  N!SendInit(k) \/ N!ReceiveConnect(k)
<1>1. CASE SendInit(k)
  <2>1. /\ met[k] = {} /\ UNCHANGED <<session_list, introduced, met, inside>>
        /\ outside' = outside \cup {Outside("up", k.ep, InitPayload(k))}
    BY <1>1 DEF SendInit, server
  <2>2. net' = net \cup {N!InitOf(k)}
    BY <2>1, UnwrapSent DEF net
  <2> QED BY <2>1, <2>2 DEF N!SendInit, net
<1>2. CASE ReceiveConnect(k)
  <2>1. PICK m, ack :
           /\ m \in outside /\ m.data.op = "CONNECT" /\ m.peer = k.ep /\ m.data.session = k.session
           /\ met' = [met EXCEPT ![k] = @ \cup {m.data.peer}]
           /\ ack = [op |-> "CONNECT_ACK", session |-> k.session, client |-> k.client]
           /\ outside' = outside \cup {Outside("up", k.ep, ack)}
           /\ UNCHANGED <<session_list, introduced, inside>>
    BY <1>2 DEF ReceiveConnect, server
  <2>2. net' = net \cup {ack}
    BY <2>1, UnwrapSent DEF net
  <2>3. PICK q \in net : q = Unwrap(m)
    BY <2>1 DEF net
  <2>4. q.op = "CONNECT" /\ q.to = k.ep /\ q.session = k.session /\ q.peer = m.data.peer
    BY <2>1, <2>3 DEF Unwrap
  <2> QED BY <2>1, <2>2, <2>3, <2>4 DEF N!ReceiveConnect, net
<1> QED BY <1>1, <1>2

LEMMA StepImplements ==
    ASSUME TypeOK, [Next]_vars, restarts' = restarts
    PROVE  [N!Next]_(N!vars)
<1>1. ASSUME NEW m \in outside, ProxyForward(m) \/ LoseOutside(m)
      PROVE  [N!Next]_(N!vars)
  <2>1. Unwrap(m) \in net
    BY DEF net
  <2> QED BY <1>1, <2>1, ProxyStep, LoseStep DEF N!Next, net
<1>2. ASSUME NEW m \in inside, ProxyReturn(m) \/ DatagramReceived(m) \/ LoseInside(m)
      PROVE  [N!Next]_(N!vars)
  <2>1. Unwrap(m) \in net
    BY DEF net
  <2> QED BY <1>2, <2>1, ProxyStep, BackendStep, LoseStep DEF N!Next, net
<1>3. ASSUME NEW k \in Console, SendInit(k) \/ ReceiveConnect(k)
      PROVE  [N!Next]_(N!vars)
  BY <1>3, ConsoleStep DEF N!Next
<1>4. ASSUME NEW address \in BackendIP, Restart(address) PROVE FALSE
  BY <1>4 DEF Restart, TypeOK
<1>5. CASE UNCHANGED vars
  BY <1>5 DEF vars, server, network, N!vars
<1> QED BY <1>1, <1>2, <1>3, <1>4, <1>5 DEF Next

-----------------------------------------------------------------------------
(***************************************************************************)
(* The inductive invariant, restarts included: types, and the part of the  *)
(* invariant of NatNeg that is about no history.                           *)
(***************************************************************************)
EdgeInv == TypeOK /\ NP!Real /\ NP!MetReal

LEMMA InitEdgeInv == Init => EdgeInv
<1> SUFFICES ASSUME Init PROVE EdgeInv
  OBVIOUS
<1>1. << >> \in N!EntryTable /\ << >> \in NP!EntryTable
  <2>1. << >> \in [{} -> NP!Entry]
    OBVIOUS
  <2>2. << >> \in NP!EntryTable
    BY <2>1, NP!EntryTables, Assumptions
  <2> QED BY <2>2, SameTypes
<1>2. TypeOK
  BY <1>1, EdgeAssumption DEF Init, TypeOK
<1>3. {Unwrap(m) : m \in outside \cup inside} = {}
  BY DEF Init
<1>4. NP!TypeOK
  BY <1>1, <1>3 DEF Init, NP!TypeOK
<1>5. NP!InitsReal /\ NP!EntriesReal /\ NP!ConnectsReal /\ NP!MetReal
  BY <1>3 DEF Init, NP!InitsReal, NP!EntriesReal, NP!ConnectsReal, NP!MetReal, NP!Registered
<1> QED BY <1>2, <1>4, <1>5 DEF EdgeInv, NP!Real

\* A step of NatNeg keeps what is real.
LEMMA RealKept ==
    ASSUME EdgeInv, [Next]_vars, restarts' = restarts
    PROVE  NP!Real' /\ NP!MetReal'
<1>1. [N!Next]_(N!vars)
  BY StepImplements DEF EdgeInv
<1>2. [NP!Next]_(NP!vars)
  BY <1>1, SameStep
<1> QED BY <1>2, NP!RealStep, NP!MetStep, Assumptions DEF EdgeInv

\* A server that has lost its memory has no entry that could be wrong.
LEMMA RealAfterRestart ==
    ASSUME EdgeInv, NEW address, Restart(address)
    PROVE  NP!Real' /\ NP!MetReal'
<1>1. /\ session_list' = [s \in Session |-> << >>]
      /\ UNCHANGED <<met, introduced, outside, inside>>
  BY DEF Restart, network
<1>2. << >> \in NP!EntryTable
  <2>1. << >> \in [{} -> NP!Entry]
    OBVIOUS
  <2> QED BY <2>1, NP!EntryTables, Assumptions
<1>3. NP!TypeOK'
  BY <1>1, <1>2 DEF EdgeInv, NP!Real, NP!TypeOK
<1>4. NP!EntriesReal'
  BY <1>1 DEF NP!EntriesReal, NP!Registered
<1>5. NP!InitsReal' /\ NP!ConnectsReal' /\ NP!MetReal'
  BY <1>1 DEF EdgeInv, NP!Real, NP!InitsReal, NP!ConnectsReal, NP!MetReal
<1> QED BY <1>3, <1>4, <1>5 DEF NP!Real

\* What the adapter sends are answers with a header.
LEMMA BackendSends ==
    ASSUME NEW m \in inside, DatagramReceived(m)
    PROVE  \A x \in inside' : x \in inside \/
              \E p : /\ Answers(p) /\ p = Unwrap(x)
                    /\ x = Inside("down", backend, p.to, Payload(p))
<1>1. PICK p : p = Unwrap(m)
  OBVIOUS
<1>2. Answers(N!AckOf(p))
  BY DEF N!AckOf, Answers
<1>3. ASSUME NEW sent, \A q \in sent : Answers(q), inside' = inside \cup Wrapped(m, sent)
      PROVE  \A x \in inside' : x \in inside \/
                \E q : /\ Answers(q) /\ q = Unwrap(x)
                      /\ x = Inside("down", backend, q.to, Payload(q))
  <2>1. ASSUME NEW q, Answers(q) PROVE Unwrap(Inside("down", backend, q.to, Payload(q))) = q
    BY <2>1, UnwrapAck, UnwrapConnect DEF Answers
  <2> QED BY <1>3, <2>1 DEF Wrapped
<1>4. CASE BackendInit(m)
  <2>1. PICK found \in N!Lookups(p) :
           inside' = inside \cup Wrapped(m, {N!AckOf(p)} \cup
              UNION {N!Introduce(p, d, found[d][1], found[d][2]) : d \in N!OpenPeers(p)})
    BY <1>1, <1>4 DEF BackendInit
  <2>2. \A d \in N!OpenPeers(p) : \A q \in N!Introduce(p, d, found[d][1], found[d][2]) :
           Answers(q)
    BY DEF N!Introduce, Answers
  <2>3. PICK sent : sent = {N!AckOf(p)} \cup
           UNION {N!Introduce(p, d, found[d][1], found[d][2]) : d \in N!OpenPeers(p)}
    OBVIOUS
  <2>4. \A q \in sent : Answers(q)
    BY <1>2, <2>2, <2>3
  <2> QED BY <1>3, <2>1, <2>3, <2>4
<1>5. CASE BackendTerseInit(m)
  BY <1>1, <1>2, <1>3, <1>5 DEF BackendTerseInit
<1>6. CASE BackendConnectAck(m)
  BY <1>6 DEF BackendConnectAck
<1> QED BY <1>4, <1>5, <1>6 DEF DatagramReceived

UpDatagrams == [dir : {"up"}, peer : N!Addr, data : Upstream]
DownDatagrams == [dir : {"down"}, peer : N!Addr, data : Downstream]
UpWrapped == [dir : {"up"}, node : BackendIP, peer : N!Addr, data : Upstream]
DownWrapped == [dir : {"down"}, node : BackendIP, peer : N!Addr, data : Downstream]

LEMMA DatagramTypes ==
    ASSUME EdgeInv, [Next]_vars, NP!Real'
    PROVE  /\ outside' \subseteq UpDatagrams \cup DownDatagrams
           /\ inside' \subseteq UpWrapped \cup DownWrapped
<1>. USE DEF UpDatagrams, DownDatagrams, UpWrapped, DownWrapped
<1>1. /\ outside \subseteq UpDatagrams \cup DownDatagrams
      /\ inside \subseteq UpWrapped \cup DownWrapped
      /\ backend \in BackendIP /\ resolved_addr \in BackendIP
  BY DEF EdgeInv, TypeOK
<1>2. ASSUME NEW m \in outside, ProxyForward(m)
      PROVE  /\ outside' = outside
             /\ inside' \subseteq UpWrapped \cup DownWrapped
  BY <1>1, <1>2 DEF ProxyForward, InspectNatneg, Inside
<1>3. ASSUME NEW m \in inside, ProxyReturn(m)
      PROVE  /\ inside' = inside
             /\ outside' \subseteq UpDatagrams \cup DownDatagrams
  BY <1>1, <1>3 DEF ProxyReturn, Outside
<1>4. ASSUME NEW m \in inside, DatagramReceived(m)
      PROVE  /\ outside' = outside
             /\ inside' \subseteq UpWrapped \cup DownWrapped
  <2>1. ASSUME NEW x \in inside', x \notin inside PROVE x \in DownWrapped
    <3>1. PICK p : /\ Answers(p) /\ p = Unwrap(x)
                   /\ x = Inside("down", backend, p.to, Payload(p))
      BY <1>4, <2>1, BackendSends
    <3>2. p \in NP!Datagram
      <4>1. p \in net'
        BY <3>1 DEF net
      <4> QED BY <4>1 DEF NP!Real, NP!TypeOK, net
    <3>3. p.to \in N!Addr /\ Payload(p) \in Downstream
      <4>1. CASE p.op = "INITACK"
        <5>1. p \in NP!InitAckPkt
          BY <3>2, <4>1 DEF NP!Datagram, NP!InitPkt, NP!ConnectPkt, NP!ConnectAckPkt
        <5> QED BY <4>1, <5>1, SameTypes DEF NP!InitAckPkt, Payload, Downstream
      <4>2. CASE p.op = "CONNECT"
        <5>1. p \in NP!ConnectPkt
          BY <3>2, <4>2 DEF NP!Datagram, NP!InitPkt, NP!InitAckPkt, NP!ConnectAckPkt
        <5>2. p.to \in N!Addr /\ p.session \in Session /\ p.peer \in [ip : IP, port : Port]
          BY <5>1, SameTypes DEF NP!ConnectPkt, NP!Addr
        <5> QED BY <4>2, <5>2 DEF Payload, Downstream
      <4>3. CASE \E to, t : p = [op |-> "INITACK", to |-> to, session |-> t]
        BY <4>1, <4>3
      <4>4. CASE \E to, t, a : p = [op |-> "CONNECT", to |-> to, session |-> t, peer |-> a]
        BY <4>2, <4>4
      <4> QED BY <3>1, <4>3, <4>4 DEF Answers
    <3> QED BY <1>1, <3>1, <3>3 DEF Inside
  <2> QED BY <1>1, <1>4, <2>1 DEF DatagramReceived
<1>5. ASSUME NEW k \in Console, SendInit(k)
      PROVE  /\ inside' = inside
             /\ outside' \subseteq UpDatagrams \cup DownDatagrams
  <2>1. k.ep \in N!Addr /\ InitPayload(k) \in Upstream
    BY NatNegAssumption DEF N!ConsoleType, InitPayload, Upstream, N!NoPort
  <2> QED BY <1>1, <1>5, <2>1 DEF SendInit, Outside
<1>6. ASSUME NEW k \in Console, ReceiveConnect(k)
      PROVE  /\ inside' = inside
             /\ outside' \subseteq UpDatagrams \cup DownDatagrams
  <2>1. /\ k.ep \in N!Addr
        /\ [op |-> "CONNECT_ACK", session |-> k.session, client |-> k.client] \in Upstream
    BY NatNegAssumption DEF N!ConsoleType, Upstream
  <2> QED BY <1>1, <1>6, <2>1 DEF ReceiveConnect, Outside
<1>7. ASSUME NEW m, LoseOutside(m) \/ LoseInside(m)
      PROVE  outside' \subseteq outside /\ inside' \subseteq inside
  BY <1>7 DEF LoseOutside, LoseInside
<1>8. ASSUME NEW address, Restart(address)
      PROVE  outside' = outside /\ inside' = inside
  BY <1>8 DEF Restart, network
<1>9. CASE UNCHANGED vars
  BY <1>1, <1>9 DEF vars, network
<1> QED BY <1>1, <1>2, <1>3, <1>4, <1>5, <1>6, <1>7, <1>8, <1>9 DEF Next

LEMMA EdgeStep ==
    ASSUME EdgeInv, [Next]_vars
    PROVE  EdgeInv'
<1>1. ASSUME restarts' = restarts PROVE NP!Real' /\ NP!MetReal'
  BY <1>1, RealKept
<1>2. ASSUME NEW address, Restart(address) PROVE NP!Real' /\ NP!MetReal'
  BY <1>2, RealAfterRestart
<1>3. /\ \/ restarts' = restarts /\ backend' = backend
         \/ restarts' \in 0 .. MaxRestarts /\ \E address \in BackendIP : Restart(address)
      /\ backend' \in BackendIP /\ resolved_addr' = resolved_addr
  <2>1. ASSUME NEW address \in BackendIP, Restart(address)
        PROVE  /\ restarts' \in 0 .. MaxRestarts /\ backend' = address
               /\ resolved_addr' = resolved_addr
    BY <2>1, EdgeAssumption DEF EdgeInv, TypeOK, Restart
  <2>2. ASSUME NEW m, ProxyForward(m) \/ LoseOutside(m) \/ ProxyReturn(m)
                        \/ DatagramReceived(m) \/ LoseInside(m)
        PROVE  UNCHANGED placement
    BY <2>2 DEF ProxyForward, LoseOutside, ProxyReturn, DatagramReceived, LoseInside
  <2>3. ASSUME NEW k, SendInit(k) \/ ReceiveConnect(k)
        PROVE  UNCHANGED placement
    BY <2>3 DEF SendInit, ReceiveConnect
  <2> QED BY <2>1, <2>2, <2>3 DEF Next, vars, placement, EdgeInv, TypeOK
<1>4. NP!Real' /\ NP!MetReal'
  BY <1>1, <1>2, <1>3
<1>5. TypeOK'
  <2>1. /\ session_list' \in [Session -> N!EntryTable]
        /\ met' \in [Console -> SUBSET N!Addr]
        /\ introduced' \subseteq Session \X ClientId \X ClientId
    BY <1>4, SameTypes DEF NP!Real, NP!TypeOK, N!Addr, NP!Addr, N!EntryTable, NP!EntryTable
  <2>2. /\ outside' \subseteq [dir : {"up"}, peer : N!Addr, data : Upstream]
                            \cup [dir : {"down"}, peer : N!Addr, data : Downstream]
        /\ inside' \subseteq
              [dir : {"up"}, node : BackendIP, peer : N!Addr, data : Upstream]
              \cup [dir : {"down"}, node : BackendIP, peer : N!Addr, data : Downstream]
    BY <1>4, DatagramTypes DEF UpDatagrams, DownDatagrams, UpWrapped, DownWrapped
  <2>3. {backend', resolved_addr'} \subseteq BackendIP /\ restarts' \in 0 .. MaxRestarts
    BY <1>3 DEF EdgeInv, TypeOK
  <2> QED BY <2>1, <2>2, <2>3 DEF TypeOK
<1> QED BY <1>4, <1>5 DEF EdgeInv

-----------------------------------------------------------------------------
(***************************************************************************)
(* The theorems.                                                           *)
(***************************************************************************)

(***************************************************************************)
(* The inductive invariant, whatever restarts, losses and stale datagrams. *)
(***************************************************************************)
THEOREM Invariance == Spec => []EdgeInv
<1>1. EdgeInv /\ [Next]_vars => EdgeInv'
  BY EdgeStep
<1> QED BY <1>1, InitEdgeInv, PTL DEF Spec

(***************************************************************************)
(* A console is only told of places of another client of its session, also *)
(* by a server that has lost its memory (ToldOnlyPeers, with the types).   *)
(***************************************************************************)
THEOREM StrangersAreNeverTold == Spec => []ToldOnlyPeers
<1>1. EdgeInv => ToldOnlyPeers
  BY SameTypes DEF EdgeInv, NP!MetReal, ToldOnlyPeers
<1> QED BY <1>1, Invariance, PTL

(***************************************************************************)
(* The proxy is transparent: every step but a restart is a step of NatNeg  *)
(* or none (ImplementsNatNeg).                                             *)
(***************************************************************************)
THEOREM ProxyIsTransparent == Spec => ImplementsNatNeg
<1>1. Init => N!Init
  BY DEF Init, N!Init
<1>2. EdgeInv /\ [Next]_vars => [restarts' = restarts => [N!Next]_(N!vars)]_vars
  BY StepImplements DEF EdgeInv
<1> QED BY <1>1, <1>2, Invariance, PTL DEF Spec, ImplementsNatNeg

(***************************************************************************)
(* Until the first restart the deployed system keeps what NatNeg promises. *)
(***************************************************************************)
THEOREM UntilTheFirstRestart ==
    Spec => [](restarts = 0 => /\ N!ConnectAuthentic /\ N!ConnectedWasIntroduced
                               /\ N!NobodyForgotten)
<1>. DEFINE Inherited == restarts = 0 => NP!IInv
<1>1. Init => Inherited
  <2>1. Init => NP!Init
    BY SameTypes DEF Init, N!Init
  <2> QED BY <2>1, NP!InitInv, Assumptions
<1>2. EdgeInv /\ Inherited /\ [Next]_vars => Inherited'
  <2> SUFFICES ASSUME EdgeInv, Inherited, [Next]_vars, restarts' = 0 PROVE NP!IInv'
    OBVIOUS
  <2>1. restarts \in Nat
    BY EdgeAssumption DEF EdgeInv, TypeOK
  <2>2. restarts' = restarts \/ restarts' = restarts + 1
    BY DEF Next, ProxyForward, LoseOutside, ProxyReturn, DatagramReceived, LoseInside,
       SendInit, ReceiveConnect, Restart, placement, vars
  <2>3. restarts' = restarts /\ NP!IInv
    BY <2>1, <2>2
  <2>4. [NP!Next]_(NP!vars)
    BY <2>3, StepImplements, SameStep DEF EdgeInv
  <2> QED BY <2>3, <2>4, NP!StepInv, Assumptions
<1>3. NP!IInv => N!ConnectAuthentic /\ N!ConnectedWasIntroduced /\ N!NobodyForgotten
  BY SameTypes DEF NP!IInv, N!ConnectAuthentic, NP!ConnectAuthentic,
     N!ConnectedWasIntroduced, NP!ConnectedWasIntroduced, N!NobodyForgotten,
     NP!NobodyForgotten, N!MetAnother, NP!MetAnother, N!Connected, NP!Connected,
     N!Registered, NP!Registered
<1>4. Inherited => (restarts = 0 => /\ N!ConnectAuthentic /\ N!ConnectedWasIntroduced
                                    /\ N!NobodyForgotten)
  BY <1>3
<1> HIDE DEF Inherited
<1> QED BY <1>1, <1>2, <1>4, Invariance, PTL DEF Spec
=============================================================================
