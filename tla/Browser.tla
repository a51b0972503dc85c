------------------------------- MODULE Browser -------------------------------
(***************************************************************************)
(* The server browser, services/gamespy_server_browser_server.py: games    *)
(* ask it over TCP for the servers that match a filter, and have it pass   *)
(* messages on to one of them, among them the cookie under which the two   *)
(* will meet at the NAT-negotiation server.  For that it leaves in Redis,  *)
(* under the cookie, the records of both.                                  *)
(*                                                                         *)
(* A Twisted reactor calls rawDataReceived with what TCP brought and does  *)
(* nothing else until it returns.  But its loop may handle several         *)
(* packets, and Redis changes in between, so one round of the loop is a    *)
(* step.  A round reads Redis once or, to find both parties, twice or more *)
(* in a row; that the list may change in between adds nothing that it      *)
(* cannot do between rounds, and module ServerList has the races of a read.*)
(*                                                                         *)
(* A packet is three units of its stream: the two bytes of its length, and *)
(* the rest.  An address in a record is a number whose byte order is that  *)
(* of its console, 0 for a DS and 1 for a Wii; how far records keep to     *)
(* this is the matter of module Heartbeats.                                *)
(***************************************************************************)
EXTENDS Filters

CONSTANTS Server,     \* the records that may be listed: ip, port, localport,
                      \* console, session and data
          Conn,       \* TCP connections
          NoIp,       \* the ip in a record of a host that said none
          Cookie,     \* the sessions at the NAT-negotiation server
          Packet,     \* connection -> what its game may send
          Lists,      \* the sets of records that may be listed at first
          MaxPackets, \* bound: connection -> how many packets it sends
          MaxChanges, \* bound: servers that come or go
          TextPackets \* do bytes compare with text, and join with it?  In
                      \* Python 2 they do, for which the code was written

ASSUME ServerAssumption ==
    /\ IsFiniteSet(Server)
    /\ \A s \in Server : s.console \in {0, 1} /\ s.localport # 0

IsAddress(a) == a = [ip |-> a.ip, port |-> a.port]

ASSUME PacketAssumption ==
    /\ DOMAIN Packet = Conn
    /\ \A c \in Conn : \A p \in Packet[c] :
          /\ p.cmd = "list" => p.max \in Nat
          /\ p.cmd = "message" =>
                /\ IsAddress(p.to)
                /\ p.body.kind = "hello" => IsAddress(p.body.own)
                /\ p.body.kind = "natneg" => p.body.cookie \in Cookie

ASSUME BoundAssumption ==
    /\ MaxPackets \in [Conn -> Nat] /\ MaxChanges \in Nat
    /\ Lists \subseteq SUBSET Server

VARIABLES listed,  \* the records of the servers in Redis
          nat,     \* cookie -> the list of records under it in Redis
          wire,    \* connection -> the units on their way
          conn,    \* connection -> its buffer, byte order and own server
          busy,    \* the connection whose data is handled, in a set, or {}
          hung,    \* does a loop without an end keep the reactor?
          changes, \* how often servers came or went, for the bound
          \* History:
          sent,    \* connection -> how many packets it has sent
          done,    \* connection -> how many were handled, without an error
          raised,  \* the connections that had an exception
          told,    \* connection -> the addresses it gave as its own
          named,   \* cookie -> the addresses given for it
          answer,  \* what the last step answered to a search, in a set
          passed   \* the message that the last step passed on, in a set

history == <<sent, done, raised, told, named, answer, passed>>
vars == <<listed, nat, wire, conn, busy, hung, changes, history>>

Init ==
    /\ listed \in Lists
    /\ nat = [k \in Cookie |-> <<>>]
    /\ wire = [c \in Conn |-> <<>>]
    /\ conn = [c \in Conn |-> [buffer |-> <<>>, console |-> 0, own |-> {}]]
    /\ busy = {} /\ hung = FALSE /\ changes = 0
    /\ sent = [c \in Conn |-> 0]
    /\ done = [c \in Conn |-> 0]
    /\ raised = {}
    /\ told = [c \in Conn |-> {}]
    /\ named = [k \in Cookie |-> {}]
    /\ answer = {} /\ passed = {}

----------------------------------------------------------------------------
(* The games, the network and the other processes (external). *)

Units(p) == [i \in 1 .. 3 |-> <<p, i>>]

Send(c, p) ==
    /\ p \in Packet[c] /\ sent[c] < MaxPackets[c]
    /\ wire' = [wire EXCEPT ![c] = @ \o Units(p)]
    /\ sent' = [sent EXCEPT ![c] = @ + 1]
    /\ answer' = {} /\ passed' = {}
    /\ UNCHANGED <<listed, nat, conn, busy, hung, changes, done, raised, told, named>>

\* QR lists or refreshes a server, or takes it off, or its key expires.
Relist(s) ==
    /\ changes < MaxChanges
    /\ listed' \in {listed \union {s}, listed \ {s}} \ {listed}
    /\ changes' = changes + 1
    /\ answer' = {} /\ passed' = {}
    /\ UNCHANGED <<nat, wire, conn, busy, hung, sent, done, raised, told, named>>

\* The records under a cookie live 300 seconds from the last of them on.
ForgetCookie(k) ==
    /\ nat[k] # <<>>
    /\ nat' = [nat EXCEPT ![k] = <<>>]
    /\ answer' = {} /\ passed' = {}
    /\ UNCHANGED <<listed, wire, conn, busy, hung, changes,
                   sent, done, raised, told, named>>

----------------------------------------------------------------------------
(* rawDataReceived. *)

Receive(c, n) ==
    /\ busy = {} /\ n \in 1 .. Len(wire[c])
    /\ conn' = [conn EXCEPT ![c].buffer = @ \o SubSeq(wire[c], 1, n)]
    /\ wire' = [wire EXCEPT ![c] = SubSeq(@, n + 1, Len(@))]
    /\ busy' = {c}
    /\ answer' = {} /\ passed' = {}
    /\ UNCHANGED <<listed, nat, hung, changes, sent, done, raised, told, named>>

\* Mutant: a packet is taken off only if the buffer ends with it.
WholeAlone(c) == Len(conn[c].buffer) = 3

\* Is all of the next packet in the buffer?
Whole(c) == Len(conn[c].buffer) >= 3

\* The loop ends when the buffer is empty, and for want of the rest of a packet;
\* with one byte of the length, get_short raises, and that ends it as well.
LeaveLoop(c) ==
    /\ c \in busy /\ ~hung /\ ~Whole(c)
    /\ busy' = {}
    /\ answer' = {} /\ passed' = {}
    /\ UNCHANGED <<listed, nat, wire, conn, hung, changes,
                   sent, done, raised, told, named>>

\* The next packet of c, of kind cmd, has been cut off the buffer.
Round(c, cmd) ==
    /\ c \in busy /\ ~hung /\ Whole(c)
    /\ Head(conn[c].buffer)[1].cmd = cmd

Cut(c) == [conn[c] EXCEPT !.buffer = SubSeq(@, 4, Len(@))]

Finish(c) ==
    /\ done' = [done EXCEPT ![c] = @ + 1]
    /\ UNCHANGED <<busy, hung, raised>>

\* An exception ends the loop: the packet is lost, and what is in the buffer
\* behind it waits until more data comes.
Raise(c) ==
    /\ busy' = {} /\ raised' = raised \union {c}
    /\ UNCHANGED <<hung, done>>

Hang == hung' = TRUE /\ UNCHANGED <<busy, done, raised>>

Answered(c, q, found) == [conn |-> c, query |-> q, listed |-> listed, found |-> found]

\* The servers whose host did not say where it is.
Unplaced(servers) == {s \in servers : s.ip = NoIp}
UpToUnplaced(found) ==
    SubSeq(found, 1, Min({i \in DOMAIN found : found[i].ip = NoIp}))

(***************************************************************************)
(* A search.  A game that asks for nothing, or for no list, gets its own   *)
(* address, and a filter is not looked at when no server is listed.  The   *)
(* byte order of the connection becomes that of the last server found.  A  *)
(* server without an address makes the answer raise when its turn comes,   *)
(* and nothing is sent of an answer that fits in one packet.               *)
(***************************************************************************)
OwnAddressOnly(q) == (q.filter = <<>> /\ ~q.fields) \/ q.nolist

\* What each filter makes of each server.
Verdicts ==
    LET filters == {p.filter : p \in {q \in UNION Range(Packet) : q.cmd = "list"}}
    IN  [f \in filters |-> [s \in Server |-> Verdict(f, s.data)]]

\* What a search may come to, as Redis lists its keys in any order.
Results(q) == {FindServers(order, Verdicts[q.filter], q.max) : order \in SetToSeqs(listed)}

ListRequest(c) ==
    LET q == Head(conn[c].buffer)[1]
        Drop == conn' = [conn EXCEPT ![c] = Cut(c)] /\ answer' = {}
        Show(found) ==
            conn' = [conn EXCEPT ![c] =
                IF found = <<>> THEN Cut(c) ELSE [Cut(c) EXCEPT !.console = Last(found).console]]
        Deliver(found) ==
            IF Unplaced(ToSet(found)) = {}
            THEN Finish(c) /\ Show(found) /\ answer' = {Answered(c, q, found)}
            ELSE Raise(c) /\ Show(UpToUnplaced(found)) /\ answer' = {}
    IN  /\ Round(c, "list")
        /\ CASE ~TextPackets -> Raise(c) /\ Drop
             [] TextPackets /\ OwnAddressOnly(q) -> Finish(c) /\ Drop
             [] TextPackets /\ ~OwnAddressOnly(q) /\ listed # {} /\ Hangs(q.filter) ->
                   Hang /\ Drop
             [] OTHER -> \E r \in Results(q) :
                   IF r.raised THEN Raise(c) /\ Drop ELSE Deliver(r.found)
        /\ passed' = {}
        /\ UNCHANGED <<listed, nat, wire, changes, sent, told, named>>

\* find_server_by_address, for an address in the given byte order.
Matches(a, console) ==
    {s \in listed : s.ip = a.ip /\ s.console = console /\ a.port \in {0, s.port}}

\* The scan for an address raises when it meets a record without one, in whatever
\* game; only a match may come before.
ScanRaises == Unplaced(listed) # {}
ScanEnds(a, console) == Unplaced(listed) = {} \/ Matches(a, console) # {}

\* Mutant: any server of the public address will do.
FindInCacheByIp(a, console) == {s \in listed : s.ip = a.ip}

\* find_server_in_cache, in the byte order of the connection, then in the other.
FindInCache(a, console) ==
    IF Matches(a, console) # {} THEN Matches(a, console) ELSE Matches(a, 1 - console)

\* Any of the records found may be the first in the scan, and the message is for
\* it: one found by its ip only, for port 0, must have the port "0" itself.
Destination(c, a) == {s \in FindInCache(a, conn[c].console) : s.port = a.port}
Missed(c, a) ==
    LET found == FindInCache(a, conn[c].console)
    IN  found = {} \/ found # Destination(c, a)

Lost(c) ==
    /\ conn' = [conn EXCEPT ![c] = Cut(c)]
    /\ passed' = {}
    /\ UNCHANGED <<nat, told, named>>

\* The message of m for server s, with its session; without a public port it
\* goes to the local one.
PassOn(m, s) ==
    passed' = {[to |-> IF m.to.port = 0 THEN [m.to EXCEPT !.port = s.localport] ELSE m.to,
                asked |-> m.to, session |-> s.session, body |-> m.body, listed |-> listed]}

\* The game says where it is itself, and its own record is kept from then on.
Hello(c, m) ==
    /\ m.body.kind = "hello"
    /\ conn[c].own = {} => ScanEnds(m.body.own, conn[c].console)
    /\ LET mine == FindInCache(m.body.own, conn[c].console)
       IN  IF conn[c].own # {} \/ mine = {}
           THEN conn' = [conn EXCEPT ![c] = Cut(c)] /\ UNCHANGED told
           ELSE /\ \E s \in mine : conn' = [conn EXCEPT ![c] = [Cut(c) EXCEPT !.own = {s}]]
                /\ told' = [told EXCEPT ![c] = @ \union {m.body.own}]
    /\ UNCHANGED <<nat, named>>

\* The game names the cookie: the records of the server and its own are left.
Natneg(c, m, s) ==
    /\ m.body.kind = "natneg"
    /\ nat' = [nat EXCEPT ![m.body.cookie] = @ \o <<s>> \o SetToSeq(conn[c].own)]
    /\ named' = [named EXCEPT ![m.body.cookie] = @ \union {m.to} \union told[c]]
    /\ conn' = [conn EXCEPT ![c] = Cut(c)]
    /\ UNCHANGED told

Other(c, m) ==
    /\ m.body.kind = "other"
    /\ conn' = [conn EXCEPT ![c] = Cut(c)]
    /\ UNCHANGED <<nat, told, named>>

\* A message for a server is passed on through the socket of QR, with the
\* session of the server.
SendMessage(c) ==
    LET m == Head(conn[c].buffer)[1]
    IN  /\ Round(c, "message")
        /\ \/ (~TextPackets \/ ScanRaises) /\ Raise(c) /\ Lost(c)
           \/ /\ TextPackets /\ ScanEnds(m.to, conn[c].console)
              /\ Finish(c)
              /\ \/ Missed(c, m.to) /\ Lost(c)
                 \/ \E s \in Destination(c, m.to) :
                       /\ Hello(c, m) \/ Natneg(c, m, s) \/ Other(c, m)
                       /\ PassOn(m, s)
        /\ answer' = {}
        /\ UNCHANGED <<listed, wire, changes, sent>>

\* A keep-alive, and any command that is not known, is only logged.
KeepAlive(c) ==
    /\ Round(c, "keepalive")
    /\ IF TextPackets THEN Finish(c) ELSE Raise(c)
    /\ Lost(c)
    /\ answer' = {}
    /\ UNCHANGED <<listed, wire, changes, sent>>

Next ==
    \/ \E c \in Conn :
          \/ \E p \in Packet[c] : Send(c, p)
          \/ \E n \in 1 .. Len(wire[c]) : Receive(c, n)
          \/ LeaveLoop(c) \/ ListRequest(c) \/ SendMessage(c) \/ KeepAlive(c)
    \/ \E s \in Server : Relist(s)
    \/ \E k \in Cookie : ForgetCookie(k)

Spec == Init /\ [][Next]_vars

----------------------------------------------------------------------------
(* Properties. *)

Address == {[ip |-> s.ip, port |-> p] : s \in Server, p \in {0} \union {s.port : s \in Server}}

TypeOK ==
    /\ listed \subseteq Server
    /\ \A k \in Cookie : nat[k] \in Seq(Server) /\ named[k] \subseteq Address
    /\ \A c \in Conn :
          /\ \A u \in ToSet(wire[c] \o conn[c].buffer) : u[1] \in Packet[c] /\ u[2] \in 1 .. 3
          /\ conn[c].console \in {0, 1}
          /\ conn[c].own \subseteq Server /\ Cardinality(conn[c].own) <= 1
          /\ sent[c] \in 0 .. MaxPackets[c] /\ done[c] \in 0 .. sent[c]
    /\ busy \subseteq Conn /\ hung \in BOOLEAN /\ raised \subseteq Conn
    /\ changes \in 0 .. MaxChanges

(***************************************************************************)
(* What a filter means: clauses, of which one must hold, of comparisons,   *)
(* which must all hold, each with a name on one side at least.  A quoted   *)
(* literal makes a comparison one of texts, and so does a value that is no *)
(* number.                                                                 *)
(***************************************************************************)
Holds(cmp, data) ==
    LET Value(t) == IF t.type = "FIELD" THEN data[t.text] ELSE t
        l == Value(cmp.left).text
        r == Value(cmp.right).text
        numbers == /\ "STRING" \notin {cmp.left.type, cmp.right.type}
                   /\ IsNumeral(l) /\ IsNumeral(r)
        Rank(text) == IF numbers THEN NumberOf[text] ELSE RankOf[text]
    IN  \/ cmp.op = "LIKE" /\ Lower(l) = Lower(r)
        \/ cmp.op = "=" /\ Rank(l) = Rank(r)
        \/ cmp.op = "!=" /\ Rank(l) # Rank(r)
        \/ cmp.op = "<" /\ Rank(l) < Rank(r)
        \/ cmp.op = ">" /\ Rank(l) > Rank(r)

\* A server without one of the fields of a filter does not match.
Fields(clauses) ==
    {t.text : t \in {u \in UNION {{cmp.left, cmp.right} : cmp \in UNION clauses} :
                        u.type = "FIELD"}}

Wanted(q, s) ==
    \/ q.clauses = {}
    \/ /\ Fields(q.clauses) \subseteq DOMAIN s.data
       /\ \E clause \in q.clauses : \A cmp \in clause : Holds(cmp, s.data)

(***************************************************************************)
(* What find_servers may take for another type than was meant, as it looks *)
(* only to the right of a name: a number that a name on the right of a     *)
(* comparison stands for, in a filter with a quoted literal that is not    *)
(* right of =, !=, < or >.  (So it is with "102" = rk, and with a != b     *)
(* before "vs" = rk.)                                                      *)
(***************************************************************************)
Misread(q, s) ==
    /\ \E cmp \in UNION q.clauses :
          /\ cmp.right.type = "FIELD" /\ cmp.right.text \in DOMAIN s.data
          /\ s.data[cmp.right.text].type = "NUMBER"
    /\ \E cmp \in UNION q.clauses :
          \/ cmp.left.type = "STRING"
          \/ cmp.op = "LIKE" /\ cmp.right.type = "STRING"

(***************************************************************************)
(* A search that is answered names servers of the list that the filter     *)
(* means, each once, and all of them unless there are more than asked for: *)
(* so the types that find_servers gives the values by what stands right of *)
(* them are the types that the game meant.  Only the servers of Misread    *)
(* may be named or left out wrongly.                                       *)
(***************************************************************************)
AnswersMatchQuery ==
    /\ TypeOK
    /\ \A a \in answer :
          LET doubtful == {s \in a.listed : Misread(a.query, s)}
              sure == {s \in a.listed \ doubtful : Wanted(a.query, s)}
              full == a.query.max # 0 /\ Len(a.found) = a.query.max
          IN  /\ ToSet(a.found) \subseteq sure \union doubtful /\ IsInjective(a.found)
              /\ a.query.max = 0 \/ Len(a.found) <= a.query.max
              /\ full \/ sure \subseteq ToSet(a.found)

\* Server s is at address a; port 0 stands for any port.
Named(a, s) == s.ip = a.ip /\ a.port \in {0, s.port}

(***************************************************************************)
(* A message goes to where the game said, with the session of a server     *)
(* that is listed there.  And the records under a cookie, which decide     *)
(* whom the NAT-negotiation server introduces to whom, are records of      *)
(* servers at addresses given by games that sent this cookie, however      *)
(* connections, hellos and cookies interleave with changes of the list.    *)
(***************************************************************************)
PartiesAreNamed ==
    /\ \A d \in passed :
          \E s \in d.listed :
              /\ s.session = d.session /\ s.ip = d.to.ip
              /\ d.asked.port = s.port /\ d.to.port \in {s.port, s.localport} \ {0}
    /\ \A k \in Cookie : \A s \in ToSet(nat[k]) : \E a \in named[k] : Named(a, s)

(***************************************************************************)
(* However TCP cuts or joins the packets of a connection, each of them is  *)
(* handled, or on its way, or in the buffer; and when the reactor is back  *)
(* the buffer holds less than a packet, so that no game waits for one that *)
(* has arrived.  Only an exception loses a packet and holds up the next,   *)
(* and only in its own connection, although one listed record without an   *)
(* address makes lookups of any game raise; and only a filter that cannot  *)
(* be read stops the others.                                               *)
(***************************************************************************)
OnlyErrorsDelay ==
    \A c \in Conn : c \notin raised /\ ~hung =>
        /\ 3 * sent[c] = 3 * done[c] + Len(conn[c].buffer) + Len(wire[c])
        /\ c \notin busy => Len(conn[c].buffer) < 3
=============================================================================
