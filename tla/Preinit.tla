------------------------------- MODULE Preinit -------------------------------
(***************************************************************************)
(* The PREINIT exchange of gamespy/natneg_protocol.py, which the Pokemon   *)
(* games run before INIT: the first console of a session waits, the second *)
(* completes the match and both are answered.  One datagram is handled at  *)
(* a time and nothing awaits, so a handler is one step.  A datagram may    *)
(* come late, and again, but what the server sends is not lost.            *)
(***************************************************************************)
EXTENDS Naturals

CONSTANTS Session,   \* the sessions, the last four bytes of a PREINIT
          NoSession, \* the value 0 of those bytes
          Addr,      \* the public addresses of the consoles
          Nobody,    \* "session not in natneg_preinit_session"
          Console,   \* records of a session, an index (byte 12) and an address
          Repeated   \* the consoles whose PREINIT may arrive more than once

\* What the constants are.
ConstantsOK ==
    /\ Console \subseteq [session : Session, index : {0, 1}, ep : Addr]
    /\ \A k, l \in Console : k.ep = l.ep => k = l
    /\ Nobody \notin Addr /\ NoSession \in Session
    /\ Repeated \subseteq Console

VARIABLES natneg_preinit_session, \* session -> the address that waits in it
          net,                    \* the datagrams of this exchange in flight
          pending,                \* the consoles that have not yet sent PREINIT
          pairs                   \* history: <<s, e, f>> if e waited and f came

vars == <<natneg_preinit_session, net, pending, pairs>>

WAIT == 0      \* byte 13 of a PREINIT_ACK
MATCHED == 2

Preinit == [op : {"PREINIT"}, from : Addr, session : Session, index : {0, 1}]
\* The session bytes of the answer are overwritten with zeros.
PreinitAck == [op : {"PREINIT_ACK"}, to : Addr, index : {0, 1}, state : {WAIT, MATCHED}]

Init ==
    /\ natneg_preinit_session = [s \in Session |-> Nobody]
    /\ net = {}
    /\ pending = Console
    /\ pairs = {}

Reply(e, index, state) ==
    [op |-> "PREINIT_ACK", to |-> e, index |-> index, state |-> state]

MayRepeat(e) == \E k \in Repeated : k.ep = e

\* Datagram p is delivered and its handler sends the datagrams out.
Deliver(p, out) == net' = (IF MayRepeat(p.from) THEN net ELSE net \ {p}) \cup out

\* Mutant: every console is answered "matched" at once.
HandleAnySession(p) ==
    /\ Deliver(p, {Reply(p.from, p.index, MATCHED)})
    /\ UNCHANGED <<natneg_preinit_session, pairs>>

\* Session 0 needs no partner: the answer is "matched" at once.
HandleNoSession(p) ==
    /\ p.session = NoSession
    /\ Deliver(p, {Reply(p.from, p.index, MATCHED)})
    /\ UNCHANGED <<natneg_preinit_session, pairs>>

\* Mutant: the newcomer takes the place of the one who waits.
HandleFirstTakesOver(p) ==
    /\ p.session # NoSession
    /\ natneg_preinit_session' = [natneg_preinit_session EXCEPT ![p.session] = p.from]
    /\ Deliver(p, {Reply(p.from, p.index, WAIT)})
    /\ UNCHANGED pairs

HandleFirst(p) ==
    /\ p.session # NoSession
    /\ natneg_preinit_session[p.session] = Nobody
    /\ natneg_preinit_session' = [natneg_preinit_session EXCEPT ![p.session] = p.from]
    /\ Deliver(p, {Reply(p.from, p.index, WAIT)})
    /\ UNCHANGED pairs

\* The one who waits gets the index of the sender, the sender the opposite.
HandleSecond(p) ==
    LET waiter == natneg_preinit_session[p.session]
    IN  /\ p.session # NoSession
        /\ waiter # Nobody
        /\ Deliver(p, {Reply(waiter, p.index, MATCHED),
                       Reply(p.from, 1 - p.index, MATCHED)})
        /\ natneg_preinit_session' = [natneg_preinit_session EXCEPT ![p.session] = Nobody]
        /\ pairs' = pairs \cup {<<p.session, waiter, p.from>>}

HandlePreinit(p) ==
    /\ p.op = "PREINIT"
    /\ HandleNoSession(p) \/ HandleFirst(p) \/ HandleSecond(p)
    /\ UNCHANGED pending

PreinitOf(k) == [op |-> "PREINIT", from |-> k.ep, session |-> k.session, index |-> k.index]

\* A console (external) sends its PREINIT.
SendPreinit(k) ==
    /\ k \in pending
    /\ pending' = pending \ {k}
    /\ net' = net \cup {PreinitOf(k)}
    /\ UNCHANGED <<natneg_preinit_session, pairs>>

\* The event loop handles the PREINIT of k.
DeliverPreinit(k) == PreinitOf(k) \in net /\ HandlePreinit(PreinitOf(k))

Next ==
    \/ \E p \in net : HandlePreinit(p)
    \/ \E k \in Console : SendPreinit(k)

Spec == Init /\ [][Next]_vars

(***************************************************************************)
(* Each console sends its PREINIT, and the event loop handles every        *)
(* datagram that reaches the socket.                                       *)
(***************************************************************************)
FairSpec ==
    /\ Spec
    /\ \A k \in Console :
          /\ WF_vars(SendPreinit(k))
          /\ WF_vars(DeliverPreinit(k))

-----------------------------------------------------------------------------
(* Properties. *)

TypeOK ==
    /\ ConstantsOK
    /\ natneg_preinit_session \in [Session -> Addr \cup {Nobody}]
    /\ net \subseteq Preinit \cup PreinitAck
    /\ pending \subseteq Console
    /\ pairs \subseteq Session \X Addr \X Addr

\* Address e belongs to a console that has asked to be matched in session s.
Asked(s, e) == \E k \in Console \ pending : k.session = s /\ k.ep = e

Told(e, state) == \E m \in net : m.op = "PREINIT_ACK" /\ m.to = e /\ m.state = state

(***************************************************************************)
(* A console is told that it is matched only if it asked for no session or *)
(* is one of the two of a match in its session, both of whom asked for it  *)
(* and both of whom are told (_handle_preinit's two replies).  The "other  *)
(* party" of its comment is another console, unless a PREINIT arrived      *)
(* twice: the code does not compare addresses, so that a repetition, and   *)
(* only that, matches a console with itself.                               *)
(***************************************************************************)
MatchedInPairs ==
    /\ TypeOK
    /\ \A m \in pairs : m[2] = m[3] => MayRepeat(m[2])
    /\ \A k \in Console : Told(k.ep, MATCHED) =>
          \/ k.session = NoSession
          \/ \E f \in Addr : {<<k.session, k.ep, f>>, <<k.session, f, k.ep>>} \cap pairs # {}
    /\ \A m \in pairs : \A e \in {m[2], m[3]} : Asked(m[1], e) /\ Told(e, MATCHED)

(***************************************************************************)
(* Nobody takes the place of a console that waits: it leaves only by being *)
(* matched, and it is one of the two of the new pair.  It is so however    *)
(* long it waits, although docs/servers/gamespy_natneg.md has a match      *)
(* without a companion expire after 30 seconds: the code has no such       *)
(* clock, and a stranger who comes a day later is matched with it.         *)
(***************************************************************************)
WaiterOnlyLeavesMatched ==
    [][\A s \in Session :
          natneg_preinit_session'[s] # natneg_preinit_session[s] =>
              \/ natneg_preinit_session[s] = Nobody
              \/ /\ natneg_preinit_session'[s] = Nobody
                 /\ \E f \in Addr :
                      <<s, natneg_preinit_session[s], f>> \in pairs']_vars

\* Consoles k and l, and no repetitions, are all there is of their session.
Alone(k, l) ==
    /\ k # l /\ k.session = l.session /\ k.session # NoSession
    /\ \A j \in Console : j.session = k.session => j \in {k, l} \ Repeated

(***************************************************************************)
(* When each PREINIT arrives once, two consoles of a session are matched   *)
(* with each other, in whatever order they arrive, and whatever other      *)
(* sessions do.                                                            *)
(***************************************************************************)
PartnersMeet ==
    \A k, l \in Console :
        Alone(k, l) =>
            <>({<<k.session, k.ep, l.ep>>, <<k.session, l.ep, k.ep>>} \cap pairs # {})
=============================================================================
