------------------------- MODULE NatNegServerProofs -------------------------
(***************************************************************************)
(* Proofs about the whole NAT-negotiation server: that its two exchanges   *)
(* do not disturb each other, and what PREINIT promises, for any consoles, *)
(* sessions, addresses and repetitions.                                    *)
(***************************************************************************)
EXTENDS NatNegServer, TLAPS

(***************************************************************************)
(* A behaviour of the server is one of each exchange: a step of one leaves *)
(* the other as it is.  What NatNegProofs proves holds of the server.      *)
(***************************************************************************)
THEOREM ExchangesAreIndependent == ServerSpec => Spec /\ P!Spec
<1>1. ServerInit => Init /\ P!Init
  BY DEF ServerInit
<1>2. [ServerNext]_<<vars, preinit>> => [Next]_vars /\ [P!Next]_(P!vars)
  BY DEF ServerNext, preinit, P!vars
<1> QED BY <1>1, <1>2, PTL DEF ServerSpec, Spec, P!Spec

----------------------------------------------------------------------------
(***************************************************************************)
(* The inductive invariant of PREINIT.  A PREINIT in flight is that of a   *)
(* console that has sent it.  Who waits has asked to, in a session other   *)
(* than 0, and no further PREINIT of the same console is in flight, unless *)
(* it may repeat.                                                          *)
(***************************************************************************)
PreinitsReal ==
    \A p \in preinit_net : p.op = "PREINIT" =>
        \E k \in Waiter \ pending : p = P!PreinitOf(k)

WaitersOnce ==
    \A s \in Meeting : natneg_preinit_session[s] # Nobody =>
        /\ s # NoSession /\ P!Asked(s, natneg_preinit_session[s])
        /\ P!MayRepeat(natneg_preinit_session[s])
              \/ \A p \in preinit_net : p.op = "PREINIT" => p.from # natneg_preinit_session[s]

PreinitInv == MatchedInPairs /\ PreinitsReal /\ WaitersOnce

(***************************************************************************)
(* What a PREINIT of a console that is not pending says, and its handler   *)
(* does to what is in flight.                                              *)
(***************************************************************************)
LEMMA PreinitFields ==
    ASSUME NEW k \in Waiter
    PROVE  /\ k.session \in Meeting /\ k.index \in {0, 1} /\ k.ep \in Place
           /\ P!PreinitOf(k).op = "PREINIT" /\ P!PreinitOf(k).from = k.ep
           /\ P!PreinitOf(k).session = k.session /\ P!PreinitOf(k).index = k.index
           /\ P!PreinitOf(k) \in P!Preinit
BY PreinitAssumption DEF P!ConstantsOK, P!PreinitOf, P!Preinit

LEMMA DeliverEffect ==
    ASSUME NEW p \in preinit_net, NEW out, P!Deliver(p, out), p.op = "PREINIT"
    PROVE  /\ preinit_net' \subseteq preinit_net \union out /\ out \subseteq preinit_net'
           /\ \A m \in preinit_net : m.op # "PREINIT" => m \in preinit_net'
           /\ P!MayRepeat(p.from) \/ p \notin preinit_net' \/ p \in out
BY DEF P!Deliver

(***************************************************************************)
(* Whoever was told stays told, and who has asked has asked.               *)
(***************************************************************************)
LEMMA PreinitMonotone ==
    ASSUME \A m \in preinit_net : m.op # "PREINIT" => m \in preinit_net',
           pending' \subseteq pending, NEW e
    PROVE  /\ \A state : P!Told(e, state) => P!Told(e, state)'
           /\ \A s : P!Asked(s, e) => P!Asked(s, e)'
<1>1. ASSUME NEW state, P!Told(e, state) PROVE P!Told(e, state)'
  <2>1. PICK m \in preinit_net : m.op = "PREINIT_ACK" /\ m.to = e /\ m.state = state
    BY <1>1 DEF P!Told
  <2>2. m \in preinit_net'
    BY <2>1
  <2> QED BY <2>1, <2>2 DEF P!Told
<1>2. ASSUME NEW s, P!Asked(s, e) PROVE P!Asked(s, e)'
  BY <1>2 DEF P!Asked
<1> QED BY <1>1, <1>2

(***************************************************************************)
(* A console that sends its PREINIT waits nowhere, for it has one address. *)
(***************************************************************************)
LEMMA SendStep ==
    ASSUME PreinitInv, NEW k \in Waiter, P!SendPreinit(k)
    PROVE  PreinitInv'
<1>1. /\ k \in pending /\ pending' = pending \ {k}
      /\ preinit_net' = preinit_net \union {P!PreinitOf(k)}
      /\ UNCHANGED <<natneg_preinit_session, pairs>>
  BY DEF P!SendPreinit
<1>2. \A e : /\ \A state : P!Told(e, state) <=> P!Told(e, state)'
             /\ \A s : P!Asked(s, e) => P!Asked(s, e)'
  <2>1. \A e : /\ \A state : P!Told(e, state) => P!Told(e, state)'
               /\ \A s : P!Asked(s, e) => P!Asked(s, e)'
    BY <1>1, PreinitMonotone
  <2>2. \A e, state : P!Told(e, state)' => P!Told(e, state)
    BY <1>1, PreinitFields DEF P!Told
  <2> QED BY <2>1, <2>2
<1>3. P!TypeOK'
  BY <1>1, PreinitFields DEF PreinitInv, MatchedInPairs, P!MatchedInPairs, P!TypeOK
<1>4. MatchedInPairs'
  BY <1>1, <1>2, <1>3 DEF PreinitInv, MatchedInPairs, P!MatchedInPairs, P!MayRepeat
<1>5. PreinitsReal'
  BY <1>1 DEF PreinitInv, PreinitsReal, P!PreinitOf
<1>6. WaitersOnce'
  <2> SUFFICES ASSUME NEW s \in Meeting, natneg_preinit_session[s] # Nobody
               PROVE  /\ s # NoSession /\ P!Asked(s, natneg_preinit_session[s])'
                      /\ P!MayRepeat(natneg_preinit_session[s])
                            \/ \A p \in preinit_net' : p.op = "PREINIT" =>
                                  p.from # natneg_preinit_session[s]
    BY <1>1 DEF WaitersOnce, P!MayRepeat
  <2>1. PICK l \in Waiter \ pending : l.session = s /\ l.ep = natneg_preinit_session[s]
    BY DEF PreinitInv, WaitersOnce, P!Asked
  <2>2. k.ep # natneg_preinit_session[s]
    BY <1>1, <2>1, PreinitAssumption DEF P!ConstantsOK
  <2> QED BY <1>1, <1>2, <2>2, PreinitFields DEF PreinitInv, WaitersOnce
<1> QED BY <1>4, <1>5, <1>6 DEF PreinitInv

(***************************************************************************)
(* What all answers to the PREINIT p of console k have in common: only     *)
(* acknowledgements are added, with out, and those keep the parts of the   *)
(* invariant that a waiter does not depend on.                             *)
(***************************************************************************)
LEMMA AnswerStep ==
    ASSUME PreinitInv, NEW p \in preinit_net, NEW out \in SUBSET P!PreinitAck,
           p.op = "PREINIT", P!Deliver(p, out), UNCHANGED pending
    PROVE  /\ preinit_net' \subseteq P!Preinit \union P!PreinitAck
           /\ PreinitsReal'
           /\ \A e : /\ \A state : P!Told(e, state) => P!Told(e, state)'
                     /\ \A state : P!Told(e, state)' => P!Told(e, state) \/
                           \E m \in out : m.to = e /\ m.state = state
                     /\ \A s : P!Asked(s, e) => P!Asked(s, e)'
           /\ \A m \in out : P!Told(m.to, m.state)'
           /\ P!MayRepeat(p.from) \/ \A q \in preinit_net' :
                 q.op = "PREINIT" => q.from # p.from
           /\ \A q \in preinit_net' : q.op = "PREINIT" => q \in preinit_net
<1>1. /\ preinit_net' \subseteq preinit_net \union out /\ out \subseteq preinit_net'
      /\ \A m \in preinit_net : m.op # "PREINIT" => m \in preinit_net'
      /\ P!MayRepeat(p.from) \/ p \notin preinit_net' \/ p \in out
  BY DeliverEffect
<1>2. \A m \in out : m.op = "PREINIT_ACK"
  BY DEF P!PreinitAck
<1>3. \A q \in preinit_net' : q.op = "PREINIT" => q \in preinit_net
  BY <1>1, <1>2
<1>4. \A e : /\ \A state : P!Told(e, state) => P!Told(e, state)'
             /\ \A s : P!Asked(s, e) => P!Asked(s, e)'
  BY <1>1, PreinitMonotone
<1>5. PreinitsReal'
  BY <1>3 DEF PreinitInv, PreinitsReal, P!PreinitOf
<1>6. \A q \in preinit_net : q.op = "PREINIT" /\ q.from = p.from => q = p
  <2> SUFFICES ASSUME NEW q \in preinit_net, q.op = "PREINIT", q.from = p.from
               PROVE  q = p
    OBVIOUS
  <2>1. PICK k \in Waiter : p = P!PreinitOf(k)
    BY DEF PreinitInv, PreinitsReal
  <2>2. PICK l \in Waiter : q = P!PreinitOf(l)
    BY DEF PreinitInv, PreinitsReal
  <2> QED BY <2>1, <2>2, PreinitFields, PreinitAssumption DEF P!ConstantsOK
<1>7. \A m \in out : P!Told(m.to, m.state)'
  BY <1>1, <1>2 DEF P!Told
<1>8. \A e, state : P!Told(e, state)' => P!Told(e, state) \/
         \E m \in out : m.to = e /\ m.state = state
  BY <1>1 DEF P!Told
<1>9. preinit_net' \subseteq P!Preinit \union P!PreinitAck
  BY <1>1 DEF PreinitInv, MatchedInPairs, P!MatchedInPairs, P!TypeOK
<1>10. P!MayRepeat(p.from) \/ \A q \in preinit_net' : q.op = "PREINIT" => q.from # p.from
  BY <1>1, <1>2, <1>3, <1>6
<1> QED BY <1>3, <1>4, <1>5, <1>7, <1>8, <1>9, <1>10

(***************************************************************************)
(* Replies are acknowledgements.                                           *)
(***************************************************************************)
LEMMA Replies ==
    ASSUME NEW e \in Place, NEW i \in {0, 1}, NEW state \in {P!WAIT, P!MATCHED}
    PROVE  /\ P!Reply(e, i, state) \in P!PreinitAck
           /\ P!Reply(e, i, state).to = e /\ P!Reply(e, i, state).state = state
BY DEF P!Reply, P!PreinitAck

(***************************************************************************)
(* A PREINIT without session changes no match; the first of a session      *)
(* waits; the second is matched with who waits.                            *)
(***************************************************************************)
LEMMA HandleStep ==
    ASSUME PreinitInv, NEW p \in preinit_net, P!HandlePreinit(p)
    PROVE  PreinitInv'
<1>1. PICK k \in Waiter \ pending : p = P!PreinitOf(k)
  BY DEF P!HandlePreinit, PreinitInv, PreinitsReal
<1>2. /\ p.op = "PREINIT" /\ p.from = k.ep /\ p.session = k.session /\ p.index = k.index
      /\ k.session \in Meeting /\ k.ep \in Place /\ p.index \in {0, 1} /\ 1 - p.index \in {0, 1}
      /\ k.ep # Nobody /\ UNCHANGED pending /\ P!WAIT # P!MATCHED
      /\ P!Asked(k.session, k.ep)
  BY <1>1, PreinitFields, PreinitAssumption
     DEF P!HandlePreinit, P!ConstantsOK, P!WAIT, P!MATCHED, P!Asked
<1>3. P!TypeOK /\ MatchedInPairs /\ WaitersOnce
  BY DEF PreinitInv, MatchedInPairs, P!MatchedInPairs
<1>4. \A l \in Waiter : l.ep = k.ep => l = k
  BY <1>1, PreinitAssumption DEF P!ConstantsOK
<1>5. CASE P!HandleNoSession(p)
  <2>1. DEFINE m == P!Reply(p.from, p.index, P!MATCHED)
  <2>2. m \in P!PreinitAck /\ m.to = k.ep
    BY <1>2, Replies
  <2> HIDE DEF m
  <2>3. /\ P!Deliver(p, {m}) /\ UNCHANGED <<natneg_preinit_session, pairs>>
        /\ k.session = NoSession
    BY <1>2, <1>5 DEF P!HandleNoSession, m
  <2>4. /\ preinit_net' \subseteq P!Preinit \union P!PreinitAck /\ PreinitsReal'
        /\ \A e, state : P!Told(e, state) => P!Told(e, state)'
        /\ \A e, state : P!Told(e, state)' => P!Told(e, state) \/ k.ep = e
        /\ \A e, s : P!Asked(s, e) => P!Asked(s, e)'
        /\ \A q \in preinit_net' : q.op = "PREINIT" => q \in preinit_net
    BY <1>2, <2>2, <2>3, AnswerStep
  <2>5. P!TypeOK'
    BY <1>2, <1>3, <2>3, <2>4 DEF P!TypeOK
  <2>6. MatchedInPairs'
    BY <1>2, <1>3, <1>4, <2>3, <2>4, <2>5 DEF MatchedInPairs, P!MatchedInPairs, P!MayRepeat
  <2>7. WaitersOnce'
    BY <1>3, <2>3, <2>4 DEF WaitersOnce, P!MayRepeat
  <2> QED BY <2>4, <2>6, <2>7 DEF PreinitInv
<1>6. CASE P!HandleFirst(p)
  <2>1. DEFINE m == P!Reply(p.from, p.index, P!WAIT)
  <2>2. m \in P!PreinitAck /\ m.to = k.ep /\ m.state = P!WAIT
    BY <1>2, Replies
  <2> HIDE DEF m
  <2>3. /\ P!Deliver(p, {m}) /\ UNCHANGED pairs /\ k.session # NoSession
        /\ natneg_preinit_session' = [natneg_preinit_session EXCEPT ![k.session] = k.ep]
    BY <1>2, <1>6 DEF P!HandleFirst, m
  <2>4. /\ preinit_net' \subseteq P!Preinit \union P!PreinitAck /\ PreinitsReal'
        /\ \A e, state : P!Told(e, state) => P!Told(e, state)'
        /\ \A e : P!Told(e, P!MATCHED)' => P!Told(e, P!MATCHED)
        /\ \A e, s : P!Asked(s, e) => P!Asked(s, e)'
        /\ P!MayRepeat(k.ep) \/ \A q \in preinit_net' : q.op = "PREINIT" => q.from # k.ep
        /\ \A q \in preinit_net' : q.op = "PREINIT" => q \in preinit_net
    <3>1. {m} \in SUBSET P!PreinitAck /\ p.op = "PREINIT" /\ UNCHANGED pending
      BY <1>2, <2>2
    <3>2. \A e : P!Told(e, P!MATCHED)' => P!Told(e, P!MATCHED)
      <4>1. \A e, state : P!Told(e, state)' => P!Told(e, state) \/
               \E x \in {m} : x.to = e /\ x.state = state
        BY <2>3, <3>1, AnswerStep
      <4> QED BY <1>2, <2>2, <4>1
    <3>3. P!MayRepeat(k.ep) \/ \A q \in preinit_net' : q.op = "PREINIT" => q.from # k.ep
      BY <1>2, <2>3, <3>1, AnswerStep
    <3> QED BY <2>3, <3>1, <3>2, <3>3, AnswerStep
  <2>5. P!TypeOK'
    BY <1>2, <1>3, <2>3, <2>4 DEF P!TypeOK
  <2>6. MatchedInPairs'
    BY <1>2, <1>3, <2>3, <2>4, <2>5 DEF MatchedInPairs, P!MatchedInPairs, P!MayRepeat
  <2>7. \A s \in Meeting : natneg_preinit_session'[s] =
           IF s = k.session THEN k.ep ELSE natneg_preinit_session[s]
    BY <1>3, <2>3 DEF P!TypeOK
  <2>8. WaitersOnce'
    BY <1>2, <1>3, <2>3, <2>4, <2>7 DEF WaitersOnce, P!MayRepeat
  <2> QED BY <2>4, <2>6, <2>8 DEF PreinitInv
<1>7. CASE P!HandleSecond(p)
  <2>1. PICK w \in Place : w = natneg_preinit_session[k.session]
    BY <1>2, <1>3, <1>7 DEF P!TypeOK, P!HandleSecond
  <2>. DEFINE m == P!Reply(w, p.index, P!MATCHED)
              n == P!Reply(p.from, 1 - p.index, P!MATCHED)
  <2>2. /\ m \in P!PreinitAck /\ m.to = w /\ m.state = P!MATCHED
        /\ n \in P!PreinitAck /\ n.to = k.ep /\ n.state = P!MATCHED
    BY <1>2, <2>1, Replies
  <2>3. /\ P!Deliver(p, {m, n}) /\ k.session # NoSession /\ w # Nobody
        /\ natneg_preinit_session' = [natneg_preinit_session EXCEPT ![k.session] = Nobody]
        /\ pairs' = pairs \union {<<k.session, w, k.ep>>}
    BY <1>2, <1>7, <2>1 DEF P!HandleSecond
  <2> HIDE DEF m, n
  <2>4. /\ preinit_net' \subseteq P!Preinit \union P!PreinitAck /\ PreinitsReal'
        /\ \A e, state : P!Told(e, state) => P!Told(e, state)'
        /\ \A e, state : P!Told(e, state)' => P!Told(e, state) \/ e \in {w, k.ep}
        /\ P!Told(w, P!MATCHED)' /\ P!Told(k.ep, P!MATCHED)'
        /\ \A e, s : P!Asked(s, e) => P!Asked(s, e)'
        /\ \A q \in preinit_net' : q.op = "PREINIT" => q \in preinit_net
    <3>1. {m, n} \in SUBSET P!PreinitAck /\ p.op = "PREINIT" /\ UNCHANGED pending
      BY <1>2, <2>2
    <3>2. \A e, state : P!Told(e, state)' => P!Told(e, state) \/ e \in {w, k.ep}
      <4>1. \A e, state : P!Told(e, state)' => P!Told(e, state) \/
               \E x \in {m, n} : x.to = e /\ x.state = state
        BY <2>3, <3>1, AnswerStep
      <4> QED BY <2>2, <4>1
    <3>3. P!Told(w, P!MATCHED)' /\ P!Told(k.ep, P!MATCHED)'
      <4>1. P!Told(m.to, m.state)' /\ P!Told(n.to, n.state)'
        BY <2>3, <3>1, AnswerStep
      <4> QED BY <2>2, <4>1
    <3> QED BY <2>3, <3>1, <3>2, <3>3, AnswerStep
  <2>5. P!Asked(k.session, w) /\ (w = k.ep => P!MayRepeat(w))
    BY <1>2, <1>3, <2>1, <2>3 DEF WaitersOnce
  <2>6. P!TypeOK'
    BY <1>2, <1>3, <2>1, <2>3, <2>4 DEF P!TypeOK
  <2>7. MatchedInPairs'
    <3>1. \A t \in pairs' : t[2] = t[3] => P!MayRepeat(t[2])
      BY <1>3, <2>3, <2>5 DEF MatchedInPairs, P!MatchedInPairs
    <3>2. \A t \in pairs' : \A e \in {t[2], t[3]} :
             P!Asked(t[1], e)' /\ P!Told(e, P!MATCHED)'
      <4>1. \A t \in pairs : \A e \in {t[2], t[3]} :
               P!Asked(t[1], e) /\ P!Told(e, P!MATCHED)
        BY <1>3 DEF MatchedInPairs, P!MatchedInPairs
      <4>2. P!Asked(k.session, w)' /\ P!Asked(k.session, k.ep)'
        BY <1>2, <2>4, <2>5
      <4>3. \A e \in {w, k.ep} : P!Asked(k.session, e)' /\ P!Told(e, P!MATCHED)'
        BY <2>4, <4>2
      <4> QED BY <2>3, <2>4, <4>1, <4>3
    <3>3. ASSUME NEW l \in Waiter, P!Told(l.ep, P!MATCHED)', l.session # NoSession
          PROVE  \E f \in Place :
                    {<<l.session, l.ep, f>>, <<l.session, f, l.ep>>} \intersect pairs' # {}
      <4>1. CASE P!Told(l.ep, P!MATCHED)
        BY <1>3, <2>3, <3>3, <4>1 DEF MatchedInPairs, P!MatchedInPairs
      <4>2. CASE l.ep = k.ep
        BY <1>4, <2>1, <2>3, <4>2
      <4>3. CASE l.ep = w
        <5>1. PICK j \in Waiter : j.session = k.session /\ j.ep = w
          BY <2>5 DEF P!Asked
        <5>2. l.session = k.session
          BY <4>3, <5>1, PreinitAssumption DEF P!ConstantsOK
        <5> QED BY <1>2, <2>3, <4>3, <5>2
      <4> QED BY <2>4, <3>3, <4>1, <4>2, <4>3
    <3> QED BY <2>6, <3>1, <3>2, <3>3 DEF MatchedInPairs, P!MatchedInPairs, P!MayRepeat
  <2>8. \A s \in Meeting : natneg_preinit_session'[s] =
           IF s = k.session THEN Nobody ELSE natneg_preinit_session[s]
    BY <1>3, <2>3 DEF P!TypeOK
  <2>9. WaitersOnce'
    BY <1>3, <2>4, <2>8 DEF WaitersOnce, P!MayRepeat
  <2> QED BY <2>4, <2>7, <2>9 DEF PreinitInv
<1> QED BY <1>5, <1>6, <1>7 DEF P!HandlePreinit

(***************************************************************************)
(* The invariant holds always.                                             *)
(***************************************************************************)
LEMMA PreinitInvariance == P!Spec => []PreinitInv
<1>1. P!Init => PreinitInv
  BY PreinitAssumption
     DEF P!Init, PreinitInv, MatchedInPairs, P!MatchedInPairs, P!TypeOK, P!Told,
         PreinitsReal, WaitersOnce
<1>2. PreinitInv /\ UNCHANGED P!vars => PreinitInv'
  BY DEF P!vars, PreinitInv, MatchedInPairs, P!MatchedInPairs, P!TypeOK, P!Told, P!Asked,
         PreinitsReal, WaitersOnce, P!MayRepeat
<1>3. PreinitInv /\ [P!Next]_(P!vars) => PreinitInv'
  BY <1>2, SendStep, HandleStep DEF P!Next
<1> QED BY <1>1, <1>3, PTL DEF P!Spec

(***************************************************************************)
(* Matches come in pairs: whoever is told of a match has asked for it, and *)
(* so has another, who is told too; only a PREINIT that arrives again      *)
(* matches a console with itself.                                          *)
(***************************************************************************)
THEOREM MatchesComeInPairs == ServerSpec => []MatchedInPairs
<1>1. PreinitInv => MatchedInPairs
  BY DEF PreinitInv
<1> QED BY <1>1, ExchangesAreIndependent, PreinitInvariance, PTL

(***************************************************************************)
(* Who waits stays until matched, whatever arrives, and how often.         *)
(***************************************************************************)
THEOREM WaitersLeaveMatched == ServerSpec => WaiterOnlyLeavesMatched
<1>1. ASSUME PreinitInv, NEW p \in preinit_net, P!HandlePreinit(p), NEW s \in Meeting,
             natneg_preinit_session'[s] # natneg_preinit_session[s],
             natneg_preinit_session[s] # Nobody
      PROVE  /\ natneg_preinit_session'[s] = Nobody
             /\ \E f \in Place : <<s, natneg_preinit_session[s], f>> \in pairs'
  <2>1. p.session \in Meeting /\ p.from \in Place
    BY <1>1, PreinitFields DEF P!HandlePreinit, PreinitInv, PreinitsReal
  <2>2. natneg_preinit_session \in [Meeting -> Place \union {Nobody}]
    BY <1>1 DEF PreinitInv, MatchedInPairs, P!MatchedInPairs, P!TypeOK
  <2> QED BY <1>1, <2>1, <2>2 DEF P!HandlePreinit, P!HandleNoSession, P!HandleFirst, P!HandleSecond
<1>2. PreinitInv /\ [P!Next]_(P!vars) =>
         [\A s \in Meeting :
             natneg_preinit_session'[s] # natneg_preinit_session[s] =>
                \/ natneg_preinit_session[s] = Nobody
                \/ /\ natneg_preinit_session'[s] = Nobody
                   /\ \E f \in Place :
                        <<s, natneg_preinit_session[s], f>> \in pairs']_(P!vars)
  BY <1>1 DEF P!Next, P!SendPreinit, P!vars
<1> QED BY <1>2, ExchangesAreIndependent, PreinitInvariance, PTL
        DEF P!Spec, WaiterOnlyLeavesMatched, P!WaiterOnlyLeavesMatched
=============================================================================
