-------------------------- MODULE MatchmakingProofs --------------------------
(***************************************************************************)
(* Proofs about the server browser, for any records, packets, filters and  *)
(* connections: no packet is delayed but by an exception, messages and     *)
(* cookies lead to those who were named, and a search answers what its     *)
(* filter makes of each server.                                            *)
(***************************************************************************)
EXTENDS Matchmaking, SequenceTheorems, FiniteSetTheorems, WellFoundedInduction, TLAPS

(***************************************************************************)
(* A set of naturals that is not empty has a least element.                *)
(***************************************************************************)
LEMMA LeastNat ==
    ASSUME NEW T \in SUBSET Nat, T # {}
    PROVE  \E n \in T : \A m \in T : n <= m
<1> DEFINE R == {ss \in Nat \X Nat : ss[1] < ss[2]}
<1>1. IsWellFoundedOn(R, Nat)
  BY NatLessThanWellFounded DEF OpToRel
<1>2. PICK n \in T : \A m \in T : <<m, n>> \notin R
  <2> HIDE DEF R
  <2> QED  BY <1>1, WFMin
<1>3. \A m \in T : ~(m < n)
  BY <1>2
<1> QED  BY <1>3

(***************************************************************************)
(* Induction from 0 up to n, with a set for what is to be shown.           *)
(***************************************************************************)
LEMMA Upwards ==
    ASSUME NEW n \in Nat, NEW T,
           0 \in T,
           \A i \in 1 .. n : i - 1 \in T => i \in T
    PROVE  \A i \in 0 .. n : i \in T
<1> SUFFICES ASSUME NEW j \in 0 .. n, j \notin T
             PROVE  FALSE
  OBVIOUS
<1> DEFINE Gaps == {i \in 0 .. n : i \notin T}
<1>1. Gaps \in SUBSET Nat /\ Gaps # {}
  OBVIOUS
<1>2. PICK i \in Gaps : \A m \in Gaps : i <= m
  <2> HIDE DEF Gaps
  <2> QED  BY <1>1, LeastNat
<1>3. i \in 1 .. n
  BY <1>2
<1>4. i - 1 \in T
  BY <1>2, <1>3
<1> QED  BY <1>2, <1>3, <1>4

(***************************************************************************)
(* A loop of n rounds has a sequence of states: from start on, each is     *)
(* what step makes of the round and of the state before it.                *)
(***************************************************************************)
Iteration(g, n, S, start, step) ==
    /\ g \in [0 .. n -> S] /\ g[0] = start
    /\ \A i \in 1 .. n : g[i] = step[<<i, g[i - 1]>>]

LEMMA Iterates ==
    ASSUME NEW n \in Nat, NEW S, NEW start \in S, NEW step \in [(1 .. n) \X S -> S]
    PROVE  \E g : Iteration(g, n, S, start, step)
<1> DEFINE Upto(m, g) == g[0] = start /\ \A i \in 1 .. m : g[i] = step[<<i, g[i - 1]>>]
           T == {m \in 0 .. n : \E g \in [0 .. m -> S] : Upto(m, g)}
<1>1. 0 \in T
  <2> DEFINE g == [i \in 0 .. 0 |-> start]
  <2>1. g \in [0 .. 0 -> S] /\ Upto(0, g)
    OBVIOUS
  <2> HIDE DEF Upto, g
  <2> QED  BY <2>1
<1>2. ASSUME NEW i \in 1 .. n, i - 1 \in T
      PROVE  i \in T
  <2>1. PICK g \in [0 .. i - 1 -> S] : Upto(i - 1, g)
    BY <1>2
  <2> DEFINE h == [j \in 0 .. i |-> IF j = i THEN step[<<i, g[i - 1]>>] ELSE g[j]]
  <2>2. step[<<i, g[i - 1]>>] \in S
    <3>1. g[i - 1] \in S
      BY <2>1
    <3>2. <<i, g[i - 1]>> \in (1 .. n) \X S
      BY <3>1
    <3> QED  BY <3>2
  <2>3. h \in [0 .. i -> S]
    BY <2>1, <2>2
  <2>4. \A j \in 0 .. i - 1 : h[j] = g[j]
    OBVIOUS
  <2>9. h[i] = step[<<i, g[i - 1]>>] /\ i - 1 \in 0 .. i - 1
    OBVIOUS
  <2>6. h[i] = step[<<i, h[i - 1]>>]
    <3> HIDE DEF h
    <3> QED  BY <2>4, <2>9
  <2>7. ASSUME NEW j \in 1 .. i - 1
        PROVE  h[j] = step[<<j, h[j - 1]>>]
    <3>1. j \in 0 .. i - 1 /\ j - 1 \in 0 .. i - 1
      OBVIOUS
    <3> QED  BY <2>1, <2>4, <3>1
  <2>8. h[0] = start
    BY <2>1, <2>4
  <2> HIDE DEF h
  <2>5. Upto(i, h)
    BY <2>6, <2>7, <2>8
  <2> HIDE DEF Upto
  <2> QED  BY <2>3, <2>5
<1>3. n \in T
  <2> HIDE DEF T
  <2>1. \A i \in 0 .. n : i \in T
    BY <1>1, <1>2, Upwards
  <2> QED  BY <2>1
<1> QED  BY <1>3 DEF Iteration

(***************************************************************************)
(* What the variables of the browser are.                                  *)
(***************************************************************************)
Unit(c) == Packet[c] \X (1 .. 3)
Own == {{}} \union {{s} : s \in Server}
Conversation(c) == [buffer : Seq(Unit(c)), console : {0, 1}, own : Own]

Typed ==
    /\ listed \subseteq Server
    /\ nat \in [Cookie -> Seq(Server)]
    /\ DOMAIN wire = Conn /\ DOMAIN conn = Conn
    /\ \A c \in Conn : wire[c] \in Seq(Unit(c)) /\ conn[c] \in Conversation(c)
    /\ busy \subseteq Conn /\ \A c, d \in busy : c = d
    /\ hung \in BOOLEAN /\ raised \subseteq Conn /\ changes \in 0 .. MaxChanges
    /\ sent \in [Conn -> Nat] /\ done \in [Conn -> Nat]
    /\ \A c \in Conn : sent[c] <= MaxPackets[c]
    /\ told \in [Conn -> SUBSET Address] /\ named \in [Cookie -> SUBSET Address]

(***************************************************************************)
(* No unit comes from nowhere, and only exceptions make any go.            *)
(***************************************************************************)
UnitsOK ==
    \A c \in Conn :
        /\ 3 * done[c] + Len(conn[c].buffer) + Len(wire[c]) <= 3 * sent[c]
        /\ c \notin raised /\ ~hung =>
              3 * sent[c] = 3 * done[c] + Len(conn[c].buffer) + Len(wire[c])
        /\ c \notin raised /\ ~hung /\ c \notin busy => Len(conn[c].buffer) < 3

(***************************************************************************)
(* A connection's own record is that of an address that it told.           *)
(***************************************************************************)
OwnOK == \A c \in Conn : \A s \in conn[c].own : \E a \in told[c] : Named(a, s)

(***************************************************************************)
(* What a round of the loop leaves of its connection, with whatever else   *)
(* it changes.                                                             *)
(***************************************************************************)
Handles(c, st) ==
    /\ c \in busy /\ ~hung /\ Whole(c)
    /\ st.buffer = SubSeq(conn[c].buffer, 4, Len(conn[c].buffer))
    /\ conn' = [conn EXCEPT ![c] = st]
    /\ Finish(c) \/ Raise(c) \/ Hang
    /\ UNCHANGED <<listed, wire, changes, sent>>

----------------------------------------------------------------------------
(***************************************************************************)
(* Units.                                                                  *)
(***************************************************************************)
LEMMA UnitsType ==
    ASSUME NEW c \in Conn, NEW p \in Packet[c]
    PROVE  Units(p) \in Seq(Unit(c)) /\ Len(Units(p)) = 3
<1>1. Units(p) \in [1 .. 3 -> Unit(c)]
  BY DEF Units, Unit
<1>2. Units(p) \in Seq(Unit(c))
  BY <1>1, 3 \in Nat, SeqDef
<1> QED  BY <1>1, <1>2, LenProperties

LEMMA HeadIsPacket ==
    ASSUME Typed, NEW c \in Conn, Whole(c)
    PROVE  /\ Head(conn[c].buffer)[1] \in Packet[c]
           /\ Cut(c) \in Conversation(c)
           /\ Len(Cut(c).buffer) = Len(conn[c].buffer) - 3
           /\ Cut(c).own = conn[c].own /\ Cut(c).console = conn[c].console
           /\ Cut(c).buffer = SubSeq(conn[c].buffer, 4, Len(conn[c].buffer))
<1>1. conn[c].buffer \in Seq(Unit(c)) /\ conn[c] \in Conversation(c)
  BY DEF Typed, Conversation
<1>2. Len(conn[c].buffer) \in Nat /\ Len(conn[c].buffer) >= 3
  BY <1>1 DEF Whole
<1>3. Head(conn[c].buffer) \in Unit(c)
  BY <1>1, <1>2
<1>4. /\ SubSeq(conn[c].buffer, 4, Len(conn[c].buffer)) \in Seq(Unit(c))
      /\ Len(SubSeq(conn[c].buffer, 4, Len(conn[c].buffer))) = Len(conn[c].buffer) - 3
  <2>1. \A i \in 4 .. Len(conn[c].buffer) : conn[c].buffer[i] \in Unit(c)
    BY <1>1, <1>2
  <2> QED  BY <1>2, <2>1, SubSeqProperties
<1> QED  BY <1>1, <1>3, <1>4 DEF Cut, Conversation, Unit

----------------------------------------------------------------------------
(***************************************************************************)
(* find_servers, as a loop over the list: what is found so far comes from  *)
(* the servers so far, each once, with "yes" for a verdict; and unless the *)
(* search has ended, all such servers so far are in it, and none raised.   *)
(***************************************************************************)
LEMMA FindServersFinds ==
    ASSUME NEW L, NEW servers \in Seq(L), NEW verdict, NEW max \in Nat,
           \A i, j \in DOMAIN servers : servers[i] = servers[j] => i = j
    PROVE  LET r == FindServers(servers, verdict, max)
           IN  /\ r.found \in Seq(L) /\ r.raised \in BOOLEAN
               /\ \A k \in 1 .. Len(r.found) : verdict[r.found[k]] = "yes"
               /\ IsInjective(r.found)
               /\ max # 0 => Len(r.found) <= max
               /\ \/ r.raised
                  \/ max # 0 /\ Len(r.found) = max
                  \/ \A s \in ToSet(servers) :
                        /\ verdict[s] # "raise"
                        /\ verdict[s] = "yes" => s \in ToSet(r.found)
<1> DEFINE n == Len(servers)
           S == [found : Seq(L), raised : BOOLEAN]
           start == [found |-> <<>>, raised |-> FALSE]
           ended(r) == r.raised \/ (max # 0 /\ Len(r.found) = max)
           more(i, r) ==
               CASE ~ended(r) /\ verdict[servers[i]] = "yes" ->
                       [r EXCEPT !.found = Append(@, servers[i])]
                 [] ~ended(r) /\ verdict[servers[i]] = "raise" -> [r EXCEPT !.raised = TRUE]
                 [] OTHER -> r
           Loop(f) == [i \in 0 .. n |-> IF i = 0 THEN start ELSE more(i, f[i - 1])]
           after == CHOOSE f : f = Loop(f)
<1>1. n \in Nat /\ \A i \in 1 .. n : servers[i] \in L
  OBVIOUS
<1>2. start \in S
  OBVIOUS
<1>3. \A i \in 1 .. n, r \in S : more(i, r) \in S
  <2> SUFFICES ASSUME NEW i \in 1 .. n, NEW r \in S
               PROVE  more(i, r) \in S
    <3> HIDE DEF more, S, n
    <3> QED  OBVIOUS
  <2>1. servers[i] \in L /\ r.found \in Seq(L) /\ r.raised \in BOOLEAN
    BY <1>1
  <2>2. Append(r.found, servers[i]) \in Seq(L)
    BY <2>1
  <2>3. [r EXCEPT !.found = Append(@, servers[i])] \in S /\ [r EXCEPT !.raised = TRUE] \in S
    BY <2>1, <2>2
  <2> QED  BY <2>3
<1>4. after = Loop(after) /\ after \in [0 .. n -> S]
  <2> DEFINE step == [ir \in (1 .. n) \X S |-> more(ir[1], ir[2])]
  <2> HIDE DEF more, start, S, n
  <2>1. step \in [(1 .. n) \X S -> S]
    BY <1>3
  <2>2. PICK g : Iteration(g, n, S, start, step)
    <3> HIDE DEF step
    <3> QED  BY <1>1, <1>2, <2>1, Iterates
  <2>3. \A i \in 1 .. n : g[i] = more(i, g[i - 1])
    <3> TAKE i \in 1 .. n
    <3>1. g[i - 1] \in S
      BY <1>1, <2>2 DEF Iteration
    <3> QED  BY <2>2, <3>1 DEF Iteration
  <2>4. g = Loop(g)
    BY <1>1, <2>2, <2>3 DEF Iteration
  <2>5. after = Loop(after)
    <3> HIDE DEF Loop
    <3> QED  BY <2>4
  <2>6. \A i \in 0 .. n : after[i] \in S
    <3> DEFINE T == {j \in 0 .. n : after[j] \in S}
    <3> HIDE DEF after
    <3>1. after[0] = start /\ \A i \in 1 .. n : after[i] = more(i, after[i - 1])
      BY <1>1, <2>5
    <3>2. ASSUME NEW i \in 1 .. n, after[i - 1] \in S
          PROVE  after[i] \in S
      BY <1>3, <3>1, <3>2
    <3>3. 0 \in T /\ \A i \in 1 .. n : i - 1 \in T => i \in T
      BY <1>1, <1>2, <3>1, <3>2
    <3>4. \A i \in 0 .. n : i \in T
      <4> HIDE DEF T
      <4> QED  BY <1>1, <3>3, Upwards
    <3> QED  BY <3>4
  <2> QED
    <3> HIDE DEF after
    <3> QED  BY <2>5, <2>6
<1>5. FindServers(servers, verdict, max) = after[n]
  BY DEF FindServers
<1> DEFINE Yes(i, r) == \A k \in 1 .. Len(r.found) :
                  /\ verdict[r.found[k]] = "yes"
                  /\ \E j \in 1 .. i : r.found[k] = servers[j]
           Once(r) == \A k, m \in 1 .. Len(r.found) : r.found[k] = r.found[m] => k = m
           All(i, r) == \/ ended(r)
                        \/ \A j \in 1 .. i :
                              /\ verdict[servers[j]] # "raise"
                              /\ verdict[servers[j]] = "yes" =>
                                    \E k \in 1 .. Len(r.found) : r.found[k] = servers[j]
           Good(i, r) == Yes(i, r) /\ Once(r) /\ (max # 0 => Len(r.found) <= max) /\ All(i, r)
<1>6. Good(0, start)
  OBVIOUS
<1>7. ASSUME NEW i \in 1 .. n, NEW r \in S, Good(i - 1, r)
      PROVE  Good(i, more(i, r))
  <2>1. Len(r.found) \in Nat /\ r.found \in Seq(L)
    OBVIOUS
  <2>2. CASE ~ended(r) /\ verdict[servers[i]] = "yes"
    <3> DEFINE found == Append(r.found, servers[i])
    <3>1. /\ more(i, r).found = found /\ more(i, r).raised = r.raised
          /\ Len(found) = Len(r.found) + 1 /\ found[Len(r.found) + 1] = servers[i]
          /\ \A k \in 1 .. Len(r.found) : found[k] = r.found[k]
      BY <1>1, <2>1, <2>2
    <3>2. Yes(i, more(i, r))
      <4> SUFFICES ASSUME NEW k \in 1 .. Len(r.found) + 1
                   PROVE  verdict[found[k]] = "yes" /\ \E j \in 1 .. i : found[k] = servers[j]
        BY <3>1
      <4>1. CASE k = Len(r.found) + 1
        BY <2>2, <3>1, <4>1
      <4>2. CASE k # Len(r.found) + 1
        <5>1. k \in 1 .. Len(r.found)
          BY <2>1, <4>2
        <5>2. PICK j \in 1 .. i - 1 : r.found[k] = servers[j]
          BY <1>7, <5>1
        <5>3. j \in 1 .. i
          OBVIOUS
        <5> QED  BY <1>7, <3>1, <5>1, <5>2, <5>3
      <4> QED  BY <4>1, <4>2
    <3>3. Once(more(i, r))
      <4>1. \A k \in 1 .. Len(r.found) : r.found[k] # servers[i]
        <5> SUFFICES ASSUME NEW k \in 1 .. Len(r.found), r.found[k] = servers[i]
                     PROVE  FALSE
          OBVIOUS
        <5>1. PICK j \in 1 .. i - 1 : r.found[k] = servers[j]
          BY <1>7
        <5>2. i \in DOMAIN servers /\ j \in DOMAIN servers /\ i # j
          BY <1>1
        <5> QED  BY <5>1, <5>2
      <4>2. SUFFICES ASSUME NEW k \in 1 .. Len(r.found) + 1, NEW m \in 1 .. Len(r.found) + 1,
                            found[k] = found[m]
                     PROVE  k = m
        BY <3>1
      <4> HIDE DEF found, more
      <4>3. \A p \in 1 .. Len(r.found) + 1 : p = Len(r.found) + 1 \/ p \in 1 .. Len(r.found)
        BY <2>1
      <4>5. CASE k = Len(r.found) + 1
        BY <3>1, <4>1, <4>2, <4>3, <4>5
      <4>6. CASE m = Len(r.found) + 1
        BY <3>1, <4>1, <4>2, <4>3, <4>6
      <4>7. CASE k \in 1 .. Len(r.found) /\ m \in 1 .. Len(r.found)
        BY <1>7, <3>1, <4>2, <4>7
      <4> QED  BY <4>3, <4>5, <4>6, <4>7
    <3>4. All(i, more(i, r))
      <4> SUFFICES ASSUME NEW j \in 1 .. i
                   PROVE  /\ verdict[servers[j]] # "raise"
                          /\ verdict[servers[j]] = "yes" =>
                                \E k \in 1 .. Len(r.found) + 1 : found[k] = servers[j]
        BY <3>1
      <4>1. CASE j = i
        BY <2>1, <2>2, <3>1, <4>1
      <4>2. CASE j # i
        <5>1. j \in 1 .. i - 1
          BY <4>2
        <5>2. /\ verdict[servers[j]] # "raise"
              /\ verdict[servers[j]] = "yes" =>
                    \E k \in 1 .. Len(r.found) : r.found[k] = servers[j]
          BY <1>7, <2>2, <5>1
        <5>3. \A k \in 1 .. Len(r.found) : k \in 1 .. Len(r.found) + 1
          BY <2>1
        <5> QED  BY <3>1, <5>2, <5>3
      <4> QED  BY <4>1, <4>2
    <3>5. max # 0 => Len(found) <= max
      BY <1>7, <2>1, <2>2, <3>1
    <3> HIDE DEF Yes, Once, All, found, more
    <3> QED  BY <3>1, <3>2, <3>3, <3>4, <3>5
  <2>3. CASE ~ended(r) /\ verdict[servers[i]] = "raise"
    <3>1. more(i, r).found = r.found /\ more(i, r).raised = TRUE
      BY <2>3
    <3>2. Yes(i, more(i, r))
      <4> SUFFICES ASSUME NEW k \in 1 .. Len(r.found)
                   PROVE  verdict[r.found[k]] = "yes" /\ \E j \in 1 .. i : r.found[k] = servers[j]
        BY <3>1
      <4>1. PICK j \in 1 .. i - 1 : r.found[k] = servers[j]
        BY <1>7
      <4> QED  BY <1>7, <4>1
    <3> QED  BY <1>7, <3>1, <3>2
  <2>4. CASE ~(~ended(r) /\ verdict[servers[i]] \in {"yes", "raise"})
    <3>1. more(i, r) = r
      BY <2>4
    <3>2. Yes(i, r)
      <4> SUFFICES ASSUME NEW k \in 1 .. Len(r.found)
                   PROVE  verdict[r.found[k]] = "yes" /\ \E j \in 1 .. i : r.found[k] = servers[j]
        OBVIOUS
      <4>1. PICK j \in 1 .. i - 1 : r.found[k] = servers[j]
        BY <1>7
      <4> QED  BY <1>7, <4>1
    <3>3. All(i, r)
      <4> SUFFICES ASSUME ~ended(r), NEW j \in 1 .. i
                   PROVE  /\ verdict[servers[j]] # "raise"
                          /\ verdict[servers[j]] = "yes" =>
                                \E k \in 1 .. Len(r.found) : r.found[k] = servers[j]
        OBVIOUS
      <4>1. CASE j = i
        BY <2>4, <4>1
      <4>2. CASE j # i
        <5>1. j \in 1 .. i - 1
          BY <4>2
        <5> QED  BY <1>7, <5>1
      <4> QED  BY <4>1, <4>2
    <3> HIDE DEF Yes, All, more
    <3> QED  BY <1>7, <3>1, <3>2, <3>3
  <2> QED  BY <2>2, <2>3, <2>4
<1>8. Good(n, after[n])
  <2> HIDE DEF after, Good, more, start, S, n
  <2>1. after[0] = start /\ \A i \in 1 .. n : after[i] = more(i, after[i - 1]) /\ after[i - 1] \in S
    BY <1>1, <1>4
  <2> DEFINE T == {i \in 0 .. n : Good(i, after[i])}
  <2>2. 0 \in T
    BY <1>1, <1>6, <2>1
  <2>3. \A i \in 1 .. n : i - 1 \in T => i \in T
    BY <1>7, <2>1
  <2>4. \A i \in 0 .. n : i \in T
    <3> HIDE DEF T
    <3> QED  BY <1>1, <2>2, <2>3, Upwards
  <2> QED  BY <1>1, <2>4
<1>9. after[n] \in S
  <2>1. after \in [0 .. n -> S]
    <3> HIDE DEF after, Loop, S, n
    <3> QED  BY <1>4
  <2> HIDE DEF after, S, n
  <2> QED  BY <1>1, <2>1
<1> DEFINE r == after[n]
<1> HIDE DEF after
<1>10. IsInjective(r.found) /\ \A j \in 1 .. n : (\E k \in 1 .. Len(r.found) : r.found[k] = servers[j])
                                  => servers[j] \in ToSet(r.found)
  <2>1. DOMAIN r.found = 1 .. Len(r.found)
    BY <1>9
  <2>2. IsInjective(r.found)
    BY <1>8, <2>1 DEF IsInjective
  <2> QED  BY <2>1, <2>2 DEF ToSet
<1>11. \A s \in ToSet(servers) : \E j \in 1 .. n : s = servers[j]
  BY DEF ToSet
<1> QED  BY <1>5, <1>8, <1>9, <1>10, <1>11

(***************************************************************************)
(* What a search finds is listed, whatever its filter makes of servers.    *)
(***************************************************************************)
LEMMA ListsAreOrdered ==
    ASSUME Typed, NEW order \in SetToSeqs(listed)
    PROVE  /\ order \in Seq(listed) /\ ToSet(order) = listed
           /\ \A i, j \in DOMAIN order : order[i] = order[j] => i = j
<1>1. IsFiniteSet(listed)
  BY ServerAssumption, FS_Subset DEF Typed
<1>2. Cardinality(listed) \in Nat
  BY <1>1, FS_CardinalityType
<1>3. /\ order \in [1 .. Cardinality(listed) -> listed]
      /\ \A i, j \in DOMAIN order : order[i] = order[j] => i = j
  BY DEF SetToSeqs
<1>4. order \in Seq(listed)
  BY <1>2, <1>3, SeqDef
<1>5. \A s \in listed : \E i \in DOMAIN order : order[i] = s
  <2>1. order \in Injection(1 .. Cardinality(listed), listed)
    BY <1>3 DEF Injection, IsInjective
  <2>2. Cardinality(1 .. Cardinality(listed)) = Cardinality(listed)
    BY <1>2, FS_Interval
  <2>3. order \in Surjection(1 .. Cardinality(listed), listed)
    BY <1>1, <1>2, <2>1, <2>2, FS_Injection, FS_Interval
  <2> QED  BY <2>3 DEF Surjection
<1> QED  BY <1>3, <1>4, <1>5 DEF ToSet

LEMMA ResultsAreListed ==
    ASSUME Typed, NEW c \in Conn, NEW q \in Packet[c], q.cmd = "list", NEW r \in Results(q)
    PROVE  /\ r.found \in Seq(listed) /\ r.raised \in BOOLEAN
           /\ IsInjective(r.found)
           /\ \A s \in ToSet(r.found) : Verdict(q.filter, s.data) = "yes"
           /\ q.max # 0 => Len(r.found) <= q.max
           /\ \/ r.raised
              \/ q.max # 0 /\ Len(r.found) = q.max
              \/ \A s \in listed :
                    /\ Verdict(q.filter, s.data) # "raise"
                    /\ Verdict(q.filter, s.data) = "yes" => s \in ToSet(r.found)
<1>1. PICK order \in SetToSeqs(listed) : r = FindServers(order, Verdicts[q.filter], q.max)
  BY DEF Results
<1>2. q.max \in Nat
  BY PacketAssumption
<1>3. /\ order \in Seq(listed) /\ ToSet(order) = listed
      /\ \A i, j \in DOMAIN order : order[i] = order[j] => i = j
  BY ListsAreOrdered
<1> DEFINE verdict == Verdicts[q.filter]
<1>4. \A s \in listed : verdict[s] = Verdict(q.filter, s.data)
  <2>1. q \in UNION Range(Packet)
    BY PacketAssumption DEF Range
  <2> DEFINE filters == {p.filter : p \in {x \in UNION Range(Packet) : x.cmd = "list"}}
  <2>2. q.filter \in filters
    BY <2>1
  <2>3. Verdicts = [f \in filters |-> [s \in Server |-> Verdict(f, s.data)]]
    BY DEF Verdicts
  <2> HIDE DEF filters
  <2>4. verdict = [s \in Server |-> Verdict(q.filter, s.data)]
    BY <2>2, <2>3
  <2> QED  BY <2>4 DEF Typed
<1> HIDE DEF verdict
<1>5. r = FindServers(order, verdict, q.max)
  BY <1>1 DEF verdict
<1>6. /\ r.found \in Seq(listed) /\ r.raised \in BOOLEAN
      /\ \A k \in 1 .. Len(r.found) : verdict[r.found[k]] = "yes"
      /\ IsInjective(r.found)
      /\ q.max # 0 => Len(r.found) <= q.max
      /\ \/ r.raised
         \/ q.max # 0 /\ Len(r.found) = q.max
         \/ \A s \in listed :
               /\ verdict[s] # "raise"
               /\ verdict[s] = "yes" => s \in ToSet(r.found)
  BY <1>2, <1>3, <1>5, FindServersFinds
<1>7. \A s \in ToSet(r.found) : s \in listed /\ verdict[s] = "yes"
  BY <1>6 DEF ToSet
<1>8. \/ r.raised
      \/ q.max # 0 /\ Len(r.found) = q.max
      \/ \A s \in listed :
            /\ Verdict(q.filter, s.data) # "raise"
            /\ Verdict(q.filter, s.data) = "yes" => s \in ToSet(r.found)
  BY <1>4, <1>6
<1>9. \A s \in ToSet(r.found) : Verdict(q.filter, s.data) = "yes"
  BY <1>4, <1>7
<1> QED  BY <1>6, <1>8, <1>9

(***************************************************************************)
(* The answer that raises has got as far as the first server without an    *)
(* address.                                                                *)
(***************************************************************************)
LEMMA UpToUnplacedType ==
    ASSUME NEW found \in Seq(listed), Unplaced(ToSet(found)) # {}
    PROVE  UpToUnplaced(found) \in Seq(listed) /\ UpToUnplaced(found) # <<>>
<1> DEFINE at == {i \in DOMAIN found : found[i].ip = NoIp}
<1>1. at # {} /\ at \in SUBSET Nat
  BY DEF Unplaced, ToSet
<1>2. \E i \in at : \A j \in at : i <= j
  <2> HIDE DEF at
  <2> QED  BY <1>1, LeastNat
<1>3. Min(at) \in at
  BY <1>2 DEF Min
<1>4. Min(at) \in 1 .. Len(found)
  BY <1>3
<1>5. UpToUnplaced(found) = SubSeq(found, 1, Min(at))
  BY DEF UpToUnplaced
<1> HIDE DEF at
<1>6. /\ SubSeq(found, 1, Min(at)) \in Seq(listed)
      /\ Len(SubSeq(found, 1, Min(at))) = Min(at)
  <2>1. \A i \in 1 .. Min(at) : found[i] \in listed
    BY <1>4
  <2> QED  BY <1>4, <2>1, SubSeqProperties
<1> QED  BY <1>4, <1>5, <1>6

(***************************************************************************)
(* The three rounds of the loop are rounds; a search leaves the parties    *)
(* alone, and its answer is one of the results of the query.               *)
(***************************************************************************)
LEMMA ListRequestHandles ==
    ASSUME Typed, NEW c \in Conn, ListRequest(c)
    PROVE  /\ \E st \in Conversation(c) : Handles(c, st) /\ st.own = conn[c].own
           /\ passed' = {} /\ UNCHANGED <<nat, told, named>>
           /\ \/ answer' = {}
              \/ \E q \in Packet[c] :
                    /\ q.cmd = "list" /\ (listed = {} \/ ~Hangs(q.filter))
                    /\ \E r \in Results(q) : ~r.raised /\ answer' = {Answered(c, q, r.found)}
<1> DEFINE q == Head(conn[c].buffer)[1]
           Drop == conn' = [conn EXCEPT ![c] = Cut(c)] /\ answer' = {}
           Show(found) ==
                conn' = [conn EXCEPT ![c] =
                    IF found = <<>> THEN Cut(c) ELSE [Cut(c) EXCEPT !.console = Last(found).console]]
           Deliver(found) ==
                IF Unplaced(ToSet(found)) = {}
                THEN Finish(c) /\ Show(found) /\ answer' = {Answered(c, q, found)}
                ELSE Raise(c) /\ Show(UpToUnplaced(found)) /\ answer' = {}
<1>1. Round(c, "list") /\ UNCHANGED <<listed, wire, changes, sent>>
  BY DEF ListRequest
<1>2. c \in busy /\ ~hung /\ Whole(c) /\ q.cmd = "list"
  BY <1>1 DEF Round
<1>3. /\ q \in Packet[c] /\ Cut(c) \in Conversation(c)
      /\ Cut(c).own = conn[c].own
      /\ Cut(c).buffer = SubSeq(conn[c].buffer, 4, Len(conn[c].buffer))
  BY <1>2, HeadIsPacket
<1>4. \/ Drop /\ (Finish(c) \/ Raise(c) \/ Hang)
      \/ /\ listed = {} \/ ~Hangs(q.filter)
         /\ \E r \in Results(q) : ~r.raised /\ Deliver(r.found)
  <2> HIDE DEF Drop, Deliver
  <2>1. \/ Raise(c) /\ Drop
        \/ Finish(c) /\ Drop
        \/ Hang /\ Drop
        \/ /\ listed = {} \/ ~Hangs(q.filter)
           /\ \E r \in Results(q) : IF r.raised THEN Raise(c) /\ Drop ELSE Deliver(r.found)
    BY DEF ListRequest, Drop, Deliver
  <2> QED  BY <2>1
<1>5. CASE Drop /\ (Finish(c) \/ Raise(c) \/ Hang)
  <2>1. Handles(c, Cut(c))
    BY <1>1, <1>2, <1>3, <1>5 DEF Handles
  <2> QED  BY <1>3, <1>5, <2>1 DEF ListRequest
<1>6. ASSUME NEW found \in Seq(listed), Show(found), Finish(c) \/ Raise(c)
      PROVE  \E st \in Conversation(c) : Handles(c, st) /\ st.own = conn[c].own
  <2>1. CASE found = <<>>
    <3>1. Handles(c, Cut(c))
      BY <1>1, <1>2, <1>3, <1>6, <2>1 DEF Handles
    <3> QED  BY <1>3, <3>1
  <2>2. CASE found # <<>>
    <3> DEFINE st == [Cut(c) EXCEPT !.console = Last(found).console]
    <3>1. Last(found) \in listed
      BY <2>2 DEF Last
    <3>2. Last(found).console \in {0, 1}
      BY <3>1, ServerAssumption DEF Typed
    <3>3. /\ st \in Conversation(c) /\ st.own = conn[c].own
          /\ st.buffer = SubSeq(conn[c].buffer, 4, Len(conn[c].buffer))
      BY <1>3, <3>2 DEF Conversation
    <3>4. conn' = [conn EXCEPT ![c] = st]
      BY <1>6, <2>2
    <3> HIDE DEF st
    <3>5. Handles(c, st)
      BY <1>1, <1>2, <1>6, <3>3, <3>4 DEF Handles
    <3> QED  BY <3>3, <3>5
  <2> QED  BY <2>1, <2>2
<1>7. ASSUME NEW r \in Results(q), ~r.raised, Deliver(r.found)
      PROVE  /\ \E st \in Conversation(c) : Handles(c, st) /\ st.own = conn[c].own
             /\ answer' = {} \/ answer' = {Answered(c, q, r.found)}
  <2>1. r.found \in Seq(listed)
    BY <1>2, <1>3, ResultsAreListed
  <2>2. CASE Unplaced(ToSet(r.found)) = {}
    <3>1. Finish(c) /\ Show(r.found) /\ answer' = {Answered(c, q, r.found)}
      BY <1>7, <2>2
    <3> QED  BY <1>6, <2>1, <3>1
  <2>3. CASE Unplaced(ToSet(r.found)) # {}
    <3>1. Raise(c) /\ Show(UpToUnplaced(r.found)) /\ answer' = {}
      BY <1>7, <2>3
    <3>2. UpToUnplaced(r.found) \in Seq(listed)
      BY <2>1, <2>3, UpToUnplacedType
    <3> QED  BY <1>6, <3>1, <3>2
  <2> QED  BY <2>2, <2>3
<1>8. passed' = {} /\ UNCHANGED <<nat, told, named>>
  BY DEF ListRequest
<1> HIDE DEF Drop, Show, Deliver, q
<1> QED  BY <1>2, <1>3, <1>4, <1>5, <1>7, <1>8

LEMMA KeepAliveHandles ==
    ASSUME Typed, NEW c \in Conn, KeepAlive(c)
    PROVE  /\ Cut(c) \in Conversation(c) /\ Handles(c, Cut(c)) /\ Cut(c).own = conn[c].own
           /\ passed' = {} /\ answer' = {} /\ UNCHANGED <<nat, told, named>>
<1>1. c \in busy /\ ~hung /\ Whole(c)
  BY DEF KeepAlive, Round
<1>2. /\ Cut(c) \in Conversation(c) /\ Cut(c).own = conn[c].own
      /\ Cut(c).buffer = SubSeq(conn[c].buffer, 4, Len(conn[c].buffer))
  BY <1>1, HeadIsPacket
<1>3. (Finish(c) \/ Raise(c)) /\ Lost(c) /\ answer' = {} /\ UNCHANGED <<listed, wire, changes, sent>>
  BY DEF KeepAlive
<1> QED  BY <1>1, <1>2, <1>3 DEF Handles, Lost

(***************************************************************************)
(* A record found for an address is listed at that address, and one of the *)
(* port that was asked for is at an address that can be told.              *)
(***************************************************************************)
LEMMA FoundIsNamed ==
    ASSUME Typed, NEW a, IsAddress(a), NEW console, NEW s \in FindInCache(a, console)
    PROVE  s \in listed /\ s \in Server /\ Named(a, s) /\ a \in Address
<1>1. s \in listed /\ s.ip = a.ip /\ a.port \in {0, s.port}
  BY DEF FindInCache, Matches
<1>2. s \in Server
  BY <1>1 DEF Typed
<1>3. a = [ip |-> s.ip, port |-> a.port] /\ a.port \in {0} \union {x.port : x \in Server}
  BY <1>1, <1>2 DEF IsAddress
<1> QED  BY <1>1, <1>2, <1>3 DEF Named, Address

LEMMA SetToSeqOfOwn ==
    ASSUME NEW own \in Own
    PROVE  SetToSeq(own) \in Seq(Server) /\ \A s \in ToSet(SetToSeq(own)) : s \in own
<1>1. IsFiniteSet(own) /\ Cardinality(own) \in Nat /\ own \subseteq Server
  <2>1. CASE own = {}
    BY <2>1, FS_EmptySet
  <2>2. ASSUME NEW s \in Server, own = {s}
        PROVE  IsFiniteSet(own) /\ Cardinality(own) \in Nat
    BY <2>2, FS_Singleton
  <2> QED  BY <2>1, <2>2, FS_CardinalityType DEF Own
<1>2. \E f \in [1 .. Cardinality(own) -> own] : IsInjective(f)
  <2>1. PICK f : f \in Bijection(1 .. Cardinality(own), own)
    BY <1>1, FS_CardinalityType DEF ExistsBijection
  <2> QED  BY <2>1 DEF Bijection, Injection
<1>3. SetToSeq(own) \in [1 .. Cardinality(own) -> own]
  BY <1>2 DEF SetToSeq
<1>4. SetToSeq(own) \in Seq(own)
  BY <1>1, <1>3, SeqDef
<1> QED  BY <1>1, <1>4 DEF ToSet

(***************************************************************************)
(* What a step may do to the parties: tell and name more addresses, and    *)
(* keep or leave records of servers at addresses that were told or named.  *)
(***************************************************************************)
Introduces ==
    /\ told' \in [Conn -> SUBSET Address] /\ named' \in [Cookie -> SUBSET Address]
    /\ nat' \in [Cookie -> Seq(Server)]
    /\ \A c \in Conn : told[c] \subseteq told'[c]
    /\ \A k \in Cookie : named[k] \subseteq named'[k]
    /\ \A c \in Conn : \A s \in conn'[c].own : s \in conn[c].own \/ \E a \in told'[c] : Named(a, s)
    /\ \A k \in Cookie : \A s \in ToSet(nat'[k]) :
          s \in ToSet(nat[k]) \/ \E a \in named'[k] : Named(a, s)

LEMMA QuietStepIntroduces ==
    ASSUME Typed, UNCHANGED <<nat, told, named>>,
           \A c \in Conn : conn'[c].own = conn[c].own
    PROVE  Introduces
BY DEF Typed, Introduces

LEMMA HelloIntroduces ==
    ASSUME Typed, NEW c \in Conn, Whole(c), NEW m \in Packet[c], m.cmd = "message", Hello(c, m)
    PROVE  /\ \E st \in Conversation(c) : conn' = [conn EXCEPT ![c] = st] /\ st.buffer = Cut(c).buffer
           /\ Introduces
<1> DEFINE a == m.body.own
           mine == FindInCache(a, conn[c].console)
<1>1. Cut(c) \in Conversation(c) /\ Cut(c).own = conn[c].own
  BY HeadIsPacket
<1>2. IsAddress(a)
  BY PacketAssumption DEF Hello
<1>3. \A s \in mine : s \in Server /\ Named(a, s) /\ a \in Address
  BY <1>2, FoundIsNamed
<1>4. UNCHANGED <<nat, named>>
  BY DEF Hello
<1>5. DOMAIN conn = Conn /\ told \in [Conn -> SUBSET Address]
  BY DEF Typed
<1>6. CASE conn' = [conn EXCEPT ![c] = Cut(c)] /\ UNCHANGED told
  <2>1. \A d \in Conn : conn'[d].own = conn[d].own
    BY <1>1, <1>5, <1>6
  <2> QED  BY <1>1, <1>4, <1>6, <2>1, QuietStepIntroduces
<1>7. ASSUME NEW s \in mine, conn' = [conn EXCEPT ![c] = [Cut(c) EXCEPT !.own = {s}]],
             told' = [told EXCEPT ![c] = @ \union {a}]
      PROVE  /\ \E st \in Conversation(c) : conn' = [conn EXCEPT ![c] = st] /\ st.buffer = Cut(c).buffer
             /\ Introduces
  <2> DEFINE st == [Cut(c) EXCEPT !.own = {s}]
  <2>1. s \in Server /\ Named(a, s) /\ a \in Address
    BY <1>3
  <2>2. st \in Conversation(c) /\ st.buffer = Cut(c).buffer /\ st.own = {s}
    BY <1>1, <2>1 DEF Conversation, Own
  <2> HIDE DEF st
  <2>3. conn' = [conn EXCEPT ![c] = st]
    BY <1>7 DEF st
  <2>4. /\ told' \in [Conn -> SUBSET Address] /\ a \in told'[c]
        /\ \A d \in Conn : told[d] \subseteq told'[d]
    BY <1>5, <1>7, <2>1
  <2>5. \A d \in Conn : \A x \in conn'[d].own : x \in conn[d].own \/ \E b \in told'[d] : Named(b, x)
    BY <1>5, <2>1, <2>2, <2>3, <2>4
  <2>6. Introduces
    BY <1>4, <2>4, <2>5 DEF Introduces, Typed
  <2> QED  BY <2>2, <2>3, <2>6
<1> QED
  <2>1. \/ conn' = [conn EXCEPT ![c] = Cut(c)] /\ UNCHANGED told
        \/ /\ \E s \in mine : conn' = [conn EXCEPT ![c] = [Cut(c) EXCEPT !.own = {s}]]
           /\ told' = [told EXCEPT ![c] = @ \union {a}]
    BY DEF Hello
  <2> QED  BY <1>6, <1>7, <2>1

LEMMA NatnegIntroduces ==
    ASSUME Typed, OwnOK, NEW c \in Conn, Whole(c), NEW m \in Packet[c], m.cmd = "message",
           NEW s \in Destination(c, m.to), Natneg(c, m, s)
    PROVE  conn' = [conn EXCEPT ![c] = Cut(c)] /\ Introduces
<1> DEFINE k == m.body.cookie
           own == SetToSeq(conn[c].own)
<1>1. conn' = [conn EXCEPT ![c] = Cut(c)] /\ UNCHANGED told
  BY DEF Natneg
<1>2. IsAddress(m.to) /\ k \in Cookie
  BY PacketAssumption DEF Natneg
<1>3. s \in Server /\ Named(m.to, s) /\ m.to \in Address
  BY <1>2, FoundIsNamed DEF Destination
<1>4. /\ conn[c].own \in Own
      /\ nat \in [Cookie -> Seq(Server)] /\ named \in [Cookie -> SUBSET Address]
      /\ told \in [Conn -> SUBSET Address]
  BY DEF Typed, Conversation
<1>5. own \in Seq(Server) /\ \A x \in ToSet(own) : x \in conn[c].own
  BY <1>4, SetToSeqOfOwn
<1> HIDE DEF k, own
<1>6. /\ nat' = [nat EXCEPT ![k] = @ \o <<s>> \o own]
      /\ named' = [named EXCEPT ![k] = @ \union {m.to} \union told[c]]
  BY DEF Natneg, k, own
<1>7. \A d \in Conn : conn'[d].own = conn[d].own
  <2>1. Cut(c).own = conn[c].own /\ DOMAIN conn = Conn
    BY HeadIsPacket DEF Typed
  <2> QED  BY <1>1, <2>1
<1>8. /\ named' \in [Cookie -> SUBSET Address]
      /\ \A j \in Cookie : named[j] \subseteq named'[j]
      /\ m.to \in named'[k] /\ told[c] \subseteq named'[k]
  BY <1>2, <1>3, <1>4, <1>6
<1>9. nat[k] \o <<s>> \o own \in Seq(Server)
  BY <1>2, <1>3, <1>4, <1>5
<1>10. nat' \in [Cookie -> Seq(Server)]
  BY <1>2, <1>4, <1>6, <1>9
<1>11. ASSUME NEW j \in Cookie, NEW x \in ToSet(nat'[j])
       PROVE  x \in ToSet(nat[j]) \/ \E a \in named'[j] : Named(a, x)
  <2>1. CASE j # k
    BY <1>4, <1>6, <1>11, <2>1
  <2>2. CASE j = k
    <3> DEFINE long == nat[k] \o <<s>>
    <3>1. nat'[j] = long \o own /\ long \in Seq(Server) /\ nat[k] \in Seq(Server)
      BY <1>2, <1>3, <1>4, <1>6, <2>2
    <3>2. PICK i \in 1 .. Len(nat'[j]) : nat'[j][i] = x
      BY <1>11, <3>1, <1>9 DEF ToSet
    <3>3. Len(long) = Len(nat[k]) + 1
      BY <3>1
    <3>4. CASE i \in 1 .. Len(nat[k])
      BY <3>1, <3>2, <3>4, <2>2, <1>5 DEF ToSet
    <3>5. CASE i = Len(nat[k]) + 1
      <4>1. x = s
        BY <3>1, <3>2, <3>5, <1>5
      <4> QED  BY <4>1, <1>3, <1>8, <2>2
    <3>6. CASE i > Len(nat[k]) + 1
      <4>1. x \in ToSet(own)
        <5>1. Len(nat'[j]) = Len(long) + Len(own) /\ Len(own) \in Nat /\ Len(long) \in Nat
          BY <3>1, <1>5
        <5>2. i - Len(long) \in 1 .. Len(own) /\ x = own[i - Len(long)]
          <6>1. i - Len(long) \in 1 .. Len(own)
            <7> HIDE DEF long
            <7> QED  BY <3>2, <3>3, <3>6, <5>1
          <6> HIDE DEF long
          <6>2. (long \o own)[i] = own[i - Len(long)]
            BY <1>5, <3>1, <3>2, <5>1, <6>1, ConcatProperties
          <6> QED  BY <3>1, <3>2, <6>1, <6>2
        <5> QED  BY <5>2, <1>5 DEF ToSet
      <4>2. \E a \in told[c] : Named(a, x)
        BY <1>5, <4>1 DEF OwnOK
      <4> QED  BY <1>8, <2>2, <4>2
    <3> QED  BY <3>1, <3>2, <3>4, <3>5, <3>6
  <2> QED  BY <2>1, <2>2
<1>12. \A d \in Conn : told[d] \subseteq told'[d]
  BY <1>1
<1> QED  BY <1>1, <1>4, <1>7, <1>8, <1>10, <1>11, <1>12 DEF Introduces

(***************************************************************************)
(* A message is passed on to a server that is listed where the game said.  *)
(***************************************************************************)
LEMMA SendMessageHandles ==
    ASSUME Typed, OwnOK, NEW c \in Conn, SendMessage(c)
    PROVE  /\ \E st \in Conversation(c) : Handles(c, st)
           /\ Introduces /\ answer' = {}
           /\ \A d \in passed' : \E s \in d.listed :
                 /\ s.session = d.session /\ s.ip = d.to.ip
                 /\ d.asked.port = s.port /\ d.to.port \in {s.port, s.localport} \ {0}
<1> DEFINE m == Head(conn[c].buffer)[1]
<1>1. /\ c \in busy /\ ~hung /\ Whole(c) /\ m.cmd = "message"
      /\ answer' = {} /\ UNCHANGED <<listed, wire, changes, sent>>
  BY DEF SendMessage, Round
<1>2. /\ m \in Packet[c] /\ Cut(c) \in Conversation(c)
      /\ Cut(c).own = conn[c].own /\ DOMAIN conn = Conn
      /\ Cut(c).buffer = SubSeq(conn[c].buffer, 4, Len(conn[c].buffer))
  BY <1>1, HeadIsPacket DEF Typed
<1>3. IsAddress(m.to)
  BY <1>1, <1>2, PacketAssumption
<1> HIDE DEF m
<1>4. \/ Raise(c) /\ Lost(c)
      \/ Finish(c) /\ Lost(c)
      \/ \E s \in Destination(c, m.to) :
            Finish(c) /\ (Hello(c, m) \/ Natneg(c, m, s) \/ Other(c, m)) /\ PassOn(m, s)
  BY DEF SendMessage, m
<1>5. ASSUME conn' = [conn EXCEPT ![c] = Cut(c)], Finish(c) \/ Raise(c)
      PROVE  Handles(c, Cut(c)) /\ \A d \in Conn : conn'[d].own = conn[d].own
  BY <1>1, <1>2, <1>5 DEF Handles
<1>6. CASE (Raise(c) \/ Finish(c)) /\ Lost(c)
  <2>1. Handles(c, Cut(c)) /\ \A d \in Conn : conn'[d].own = conn[d].own
    BY <1>5, <1>6 DEF Lost
  <2>2. Introduces
    BY <1>6, <2>1, QuietStepIntroduces DEF Lost
  <2> QED  BY <1>1, <1>2, <1>6, <2>1, <2>2 DEF Lost
<1>7. ASSUME NEW s \in Destination(c, m.to), Finish(c),
             Hello(c, m) \/ Natneg(c, m, s) \/ Other(c, m), PassOn(m, s)
      PROVE  /\ \E st \in Conversation(c) : Handles(c, st)
             /\ Introduces
             /\ \A d \in passed' : \E x \in d.listed :
                   /\ x.session = d.session /\ x.ip = d.to.ip
                   /\ d.asked.port = x.port /\ d.to.port \in {x.port, x.localport} \ {0}
  <2>1. s \in listed /\ s \in Server /\ s.ip = m.to.ip /\ s.port = m.to.port
    BY <1>3, FoundIsNamed DEF Destination, Named
  <2>2. ASSUME NEW d \in passed'
        PROVE  /\ s \in d.listed /\ s.session = d.session /\ s.ip = d.to.ip
               /\ d.asked.port = s.port /\ d.to.port \in {s.port, s.localport} \ {0}
    <3>1. d = [to |-> IF m.to.port = 0 THEN [m.to EXCEPT !.port = s.localport] ELSE m.to,
               asked |-> m.to, session |-> s.session, body |-> m.body, listed |-> listed]
      BY <1>7, <2>2 DEF PassOn
    <3>2. s.localport # 0
      BY <2>1, ServerAssumption
    <3>3. m.to = [ip |-> s.ip, port |-> s.port]
      BY <1>3, <2>1 DEF IsAddress
    <3> QED  BY <2>1, <3>1, <3>2, <3>3
  <2>3. CASE Hello(c, m)
    <3>1. /\ \E st \in Conversation(c) : conn' = [conn EXCEPT ![c] = st] /\ st.buffer = Cut(c).buffer
          /\ Introduces
      BY <1>1, <1>2, <2>3, HelloIntroduces
    <3> QED  BY <1>1, <1>2, <1>7, <2>2, <3>1 DEF Handles
  <2>4. CASE Natneg(c, m, s)
    <3>1. conn' = [conn EXCEPT ![c] = Cut(c)] /\ Introduces
      BY <1>1, <1>2, <2>4, NatnegIntroduces
    <3> QED  BY <1>2, <1>5, <1>7, <2>2, <3>1
  <2>5. CASE Other(c, m)
    <3>1. conn' = [conn EXCEPT ![c] = Cut(c)] /\ UNCHANGED <<nat, told, named>>
      BY <2>5 DEF Other
    <3>2. Introduces
      BY <1>5, <1>7, <3>1, QuietStepIntroduces
    <3> QED  BY <1>2, <1>5, <1>7, <2>2, <3>1, <3>2
  <2> QED  BY <1>7, <2>3, <2>4, <2>5
<1> QED  BY <1>1, <1>4, <1>6, <1>7

----------------------------------------------------------------------------
(* The steps of the rest of the world, and of the reactor's loop.          *)

LEMMA RoundKeepsTyped ==
    ASSUME Typed, UnitsOK, NEW c \in Conn, NEW st \in Conversation(c), Handles(c, st), Introduces
    PROVE  Typed' /\ UnitsOK'
<1>1. /\ c \in busy /\ Len(conn[c].buffer) >= 3
      /\ conn' = [conn EXCEPT ![c] = st] /\ UNCHANGED <<listed, wire, changes, sent>>
  BY DEF Handles, Whole
<1>2. \A d \in Conn :
         /\ conn[d].buffer \in Seq(Unit(d)) /\ wire[d] \in Seq(Unit(d))
         /\ sent[d] \in Nat /\ done[d] \in Nat
  BY DEF Typed, Conversation
<1>3. Len(st.buffer) = Len(conn[c].buffer) - 3
  <2>1. Whole(c) /\ st.buffer = Cut(c).buffer
    BY DEF Handles, Cut
  <2> QED  BY <2>1, HeadIsPacket
<1>4. \A d \in Conn : conn'[d] = IF d = c THEN st ELSE conn[d]
  BY <1>1 DEF Typed
<1>5. DOMAIN conn' = Conn /\ \A d \in Conn : conn'[d] \in Conversation(d)
  BY <1>1, <1>4 DEF Typed
<1>6. /\ \/ UNCHANGED <<busy, hung, raised>> /\ done' = [done EXCEPT ![c] = @ + 1]
         \/ busy' = {} /\ raised' = raised \union {c} /\ UNCHANGED <<hung, done>>
         \/ hung' = TRUE /\ UNCHANGED <<busy, done, raised>>
  BY DEF Handles, Finish, Raise, Hang
<1>7. done' \in [Conn -> Nat]
  BY <1>6 DEF Typed
<1>8. Typed'
  BY <1>1, <1>5, <1>6, <1>7 DEF Typed, Introduces, Unit, Conversation
<1>9. ASSUME NEW d \in Conn
      PROVE  /\ 3 * done'[d] + Len(conn'[d].buffer) + Len(wire'[d]) <= 3 * sent'[d]
             /\ d \notin raised' /\ ~hung' =>
                   3 * sent'[d] = 3 * done'[d] + Len(conn'[d].buffer) + Len(wire'[d])
             /\ d \notin raised' /\ ~hung' /\ d \notin busy' => Len(conn'[d].buffer) < 3
  <2>1. /\ Len(conn[d].buffer) \in Nat /\ Len(wire[d]) \in Nat
        /\ sent[d] \in Nat /\ done[d] \in Nat /\ Len(conn[c].buffer) \in Nat
        /\ wire'[d] = wire[d] /\ sent'[d] = sent[d]
        /\ Len(wire'[d]) \in Nat /\ sent'[d] \in Nat /\ done'[d] \in Nat
    BY <1>1, <1>2, <1>7, LenProperties
  <2>2. /\ 3 * done[d] + Len(conn[d].buffer) + Len(wire[d]) <= 3 * sent[d]
        /\ d \notin raised /\ ~hung =>
              3 * sent[d] = 3 * done[d] + Len(conn[d].buffer) + Len(wire[d])
        /\ d \notin raised /\ ~hung /\ d \notin busy => Len(conn[d].buffer) < 3
    BY DEF UnitsOK
  <2>3. done'[d] = done[d] \/ (d = c /\ done'[d] = done[d] + 1)
    BY <1>6 DEF Typed
  <2>4. \A x \in busy : x = c
    BY <1>1 DEF Typed
  <2>7. Len(wire'[d]) = Len(wire[d])
    BY <2>1
  <2>5. CASE d = c
    <3>1. Len(conn'[d].buffer) = Len(conn[d].buffer) - 3 /\ Len(conn'[d].buffer) \in Nat
      BY <1>1, <1>3, <1>4, <2>1, <2>5
    <3>2. done'[d] \in {done[d], done[d] + 1}
      BY <2>3
    <3>3. /\ 3 * done'[d] + Len(conn'[d].buffer) + Len(wire'[d]) <= 3 * sent'[d]
          /\ done'[d] = done[d] + 1 /\ 3 * sent[d] = 3 * done[d] + Len(conn[d].buffer) + Len(wire[d])
             => 3 * sent'[d] = 3 * done'[d] + Len(conn'[d].buffer) + Len(wire'[d])
      <4> DEFINE b == Len(conn[d].buffer)
                 b1 == Len(conn'[d].buffer)
                 w == Len(wire[d])
                 x == done[d]
                 x1 == done'[d]
                 n == sent[d]
      <4>1. /\ b \in Nat /\ b1 \in Nat /\ w \in Nat /\ x \in Nat /\ x1 \in Nat /\ n \in Nat
            /\ b1 = b - 3 /\ 3 * x + b + w <= 3 * n /\ x1 \in {x, x + 1}
        BY <2>1, <2>2, <3>1, <3>2
      <4>2. Len(wire'[d]) = w /\ sent'[d] = n
        BY <2>1
      <4> HIDE DEF b, b1, w, x, x1, n
      <4>3. /\ 3 * x1 + b1 + w <= 3 * n
            /\ x1 = x + 1 /\ 3 * n = 3 * x + b + w => 3 * n = 3 * x1 + b1 + w
        BY <4>1
      <4> QED  BY <4>2, <4>3 DEF b, b1, x, x1, w, n
    <3>4. CASE done'[d] = done[d] + 1 /\ UNCHANGED <<busy, hung, raised>>
      <4>1. d \in busy' /\ (d \in raised' <=> d \in raised) /\ (hung' <=> hung)
        BY <1>1, <2>5, <3>4
      <4> QED  BY <2>2, <3>3, <3>4, <4>1
    <3>5. CASE d \in raised' \/ hung'
      BY <3>3, <3>5
    <3>6. d \in raised' \/ hung' \/ (done'[d] = done[d] + 1 /\ UNCHANGED <<busy, hung, raised>>)
      BY <1>6, <2>5 DEF Typed
    <3> QED  BY <3>4, <3>5, <3>6
  <2>6. CASE d # c
    <3>1. conn'[d] = conn[d] /\ done'[d] = done[d]
      BY <1>4, <2>3, <2>6
    <3>2. d \notin busy /\ (d \notin raised' => d \notin raised) /\ (~hung' => ~hung)
      BY <1>6, <2>4, <2>6
    <3> QED  BY <2>1, <2>2, <3>1, <3>2
  <2> QED  BY <2>5, <2>6
<1>10. UnitsOK'
  BY <1>9 DEF UnitsOK
<1> QED  BY <1>8, <1>10

LEMMA SendKeepsTyped ==
    ASSUME Typed, UnitsOK, NEW c \in Conn, NEW p \in Packet[c], Send(c, p)
    PROVE  Typed' /\ UnitsOK' /\ Introduces
<1>1. Units(p) \in Seq(Unit(c)) /\ Len(Units(p)) = 3
  BY UnitsType
<1>2. /\ wire' = [wire EXCEPT ![c] = @ \o Units(p)]
      /\ sent' = [sent EXCEPT ![c] = @ + 1] /\ sent[c] < MaxPackets[c]
      /\ UNCHANGED <<listed, nat, conn, busy, hung, changes, done, raised, told, named>>
  BY DEF Send
<1>3. /\ DOMAIN wire = Conn /\ sent \in [Conn -> Nat] /\ done \in [Conn -> Nat]
      /\ MaxPackets \in [Conn -> Nat]
      /\ \A d \in Conn : wire[d] \in Seq(Unit(d)) /\ conn[d].buffer \in Seq(Unit(d))
  BY BoundAssumption DEF Typed, Conversation
<1>4. wire[c] \o Units(p) \in Seq(Unit(c)) /\ Len(wire[c] \o Units(p)) = Len(wire[c]) + 3
  <2> HIDE DEF Unit
  <2>1. wire[c] \in Seq(Unit(c))
    BY <1>3
  <2> QED  BY <1>1, <2>1, ConcatProperties
<1>5. \A d \in Conn :
         /\ wire'[d] = IF d = c THEN wire[c] \o Units(p) ELSE wire[d]
         /\ sent'[d] = IF d = c THEN sent[c] + 1 ELSE sent[d]
  BY <1>2, <1>3
<1>6. /\ DOMAIN wire' = Conn /\ sent' \in [Conn -> Nat]
      /\ \A d \in Conn : wire'[d] \in Seq(Unit(d)) /\ sent'[d] <= MaxPackets[d]
  BY <1>2, <1>3, <1>4, <1>5 DEF Typed
<1>7. Typed'
  BY <1>2, <1>6 DEF Typed, Unit, Conversation
<1>8. ASSUME NEW d \in Conn
      PROVE  /\ 3 * done'[d] + Len(conn'[d].buffer) + Len(wire'[d]) <= 3 * sent'[d]
             /\ d \notin raised' /\ ~hung' =>
                   3 * sent'[d] = 3 * done'[d] + Len(conn'[d].buffer) + Len(wire'[d])
             /\ d \notin raised' /\ ~hung' /\ d \notin busy' => Len(conn'[d].buffer) < 3
  <2> DEFINE b == Len(conn[d].buffer)
             w == Len(wire[d])
             w1 == Len(wire'[d])
             x == done[d]
             n == sent[d]
             n1 == sent'[d]
  <2>1. b \in Nat /\ w \in Nat /\ x \in Nat /\ n \in Nat
    BY <1>3, LenProperties
  <2>2. w1 \in Nat /\ n1 \in Nat /\ \/ w1 = w /\ n1 = n
                                    \/ w1 = w + 3 /\ n1 = n + 1
    BY <1>3, <1>4, <1>5, <1>6, LenProperties
  <2>3. Len(conn'[d].buffer) = b /\ done'[d] = x
    BY <1>2
  <2>4. /\ 3 * x + b + w <= 3 * n
        /\ d \notin raised /\ ~hung => 3 * n = 3 * x + b + w
        /\ d \notin raised /\ ~hung /\ d \notin busy => b < 3
    BY DEF UnitsOK
  <2>5. (d \in raised' <=> d \in raised) /\ (hung' <=> hung) /\ (d \in busy' <=> d \in busy)
    BY <1>2
  <2> HIDE DEF b, w, w1, x, n, n1
  <2>6. /\ 3 * x + b + w1 <= 3 * n1
        /\ 3 * n = 3 * x + b + w => 3 * n1 = 3 * x + b + w1
    BY <2>1, <2>2, <2>4
  <2> QED  BY <2>3, <2>4, <2>5, <2>6 DEF b, w, w1, x, n, n1
<1>9. Introduces
  BY <1>2, QuietStepIntroduces
<1>10. UnitsOK'
  BY <1>8 DEF UnitsOK
<1> QED  BY <1>7, <1>9, <1>10

LEMMA ReceiveKeepsTyped ==
    ASSUME Typed, UnitsOK, NEW c \in Conn, NEW n \in 1 .. Len(wire[c]), Receive(c, n)
    PROVE  Typed' /\ UnitsOK' /\ Introduces
<1> DEFINE first == SubSeq(wire[c], 1, n)
           rest == SubSeq(wire[c], n + 1, Len(wire[c]))
           buffer == conn[c].buffer \o first
<1>1. /\ busy = {} /\ busy' = {c}
      /\ conn' = [conn EXCEPT ![c].buffer = buffer] /\ wire' = [wire EXCEPT ![c] = rest]
      /\ UNCHANGED <<listed, nat, hung, changes, sent, done, raised, told, named>>
  BY DEF Receive
<1>2. /\ DOMAIN wire = Conn /\ DOMAIN conn = Conn
      /\ sent \in [Conn -> Nat] /\ done \in [Conn -> Nat]
      /\ \A d \in Conn : /\ wire[d] \in Seq(Unit(d)) /\ conn[d] \in Conversation(d)
                         /\ conn[d].buffer \in Seq(Unit(d))
  BY DEF Typed, Conversation
<1>3. first \in Seq(Unit(c)) /\ Len(first) = n
  BY <1>2, SubSeqProperties
<1>4. rest \in Seq(Unit(c)) /\ Len(rest) = Len(wire[c]) - n
  <2>1. \A i \in n + 1 .. Len(wire[c]) : wire[c][i] \in Unit(c)
    BY <1>2
  <2> QED  BY <1>2, <2>1, SubSeqProperties
<1> HIDE DEF first, rest
<1>5. buffer \in Seq(Unit(c)) /\ Len(buffer) = Len(conn[c].buffer) + n
  <2>1. conn[c].buffer \in Seq(Unit(c))
    BY <1>2
  <2> QED  BY <1>3, <2>1, ConcatProperties
<1> HIDE DEF buffer
<1>6. \A d \in Conn :
         /\ wire'[d] = IF d = c THEN rest ELSE wire[d]
         /\ conn'[d] = IF d = c THEN [conn[c] EXCEPT !.buffer = buffer] ELSE conn[d]
  BY <1>1, <1>2
<1>7. /\ [conn[c] EXCEPT !.buffer = buffer] \in Conversation(c)
      /\ [conn[c] EXCEPT !.buffer = buffer].own = conn[c].own
      /\ [conn[c] EXCEPT !.buffer = buffer].buffer = buffer
  BY <1>2, <1>5 DEF Conversation
<1>8. /\ DOMAIN wire' = Conn /\ DOMAIN conn' = Conn
      /\ \A d \in Conn : wire'[d] \in Seq(Unit(d)) /\ conn'[d] \in Conversation(d)
      /\ \A d \in Conn : conn'[d].own = conn[d].own
  BY <1>1, <1>2, <1>4, <1>6, <1>7
<1>9. Typed'
  BY <1>1, <1>8 DEF Typed, Unit, Conversation
<1>10. Introduces
  BY <1>1, <1>8, QuietStepIntroduces
<1>11. ASSUME NEW d \in Conn
       PROVE  /\ 3 * done'[d] + Len(conn'[d].buffer) + Len(wire'[d]) <= 3 * sent'[d]
              /\ d \notin raised' /\ ~hung' =>
                    3 * sent'[d] = 3 * done'[d] + Len(conn'[d].buffer) + Len(wire'[d])
              /\ d \notin raised' /\ ~hung' /\ d \notin busy' => Len(conn'[d].buffer) < 3
  <2> DEFINE b == Len(conn[d].buffer)
             b1 == Len(conn'[d].buffer)
             w == Len(wire[d])
             w1 == Len(wire'[d])
             x == done[d]
             m == sent[d]
  <2>1. b \in Nat /\ w \in Nat /\ x \in Nat /\ m \in Nat /\ n \in Nat
    BY <1>2, LenProperties
  <2>2. w1 \in Int /\ b1 \in Int /\ \/ d # c /\ w1 = w /\ b1 = b
                                    \/ d = c /\ w1 = w - n /\ b1 = b + n
    <3>1. CASE d # c
      <4>1. w1 = w /\ b1 = b
        BY <1>6, <3>1
      <4> QED  BY <2>1, <3>1, <4>1
    <3>2. CASE d = c
      <4>1. w1 = w - n /\ b1 = b + n
        BY <1>4, <1>5, <1>6, <1>7, <3>2
      <4> HIDE DEF b, b1, w, w1
      <4> QED  BY <2>1, <3>2, <4>1
    <3> QED  BY <3>1, <3>2
  <2>3. sent'[d] = m /\ done'[d] = x
    BY <1>1
  <2>4. /\ 3 * x + b + w <= 3 * m
        /\ d \notin raised /\ ~hung => 3 * m = 3 * x + b + w
        /\ d \notin raised /\ ~hung /\ d \notin busy => b < 3
    BY DEF UnitsOK
  <2>5. /\ (d \in raised' <=> d \in raised) /\ (hung' <=> hung)
        /\ d \notin busy /\ (d = c => d \in busy')
    BY <1>1
  <2> HIDE DEF b, b1, w, w1, x, m
  <2>6. b1 + w1 = b + w /\ 3 * x + b + w = 3 * x + b1 + w1
    BY <2>1, <2>2
  <2>7. d \notin raised' /\ ~hung' /\ d \notin busy' => b1 < 3
    BY <2>1, <2>2, <2>4, <2>5
  <2> QED  BY <2>3, <2>4, <2>5, <2>6, <2>7 DEF b, b1, w, w1, x, m
<1>12. UnitsOK'
  BY <1>11 DEF UnitsOK
<1> QED  BY <1>9, <1>10, <1>12

LEMMA WorldKeepsTyped ==
    ASSUME Typed, UnitsOK,
           \/ \E c \in Conn : LeaveLoop(c)
           \/ \E s \in Server : Relist(s)
           \/ \E k \in Cookie : ForgetCookie(k)
    PROVE  Typed' /\ UnitsOK' /\ Introduces
<1>1. CASE \E c \in Conn : LeaveLoop(c)
  <2>1. PICK c \in Conn : LeaveLoop(c)
    BY <1>1
  <2>2. /\ c \in busy /\ Len(conn[c].buffer) < 3 /\ busy' = {}
        /\ UNCHANGED <<listed, nat, wire, conn, hung, changes, sent, done, raised, told, named>>
    <3>1. conn[c].buffer \in Seq(Unit(c))
      BY DEF Typed, Conversation
    <3> QED  BY <2>1, <3>1 DEF LeaveLoop, Whole
  <2>3. Typed'
    BY <2>2 DEF Typed, Unit, Conversation
  <2>4. \A d \in Conn : d \notin busy \/ d = c
    BY <2>2 DEF Typed
  <2>5. UnitsOK'
    BY <2>2, <2>4 DEF UnitsOK
  <2> QED  BY <2>2, <2>3, <2>5, QuietStepIntroduces
<1>2. CASE \E s \in Server : Relist(s)
  <2>1. PICK s \in Server : Relist(s)
    BY <1>2
  <2>2. /\ listed' \subseteq Server /\ changes' \in 0 .. MaxChanges
        /\ UNCHANGED <<nat, wire, conn, busy, hung, sent, done, raised, told, named>>
    <3>1. /\ listed' \in {listed \union {s}, listed \ {s}}
          /\ changes < MaxChanges /\ changes' = changes + 1
      BY <2>1 DEF Relist
    <3>2. listed \subseteq Server /\ changes \in Nat /\ MaxChanges \in Nat
      BY BoundAssumption DEF Typed
    <3> QED  BY <2>1, <3>1, <3>2 DEF Relist
  <2>3. Typed' /\ UnitsOK'
    BY <2>2 DEF Typed, UnitsOK, Unit, Conversation
  <2> QED  BY <2>2, <2>3, QuietStepIntroduces
<1>3. CASE \E k \in Cookie : ForgetCookie(k)
  <2>1. PICK k \in Cookie : ForgetCookie(k)
    BY <1>3
  <2>2. /\ nat' = [nat EXCEPT ![k] = <<>>]
        /\ UNCHANGED <<listed, wire, conn, busy, hung, changes, sent, done, raised, told, named>>
    BY <2>1 DEF ForgetCookie
  <2>3. /\ nat' \in [Cookie -> Seq(Server)]
        /\ \A j \in Cookie : nat'[j] = IF j = k THEN <<>> ELSE nat[j]
    <3>1. nat \in [Cookie -> Seq(Server)] /\ <<>> \in Seq(Server)
      BY DEF Typed
    <3> QED  BY <2>2, <3>1
  <2>4. Typed' /\ UnitsOK'
    BY <2>2, <2>3 DEF Typed, UnitsOK, Unit, Conversation
  <2>5. \A j \in Cookie : \A s \in ToSet(nat'[j]) : s \in ToSet(nat[j])
    BY <2>3 DEF ToSet
  <2> QED  BY <2>2, <2>3, <2>4, <2>5 DEF Introduces, Typed
<1> QED  BY <1>1, <1>2, <1>3

----------------------------------------------------------------------------
(***************************************************************************)
(* The inductive invariant.                                                *)
(***************************************************************************)
BrowserInv == Typed /\ UnitsOK /\ OwnOK /\ PartiesAreNamed

LEMMA BrowserInit == Init => BrowserInv
<1> SUFFICES ASSUME Init
             PROVE  BrowserInv
  OBVIOUS
<1>1. Typed
  <2>1. \A c \in Conn : conn[c] \in Conversation(c)
    BY DEF Init, Conversation, Own
  <2>2. \A c \in Conn : wire[c] \in Seq(Unit(c)) /\ conn[c].buffer = <<>>
    BY DEF Init
  <2>3. listed \subseteq Server /\ changes \in 0 .. MaxChanges /\ \A c \in Conn : MaxPackets[c] \in Nat
    BY BoundAssumption DEF Init
  <2>4. nat \in [Cookie -> Seq(Server)] /\ named \in [Cookie -> SUBSET Address]
    BY DEF Init
  <2>5. told \in [Conn -> SUBSET Address] /\ sent \in [Conn -> Nat] /\ done \in [Conn -> Nat]
    BY DEF Init
  <2>6. \A c \in Conn : sent[c] <= MaxPackets[c]
    BY <2>3 DEF Init
  <2> QED  BY <2>1, <2>2, <2>3, <2>4, <2>5, <2>6 DEF Init, Typed
<1>2. UnitsOK /\ OwnOK
  BY DEF Init, UnitsOK, OwnOK
<1>3. PartiesAreNamed
  BY DEF Init, PartiesAreNamed, ToSet
<1> QED  BY <1>1, <1>2, <1>3 DEF BrowserInv

(***************************************************************************)
(* Addresses are only added, so records stay those of addresses that were  *)
(* told or named.                                                          *)
(***************************************************************************)
LEMMA IntroducesKeepsNamed ==
    ASSUME OwnOK, PartiesAreNamed, Introduces, Typed',
           \A d \in passed' : \E s \in d.listed :
              /\ s.session = d.session /\ s.ip = d.to.ip
              /\ d.asked.port = s.port /\ d.to.port \in {s.port, s.localport} \ {0}
    PROVE  OwnOK' /\ PartiesAreNamed'
<1>1. OwnOK'
  <2> SUFFICES ASSUME NEW c \in Conn, NEW s \in conn'[c].own
               PROVE  \E a \in told'[c] : Named(a, s)
    BY DEF OwnOK, Named
  <2> QED  BY DEF OwnOK, Introduces
<1>2. \A k \in Cookie : \A s \in ToSet(nat'[k]) : \E a \in named'[k] : Named(a, s)
  BY DEF PartiesAreNamed, Introduces
<1> QED  BY <1>1, <1>2 DEF PartiesAreNamed, Named

LEMMA BrowserStep == BrowserInv /\ [Next]_vars => BrowserInv'
<1> SUFFICES ASSUME BrowserInv, [Next]_vars
             PROVE  BrowserInv'
  OBVIOUS
<1> USE DEF BrowserInv
<1>1. ASSUME Typed', UnitsOK', Introduces,
             \A d \in passed' : \E s \in d.listed :
                /\ s.session = d.session /\ s.ip = d.to.ip
                /\ d.asked.port = s.port /\ d.to.port \in {s.port, s.localport} \ {0}
      PROVE  BrowserInv'
  BY <1>1, IntroducesKeepsNamed
<1>2. ASSUME NEW c \in Conn, NEW p \in Packet[c], Send(c, p)
      PROVE  BrowserInv'
  <2>1. passed' = {}
    BY <1>2 DEF Send
  <2> QED  BY <1>1, <1>2, <2>1, SendKeepsTyped
<1>3. ASSUME NEW c \in Conn, NEW n \in 1 .. Len(wire[c]), Receive(c, n)
      PROVE  BrowserInv'
  <2>1. passed' = {}
    BY <1>3 DEF Receive
  <2> QED  BY <1>1, <1>3, <2>1, ReceiveKeepsTyped
<1>4. CASE \/ \E c \in Conn : LeaveLoop(c)
           \/ \E s \in Server : Relist(s)
           \/ \E k \in Cookie : ForgetCookie(k)
  <2>1. passed' = {}
    BY <1>4 DEF LeaveLoop, Relist, ForgetCookie
  <2> QED  BY <1>1, <1>4, <2>1, WorldKeepsTyped
<1>5. ASSUME NEW c \in Conn, NEW st \in Conversation(c), Handles(c, st), st.own = conn[c].own,
             UNCHANGED <<nat, told, named>>
      PROVE  Introduces
  <2>1. \A d \in Conn : conn'[d].own = conn[d].own
    BY <1>5 DEF Handles, Typed
  <2> QED  BY <1>5, <2>1, QuietStepIntroduces
<1>6. ASSUME NEW c \in Conn, ListRequest(c)
      PROVE  BrowserInv'
  <2>1. passed' = {} /\ UNCHANGED <<nat, told, named>>
    BY <1>6, ListRequestHandles
  <2>2. PICK st \in Conversation(c) : Handles(c, st) /\ st.own = conn[c].own
    BY <1>6, ListRequestHandles
  <2>3. Introduces
    BY <1>5, <2>1, <2>2
  <2> QED  BY <1>1, <2>1, <2>2, <2>3, RoundKeepsTyped
<1>7. ASSUME NEW c \in Conn, SendMessage(c)
      PROVE  BrowserInv'
  <2>1. /\ \E st \in Conversation(c) : Handles(c, st)
        /\ Introduces
        /\ \A d \in passed' : \E s \in d.listed :
              /\ s.session = d.session /\ s.ip = d.to.ip
              /\ d.asked.port = s.port /\ d.to.port \in {s.port, s.localport} \ {0}
    BY <1>7, SendMessageHandles
  <2> QED  BY <1>1, <2>1, RoundKeepsTyped
<1>8. ASSUME NEW c \in Conn, KeepAlive(c)
      PROVE  BrowserInv'
  <2>1. /\ Cut(c) \in Conversation(c) /\ Handles(c, Cut(c)) /\ Cut(c).own = conn[c].own
        /\ passed' = {} /\ UNCHANGED <<nat, told, named>>
    BY <1>8, KeepAliveHandles
  <2>2. Introduces
    BY <1>5, <2>1
  <2> QED  BY <1>1, <2>1, <2>2, RoundKeepsTyped
<1>9. CASE UNCHANGED vars
  BY <1>9 DEF vars, history, Typed, UnitsOK, OwnOK, PartiesAreNamed, Unit, Conversation, Named
<1> QED  BY <1>2, <1>3, <1>4, <1>6, <1>7, <1>8, <1>9 DEF Next

(***************************************************************************)
(* Main theorem: a message goes to where its game said, and the records    *)
(* under a cookie are those of servers at addresses that games named for   *)
(* it, whatever connections, packets and servers there are (natneg_        *)
(* message and the lookups of gamespy_server_browser_server.py).           *)
(***************************************************************************)
THEOREM PartiesAreAlwaysNamed == Spec => []PartiesAreNamed
<1>1. BrowserInv => PartiesAreNamed
  BY DEF BrowserInv
<1> QED  BY BrowserInit, BrowserStep, <1>1, PTL DEF Spec

(***************************************************************************)
(* Main theorem: only an exception, or a filter that never ends, keeps a   *)
(* packet that has arrived from being handled (rawDataReceived).           *)
(***************************************************************************)
THEOREM OnlyErrorsEverDelay == Spec => []OnlyErrorsDelay
<1>1. BrowserInv => OnlyErrorsDelay
  BY DEF BrowserInv, UnitsOK, OnlyErrorsDelay
<1> QED  BY BrowserInit, BrowserStep, <1>1, PTL DEF Spec

----------------------------------------------------------------------------
(***************************************************************************)
(* Searches.                                                               *)
(***************************************************************************)
LEMMA InvImpliesTypeOK == BrowserInv => TypeOK
<1> SUFFICES ASSUME BrowserInv
             PROVE  TypeOK
  OBVIOUS
<1>1. Typed /\ UnitsOK
  BY DEF BrowserInv
<1>2. ASSUME NEW c \in Conn
      PROVE  /\ \A u \in ToSet(wire[c] \o conn[c].buffer) : u[1] \in Packet[c] /\ u[2] \in 1 .. 3
             /\ conn[c].console \in {0, 1}
             /\ conn[c].own \subseteq Server /\ Cardinality(conn[c].own) <= 1
             /\ sent[c] \in 0 .. MaxPackets[c] /\ done[c] \in 0 .. sent[c]
  <2>1. /\ wire[c] \in Seq(Unit(c)) /\ conn[c].buffer \in Seq(Unit(c))
        /\ conn[c].console \in {0, 1} /\ conn[c].own \in Own
        /\ sent[c] \in Nat /\ done[c] \in Nat /\ sent[c] <= MaxPackets[c]
        /\ MaxPackets[c] \in Nat
    BY <1>1, BoundAssumption DEF Typed, Conversation
  <2>2. wire[c] \o conn[c].buffer \in Seq(Unit(c))
    BY <2>1, ConcatProperties
  <2>3. \A u \in ToSet(wire[c] \o conn[c].buffer) : u \in Unit(c)
    <3> DEFINE all == wire[c] \o conn[c].buffer
    <3>1. all \in Seq(Unit(c))
      BY <2>2
    <3> HIDE DEF all
    <3>2. \A u \in ToSet(all) : u \in Unit(c)
      BY <3>1 DEF ToSet
    <3> QED  BY <3>2 DEF all
  <2>4. conn[c].own \subseteq Server /\ Cardinality(conn[c].own) <= 1
    <3>1. CASE conn[c].own = {}
      BY <3>1, FS_EmptySet
    <3>2. ASSUME NEW s \in Server, conn[c].own = {s}
          PROVE  conn[c].own \subseteq Server /\ Cardinality(conn[c].own) <= 1
      BY <3>2, FS_Singleton
    <3> QED  BY <2>1, <3>1, <3>2 DEF Own
  <2>5. done[c] <= sent[c]
    <3> DEFINE b == Len(conn[c].buffer)
               w == Len(wire[c])
               x == done[c]
               n == sent[c]
    <3>1. 3 * x + b + w <= 3 * n
      BY <1>1 DEF UnitsOK
    <3>2. b \in Nat /\ w \in Nat /\ x \in Nat /\ n \in Nat
      BY <2>1, LenProperties
    <3> HIDE DEF b, w, x, n
    <3>3. x <= n
      BY <3>1, <3>2
    <3> QED  BY <3>3 DEF x, n
  <2> QED  BY <2>1, <2>3, <2>4, <2>5 DEF Unit
<1> QED  BY <1>1, <1>2 DEF Typed, TypeOK

LEMMA InjectiveLength ==
    ASSUME NEW S, NEW s \in Seq(S), IsInjective(s)
    PROVE  IsFiniteSet(ToSet(s)) /\ Cardinality(ToSet(s)) = Len(s)
<1>1. Len(s) \in Nat /\ DOMAIN s = 1 .. Len(s) /\ s \in [1 .. Len(s) -> S]
  BY LenProperties
<1>2. s \in [1 .. Len(s) -> ToSet(s)]
  BY <1>1 DEF ToSet
<1>3. s \in Surjection(1 .. Len(s), ToSet(s))
  BY <1>1, <1>2 DEF Surjection, ToSet
<1>4. s \in Injection(1 .. Len(s), ToSet(s))
  BY <1>2 DEF Injection
<1>5. IsFiniteSet(1 .. Len(s)) /\ Cardinality(1 .. Len(s)) = Len(s)
  <2> DEFINE n == Len(s)
  <2>1. n \in Nat
    BY <1>1
  <2> HIDE DEF n
  <2>2. IsFiniteSet(1 .. n) /\ Cardinality(1 .. n) = n
    BY <2>1, FS_Interval
  <2> QED  BY <2>2 DEF n
<1> QED  BY <1>3, <1>4, <1>5, FS_Surjection

LEMMA SearchAnswers ==
    ASSUME Typed, NEW c \in Conn, NEW q \in Packet[c], q.cmd = "list",
           listed = {} \/ ~Hangs(q.filter), NEW r \in Results(q), ~r.raised
    PROVE  LET all == {s \in listed : Verdict(q.filter, s.data) = "yes"}
           IN  /\ ToSet(r.found) \subseteq all /\ IsInjective(r.found)
               /\ IF q.max = 0 THEN ToSet(r.found) = all
                  ELSE Len(r.found) = Min({q.max, Cardinality(all)})
<1> DEFINE all == {s \in listed : Verdict(q.filter, s.data) = "yes"}
<1>1. /\ r.found \in Seq(listed) /\ IsInjective(r.found)
      /\ \A s \in ToSet(r.found) : Verdict(q.filter, s.data) = "yes"
      /\ q.max # 0 => Len(r.found) <= q.max
      /\ \/ q.max # 0 /\ Len(r.found) = q.max
         \/ \A s \in listed :
               /\ Verdict(q.filter, s.data) # "raise"
               /\ Verdict(q.filter, s.data) = "yes" => s \in ToSet(r.found)
  BY ResultsAreListed
<1>3. ToSet(r.found) \subseteq all
  <2>1. \A s \in ToSet(r.found) : s \in listed
    BY <1>1 DEF ToSet
  <2> QED  BY <1>1, <2>1
<1>4. \/ q.max # 0 /\ Len(r.found) = q.max
      \/ ToSet(r.found) = all
  BY <1>1, <1>3
<1>5. IsFiniteSet(all) /\ Cardinality(all) \in Nat
  <2>1. all \subseteq Server
    BY DEF Typed
  <2> QED  BY <2>1, ServerAssumption, FS_Subset, FS_CardinalityType
<1>6. Cardinality(ToSet(r.found)) = Len(r.found) /\ Len(r.found) <= Cardinality(all)
  BY <1>1, <1>3, <1>5, InjectiveLength, FS_Subset
<1>7. q.max \in Nat /\ Len(r.found) \in Nat
  BY <1>1, PacketAssumption, LenProperties
<1> HIDE DEF all
<1>8. CASE q.max # 0
  <2>1. \/ Len(r.found) = q.max /\ q.max <= Cardinality(all)
        \/ Len(r.found) = Cardinality(all) /\ Cardinality(all) <= q.max
    <3>1. CASE Len(r.found) = q.max
      BY <1>6, <3>1
    <3>2. CASE ToSet(r.found) = all
      BY <1>1, <1>6, <1>8, <3>2
    <3> QED  BY <1>4, <3>1, <3>2
  <2> DEFINE two == {q.max, Cardinality(all)}
  <2>2. Len(r.found) \in two /\ \A n \in two : Len(r.found) <= n
    BY <1>5, <1>7, <2>1
  <2>3. \A n \in two : (\A k \in two : n <= k) => n = Len(r.found)
    BY <1>5, <1>7, <2>2
  <2>4. Min(two) = Len(r.found)
    <3> HIDE DEF two
    <3> QED  BY <2>2, <2>3 DEF Min
  <2> QED  BY <1>1, <1>3, <1>8, <2>4 DEF all
<1>9. CASE q.max = 0
  BY <1>1, <1>3, <1>4, <1>9 DEF all
<1> QED  BY <1>8, <1>9

(***************************************************************************)
(* A search that is answered names the servers of the list whose data make *)
(* the expression of its filter true, each once, and all of them but for   *)
(* the bound.  (Whether that expression is what the filter means depends   *)
(* on data, and is what AnswersMatchQuery asks and the runs check.)        *)
(***************************************************************************)
AnswersFollowVerdicts ==
    /\ TypeOK
    /\ \A a \in answer :
          LET all == {s \in a.listed : Verdict(a.query.filter, s.data) = "yes"}
          IN  /\ ToSet(a.found) \subseteq all /\ IsInjective(a.found)
              /\ IF a.query.max = 0 THEN ToSet(a.found) = all
                 ELSE Len(a.found) = Min({a.query.max, Cardinality(all)})

(***************************************************************************)
(* For all filters and servers, in whatever order Redis lists these, and   *)
(* however connections and changes of the list interleave: find_servers    *)
(* and the list request name neither a server twice nor one too few, and a *)
(* filter that cannot be evaluated for a server gets no answer, unless the *)
(* bound was reached before.                                               *)
(***************************************************************************)
THEOREM AnswersAlwaysFollowVerdicts == Spec => []AnswersFollowVerdicts
<1>1. Init => AnswersFollowVerdicts
  BY BrowserInit, InvImpliesTypeOK DEF Init, AnswersFollowVerdicts
<1>2. BrowserInv /\ AnswersFollowVerdicts /\ [Next]_vars => AnswersFollowVerdicts'
  <2> SUFFICES ASSUME BrowserInv, AnswersFollowVerdicts, [Next]_vars
               PROVE  AnswersFollowVerdicts'
    OBVIOUS
  <2>1. TypeOK'
    <3>1. BrowserInv'
      BY BrowserStep
    <3> QED  BY <3>1, InvImpliesTypeOK, PTL
  <2>2. CASE answer' = {}
    BY <2>1, <2>2 DEF AnswersFollowVerdicts
  <2>3. CASE UNCHANGED vars
    BY <2>1, <2>3 DEF vars, history, AnswersFollowVerdicts
  <2>4. ASSUME NEW c \in Conn, ListRequest(c)
        PROVE  AnswersFollowVerdicts'
    <3>1. Typed
      BY DEF BrowserInv
    <3>2. CASE answer' # {}
      <4>1. PICK q \in Packet[c] :
                /\ q.cmd = "list" /\ (listed = {} \/ ~Hangs(q.filter))
                /\ \E r \in Results(q) : ~r.raised /\ answer' = {Answered(c, q, r.found)}
        BY <2>4, <3>1, <3>2, ListRequestHandles
      <4>2. PICK r \in Results(q) : ~r.raised /\ answer' = {Answered(c, q, r.found)}
        BY <4>1
      <4>3. LET all == {s \in listed : Verdict(q.filter, s.data) = "yes"}
            IN  /\ ToSet(r.found) \subseteq all /\ IsInjective(r.found)
                /\ IF q.max = 0 THEN ToSet(r.found) = all
                   ELSE Len(r.found) = Min({q.max, Cardinality(all)})
        BY <3>1, <4>1, <4>2, SearchAnswers
      <4>4. \A a \in answer' : a.query = q /\ a.listed = listed /\ a.found = r.found
        BY <4>2 DEF Answered
      <4>5. \A a \in answer' :
                LET all == {s \in a.listed : Verdict(a.query.filter, s.data) = "yes"}
                IN  /\ ToSet(a.found) \subseteq all /\ IsInjective(a.found)
                    /\ IF a.query.max = 0 THEN ToSet(a.found) = all
                       ELSE Len(a.found) = Min({a.query.max, Cardinality(all)})
        BY <4>3, <4>4
      <4> QED  BY <2>1, <4>5 DEF AnswersFollowVerdicts
    <3> QED  BY <2>2, <3>2
  <2>5. ASSUME NEW c \in Conn, SendMessage(c) \/ KeepAlive(c) \/ LeaveLoop(c)
        PROVE  answer' = {}
    BY <2>5 DEF SendMessage, KeepAlive, LeaveLoop
  <2> QED  BY <2>2, <2>3, <2>4, <2>5 DEF Next, Send, Receive, Relist, ForgetCookie
<1> QED  BY <1>1, <1>2, BrowserInit, BrowserStep, PTL DEF Spec

(***************************************************************************)
(* In every filter, whatever else it holds: a name that is compared with a *)
(* literal to its right, by an operator or LIKE, gets the type of that     *)
(* literal if its value is a number, and is a text if it is a word.        *)
(***************************************************************************)
THEOREM NamesTakeTypes ==
    ASSUME NEW S, NEW filter \in Seq(S), NEW idx \in Nat, idx + 2 <= Len(filter),
           filter[idx + 1].type \in {"TOKEN", "FIELD"},
           filter[idx + 2].type \in {"STRING", "NUMBER"}, ~Paren(filter[idx + 1]),
           NEW t, t.type \in {"FIELD", "NUMBER"},
           t.type = "NUMBER" /\ filter[idx + 2].type = "NUMBER" => IsNumeral(t.text)
    PROVE  Substituted(filter, idx, t) =
               IF t.type = "FIELD" \/ filter[idx + 2].type = "STRING"
               THEN Token("STRING", t.text) ELSE t
<1> DEFINE Decides(j) ==
               \/ filter[j].type \in {"STRING", "NUMBER"}
               \/ filter[j].type = "TOKEN" /\ ~Paren(filter[j]) /\ j # idx + 1
           js == {j \in idx + 1 .. Len(filter) : Decides(j)}
<1>1. Len(filter) \in Nat
  BY LenProperties
<1>2. idx + 2 \in js /\ idx + 1 \notin js
  BY <1>1
<1>3. \A j \in js : idx + 2 <= j
  <2> SUFFICES ASSUME NEW j \in js PROVE idx + 2 <= j
    OBVIOUS
  <2>1. j \in idx + 1 .. Len(filter) /\ j # idx + 1
    BY <1>2
  <2> QED  BY <1>1, <2>1
<1>4. Deciding(filter, idx) = IF js = {} THEN 0 ELSE CHOOSE j \in js : \A i \in js : j <= i
  BY DEF Deciding
<1>5. \A j \in js : (\A i \in js : j <= i) => j = idx + 2
  <2> SUFFICES ASSUME NEW j \in js, \A i \in js : j <= i PROVE j = idx + 2
    OBVIOUS
  <2>1. j \in Nat /\ j <= idx + 2 /\ idx + 2 <= j
    BY <1>1, <1>2, <1>3
  <2> QED  BY <2>1
<1> HIDE DEF js
<1>6. Deciding(filter, idx) = idx + 2 /\ idx + 2 # 0
  BY <1>2, <1>3, <1>4, <1>5
<1> QED  BY <1>6 DEF Substituted

----------------------------------------------------------------------------
(***************************************************************************)
(* The parser of heartbeats.  One character more begins a string or goes   *)
(* into the last one.                                                      *)
(***************************************************************************)
Blank == ""

Begun(ss, x) == IF x = Nul THEN Append(ss, Blank) ELSE [ss EXCEPT ![Len(ss)] = x]

Splits(g, text) ==
    /\ g[0] = <<Blank>>
    /\ \A i \in 1 .. Len(text) : g[i] = Begun(g[i - 1], text[i])

LEMMA BegunType ==
    ASSUME NEW W, Blank \in W, NEW ss \in Seq(W), ss # <<>>, NEW x \in W
    PROVE  Begun(ss, x) \in Seq(W) /\ Begun(ss, x) # <<>>
<1>1. CASE x = Nul
  BY <1>1, AppendProperties DEF Begun
<1>2. CASE x # Nul
  <2>1. Len(ss) \in Nat /\ Len(ss) # 0 /\ DOMAIN ss = 1 .. Len(ss) /\ ss \in [1 .. Len(ss) -> W]
    BY LenProperties, EmptySeq
  <2>2. [ss EXCEPT ![Len(ss)] = x] \in [1 .. Len(ss) -> W]
    BY <2>1
  <2>3. [ss EXCEPT ![Len(ss)] = x] \in Seq(W)
    BY <2>1, <2>2, SeqDef
  <2>4. Len([ss EXCEPT ![Len(ss)] = x]) # 0
    BY <2>1, <2>2, <2>3, LenProperties
  <2> QED  BY <1>2, <2>3, <2>4, EmptySeq DEF Begun
<1> QED  BY <1>1, <1>2

LEMMA StringsSplit ==
    ASSUME NEW W, Blank \in W, NEW text \in Seq(W)
    PROVE  \E g \in [0 .. Len(text) -> Seq(W) \ {<<>>}] :
              Splits(g, text) /\ H!Strings(text) = g[Len(text)]
<1> DEFINE n == Len(text)
           S == Seq(W) \ {<<>>}
           start == <<Blank>>
           Loop(f) == [i \in 0 .. n |-> IF i = 0 THEN start ELSE Begun(f[i - 1], text[i])]
           after == CHOOSE f : f = Loop(f)
           step == [ir \in (1 .. n) \X S |-> Begun(ir[2], text[ir[1]])]
<1>1. n \in Nat /\ \A i \in 1 .. n : text[i] \in W
  BY LenProperties, ElementOfSeq
<1>2. start \in S
  OBVIOUS
<1>3. step \in [(1 .. n) \X S -> S]
  BY <1>1, BegunType
<1>4. PICK g : Iteration(g, n, S, start, step)
  <2> HIDE DEF n, S, start, step
  <2> QED  BY <1>1, <1>2, <1>3, Iterates
<1>5. g \in [0 .. n -> S] /\ g[0] = start
  BY <1>4 DEF Iteration
<1>6. \A i \in 1 .. n : g[i] = Begun(g[i - 1], text[i])
  <2> TAKE i \in 1 .. n
  <2>1. g[i - 1] \in S
    BY <1>1, <1>5
  <2> QED  BY <1>4, <2>1 DEF Iteration
<1>7. g = Loop(g)
  <2> HIDE DEF start, S
  <2> QED  BY <1>1, <1>5, <1>6
<1>8. after = Loop(after)
  <2> HIDE DEF Loop
  <2> QED  BY <1>7
<1>9. \A i \in 0 .. n : after[i] = g[i]
  <2> HIDE DEF after
  <2> DEFINE T == {i \in 0 .. n : after[i] = g[i]}
  <2>1. after[0] = start /\ \A i \in 1 .. n : after[i] = Begun(after[i - 1], text[i])
    <3> HIDE DEF start
    <3> QED  BY <1>1, <1>8
  <2>2. 0 \in T /\ \A i \in 1 .. n : i - 1 \in T => i \in T
    <3> HIDE DEF start, n
    <3> QED  BY <1>1, <1>5, <1>6, <2>1
  <2>3. \A i \in 0 .. n : i \in T
    <3> HIDE DEF T
    <3> QED  BY <1>1, <2>2, Upwards
  <2> QED  BY <2>3
<1>10. H!Strings(text) = after[n]
  BY Zenon DEF H!Strings, Begun, Blank
<1>11. H!Strings(text) = g[n]
  BY <1>1, <1>9, <1>10
<1> QED  BY <1>5, <1>6, <1>11 DEF Splits

LEMMA StringsOfNothing == H!Strings(<<>>) = <<Blank>>
<1>1. <<>> \in Seq({Blank}) /\ Len(<<>>) = 0
  OBVIOUS
<1>2. PICK g : Splits(g, <<>>) /\ H!Strings(<<>>) = g[Len(<<>>)]
  BY <1>1, StringsSplit
<1> QED  BY <1>1, <1>2 DEF Splits

LEMMA StringsOfMore ==
    ASSUME NEW W, Blank \in W, NEW text \in Seq(W), NEW x \in W
    PROVE  /\ H!Strings(Append(text, x)) = Begun(H!Strings(text), x)
           /\ H!Strings(text) \in Seq(W) /\ H!Strings(text) # <<>>
<1> DEFINE n == Len(text)
           more == Append(text, x)
<1>1. /\ n \in Nat /\ more \in Seq(W) /\ Len(more) = n + 1 /\ more[n + 1] = x
      /\ \A i \in 1 .. n : more[i] = text[i]
  BY LenProperties, AppendProperties
<1>2. PICK g \in [0 .. n -> Seq(W) \ {<<>>}] : Splits(g, text) /\ H!Strings(text) = g[n]
  BY StringsSplit
<1>3. PICK h : Splits(h, more) /\ H!Strings(more) = h[n + 1]
  <2> HIDE DEF more
  <2> QED  BY <1>1, StringsSplit
<1> HIDE DEF more, n
<1>4. \A i \in 0 .. n : h[i] = g[i]
  <2> DEFINE T == {i \in 0 .. n : h[i] = g[i]}
  <2>1. 0 \in T
    <3>1. h[0] = g[0]
      BY <1>2, <1>3 DEF Splits
    <3> QED  BY <1>1, <3>1
  <2>2. ASSUME NEW i \in 1 .. n, i - 1 \in T
        PROVE  i \in T
    <3>1. i \in 1 .. Len(text) /\ i \in 1 .. Len(more)
      BY <1>1 DEF n
    <3> QED  BY <1>1, <1>2, <1>3, <2>2, <3>1 DEF Splits
  <2>3. \A i \in 0 .. n : i \in T
    <3> HIDE DEF T
    <3> QED  BY <1>1, <2>1, <2>2, Upwards
  <2> QED  BY <2>3
<1>5. h[n + 1] = Begun(h[n], x)
  <2>1. n + 1 \in 1 .. Len(more) /\ n + 1 - 1 = n
    BY <1>1
  <2> QED  BY <1>1, <1>3, <2>1 DEF Splits
<1>6. h[n] = g[n] /\ g[n] \in Seq(W) \ {<<>>}
  BY <1>1, <1>2, <1>4
<1> QED  BY <1>2, <1>3, <1>5, <1>6 DEF more

LEMMA WordIs == \A w : H!Word(w) = IF w = Blank THEN <<>> ELSE <<w>>
BY Zenon DEF H!Word, Blank

(***************************************************************************)
(* A word and its separator are one string more.                           *)
(***************************************************************************)
AddsString(W, text, F, w, more) ==
    /\ more \in Seq(W) /\ Len(more) > Len(text) /\ more[Len(more)] = Nul
    /\ \A i \in 1 .. Len(more) :
          \/ i \in 1 .. Len(text) /\ more[i] = text[i]
          \/ more[i] = Nul
          \/ more[i] = w /\ w # Blank
    /\ H!Strings(more) = Append(Append(F, w), Blank)

LEMMA StringsOfWord ==
    ASSUME NEW W, Blank \in W, Nul \in W, NEW text \in Seq(W), NEW F \in Seq(W), NEW w \in W, w # Nul,
           H!Strings(text) = Append(F, Blank)
    PROVE  AddsString(W, text, F, w, text \o H!Word(w) \o <<Nul>>)
<1> USE DEF AddsString
<1>1. ASSUME NEW long \in Seq(W), H!Strings(long) = Append(F, w)
      PROVE  /\ Append(long, Nul) \in Seq(W)
             /\ H!Strings(Append(long, Nul)) = Append(Append(F, w), Blank)
  BY <1>1, StringsOfMore, AppendProperties DEF Begun
<1>2. Len(text) \in Nat
  BY LenProperties
<1>3. CASE w = Blank
  <2>1. text \o H!Word(w) \o <<Nul>> = Append(text, Nul)
    <3>1. text \o H!Word(w) = text
      BY <1>3, WordIs, ConcatEmptySeq
    <3> QED  BY <3>1, AppendIsConcat
  <2>2. /\ Append(text, Nul) \in Seq(W) /\ Len(Append(text, Nul)) = Len(text) + 1
        /\ Append(text, Nul)[Len(text) + 1] = Nul
        /\ \A i \in 1 .. Len(text) : Append(text, Nul)[i] = text[i]
    BY AppendProperties
  <2>3. H!Strings(Append(text, Nul)) = Append(Append(F, w), Blank)
    BY <1>1, <1>3
  <2>4. \A i \in 1 .. Len(text) + 1 : i \in 1 .. Len(text) \/ i = Len(text) + 1
    BY <1>2
  <2>5. Len(text) + 1 > Len(text)
    BY <1>2
  <2> DEFINE more == Append(text, Nul)
  <2> HIDE DEF more
  <2> QED  BY <2>1, <2>2, <2>3, <2>4, <2>5 DEF more
<1>4. CASE w # Blank
  <2> DEFINE long == Append(text, w)
  <2>1. text \o H!Word(w) \o <<Nul>> = Append(long, Nul)
    <3>1. text \o H!Word(w) = long
      BY <1>4, WordIs, AppendIsConcat
    <3>2. long \in Seq(W)
      BY AppendProperties
    <3> HIDE DEF long
    <3> QED  BY <3>1, <3>2, AppendIsConcat
  <2>2. H!Strings(long) = Append(F, w)
    <3>1. H!Strings(long) = Begun(Append(F, Blank), w)
      BY StringsOfMore
    <3>2. [Append(F, Blank) EXCEPT ![Len(Append(F, Blank))] = w] = Append(F, w)
      <4> DEFINE G == Append(F, Blank)
                 G1 == Append(F, w)
                 n == Len(F)
      <4>0. \A x \in W : /\ Append(F, x) \in Seq(W) /\ Len(Append(F, x)) = n + 1
                         /\ Append(F, x)[n + 1] = x
                         /\ \A i \in 1 .. n : Append(F, x)[i] = F[i]
        BY AppendProperties
      <4>5. \A s \in Seq(W) : Len(s) = n + 1 => s \in [1 .. n + 1 -> W]
        BY LenProperties
      <4>1. /\ n \in Nat /\ Len(G) = n + 1 /\ G \in [1 .. n + 1 -> W]
            /\ \A i \in 1 .. n : G[i] = F[i]
        <5>1. n \in Nat
          BY LenProperties
        <5> HIDE DEF n
        <5> QED  BY <4>0, <4>5, <5>1
      <4>2. /\ G1 \in [1 .. n + 1 -> W] /\ G1[n + 1] = w
            /\ \A i \in 1 .. n : G1[i] = F[i]
        <5> HIDE DEF n
        <5> QED  BY <4>0, <4>5
      <4>3. \A i \in 1 .. n + 1 : i = n + 1 \/ i \in 1 .. n
        BY <4>1
      <4> HIDE DEF G, G1, n
      <4>4. [G EXCEPT ![n + 1] = w] = G1
        BY <4>1, <4>2, <4>3
      <4> QED  BY <4>1, <4>4 DEF G, G1
    <3> QED  BY <3>1, <3>2 DEF Begun
  <2>3. /\ long \in Seq(W) /\ Len(long) = Len(text) + 1 /\ long[Len(text) + 1] = w
        /\ \A i \in 1 .. Len(text) : long[i] = text[i]
    BY AppendProperties
  <2> HIDE DEF long
  <2>4. /\ Append(long, Nul) \in Seq(W) /\ Len(Append(long, Nul)) = Len(text) + 2
        /\ Append(long, Nul)[Len(text) + 2] = Nul
        /\ \A i \in 1 .. Len(text) + 1 : Append(long, Nul)[i] = long[i]
    BY <1>2, <2>3, AppendProperties
  <2>5. H!Strings(Append(long, Nul)) = Append(Append(F, w), Blank)
    BY <1>1, <2>2, <2>3
  <2>6. \A i \in 1 .. Len(text) + 2 :
            i \in 1 .. Len(text) \/ i = Len(text) + 1 \/ i = Len(text) + 2
    BY <1>2
  <2>7. \A i \in 1 .. Len(text) : i \in 1 .. Len(text) + 1
    BY <1>2
  <2>8. Len(text) + 1 \in 1 .. Len(text) + 1 /\ Len(text) + 2 > Len(text)
    BY <1>2
  <2> QED  BY <1>4, <2>1, <2>3, <2>4, <2>5, <2>6, <2>7, <2>8
<1> QED  BY <1>3, <1>4

Associative(W) == \A x, y, z \in Seq(W) : (x \o y) \o z = x \o (y \o z)

LEMMA ConcatIsAssociative == \A W : Associative(W)
BY ConcatAssociative DEF Associative

(***************************************************************************)
(* The text of the first i pairs of a beat: its strings are the keys and   *)
(* the values, and an empty one.                                           *)
(***************************************************************************)
Fields2(F, beat, i) ==
    /\ Len(F) = 2 * i
    /\ \A j \in 1 .. i : F[2 * j - 1] = beat[j][1] /\ F[2 * j] = beat[j][2]

TextOf(W, beat, i, text) ==
    /\ text \in Seq(W)
    /\ i = 0 => text = <<>>
    /\ i # 0 => Len(text) > 0 /\ text[Len(text)] = Nul
    /\ \A k \in 1 .. Len(text) :
          \/ text[k] = Nul
          \/ text[k] # Blank /\ \E j \in 1 .. i : text[k] \in {beat[j][1], beat[j][2]}
    /\ \E F \in Seq(W) : Fields2(F, beat, i) /\ H!Strings(text) = Append(F, Blank)

LEMMA TextOfPair ==
    ASSUME NEW W, Blank \in W, Nul \in W, NEW beat \in Seq(W \X W), NEW i \in 1 .. Len(beat),
           Nul \notin {beat[i][1], beat[i][2]}, NEW text, TextOf(W, beat, i - 1, text)
    PROVE  TextOf(W, beat, i,
                  text \o (H!Word(beat[i][1]) \o <<Nul>> \o H!Word(beat[i][2]) \o <<Nul>>))
<1> DEFINE k == beat[i][1]
           v == beat[i][2]
           one == text \o H!Word(k) \o <<Nul>>
           two == one \o H!Word(v) \o <<Nul>>
<1>1. i \in Nat /\ i - 1 \in Nat /\ beat[i] \in W \X W
  BY LenProperties, ElementOfSeq
<1>2. k \in W /\ v \in W /\ k # Nul /\ v # Nul
  BY <1>1
<1>3. PICK F \in Seq(W) : Fields2(F, beat, i - 1) /\ H!Strings(text) = Append(F, Blank)
  BY DEF TextOf
<1>4. text \in Seq(W)
  BY DEF TextOf
<1> HIDE DEF k, v
<1>5. AddsString(W, text, F, k, one)
  BY <1>2, <1>3, <1>4, StringsOfWord
<1>6. Append(F, k) \in Seq(W)
  BY <1>2, AppendProperties
<1>13. one \in Seq(W) /\ H!Strings(one) = Append(Append(F, k), Blank)
  BY <1>5 DEF AddsString
<1> HIDE DEF one
<1>7. AddsString(W, one, Append(F, k), v, two)
  BY <1>2, <1>6, <1>13, StringsOfWord
<1>8. text \o (H!Word(k) \o <<Nul>> \o H!Word(v) \o <<Nul>>) = two
  <2>1. H!Word(k) \in Seq(W) /\ H!Word(v) \in Seq(W) /\ <<Nul>> \in Seq(W)
    <3>1. \A w \in W : <<>> \in Seq(W) /\ <<w>> \in Seq(W)
      OBVIOUS
    <3> QED  BY <1>2, <3>1, WordIs
  <2> DEFINE a == H!Word(k)
             b == H!Word(v)
             e == <<Nul>>
  <2>2. a \in Seq(W) /\ b \in Seq(W) /\ e \in Seq(W)
    BY <2>1
  <2> HIDE DEF a, b, e
  <2>3. a \o e \in Seq(W) /\ a \o e \o b \in Seq(W) /\ text \o a \in Seq(W)
    BY <1>4, <2>2, ConcatProperties
  <2>8. \A x, y, z \in Seq(W) : (x \o y) \o z = x \o (y \o z)
    <3>1. Associative(W)
      BY ConcatIsAssociative
    <3> QED  BY <3>1 DEF Associative
  <2>4. text \o (a \o e) = text \o a \o e
    BY <1>4, <2>2, <2>8, Zenon
  <2>5. text \o (a \o e \o b) = text \o (a \o e) \o b
    BY <1>4, <2>2, <2>3, <2>8, Zenon
  <2>6. text \o (a \o e \o b \o e) = text \o (a \o e \o b) \o e
    BY <1>4, <2>2, <2>3, <2>8, Zenon
  <2>7. text \o (a \o e \o b \o e) = text \o a \o e \o b \o e
    BY <2>4, <2>5, <2>6
  <2> QED  BY <2>7 DEF a, b, e, one
<1> HIDE DEF two
<1>9. /\ Append(Append(F, k), v) \in Seq(W) /\ Fields2(Append(Append(F, k), v), beat, i)
  <2> DEFINE G == Append(F, k)
             G2 == Append(G, v)
             n == Len(F)
  <2>1. n \in Nat /\ n = 2 * (i - 1)
    BY <1>3, LenProperties DEF Fields2
  <2>2. /\ G \in Seq(W) /\ Len(G) = n + 1 /\ G[n + 1] = k
        /\ \A j \in 1 .. n : G[j] = F[j]
    BY <1>2, AppendProperties
  <2> HIDE DEF G
  <2>3. /\ G2 \in Seq(W) /\ Len(G2) = Len(G) + 1 /\ G2[Len(G) + 1] = v
        /\ \A j \in 1 .. Len(G) : G2[j] = G[j]
    BY <1>2, <2>2, AppendProperties
  <2> HIDE DEF G2, n
  <2>4. Len(G2) = 2 * i /\ G2[2 * i] = v /\ G2[2 * i - 1] = k
    BY <1>1, <2>1, <2>2, <2>3
  <2>5. ASSUME NEW j \in 1 .. i
        PROVE  G2[2 * j - 1] = beat[j][1] /\ G2[2 * j] = beat[j][2]
    <3>1. CASE j = i
      BY <2>4, <3>1 DEF k, v
    <3>2. CASE j # i
      <4>1. j \in 1 .. i - 1 /\ 2 * j - 1 \in 1 .. n /\ 2 * j \in 1 .. n
        BY <1>1, <2>1, <3>2
      <4>2. \A m \in 1 .. n : m \in 1 .. Len(G)
        BY <2>1, <2>2
      <4> QED  BY <1>3, <2>2, <2>3, <4>1, <4>2 DEF Fields2
    <3> QED  BY <3>1, <3>2
  <2> QED  BY <2>3, <2>4, <2>5 DEF Fields2, G2, G
<1>10. ASSUME NEW j \in 1 .. Len(two)
       PROVE  \/ two[j] = Nul
              \/ two[j] # Blank /\ \E m \in 1 .. i : two[j] \in {beat[m][1], beat[m][2]}
  <2>1. i \in 1 .. i
    BY <1>1
  <2>2. CASE two[j] = v /\ v # Blank
    BY <2>1, <2>2 DEF v
  <2>3. CASE two[j] = k /\ k # Blank
    BY <2>1, <2>3 DEF k
  <2>4. CASE two[j] # Nul /\ \E m \in 1 .. Len(text) : two[j] = text[m]
    <3>1. PICK m \in 1 .. Len(text) : two[j] = text[m]
      BY <2>4
    <3>2. PICK l \in 1 .. i - 1 : text[m] # Blank /\ text[m] \in {beat[l][1], beat[l][2]}
      BY <2>4, <3>1 DEF TextOf
    <3>3. l \in 1 .. i
      BY <1>1
    <3> QED  BY <3>1, <3>2, <3>3
  <2> QED  BY <1>5, <1>7, <2>2, <2>3, <2>4 DEF AddsString
<1>11. Len(two) > 0 /\ i # 0
  BY <1>1, <1>4, <1>5, <1>7, <1>13, LenProperties DEF AddsString
<1>12. TextOf(W, beat, i, two)
  BY <1>7, <1>9, <1>10, <1>11 DEF TextOf, AddsString
<1> QED  BY <1>8, <1>12 DEF k, v

\* The words of a beat, which are what its text is made of.
WordsOf(beat) == {Nul, Blank} \union UNION {{beat[i][1], beat[i][2]} : i \in DOMAIN beat}

IsBeat(beat) ==
    /\ beat \in Seq(WordsOf(beat) \X WordsOf(beat))
    /\ \A i \in 1 .. Len(beat) : Nul \notin {beat[i][1], beat[i][2]}

LEMMA BeatsAreBeats ==
    ASSUME NEW beat \in Beats
    PROVE  IsBeat(beat)
<1>1. /\ beat = [i \in 1 .. Len(beat) |-> <<beat[i][1], beat[i][2]>>] /\ Len(beat) \in Nat
      /\ \A i \in 1 .. Len(beat) : Nul \notin {beat[i][1], beat[i][2]}
  BY HeartbeatsAssumption, Zenon DEF H!ConstantsOK
<1>2. DOMAIN beat = 1 .. Len(beat)
  BY <1>1
<1>3. \A i \in 1 .. Len(beat) : beat[i] \in WordsOf(beat) \X WordsOf(beat)
  BY <1>1, <1>2 DEF WordsOf
<1>4. beat \in [1 .. Len(beat) -> WordsOf(beat) \X WordsOf(beat)]
  BY <1>1, <1>3
<1>5. beat \in Seq(WordsOf(beat) \X WordsOf(beat))
  BY <1>1, <1>4, SeqDef
<1> QED  BY <1>1, <1>5 DEF IsBeat

LEMMA TextOfBeat ==
    ASSUME NEW beat, IsBeat(beat)
    PROVE  TextOf(WordsOf(beat), beat, Len(beat), H!Text(beat))
<1> DEFINE W == WordsOf(beat)
           n == Len(beat)
           S == Seq(W)
           pair(i) == H!Word(beat[i][1]) \o <<Nul>> \o H!Word(beat[i][2]) \o <<Nul>>
           parts == [i \in DOMAIN beat |-> pair(i)]
           step == [it \in (1 .. n) \X S |-> it[2] \o pair(it[1])]
           Loop(f) == [i \in 1 .. Len(parts) |-> IF i = 1 THEN parts[i] ELSE f[i - 1] \o parts[i]]
           after == CHOOSE f : f = Loop(f)
<1>1. /\ n \in Nat /\ DOMAIN beat = 1 .. n /\ beat \in Seq(W \X W) /\ Blank \in W /\ Nul \in W
      /\ \A i \in 1 .. n : beat[i][1] \in W /\ beat[i][2] \in W
  BY LenProperties, ElementOfSeq DEF IsBeat, WordsOf
<1> HIDE DEF W
<1>2. \A i \in 1 .. n : pair(i) \in S
  <2> TAKE i \in 1 .. n
  <2>1. \A w \in W : H!Word(w) \in S
    <3>1. \A w \in W : <<>> \in Seq(W) /\ <<w>> \in Seq(W)
      OBVIOUS
    <3> QED  BY <3>1, WordIs
  <2>2. H!Word(beat[i][1]) \in S /\ H!Word(beat[i][2]) \in S /\ <<Nul>> \in S
    BY <1>1, <2>1
  <2>3. \A s, t \in S : s \o t \in S
    BY ConcatProperties
  <2> HIDE DEF S
  <2> QED  BY <2>2, <2>3
<1> HIDE DEF pair
<1>3. parts \in [1 .. n -> S] /\ parts \in Seq(S) /\ Len(parts) = n
  <2>1. parts \in [1 .. n -> S]
    BY <1>1, <1>2
  <2> HIDE DEF parts, S, n
  <2>2. parts \in Seq(S)
    BY <1>1, <2>1, SeqDef
  <2>3. Len(parts) = n
    BY <1>1, <2>1, <2>2, LenProperties
  <2> QED  BY <2>1, <2>2, <2>3
<1>4. <<>> \in S /\ step \in [(1 .. n) \X S -> S]
  <2>1. \A s, t \in S : s \o t \in S
    BY ConcatProperties
  <2>2. <<>> \in S
    OBVIOUS
  <2> HIDE DEF S
  <2> QED  BY <1>2, <2>1, <2>2
<1> HIDE DEF n, S
<1>5. PICK g : Iteration(g, n, S, <<>>, step)
  <2> HIDE DEF step
  <2> QED  BY <1>1, <1>4, Iterates
<1>6. g \in [0 .. n -> S] /\ g[0] = <<>>
  BY <1>5 DEF Iteration
<1>7. \A i \in 1 .. n : g[i] = g[i - 1] \o pair(i)
  <2> TAKE i \in 1 .. n
  <2>1. g[i - 1] \in S
    BY <1>1, <1>6
  <2> QED  BY <1>5, <2>1 DEF Iteration
<1>11. /\ \A i \in 1 .. n : g[i - 1] \in S /\ g[i] = g[i - 1] \o pair(i)
       /\ n # 0 => g[1] = pair(1)
  <2>1. \A i \in 1 .. n : i - 1 \in 0 .. n
    BY <1>1
  <2>2. n # 0 => 1 \in 1 .. n /\ 1 - 1 = 0
    BY <1>1
  <2>3. \A s \in S : <<>> \o s = s
    BY ConcatEmptySeq DEF S
  <2> QED  BY <1>2, <1>6, <1>7, <2>1, <2>2, <2>3
<1> HIDE DEF step
<1>8. \A i \in 0 .. n : TextOf(W, beat, i, g[i])
  <2> DEFINE T == {i \in 0 .. n : TextOf(W, beat, i, g[i])}
  <2>1. 0 \in T
    <3>1. TextOf(W, beat, 0, <<>>)
      <4>1. <<>> \in Seq(W) /\ Len(<<>>) = 0 /\ Fields2(<<>>, beat, 0)
        BY DEF Fields2
      <4>2. Append(<<>>, Blank) = <<Blank>>
        OBVIOUS
      <4>3. \E F \in Seq(W) : Fields2(F, beat, 0) /\ H!Strings(<<>>) = Append(F, Blank)
        BY <4>1, <4>2, StringsOfNothing
      <4>4. \A k \in 1 .. 0 : FALSE
        OBVIOUS
      <4> QED  BY <4>1, <4>3, <4>4, Zenon DEF TextOf
    <3> QED  BY <1>1, <1>6, <3>1
  <2>2. ASSUME NEW i \in 1 .. n, i - 1 \in T
        PROVE  i \in T
    <3>1. TextOf(W, beat, i, g[i - 1] \o pair(i))
      <4>1. TextOf(W, beat, i - 1, g[i - 1]) /\ Nul \notin {beat[i][1], beat[i][2]}
        BY <2>2 DEF IsBeat, n
      <4>2. i \in 1 .. Len(beat)
        BY DEF n
      <4> QED  BY <1>1, <4>1, <4>2, TextOfPair DEF pair
    <3>2. g[i] = g[i - 1] \o pair(i) /\ i \in 0 .. n
      BY <1>1, <1>7
    <3>3. TextOf(W, beat, i, g[i])
      BY <3>1, <3>2
    <3> QED  BY <3>2, <3>3
  <2>3. \A i \in 0 .. n : i \in T
    <3> HIDE DEF T
    <3> QED  BY <1>1, <2>1, <2>2, Upwards
  <2> QED  BY <2>3
<1>9. CASE n = 0
  <2>1. H!Text(beat) = parts
    <3>1. H!Text(beat) = H!FlattenSeq(parts)
      BY Zenon DEF H!Text, pair
    <3> QED  BY <1>3, <1>9, <3>1 DEF H!FlattenSeq
  <2>2. parts = <<>>
    BY <1>3, <1>9, EmptySeq
  <2> QED  BY <1>6, <1>8, <1>9, <2>1, <2>2 DEF W, n
<1>10. CASE n # 0
  <2>1. H!Text(beat) = after[n]
    <3>1. H!Text(beat) = H!FlattenSeq(parts)
      BY Zenon DEF H!Text, pair
    <3> HIDE DEF parts
    <3>2. H!FlattenSeq(parts) = after[Len(parts)]
      <4>1. Len(parts) # 0
        BY <1>3, <1>10
      <4> QED  BY <4>1, Zenon DEF H!FlattenSeq
    <3> QED  BY <1>3, <3>1, <3>2
  <2> HIDE DEF parts
  <2> DEFINE h == [i \in 1 .. n |-> g[i]]
  <2>2. h = Loop(h)
    <3>1. \A i \in 1 .. n : parts[i] = pair(i)
      BY <1>1 DEF parts
    <3>2. h[1] = parts[1]
      BY <1>1, <1>10, <1>11, <3>1
    <3>3. ASSUME NEW i \in 1 .. n, i # 1
          PROVE  h[i] = h[i - 1] \o parts[i]
      <4>1. i - 1 \in 1 .. n
        BY <1>1, <3>3
      <4> QED  BY <1>11, <3>1, <4>1
    <3>4. Len(parts) = n
      BY <1>3
    <3>5. h = [i \in 1 .. n |-> IF i = 1 THEN parts[i] ELSE h[i - 1] \o parts[i]]
      BY <3>2, <3>3
    <3> QED  BY <3>4, <3>5
  <2>3. after = Loop(after)
    <3> HIDE DEF Loop
    <3> QED  BY <2>2
  <2>4. \A i \in 0 .. n : i # 0 => after[i] = g[i]
    <3> HIDE DEF after, h
    <3> DEFINE T == {i \in 0 .. n : i # 0 => after[i] = g[i]}
    <3>6. after = [i \in 1 .. n |-> IF i = 1 THEN parts[i] ELSE after[i - 1] \o parts[i]]
      BY <1>3, <2>3
    <3>7. n # 0 => 1 \in 1 .. n
      BY <1>1
    <3> HIDE DEF parts
    <3>1. after[1] = parts[1] /\ \A i \in 1 .. n : i # 1 => after[i] = after[i - 1] \o parts[i]
      <4> DEFINE body(i) == IF i = 1 THEN parts[i] ELSE after[i - 1] \o parts[i]
      <4>1. \A i \in 1 .. n : after[i] = body(i)
        <5> HIDE DEF body
        <5>1. after = [i \in 1 .. n |-> body(i)]
          BY <3>6 DEF body
        <5> QED  BY <5>1
      <4> QED  BY <1>10, <3>7, <4>1
    <3>2. g[1] = parts[1] /\ \A i \in 1 .. n : g[i] = g[i - 1] \o parts[i]
      <4>1. \A i \in 1 .. n : parts[i] = pair(i)
        BY <1>1 DEF parts
      <4> HIDE DEF parts
      <4> QED  BY <1>10, <1>11, <3>7, <4>1
    <3>3. 0 \in T
      BY <1>1
    <3>4. ASSUME NEW i \in 1 .. n, i - 1 \in T
          PROVE  i \in T
      <4>1. CASE i = 1
        BY <3>1, <3>2, <4>1
      <4>2. CASE i # 1
        <5>1. i - 1 # 0 /\ i - 1 \in T
          BY <1>1, <3>4, <4>2
        <5>2. after[i - 1] = g[i - 1]
          BY <5>1
        <5>3. after[i] = after[i - 1] \o parts[i] /\ g[i] = g[i - 1] \o parts[i]
          BY <3>1, <3>2, <4>2
        <5>4. after[i] = g[i] /\ i \in 0 .. n
          BY <1>1, <5>2, <5>3
        <5> QED  BY <5>4
      <4> QED  BY <4>1, <4>2
    <3>5. \A i \in 0 .. n : i \in T
      <4> HIDE DEF T
      <4> QED  BY <1>1, <3>3, <3>4, Upwards
    <3> QED  BY <3>5
  <2>5. after[n] = g[n] /\ TextOf(W, beat, n, g[n])
    <3> HIDE DEF after
    <3> QED  BY <1>1, <1>8, <1>10, <2>4
  <2> QED  BY <2>1, <2>5 DEF W, n
<1> QED  BY <1>9, <1>10

LEMMA PrefixGrows ==
    ASSUME NEW W, NEW text \in Seq(W), NEW j \in 1 .. Len(text)
    PROVE  /\ SubSeq(text, 1, j - 1) \in Seq(W) /\ text[j] \in W
           /\ SubSeq(text, 1, j) = Append(SubSeq(text, 1, j - 1), text[j])
<1>1. Len(text) \in Nat /\ \A i \in 1 .. Len(text) : text[i] \in W
  BY LenProperties, ElementOfSeq
<1> DEFINE a == SubSeq(text, 1, j - 1)
           b == SubSeq(text, 1, j)
<1>2. /\ a \in Seq(W) /\ Len(a) = j - 1
      /\ \A i \in 1 .. j - 1 : a[i] = text[i]
  BY <1>1, SubSeqProperties
<1>3. /\ b \in Seq(W) /\ Len(b) = j
      /\ \A i \in 1 .. j : b[i] = text[i]
  BY <1>1, SubSeqProperties
<1> DEFINE c == Append(a, text[j])
<1> HIDE DEF a, b
<1>4. /\ c \in Seq(W) /\ Len(c) = j /\ c[j] = text[j]
      /\ \A i \in 1 .. j - 1 : c[i] = a[i]
  BY <1>1, <1>2, AppendProperties
<1> HIDE DEF c
<1>5. \A i \in 1 .. j : b[i] = c[i]
  BY <1>1, <1>2, <1>3, <1>4
<1>6. b = c
  BY <1>3, <1>4, <1>5, SeqEqual
<1> QED  BY <1>1, <1>2, <1>6 DEF a, b, c

(***************************************************************************)
(* Separators at the end of a text add empty strings to its strings.       *)
(***************************************************************************)
Extends(s, n, t) ==
    /\ Len(t) = Len(s) + n
    /\ \A k \in 1 .. Len(t) : t[k] = IF k <= Len(s) THEN s[k] ELSE Blank

LEMMA SeparatorsAtEnd ==
    ASSUME NEW W, Blank \in W, NEW text \in Seq(W), NEW p \in 0 .. Len(text),
           \A i \in 1 .. Len(text) : i > p => text[i] = Nul
    PROVE  /\ H!Strings(SubSeq(text, 1, p)) \in Seq(W)
           /\ Extends(H!Strings(SubSeq(text, 1, p)), Len(text) - p, H!Strings(text))
<1> DEFINE n == Len(text) - p
           upto(i) == SubSeq(text, 1, p + i)
           s == H!Strings(upto(0))
           T == {i \in 0 .. n : /\ upto(i) \in Seq(W) /\ H!Strings(upto(i)) \in Seq(W)
                                /\ Extends(s, i, H!Strings(upto(i)))}
<1>1. Len(text) \in Nat /\ n \in Nat /\ \A i \in 1 .. Len(text) : text[i] \in W
  BY LenProperties, ElementOfSeq
<1>2. upto(0) \in Seq(W)
  BY <1>1, SubSeqProperties
<1>3. s \in Seq(W) /\ Len(s) \in Nat
  <2> HIDE DEF upto
  <2> QED  BY <1>2, StringsOfMore, LenProperties
<1>4. 0 \in T
  <2>1. Extends(s, 0, s)
    <3> HIDE DEF s
    <3> QED  BY <1>3 DEF Extends
  <2> HIDE DEF upto
  <2> QED  BY <1>1, <1>2, <1>3, <2>1
<1>5. ASSUME NEW i \in 1 .. n, i - 1 \in T
      PROVE  i \in T
  <2> DEFINE t == H!Strings(upto(i - 1))
             t1 == H!Strings(upto(i))
  <2>1. /\ p + i \in 1 .. Len(text) /\ p + i > p /\ (p + i) - 1 = p + (i - 1)
    BY <1>1
  <2>2. text[p + i] = Nul
    BY <2>1
  <2>3. upto(i - 1) \in Seq(W) /\ t \in Seq(W) /\ Extends(s, i - 1, t)
    <3> HIDE DEF upto, s
    <3> QED  BY <1>5
  <2>4. upto(i) = Append(upto(i - 1), Nul) /\ Nul \in W
    BY <1>1, <2>1, <2>2, PrefixGrows
  <2> HIDE DEF upto, s
  <2>5. upto(i) \in Seq(W) /\ t1 = Append(t, Blank)
    BY <2>3, <2>4, StringsOfMore, AppendProperties DEF Begun
  <2> HIDE DEF t, t1
  <2>6. /\ t1 \in Seq(W) /\ Len(t1) = Len(t) + 1 /\ t1[Len(t) + 1] = Blank
        /\ \A k \in 1 .. Len(t) : t1[k] = t[k]
    BY <2>3, <2>5, AppendProperties
  <2>7. Len(t) = Len(s) + (i - 1) /\ \A k \in 1 .. Len(t) : t[k] = IF k <= Len(s) THEN s[k] ELSE Blank
    BY <2>3 DEF Extends
  <2>8. Len(t1) = Len(s) + i
    BY <1>1, <1>3, <2>6, <2>7
  <2>9. ASSUME NEW k \in 1 .. Len(t1)
        PROVE  t1[k] = IF k <= Len(s) THEN s[k] ELSE Blank
    <3>1. CASE k \in 1 .. Len(t)
      BY <2>6, <2>7, <3>1
    <3>2. CASE k = Len(t) + 1
      BY <1>1, <1>3, <2>6, <2>7, <3>2
    <3> QED  BY <1>1, <1>3, <2>6, <2>7, <3>1, <3>2
  <2>10. Extends(s, i, t1)
    BY <2>8, <2>9 DEF Extends
  <2>11. i \in 0 .. n
    BY <1>1
  <2>12. /\ upto(i) \in Seq(W) /\ H!Strings(upto(i)) \in Seq(W)
         /\ Extends(s, i, H!Strings(upto(i)))
    BY <2>5, <2>6, <2>10 DEF t1
  <2> HIDE DEF n
  <2> QED  BY <2>11, <2>12
<1>6. \A i \in 0 .. n : i \in T
  <2> HIDE DEF T, n
  <2> QED  BY <1>1, <1>4, <1>5, Upwards
<1>7. n \in T
  <2> HIDE DEF T
  <2> QED  BY <1>1, <1>6
<1>8. upto(n) = text
  <2>1. p + n = Len(text)
    BY <1>1
  <2>2. SubSeq(text, 1, Len(text)) = text
    BY SubSeqFull
  <2> QED  BY <2>1, <2>2
<1>9. upto(0) = SubSeq(text, 1, p)
  OBVIOUS
<1> HIDE DEF upto
<1> QED  BY <1>3, <1>7, <1>8, <1>9

(***************************************************************************)
(* A bounded set of naturals that is not empty has a greatest element,     *)
(* which Max is.                                                           *)
(***************************************************************************)
LEMMA MaxNat ==
    ASSUME NEW n \in Nat, NEW T \in SUBSET (0 .. n), T # {}
    PROVE  H!Max(T) \in T /\ \A m \in T : m <= H!Max(T)
<1> DEFINE R == {n - m : m \in T}
<1>1. R \in SUBSET Nat /\ R # {}
  <2>1. \A m \in T : n - m \in Nat
    OBVIOUS
  <2>2. PICK m \in T : TRUE
    OBVIOUS
  <2>3. n - m \in R
    OBVIOUS
  <2>4. R \subseteq Nat
    BY <2>1
  <2> QED  BY <2>3, <2>4
<1>2. PICK r \in R : \A q \in R : r <= q
  <2> HIDE DEF R
  <2> QED  BY <1>1, LeastNat
<1>3. PICK k \in T : r = n - k
  BY <1>2
<1>4. \A m \in T : n - m \in R /\ m \in Int /\ k \in Int
  OBVIOUS
<1>5. \A m \in T : k >= m
  BY <1>2, <1>3, <1>4
<1>6. H!Max(T) \in T /\ \A m \in T : H!Max(T) >= m
  BY <1>3, <1>5 DEF H!Max
<1> QED  BY <1>6

(***************************************************************************)
(* The strings of a stripped text are the beat's keys and values, but for  *)
(* empty ones at the end.                                                  *)
(***************************************************************************)
Reads(W, F, beat, d) ==
    /\ F \in Seq(W) /\ d \in Seq(W) /\ Fields2(F, beat, Len(beat))
    /\ Len(d) >= 1
    /\ IF Len(beat) = 0 THEN Len(d) = 1 ELSE Len(d) <= 2 * Len(beat)
    /\ \A k \in 1 .. Len(d) : k <= 2 * Len(beat) => d[k] = F[k]
    /\ \A k \in 1 .. 2 * Len(beat) : k > Len(d) => F[k] = Blank

LEMMA StrippedStrings ==
    ASSUME NEW beat, IsBeat(beat)
    PROVE  \E F : Reads(WordsOf(beat), F, beat, H!Strings(H!Stripped(H!Text(beat))))
<1> DEFINE W == WordsOf(beat)
           text == H!Text(beat)
           n == Len(beat)
           T == {0} \union {i \in DOMAIN text : text[i] # Nul}
           p == H!Max(T)
           L == Len(text)
           d == H!Strings(H!Stripped(text))
<1>1. n \in Nat /\ Blank \in W /\ TextOf(W, beat, n, text)
  BY TextOfBeat, LenProperties DEF IsBeat, WordsOf
<1> HIDE DEF W, text, n
<1>2. text \in Seq(W) /\ L \in Nat /\ DOMAIN text = 1 .. L
  BY <1>1, LenProperties DEF TextOf
<1>3. p \in T /\ \A m \in T : m <= p
  <2>1. T \in SUBSET (0 .. L) /\ T # {}
    BY <1>2
  <2> HIDE DEF T, L
  <2> QED  BY <1>2, <2>1, MaxNat
<1>4. H!Stripped(text) = SubSeq(text, 1, p)
  BY Zenon DEF H!Stripped
<1>5. p \in 0 .. L /\ \A i \in 1 .. L : i > p => text[i] = Nul
  <2>1. \A i \in 1 .. L : text[i] # Nul => i \in T
    BY <1>2
  <2>2. p \in 0 .. L
    BY <1>2, <1>3
  <2> HIDE DEF T, p
  <2> QED  BY <1>2, <1>3, <2>1, <2>2
<1>6. p = 0 \/ text[p] # Nul
  BY <1>3
<1> HIDE DEF T, p
<1>7. d \in Seq(W) /\ Extends(d, L - p, H!Strings(text))
  <2>1. /\ H!Strings(SubSeq(text, 1, p)) \in Seq(W)
        /\ Extends(H!Strings(SubSeq(text, 1, p)), L - p, H!Strings(text))
    BY <1>1, <1>2, <1>5, SeparatorsAtEnd
  <2> QED  BY <1>4, <2>1
<1>8. PICK F \in Seq(W) : Fields2(F, beat, n) /\ H!Strings(text) = Append(F, Blank)
  BY <1>1 DEF TextOf
<1> DEFINE all == Append(F, Blank)
           m == Len(d)
<1>9. /\ Len(F) = 2 * n /\ Len(all) = 2 * n + 1 /\ all[2 * n + 1] = Blank
      /\ \A k \in 1 .. 2 * n : all[k] = F[k]
  <2>1. Len(F) = 2 * n
    BY <1>8 DEF Fields2
  <2> QED  BY <1>1, <1>8, <2>1, AppendProperties
<1>10. m \in Nat /\ m >= 1
  <2>1. SubSeq(text, 1, p) \in Seq(W)
    BY <1>2, <1>5, SubSeqProperties
  <2>2. d # <<>>
    BY <1>1, <1>4, <2>1, StringsOfMore
  <2> HIDE DEF d
  <2> QED  BY <1>7, <2>2, LenProperties, EmptySeq
<1>11. /\ 2 * n + 1 = m + (L - p)
       /\ \A k \in 1 .. 2 * n + 1 : all[k] = IF k <= m THEN d[k] ELSE Blank
  BY <1>7, <1>8, <1>9 DEF Extends
<1>12. n # 0 => p < L
  <2>1. n # 0 => L > 0 /\ text[L] = Nul
    BY <1>1 DEF TextOf
  <2> HIDE DEF L
  <2> QED  BY <1>2, <1>5, <1>6, <2>1
<1>13. n = 0 => p = L
  <2>1. n = 0 => L = 0
    BY <1>1 DEF TextOf
  <2> HIDE DEF L
  <2> QED  BY <1>5, <2>1
<1> HIDE DEF d, m, all, L
<1>14. /\ IF n = 0 THEN m = 1 ELSE m <= 2 * n
       /\ \A k \in 1 .. m : k <= 2 * n => d[k] = F[k]
       /\ \A k \in 1 .. 2 * n : k > m => F[k] = Blank
  BY <1>1, <1>2, <1>5, <1>9, <1>10, <1>11, <1>12, <1>13
<1>15. Reads(W, F, beat, d)
  BY <1>7, <1>8, <1>10, <1>14 DEF Reads, n, m
<1> QED  BY <1>15 DEF d, text, W

(***************************************************************************)
(* What an even number of strings is parsed to: under each key, the value  *)
(* behind its last place.                                                  *)
(***************************************************************************)
LastOf(d, m, k, value) ==
    \E i \in 1 .. m : /\ d[2 * i - 1] = k /\ d[2 * i] = value
                      /\ \A j \in 1 .. m : d[2 * j - 1] = k => j <= i

LEMMA ParsedPairs ==
    ASSUME NEW W, NEW text, NEW d \in Seq(W), d = H!Strings(H!Stripped(text)),
           NEW m \in Nat, Len(d) = 2 * m
    PROVE  /\ DOMAIN H!Parsed(text) = {d[2 * i - 1] : i \in 1 .. m}
           /\ \A k \in DOMAIN H!Parsed(text) : LastOf(d, m, k, H!Parsed(text)[k])
<1> DEFINE At(k) == {i \in DOMAIN d : i % 2 = 1 /\ d[i] = k}
           K == {d[i] : i \in {j \in DOMAIN d : j % 2 = 1}}
<1>1. DOMAIN d = 1 .. 2 * m
  BY LenProperties
<1>2. H!Parsed(text) = [k \in K |-> d[H!Max(At(k)) + 1]]
  BY Zenon DEF H!Parsed
<1>3. K = {d[2 * i - 1] : i \in 1 .. m}
  <2>1. \A i \in 1 .. m : 2 * i - 1 \in DOMAIN d /\ (2 * i - 1) % 2 = 1
    BY <1>1
  <2>2. ASSUME NEW j \in DOMAIN d, j % 2 = 1
        PROVE  \E i \in 1 .. m : j = 2 * i - 1
    <3>1. (j + 1) \div 2 \in 1 .. m /\ j = 2 * ((j + 1) \div 2) - 1
      BY <1>1, <2>2
    <3> QED  BY <3>1
  <2> QED  BY <2>1, <2>2
<1>4. ASSUME NEW k \in K
      PROVE  LastOf(d, m, k, d[H!Max(At(k)) + 1])
  <2> DEFINE a == H!Max(At(k))
  <2>1. a \in At(k) /\ \A b \in At(k) : b <= a
    <3>1. At(k) \in SUBSET (0 .. 2 * m) /\ At(k) # {} /\ 2 * m \in Nat
      BY <1>1
    <3> HIDE DEF At
    <3> QED  BY <3>1, MaxNat
  <2>2. a \in 1 .. 2 * m /\ a % 2 = 1 /\ d[a] = k
    BY <1>1, <2>1
  <2>3. \A j \in 1 .. m : d[2 * j - 1] = k => 2 * j - 1 <= a
    <3> HIDE DEF a
    <3>1. \A j \in 1 .. m : 2 * j - 1 \in DOMAIN d /\ (2 * j - 1) % 2 = 1
      BY <1>1
    <3>2. \A j \in 1 .. m : d[2 * j - 1] = k => 2 * j - 1 \in At(k)
      BY <3>1
    <3> QED  BY <2>1, <3>2
  <2> HIDE DEF a, At
  <2> DEFINE i == (a + 1) \div 2
  <2>4. i \in 1 .. m /\ a = 2 * i - 1 /\ a + 1 = 2 * i
    BY <2>2
  <2> HIDE DEF i
  <2>5. \A j \in 1 .. m : d[2 * j - 1] = k => j <= i
    BY <2>2, <2>3, <2>4
  <2>6. d[2 * i - 1] = k /\ d[2 * i] = d[a + 1]
    BY <2>2, <2>4
  <2>7. LastOf(d, m, k, d[a + 1])
    BY <2>4, <2>5, <2>6 DEF LastOf
  <2> QED  BY <2>7 DEF a
<1> HIDE DEF K
<1>5. DOMAIN H!Parsed(text) = K /\ \A k \in K : H!Parsed(text)[k] = d[H!Max(At(k)) + 1]
  <2> HIDE DEF At
  <2> QED  BY <1>2
<1>6. \A k \in DOMAIN H!Parsed(text) : LastOf(d, m, k, H!Parsed(text)[k])
  <2> TAKE k \in DOMAIN H!Parsed(text)
  <2>1. k \in K /\ H!Parsed(text)[k] = d[H!Max(At(k)) + 1]
    <3> HIDE DEF At
    <3> QED  BY <1>5
  <2>2. LastOf(d, m, k, d[H!Max(At(k)) + 1])
    BY <1>4, <2>1
  <2> HIDE DEF At
  <2> QED  BY <2>1, <2>2
<1> HIDE DEF At
<1> QED  BY <1>3, <1>5, <1>6

(***************************************************************************)
(* Whatever is parsed is what the beat says under the key, at some place.  *)
(***************************************************************************)
LEMMA ParsedIsSaid ==
    ASSUME NEW beat, IsBeat(beat), ~H!ParseRaises(H!Text(beat)),
           NEW k \in DOMAIN H!Parsed(H!Text(beat))
    PROVE  \E i \in 1 .. Len(beat) : beat[i][1] = k /\ beat[i][2] = H!Parsed(H!Text(beat))[k]
<1> DEFINE W == WordsOf(beat)
           text == H!Text(beat)
           d == H!Strings(H!Stripped(text))
           n == Len(beat)
           m == Len(d) \div 2
<1>1. PICK F : Reads(W, F, beat, d)
  BY StrippedStrings
<1>2. n \in Nat /\ Len(d) \in Nat /\ d \in Seq(W)
  BY <1>1, LenProperties DEF IsBeat, Reads
<1>3. Len(d) % 2 # 1
  BY DEF H!ParseRaises
<1>4. m \in 0 .. n /\ Len(d) = 2 * m
  <2>1. Len(d) >= 1 /\ IF n = 0 THEN Len(d) = 1 ELSE Len(d) <= 2 * n
    BY <1>1 DEF Reads
  <2> DEFINE L == Len(d)
  <2> HIDE DEF L, n
  <2> SUFFICES L \div 2 \in 0 .. n /\ L = 2 * (L \div 2)
    BY DEF L
  <2>2. L \in Nat /\ L % 2 # 1 /\ IF n = 0 THEN L = 1 ELSE L <= 2 * n
    BY <1>2, <1>3, <2>1 DEF L
  <2> QED  BY <1>2, <2>2
<1> HIDE DEF m, d, text, W
<1>5. PICK i \in 1 .. m : d[2 * i - 1] = k /\ d[2 * i] = H!Parsed(text)[k]
  <2>1. m \in Nat
    BY <1>2, <1>4
  <2>2. k \in DOMAIN H!Parsed(text)
    BY DEF text
  <2>3. LastOf(d, m, k, H!Parsed(text)[k])
    BY <1>2, <1>4, <2>1, <2>2, ParsedPairs DEF d
  <2> QED  BY <2>3 DEF LastOf
<1>6. i \in 1 .. n /\ d[2 * i - 1] = F[2 * i - 1] /\ d[2 * i] = F[2 * i]
  <2>1. /\ i \in 1 .. n /\ 2 * i - 1 \in 1 .. Len(d) /\ 2 * i \in 1 .. Len(d)
        /\ 2 * i - 1 <= 2 * n /\ 2 * i <= 2 * n
    BY <1>2, <1>4
  <2> QED  BY <1>1, <2>1 DEF Reads, n
<1>7. F[2 * i - 1] = beat[i][1] /\ F[2 * i] = beat[i][2]
  BY <1>1, <1>6 DEF Reads, Fields2, n
<1> QED  BY <1>5, <1>6, <1>7 DEF text, n

(***************************************************************************)
(* A beat whose last value is not empty keeps all its strings, and what is *)
(* parsed is what it means.                                                *)
(***************************************************************************)
LEMMA WholeBeatsAreRead ==
    ASSUME NEW beat, IsBeat(beat), beat # <<>>, beat[Len(beat)][2] # Blank
    PROVE  /\ ~H!ParseRaises(H!Text(beat))
           /\ H!Parsed(H!Text(beat)) = H!Meant(beat)
<1> DEFINE W == WordsOf(beat)
           text == H!Text(beat)
           d == H!Strings(H!Stripped(text))
           n == Len(beat)
           L == Len(d)
           P == H!Parsed(text)
           Places(k) == {i \in DOMAIN beat : beat[i][1] = k}
           K == {kv[1] : kv \in H!ToSet(beat)}
<1>1. PICK F : Reads(W, F, beat, d)
  BY StrippedStrings
<1>2. n \in Nat /\ n > 0 /\ DOMAIN beat = 1 .. n /\ L \in Nat /\ d \in Seq(W)
  BY <1>1, LenProperties, EmptySeq DEF IsBeat, Reads
<1>3. L = 2 * n
  <2>1. F[2 * n] # Blank
    <3>1. n \in 1 .. n
      BY <1>2
    <3> QED  BY <1>1, <3>1 DEF Reads, Fields2
  <2>2. L <= 2 * n /\ \A k \in 1 .. 2 * n : k > L => F[k] = Blank
    BY <1>1, <1>2 DEF Reads
  <2> HIDE DEF L, n
  <2> QED  BY <1>2, <2>1, <2>2
<1>4. ~H!ParseRaises(text)
  <2>1. L % 2 # 1
    <3> HIDE DEF L, n
    <3> QED  BY <1>2, <1>3
  <2> QED  BY <2>1 DEF H!ParseRaises
<1>5. \A i \in 1 .. n : d[2 * i - 1] = beat[i][1] /\ d[2 * i] = beat[i][2]
  <2> TAKE i \in 1 .. n
  <2>1. /\ 2 * i - 1 \in 1 .. L /\ 2 * i \in 1 .. L
        /\ 2 * i - 1 <= 2 * n /\ 2 * i <= 2 * n
    <3> HIDE DEF L, n
    <3> QED  BY <1>2, <1>3
  <2> QED  BY <1>1, <2>1 DEF Reads, Fields2
<1> HIDE DEF d, W, text
<1>6. /\ DOMAIN P = {d[2 * i - 1] : i \in 1 .. n}
      /\ \A k \in DOMAIN P : LastOf(d, n, k, P[k])
  <2> HIDE DEF n
  <2> QED  BY <1>2, <1>3, ParsedPairs DEF d
<1>7. H!Meant(beat) = [k \in K |-> beat[H!Max(Places(k))][2]]
  BY Zenon DEF H!Meant
<1>8. K = DOMAIN P
  <2>1. K = {beat[i][1] : i \in 1 .. n}
    BY <1>2 DEF H!ToSet
  <2> HIDE DEF K, P, n
  <2>2. DOMAIN P = {d[2 * i - 1] : i \in 1 .. n}
    BY <1>6
  <2>3. \A i \in 1 .. n : d[2 * i - 1] = beat[i][1]
    BY <1>5
  <2> QED  BY <2>1, <2>2, <2>3
<1> HIDE DEF P, n, K
<1>9. ASSUME NEW k \in K
      PROVE  P[k] = beat[H!Max(Places(k))][2]
  <2>1. PICK i \in 1 .. n : /\ d[2 * i - 1] = k /\ d[2 * i] = P[k]
                            /\ \A j \in 1 .. n : d[2 * j - 1] = k => j <= i
    BY <1>6, <1>8 DEF LastOf
  <2> DEFINE a == H!Max(Places(k))
  <2>2. i \in Places(k) /\ \A j \in Places(k) : j <= i
    BY <1>2, <1>5, <2>1
  <2>3. a \in Places(k) /\ \A j \in Places(k) : j <= a
    <3>1. Places(k) \in SUBSET (0 .. n) /\ Places(k) # {}
      BY <1>2, <2>2
    <3> HIDE DEF Places
    <3> QED  BY <1>2, <3>1, MaxNat
  <2>4. a = i
    <3>1. \A j \in Places(k) : j \in Nat
      BY <1>2
    <3> HIDE DEF a, Places
    <3> QED  BY <2>2, <2>3, <3>1
  <2> QED  BY <1>5, <2>1, <2>4
<1>10. P = [k \in K |-> beat[H!Max(Places(k))][2]]
  <2>1. P = [k \in DOMAIN P |-> P[k]]
    BY <1>2, Zenon DEF P, H!Parsed
  <2> HIDE DEF Places
  <2> QED  BY <1>8, <1>9, <2>1
<1> QED  BY <1>4, <1>7, <1>10 DEF P, text

(***************************************************************************)
(* A heartbeat without a word that is not printable passes the proxy.      *)
(***************************************************************************)
LEMMA PlainBeatsPass ==
    ASSUME NEW beat, IsBeat(beat),
           \A i \in 1 .. Len(beat) : {beat[i][1], beat[i][2]} \intersect Unprintable = {}
    PROVE  H!InspectQr(3, H!Text(beat))
<1> DEFINE text == H!Text(beat)
           n == Len(beat)
<1>1. TextOf(WordsOf(beat), beat, n, text)
  BY TextOfBeat
<1> HIDE DEF text
<1>2. text \in Seq(WordsOf(beat)) /\ Len(text) \in Nat /\ DOMAIN text = 1 .. Len(text)
  BY <1>1, LenProperties DEF TextOf
<1>3. Nul \notin Unprintable
  BY HeartbeatsAssumption, Zenon DEF H!ConstantsOK
<1>4. H!ToSet(text) \intersect Unprintable = {}
  <2>1. \A k \in 1 .. Len(text) : text[k] \notin Unprintable
    BY <1>1, <1>3 DEF TextOf
  <2> QED  BY <1>2, <2>1 DEF H!ToSet
<1>5. text # <<>> => H!Contains(text, Nul)
  <2>1. text # <<>> => Len(text) \in 1 .. Len(text) /\ text[Len(text)] = Nul
    BY <1>1, <1>2 DEF TextOf
  <2> QED  BY <1>2, <2>1 DEF H!Contains
<1> QED  BY <1>4, <1>5 DEF H!InspectQr, text

(***************************************************************************)
(* What is known of the host's side: its heartbeats are beats; a session   *)
(* that was told its console has the right one, and any other has the      *)
(* first; and the address in what was noted, and in a record, is written   *)
(* in the order of the host, or in the first one, before it was told.      *)
(***************************************************************************)
Ordered(x) ==
    "publicip" \in DOMAIN x.data =>
        x.data["publicip"] = Number[IF x.own \/ ~x.early THEN Kind ELSE 0]

SessionFields == {"known", "console", "key", "sent", "challenge", "kept", "named", "told"}

SessionOK(s) ==
    /\ SessionFields \subseteq DOMAIN s
    /\ s.told => s.console = Kind
    /\ ~s.told => s.console = 0
    /\ \A noted \in s.kept : Ordered(noted) /\ (~noted.early => s.told)

RecordOK(r) ==
    /\ r.told => r.console = Kind
    /\ ~r.told => r.console = 0 /\ r.early
    /\ Ordered(r)

HostInv ==
    /\ \A e \in net : e.opcode = 3 => e.beat \in Beats
    /\ SessionOK(session)
    /\ \A r \in record : RecordOK(r)

LEMMA NewSessionOK == SessionOK(H!NewSession)
<1>1. \A key : SessionOK([known |-> FALSE, console |-> 0, key |-> key, sent |-> FALSE,
                          challenge |-> 0, kept |-> {}, named |-> FALSE, told |-> FALSE])
  BY DEF SessionOK, SessionFields
<1> QED  BY <1>1, Zenon DEF H!NewSession

LEMMA UpdateKeepsHost ==
    ASSUME NEW s, NEW noted, H!UpdateServerList(s, noted),
           SessionOK(s), Ordered(noted), ~noted.early => s.told,
           \A r \in record : RecordOK(r)
    PROVE  SessionOK(session') /\ \A r \in record' : RecordOK(r)
<1> DEFINE k == noted.data
           new == [data |-> k, console |-> s.console, told |-> s.told,
                   early |-> noted.early, own |-> noted.own]
<1>1. CASE "gamename" \notin DOMAIN k
  <2>1. session' = s /\ record' = record
    BY <1>1 DEF H!UpdateServerList
  <2> QED  BY <2>1
<1>2. CASE "gamename" \in DOMAIN k /\ H!Says(k, "statechanged", "2")
  <2>1. session' = H!NewSession /\ record' = {}
    BY <1>2 DEF H!UpdateServerList
  <2> QED  BY <2>1, NewSessionOK
<1>3. CASE "gamename" \in DOMAIN k /\ ~H!Says(k, "statechanged", "2")
  <2>1. session' = [s EXCEPT !.named = TRUE] /\ record' = {new}
    BY <1>3 DEF H!UpdateServerList
  <2>2. SessionOK([s EXCEPT !.named = TRUE])
    BY DEF SessionOK, SessionFields
  <2>3. RecordOK(new)
    BY DEF SessionOK, RecordOK, Ordered
  <2> HIDE DEF new
  <2> QED  BY <2>1, <2>2, <2>3
<1> QED  BY <1>1, <1>2, <1>3

\* What is said of the console and of the ip is so.
LEMMA SaidIsSo ==
    ASSUME NEW beat \in Beats, ~H!ParseRaises(H!Text(beat))
    PROVE  LET k == H!Parsed(H!Text(beat))
           IN  /\ H!InName(k) => NameKind[k["gamename"]] = Kind
               /\ "publicip" \in DOMAIN k => k["publicip"] \in {"0", Number[Kind]}
<1> DEFINE k == H!Parsed(H!Text(beat))
<1>1. /\ IsBeat(beat) /\ Len(beat) \in Nat /\ DOMAIN beat = 1 .. Len(beat)
      /\ \A kv \in H!ToSet(beat) :
            /\ kv[1] = "gamename" /\ kv[2] \in DOMAIN NameKind => NameKind[kv[2]] = Kind
            /\ kv[1] = "publicip" => kv[2] \in {"0", Number[Kind]}
  <2>1. IsBeat(beat) /\ Len(beat) \in Nat /\ DOMAIN beat = 1 .. Len(beat)
    BY BeatsAreBeats, LenProperties DEF IsBeat
  <2> QED  BY <2>1, HeartbeatsAssumption, Zenon DEF H!ConstantsOK
<1>2. ASSUME NEW x \in DOMAIN k
      PROVE  \E kv \in H!ToSet(beat) : kv[1] = x /\ kv[2] = k[x]
  <2>1. PICK i \in 1 .. Len(beat) : beat[i][1] = x /\ beat[i][2] = k[x]
    BY <1>1, <1>2, ParsedIsSaid
  <2>2. beat[i] \in H!ToSet(beat)
    BY <1>1 DEF H!ToSet
  <2> QED  BY <2>1, <2>2
<1> HIDE DEF k
<1>3. H!InName(k) => NameKind[k["gamename"]] = Kind
  BY <1>1, <1>2 DEF H!InName
<1>4. "publicip" \in DOMAIN k => k["publicip"] \in {"0", Number[Kind]}
  BY <1>1, <1>2
<1> QED  BY <1>3, <1>4 DEF k

LEMMA NotedKeepsHost ==
    ASSUME NEW k, NEW found \in BOOLEAN, SessionOK(session),
           H!InName(k) => NameKind[k["gamename"]] = Kind,
           "publicip" \in DOMAIN k => k["publicip"] \in {"0", Number[Kind]}
    PROVE  LET s == H!Noted(k, found)
               noted == [data |-> H!Addressed(k, s.console), early |-> ~s.told,
                         own |-> ~H!Says(k, "publicip", "0")]
           IN  SessionOK(s) /\ Ordered(noted) /\ (~noted.early => s.told)
<1> DEFINE s == H!Noted(k, found)
           noted == [data |-> H!Addressed(k, s.console), early |-> ~s.told,
                     own |-> ~H!Says(k, "publicip", "0")]
<1>1. SessionOK(s)
  <2> DEFINE looks == H!LooksForConsole(k)
             tells == looks /\ (H!InName(k) \/ found)
  <2>1. /\ SessionFields \subseteq DOMAIN s /\ s.kept = session.kept
        /\ s.told = (session.told \/ tells)
        /\ s.console = CASE looks /\ H!InName(k) -> NameKind[k["gamename"]]
                         [] tells /\ ~H!InName(k) -> Kind
                         [] OTHER -> session.console
    BY DEF H!Noted, SessionOK, SessionFields
  <2>2. s.console = IF tells THEN Kind ELSE session.console
    BY <2>1
  <2> HIDE DEF s, tells
  <2> QED  BY <2>1, <2>2 DEF SessionOK
<1> HIDE DEF s
<1>2. Ordered(noted)
  <2>1. CASE "publicip" \in DOMAIN k
    <3>1. H!Addressed(k, s.console)["publicip"] =
              IF k["publicip"] = "0" THEN Number[s.console] ELSE k["publicip"]
      BY <2>1 DEF H!Addressed
    <3>2. H!Says(k, "publicip", "0") <=> k["publicip"] = "0"
      BY <2>1 DEF H!Says
    <3> QED  BY <1>1, <2>1, <3>1, <3>2 DEF Ordered, SessionOK
  <2>2. CASE "publicip" \notin DOMAIN k
    BY <2>2 DEF Ordered, H!Addressed
  <2> QED  BY <2>1, <2>2
<1>3. ~noted.early => s.told
  OBVIOUS
<1> QED  BY <1>1, <1>2, <1>3 DEF s

LEMMA HostInit == MatchInit => HostInv
<1> SUFFICES ASSUME MatchInit PROVE HostInv
  OBVIOUS
<1>1. net = {} /\ session = H!NewSession /\ record = {}
  BY DEF MatchInit, H!Init
<1> QED  BY <1>1, NewSessionOK DEF HostInv

\* What an answer does, whatever it is to.
LEMMA AnswerIs ==
    ASSUME NEW d, H!HandleAnswer(d)
    PROVE  \/ UNCHANGED <<session, record>>
           \/ \E noted \in session.kept : H!UpdateServerList(session, noted)
           \/ session' = [session EXCEPT !.sent = FALSE] /\ record' \in {{}, record}
<1> DEFINE right == d.challenge = session.challenge /\ session.key # ""
<1>1. IF right
      THEN IF session.kept = {} THEN UNCHANGED <<session, record>>
           ELSE \E noted \in session.kept : H!UpdateServerList(session, noted)
      ELSE /\ session' = [session EXCEPT !.sent = FALSE]
           /\ record' = IF session.named THEN {} ELSE record
  BY Zenon DEF H!HandleAnswer
<1> HIDE DEF right
<1> QED  BY <1>1

LEMMA ReceiveKeepsHost ==
    ASSUME HostInv, NEW d \in net, H!Receive(d)
    PROVE  HostInv'
<1>1. net' \subseteq net
  BY DEF H!Receive
<1>2. \A e \in net' : e.opcode = 3 => e.beat \in Beats
  BY <1>1 DEF HostInv
<1>3. SessionOK(session') /\ \A r \in record' : RecordOK(r)
  <2>1. CASE H!Drop(d) \/ H!FailToParse(d)
    <3>1. session' = session /\ record' = record
      BY <2>1 DEF H!Drop, H!FailToParse
    <3> QED  BY <3>1 DEF HostInv
  <2>2. CASE H!HandleAnswer(d)
    <3>1. CASE UNCHANGED <<session, record>>
      BY <3>1 DEF HostInv
    <3>2. ASSUME NEW noted \in session.kept, H!UpdateServerList(session, noted)
          PROVE  SessionOK(session') /\ \A r \in record' : RecordOK(r)
      <4>1. Ordered(noted) /\ (~noted.early => session.told)
        BY <3>2 DEF HostInv, SessionOK
      <4> QED  BY <3>2, <4>1, UpdateKeepsHost DEF HostInv
    <3>3. CASE session' = [session EXCEPT !.sent = FALSE] /\ record' \in {{}, record}
      <4>1. SessionOK(session')
        BY <3>3 DEF HostInv, SessionOK, SessionFields
      <4> QED  BY <3>3, <4>1 DEF HostInv
    <3> QED  BY <2>2, <3>1, <3>2, <3>3, AnswerIs
  <2>3. ASSUME NEW found \in BOOLEAN, H!HandleHeartbeat(d, found)
        PROVE  SessionOK(session') /\ \A r \in record' : RecordOK(r)
    <3> DEFINE k == H!Parsed(H!Text(d.beat))
               s == H!Noted(k, found)
               noted == [data |-> H!Addressed(k, s.console), early |-> ~s.told,
                         own |-> ~H!Says(k, "publicip", "0")]
    <3>1. d.opcode = 3 /\ ~H!ParseRaises(H!Text(d.beat)) /\ d.beat \in Beats
      BY <2>3 DEF H!HandleHeartbeat, HostInv
    <3>2. /\ H!InName(k) => NameKind[k["gamename"]] = Kind
          /\ "publicip" \in DOMAIN k => k["publicip"] \in {"0", Number[Kind]}
      BY <3>1, SaidIsSo
    <3>3. \/ H!UpdateServerList(s, noted)
          \/ /\ session' = [s EXCEPT !.challenge = H!Fresh, !.sent = TRUE, !.kept = {noted}]
             /\ record' = record
      BY <2>3 DEF H!HandleHeartbeat
    <3> HIDE DEF k
    <3>4. SessionOK(s) /\ Ordered(noted) /\ (~noted.early => s.told)
      BY <3>2, NotedKeepsHost DEF HostInv
    <3> HIDE DEF s, noted
    <3>5. CASE H!UpdateServerList(s, noted)
      BY <3>4, <3>5, UpdateKeepsHost DEF HostInv
    <3>6. CASE /\ session' = [s EXCEPT !.challenge = H!Fresh, !.sent = TRUE, !.kept = {noted}]
               /\ record' = record
      <4>1. SessionOK(session')
        BY <3>4, <3>6 DEF SessionOK, SessionFields
      <4> QED  BY <3>6, <4>1 DEF HostInv
    <3> QED  BY <3>3, <3>5, <3>6
  <2> QED  BY <2>1, <2>2, <2>3 DEF H!Receive
<1> QED  BY <1>2, <1>3 DEF HostInv

LEMMA HostStep == HostInv /\ [MatchNext]_<<vars, heartbeats>> => HostInv'
<1> SUFFICES ASSUME HostInv, [MatchNext]_<<vars, heartbeats>> PROVE HostInv'
  OBVIOUS
<1>1. CASE UNCHANGED heartbeats
  BY <1>1 DEF heartbeats, HostInv
<1>2. ASSUME NEW beat \in Beats, H!Send(beat)
      PROVE  HostInv'
  BY <1>2 DEF H!Send, HostInv
<1>3. ASSUME NEW n \in asked, H!AnswerChallenge(n)
      PROVE  HostInv'
  BY <1>3 DEF H!AnswerChallenge, HostInv
<1>4. ASSUME NEW d \in net, H!Receive(d)
      PROVE  HostInv'
  BY <1>4, ReceiveKeepsHost
<1> QED  BY <1>1, <1>2, <1>3, <1>4 DEF MatchNext, H!Next

(***************************************************************************)
(* The address in a record, read in the order of the record's console, is  *)
(* the host's; but for a heartbeat that was noted before the console was   *)
(* found, and for a host that told its ip itself and whose console was     *)
(* not.  It is the heartbeats of update_server_list and the console that   *)
(* handle_packet looks for once.                                           *)
(***************************************************************************)
THEOREM OnlyUnknownConsolesEverMislead == MatchSpec => []OnlyUnknownConsolesMislead
<1>1. HostInv => OnlyUnknownConsolesMislead
  <2> SUFFICES ASSUME HostInv, NEW r \in record
               PROVE  /\ r.told => r.console = Kind
                      /\ "publicip" \in DOMAIN r.data /\ r.data["publicip"] # Number[r.console] =>
                            \/ r.early /\ r.told /\ ~r.own
                            \/ r.own /\ ~r.told
    BY DEF OnlyUnknownConsolesMislead, H!OnlyUnknownConsolesMislead
  <2>1. RecordOK(r)
    BY DEF HostInv
  <2> QED  BY <2>1 DEF RecordOK, Ordered
<1> QED  BY <1>1, HostInit, HostStep, PTL DEF MatchSpec

(***************************************************************************)
(* Whatever a host says, the proxy drops only what is not printable, and   *)
(* the parser of the QR server reads what was meant, unless the heartbeat  *)
(* says nothing or ends with an empty value.                               *)
(***************************************************************************)
THEOREM OnlyEmptyEndsAreEverLost == MatchSpec => []OnlyEmptyEndsAreLost
<1>1. HostInv => OnlyEmptyEndsAreLost
  <2> SUFFICES ASSUME HostInv PROVE OnlyEmptyEndsAreLost
    OBVIOUS
  <2> DEFINE Ends(d) == d.beat # <<>> /\ H!Last(d.beat)[2] # Blank
             Plain(d) == \A kv \in H!ToSet(d.beat) : {kv[1], kv[2]} \intersect Unprintable = {}
  <2>1. ASSUME NEW d \in {e \in net : e.opcode = 3}
        PROVE  /\ Plain(d) => H!InspectQr(d.opcode, H!Text(d.beat))
               /\ Plain(d) /\ Ends(d) =>
                     ~H!ParseRaises(H!Text(d.beat)) /\ H!Parsed(H!Text(d.beat)) = H!Meant(d.beat)
               /\ H!ParseRaises(H!Text(d.beat)) => ~Ends(d)
    <3>1. d.opcode = 3 /\ IsBeat(d.beat)
      BY <2>1, BeatsAreBeats DEF HostInv
    <3>2. Plain(d) => H!InspectQr(d.opcode, H!Text(d.beat))
      <4>1. \A i \in 1 .. Len(d.beat) : d.beat[i] \in H!ToSet(d.beat)
        BY <3>1, LenProperties DEF IsBeat, H!ToSet
      <4>2. Plain(d) => \A i \in 1 .. Len(d.beat) :
                            {d.beat[i][1], d.beat[i][2]} \intersect Unprintable = {}
        BY <4>1
      <4> HIDE DEF Plain
      <4> QED  BY <3>1, <4>2, PlainBeatsPass
    <3>3. Ends(d) => /\ ~H!ParseRaises(H!Text(d.beat))
                      /\ H!Parsed(H!Text(d.beat)) = H!Meant(d.beat)
      BY <3>1, WholeBeatsAreRead DEF H!Last
    <3> HIDE DEF Plain, Ends
    <3> QED  BY <3>2, <3>3
  <2> QED  BY <2>1, Zenon DEF OnlyEmptyEndsAreLost, H!OnlyEmptyEndsAreLost, Blank
<1> QED  BY <1>1, HostInit, HostStep, PTL DEF MatchSpec

=============================================================================
