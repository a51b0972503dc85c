---------------------------- MODULE ProfileProofs ----------------------------
(***************************************************************************)
(* Proofs about the profile server: for any number of connections, users   *)
(* and profiles, any tables to start from and any commands, who is in the  *)
(* registry, who has a session, which friends are told and what they see   *)
(* of each other is as Profile says.                                       *)
(*                                                                         *)
(* A step of Next is one of three: a coroutine goes on and collects        *)
(* effects (Step), its effects take place (Takes), or a console does       *)
(* something (Deed).  First each action is shown to be one of them, then   *)
(* each of the three to preserve the invariant.  What friends see comes    *)
(* last, with an invariant of its own (ViewsInv).                          *)
(***************************************************************************)
EXTENDS Profile, FiniteSetTheorems, SequenceTheorems, WellFoundedInduction, TLAPS

(***************************************************************************)
(* What a connection and its console are.                                  *)
(***************************************************************************)
LoginSteps == {"check", "create", "friends", "cleanse", "insert", "pending"}
Joining == {"friends", "cleanse", "insert", "pending"}
Pc == LoginSteps \cup {"new", "read", "next", "save", "row", "reread",
                       "lost", "unsession", "bye", "closed"}
Phase == {"off", "up", "asked", "in", "refused", "out", "gone"}

Login == <<[cmd |-> "login"]>>

State == [pc : Pc, todo : Seq(Commands) \cup {Login}, eff : Seq(Effect), cur : Seq(Effect),
          profileid : Profiles \cup {NoProfile}, buddies : SUBSET Profiles,
          status : Statuses, sesskey : BOOLEAN]
Console == [phase : Phase, seen : [Profiles -> Statuses \cup {Unseen}],
            got : SUBSET Message, told : BOOLEAN, said : SUBSET Commands,
            chunk : Seq(Commands)]
Lost == [msg : Message, at : Conn \cup {NoConn}, batched : BOOLEAN]

TypesOK ==
    /\ pid_map \in [Profiles -> Conn \cup {NoConn}]
    /\ s \in [Conn -> State]
    /\ loop \in Conn \cup {NoConn}
    /\ users \subseteq [user : Range(UserOf), profileid : Profiles] /\ IsFiniteSet(users)
    /\ buddies \subseteq Profiles \X Profiles
    /\ sessions \subseteq [session : Conn, profileid : Profiles]
    /\ pending_messages \subseteq Message /\ IsFiniteSet(pending_messages)
    /\ k \in [Conn -> Console]
    /\ lost \subseteq Lost
    /\ overlap \subseteq Conn

(***************************************************************************)
(* What is true of a connection by itself: of its coroutine st, of the     *)
(* phase of its console, and of what that said, now in one chunk.          *)
(***************************************************************************)
Idle == {"new", "read", "lost", "closed"}
Ending == {"unsession", "bye"}
Working == {"read", "next", "save", "row", "reread"}

Moves(e) == e.effect \in {"register", "delete"}
IsMail(e) == e.effect = "route" /\ e.m.kind = "bm"

\* The last word of es on the registry is that p is there; or it is gone.
JoinsLast(es, p) ==
    \E i \in DOMAIN es : es[i] = Register(p) /\ \A j \in DOMAIN es : j > i => ~Moves(es[j])
LeavesLast(es, p) ==
    \E i \in DOMAIN es : es[i] = Delete(p)
                         /\ \A j \in DOMAIN es : j > i => es[j].effect # "register"

\* Where it is, and what is left of the chunk and of its effects.
FlowOK(st) ==
    /\ st.pc \in LoginSteps => st.todo = Login
    /\ st.todo = Login => st.pc \in LoginSteps \cup {"next"} /\ st.eff = <<>>
    /\ st.pc \in LoginSteps \cup (Working \ {"read"}) => Awaits
    /\ st.pc = "save" => st.todo # <<>> /\ Head(st.todo).cmd = "bm"
    /\ st.pc \in {"row", "reread"} =>
          st.todo # <<>> /\ Head(st.todo).cmd \in {"addbuddy", "delbuddy"}
    /\ st.pc \in Idle \cup Ending => st.todo = <<>>
    /\ st.pc \in Idle => st.eff = <<>>
    /\ st.pc \notin Joining => st.cur = <<>>
    /\ \A i \in DOMAIN st.todo : st.todo[i].cmd = "logout" => i = Len(st.todo)

\* Who it is.
NameOK(st, phase) ==
    /\ st.pc \in Joining => st.profileid # NoProfile
    /\ st.todo # <<>> /\ st.todo # Login => st.profileid # NoProfile
    /\ st.todo = Login => ~st.sesskey \/ st.pc = "pending"
    /\ st.todo = Login => st.profileid = NoProfile \/ st.pc \in Joining
    /\ phase \in {"off", "up"} =>
          st.profileid = NoProfile /\ ~st.sesskey /\ st.pc \in {"new", "read"}
    /\ phase = "off" <=> st.pc = "new"

\* What its effects will do to the registry.
EffectsOK(st, phase) ==
    /\ st.pc \in Joining =>
          /\ JoinsLast(st.cur, st.profileid)
          /\ \A e \in Range(st.cur) :
                ~IsMail(e) /\ (e.effect = "register" => e.pid = st.profileid)
    /\ st.todo # <<>> => \A e \in Range(st.eff) : ~Moves(e)
    /\ \A e \in Range(st.eff) : e.effect = "register" => e.pid = st.profileid
    /\ Response(LoggedIn) \in Range(st.eff) =>
          /\ JoinsLast(st.eff, st.profileid) /\ st.profileid # NoProfile
          /\ st.pc = "next" /\ st.todo = <<>>
    /\ st.pc \in Ending =>
          /\ \A e \in Range(st.eff) : e.effect # "register"
          /\ st.profileid # NoProfile => Delete(st.profileid) \in Range(st.eff)
    /\ phase = "in" =>
          /\ st.profileid # NoProfile /\ st.pc \in Working /\ st.todo # Login /\ Awaits
          /\ \A i \in DOMAIN st.todo : st.todo[i].cmd # "logout"
          /\ \A e \in Range(st.eff) : ~Moves(e)

\* What becomes of the chunk.
ChunkOK(c, st, said, chunk) ==
    /\ st.todo # Login => ToSet(st.todo) \subseteq said
    /\ st.todo # <<>> /\ st.todo # Login =>
          /\ Len(st.todo) <= Len(chunk)
          /\ Len(st.todo) = Len(chunk) => st.eff = <<>>
    /\ \A e \in Range(st.eff) : IsMail(e) =>
          /\ e.m.msg = [by |-> c, to |-> e.to]
          /\ Len(chunk) >= 1
          /\ Len(chunk) = 1 => st.pc = "next" /\ st.todo = <<>> /\ Len(st.eff) = 1

Fits(c, st, phase, said, chunk) ==
    FlowOK(st) /\ NameOK(st, phase) /\ EffectsOK(st, phase) /\ ChunkOK(c, st, said, chunk)

EachFits == \A c \in Conn : Fits(c, s[c], k[c].phase, k[c].said, k[c].chunk)

(***************************************************************************)
(* The invariant: what connections share.                                  *)
(***************************************************************************)
LoopOK == \A c \in Conn : loop = c <=> s[c].pc \in {"next", "lost", "bye"}

UsersOK ==
    /\ \A u \in users : u.profileid <= Cardinality(users)
    /\ \A u, v \in users : u.profileid = v.profileid => u = v

\* What a connection holds of a profile is its user's.
PlaysOK ==
    \A c \in Conn :
        /\ s[c].profileid # NoProfile => Plays(c, s[c].profileid)
        /\ \A e \in Range(s[c].eff) \cup Range(s[c].cur) : Moves(e) => Plays(c, e.pid)

Open(c) == s[c].pc \notin {"new", "closed"}

OverlapOK ==
    \A c, d \in Conn : c # d /\ UserOf[c] = UserOf[d] /\ Open(c) /\ Open(d) => c \in overlap

RowsOK ==
    /\ \A c \in Conn : s[c].pc = "create" =>
          c \in overlap \/ \A u \in users : u.user # UserOf[c]
    /\ \A u, v \in users : u.user = v.user /\ u # v => \E c \in overlap : UserOf[c] = u.user

SessionsOK ==
    /\ \A r \in sessions : Plays(r.session, r.profileid) /\ s[r.session].pc # "new"
    /\ \A c \in Conn, r \in sessions :
          s[c].pc = "insert" /\ r.profileid = s[c].profileid => {c, r.session} \subseteq overlap
    /\ \A q, r \in sessions :
          q.profileid = r.profileid /\ q # r => {q.session, r.session} \subseteq overlap

BuddiesOK ==
    \A c \in Conn \ overlap :
        Open(c) /\ s[c].profileid # NoProfile /\ s[c].pc \notin {"friends", "reread"}
            => s[c].buddies = BuddyList(s[c].profileid)

OnlineOK == \A c \in Conn \ overlap : k[c].phase = "in" => pid_map[s[c].profileid] = c

RoutedOK ==
    \A c \in Conn : Len(k[c].chunk) = 1 =>
        \A e \in Range(s[c].eff) : IsMail(e) => Active(e.to)

LiveOK ==
    \A c \in Conn, p \in Profiles : pid_map[p] = c =>
        Open(c) /\ (s[c].profileid = p \/ LeavesLast(s[c].eff, p))

\* Only connections that raised may stay in the registry when they are closed.
LiveUnlessRaised ==
    \A c \in Conn \ raised, p \in Profiles : pid_map[p] = c =>
        Open(c) /\ (s[c].profileid = p \/ LeavesLast(s[c].eff, p))

LogoutOf(c) == [cmd |-> "logout"] \in k[c].said

EndedOK ==
    \A r \in {q \in sessions : q.session \notin raised} :
        LET c == r.session
        IN  /\ s[c].sesskey
            /\ s[c].profileid = r.profileid \/ LogoutOf(c)
            /\ s[c].pc \in {"bye", "closed"} => LogoutOf(c)

IInv ==
    /\ TypesOK /\ EachFits /\ LoopOK
    /\ UsersOK /\ PlaysOK /\ OverlapOK /\ RowsOK /\ SessionsOK
    /\ BuddiesOK /\ OnlineOK /\ RoutedOK /\ NothingMisrouted

\* Only folded names make a handler raise.
RaisedOK == folded \in BOOLEAN /\ raised \subseteq Conn /\ (raised # {} => folded)

\* And what is true of connections that did not raise.
CalmInv == LiveUnlessRaised /\ EndedOK /\ MailIsKept

-----------------------------------------------------------------------------
(***************************************************************************)
(* A set of naturals that is not empty has a least element.                *)
(***************************************************************************)
LEMMA LeastNat ==
    ASSUME NEW T \in SUBSET Nat, T # {}
    PROVE  \E n \in T : \A m \in T : n <= m
<1> DEFINE R == {ss \in Nat \X Nat : ss[1] < ss[2]}
<1>1. IsWellFoundedOn(R, Nat)
  BY NatLessThanWellFounded DEF OpToRel
<1>2. PICK n \in T : \A m \in T : <<m, n>> \notin R
  <2> HIDE DEF R
  <2> QED  BY <1>1, WFMin
<1>3. \A m \in T : ~(m < n)
  BY <1>2
<1> QED  BY <1>3

(***************************************************************************)
(* Induction from 0 up to n, with a set for what is to be shown.           *)
(***************************************************************************)
LEMMA Upwards ==
    ASSUME NEW n \in Nat, NEW T,
           0 \in T,
           \A i \in 1 .. n : i - 1 \in T => i \in T
    PROVE  \A i \in 0 .. n : i \in T
<1> SUFFICES ASSUME NEW j \in 0 .. n, j \notin T
             PROVE  FALSE
  OBVIOUS
<1> DEFINE Gaps == {i \in 0 .. n : i \notin T}
<1>1. Gaps \in SUBSET Nat /\ Gaps # {}
  OBVIOUS
<1>2. PICK i \in Gaps : \A m \in Gaps : i <= m
  <2> HIDE DEF Gaps
  <2> QED  BY <1>1, LeastNat
<1>3. i \in 1 .. n
  BY <1>2
<1>4. i - 1 \in T
  BY <1>2, <1>3
<1> QED  BY <1>2, <1>3, <1>4

(***************************************************************************)
(* The effects of a connection, one after the other.                       *)
(***************************************************************************)
Worlds(c, world) ==
    world = [i \in 0 .. Len(s[c].eff) |->
                IF i = 0 THEN [map |-> pid_map, k |-> k, lost |-> lost]
                ELSE Apply(c, world[i - 1], s[c].eff[i])]

\* The outcome is the last of the worlds that the effects make, one from the other.
LEMMA OutcomeIsLast ==
    ASSUME NEW c, Len(s[c].eff) \in Nat
    PROVE  \E world : Worlds(c, world) /\ Outcome(c) = world[Len(s[c].eff)]
<1> DEFINE n == Len(s[c].eff)
           start == [map |-> pid_map, k |-> k, lost |-> lost]
           Upto(m, g) == g = [i \in 0 .. m |-> IF i = 0 THEN start
                                           ELSE Apply(c, g[i - 1], s[c].eff[i])]
           T == {m \in 0 .. n : \E g : Upto(m, g)}
<1>1. 0 \in T
  <2> DEFINE g == [i \in 0 .. 0 |-> start]
  <2>1. Upto(0, g)
    OBVIOUS
  <2> HIDE DEF Upto, g
  <2> QED  BY <2>1
<1>2. ASSUME NEW i \in 1 .. n, i - 1 \in T
      PROVE  i \in T
  <2>1. PICK g : Upto(i - 1, g)
    BY <1>2
  <2> DEFINE h == [j \in 0 .. i |-> IF j = i THEN Apply(c, g[i - 1], s[c].eff[i]) ELSE g[j]]
  <2>2. \A j \in 0 .. i : h[j] = IF j = 0 THEN start ELSE Apply(c, h[j - 1], s[c].eff[j])
    BY <2>1
  <2>3. Upto(i, h)
    BY <2>2
  <2> HIDE DEF Upto, h
  <2> QED  BY <2>3
<1>3. n \in T
  <2>1. n \in Nat
    OBVIOUS
  <2> HIDE DEF n, T
  <2>2. \A i \in 0 .. n : i \in T
    BY <1>1, <1>2, <2>1, Upwards
  <2> QED  BY <2>1, <2>2
<1>4. \E g : Worlds(c, g)
  BY <1>3 DEF Worlds
<1>5. Outcome(c) = (CHOOSE g : Worlds(c, g))[n]
  BY DEF Outcome, Worlds
<1>6. Worlds(c, CHOOSE g : Worlds(c, g))
  BY <1>4
<1> QED  BY <1>5, <1>6

(***************************************************************************)
(* Sequences.                                                              *)
(***************************************************************************)
LEMMA SetToSeqType ==
    ASSUME NEW S, IsFiniteSet(S)
    PROVE  Cardinality(S) \in Nat /\ SetToSeq(S) \in [1 .. Cardinality(S) -> S]
<1>1. Cardinality(S) \in Nat /\ ExistsBijection(1 .. Cardinality(S), S)
  BY FS_CardinalityType
<1>2. \E f \in [1 .. Cardinality(S) -> S] : IsInjective(f)
  BY <1>1 DEF ExistsBijection, Bijection, Injection
<1> QED  BY <1>1, <1>2 DEF SetToSeq

\* es and then fs: its elements and their places.
LEMMA Concatenation ==
    ASSUME NEW S, NEW es \in Seq(S), NEW fs \in Seq(S)
    PROVE  /\ es \o fs \in Seq(S) /\ Len(es \o fs) = Len(es) + Len(fs)
           /\ Range(es \o fs) = Range(es) \cup Range(fs)
           /\ \A i \in DOMAIN (es \o fs) :
                 (es \o fs)[i] = IF i <= Len(es) THEN es[i] ELSE fs[i - Len(es)]
           /\ DOMAIN (es \o fs) = 1 .. Len(es) + Len(fs)
           /\ DOMAIN es = 1 .. Len(es) /\ DOMAIN fs = 1 .. Len(fs)
           /\ Len(es) \in Nat /\ Len(fs) \in Nat
BY ConcatProperties, LenProperties, RangeConcatenation

(***************************************************************************)
(* What joins or leaves last still does when nothing that moves follows.   *)
(***************************************************************************)
LEMMA JoinsExtends ==
    ASSUME NEW es \in Seq(Effect), NEW fs \in Seq(Effect), NEW p,
           JoinsLast(es, p), \A e \in Range(fs) : ~Moves(e)
    PROVE  JoinsLast(es \o fs, p)
<1>1. PICK i \in DOMAIN es : es[i] = Register(p) /\ \A j \in DOMAIN es : j > i => ~Moves(es[j])
  BY DEF JoinsLast
<1>2. i \in DOMAIN (es \o fs) /\ (es \o fs)[i] = Register(p)
  BY <1>1, Concatenation
<1>3. ASSUME NEW j \in DOMAIN (es \o fs), j > i
      PROVE  ~Moves((es \o fs)[j])
  <2>1. CASE j <= Len(es)
    BY <1>1, <1>3, <2>1, Concatenation
  <2>2. CASE j > Len(es)
    <3>1. j - Len(es) \in DOMAIN fs
      BY <2>2, Concatenation
    <3>2. (es \o fs)[j] = fs[j - Len(es)]
      BY <2>2, Concatenation
    <3> QED  BY <3>1, <3>2 DEF Range
  <2> QED  BY <2>1, <2>2, Concatenation
<1> QED  BY <1>2, <1>3 DEF JoinsLast

\* Whoever left stays away when nobody registers afterwards.
LEMMA LeavesExtends ==
    ASSUME NEW es \in Seq(Effect), NEW fs \in Seq(Effect), NEW p,
           LeavesLast(es, p), \A e \in Range(fs) : e.effect # "register"
    PROVE  LeavesLast(es \o fs, p)
<1>1. PICK i \in DOMAIN es :
          es[i] = Delete(p) /\ \A j \in DOMAIN es : j > i => es[j].effect # "register"
  BY DEF LeavesLast
<1>2. i \in DOMAIN (es \o fs) /\ (es \o fs)[i] = Delete(p)
  BY <1>1, Concatenation
<1>3. ASSUME NEW j \in DOMAIN (es \o fs), j > i
      PROVE  (es \o fs)[j].effect # "register"
  <2>1. CASE j <= Len(es)
    BY <1>1, <1>3, <2>1, Concatenation
  <2>2. CASE j > Len(es)
    <3>1. j - Len(es) \in DOMAIN fs
      BY <2>2, Concatenation
    <3>2. (es \o fs)[j] = fs[j - Len(es)]
      BY <2>2, Concatenation
    <3> QED  BY <3>1, <3>2 DEF Range
  <2> QED  BY <2>1, <2>2, Concatenation
<1> QED  BY <1>2, <1>3 DEF LeavesLast

\* Whoever is deleted by what follows has left last.
LEMMA LeavesAfter ==
    ASSUME NEW es \in Seq(Effect), NEW fs \in Seq(Effect), NEW p, LeavesLast(fs, p)
    PROVE  LeavesLast(es \o fs, p)
<1>1. PICK i \in DOMAIN fs :
          fs[i] = Delete(p) /\ \A j \in DOMAIN fs : j > i => fs[j].effect # "register"
  BY DEF LeavesLast
<1> DEFINE all == es \o fs
           n == Len(es)
<1>2. /\ n \in Nat /\ Len(fs) \in Nat /\ DOMAIN fs = 1 .. Len(fs)
      /\ DOMAIN all = 1 .. n + Len(fs)
      /\ \A j \in DOMAIN all : all[j] = IF j <= n THEN es[j] ELSE fs[j - n]
  BY Concatenation
<1> HIDE DEF all, n
<1>3. n + i \in DOMAIN all /\ all[n + i] = Delete(p)
  <2>1. n + i \in DOMAIN all /\ n + i > n /\ (n + i) - n = i
    BY <1>2
  <2> QED  BY <1>1, <1>2, <2>1
<1>4. ASSUME NEW j \in DOMAIN all, j > n + i
      PROVE  all[j].effect # "register"
  <2>1. j > n /\ j - n \in DOMAIN fs /\ j - n > i
    BY <1>2, <1>4
  <2> QED  BY <1>1, <1>2, <2>1
<1> QED  BY <1>3, <1>4 DEF LeavesLast, all

\* A profile that is deleted, and nothing else, has left.
LEMMA LeavesAlone ==
    ASSUME NEW p
    PROVE  LeavesLast(<<Delete(p)>>, p)
BY DEF LeavesLast

(***************************************************************************)
(* Effects that tell somebody something, and change nothing else of what   *)
(* is proved here: neither the registry, nor a login, nor a message.       *)
(***************************************************************************)
Tidings == {e \in Effect : e.effect \in {"respond", "route"} /\ e.m.kind \notin {"lc", "bm"}}

\* Tidings leave the registry alone, and are no message and no login.
LEMMA TidingsMoveNothing ==
    \A e \in Tidings : /\ e \in Effect /\ ~Moves(e) /\ e.effect # "register"
                       /\ ~IsMail(e) /\ e # Response(LoggedIn)
                       /\ \A p, msg : e # Route(p, Mail(msg))
BY DEF Tidings, Moves, IsMail, Response, LoggedIn, Route, Mail

\* What _yield_status_to_friends yields are tidings of friends.
LEMMA RelaysAreTidings ==
    ASSUME TypesOK, NEW c \in Conn, NEW st \in Statuses, NEW targets \in SUBSET Profiles
    PROVE  Relays(c, st, targets) \in Seq(Tidings)
<1> DEFINE there == Present(c, targets)
           n == Cardinality(there)
           f == SetToSeq(there)
<1>1. there \subseteq Profiles
  BY DEF Present
<1>2. IsFiniteSet(there)
  <2>1. IsFiniteSet(Profiles)
    BY BoundAssumption, FS_Interval DEF Profiles
  <2> QED  BY <1>1, <2>1, FS_Subset
<1>3. n \in Nat /\ f \in [1 .. n -> there]
  BY <1>2, SetToSeqType
<1>4. ASSUME NEW p \in there
      PROVE  /\ Route(p, Relay(s[c].profileid, st)) \in Tidings
             /\ Response(Relay(p, StatusOf(p, c, st))) \in Tidings
  <2>1. p \in Profiles /\ pid_map[p] \in Conn
    BY <1>1, <1>4 DEF Present, Active, TypesOK
  <2>2. s[c].profileid \in Profiles \cup {NoProfile} /\ StatusOf(p, c, st) \in Statuses
    BY <2>1 DEF TypesOK, State, StatusOf
  <2> QED  BY <2>1, <2>2 DEF Tidings, Effect, Route, Response, Relay
<1>5. \A i \in 1 .. 2 * n : (i + 1) \div 2 \in 1 .. n
  BY <1>3
<1> HIDE DEF n, f
<1>6. Relays(c, st, targets) = [i \in 1 .. 2 * n |->
            IF i % 2 = 1 THEN Route(f[(i + 1) \div 2], Relay(s[c].profileid, st))
            ELSE Response(Relay(f[(i + 1) \div 2], StatusOf(f[(i + 1) \div 2], c, st)))]
  BY DEF Relays, n, f
<1>7. 2 * n \in Nat
  BY <1>3
<1>8. \A i \in 1 .. 2 * n : Relays(c, st, targets)[i] \in Tidings
  BY <1>3, <1>4, <1>5, <1>6
<1> QED  BY <1>6, <1>7, <1>8

\* What waits for a profile is delivered as effects of the right kind.
LEMMA MailIsEffects ==
    ASSUME TypesOK, NEW p
    PROVE  /\ \A i \in DOMAIN Waiting(p) : Waiting(p)[i] \in Message
           /\ [i \in DOMAIN Waiting(p) |-> Response(Mail(Waiting(p)[i]))]
                 \in Seq({e \in Effect : e.effect = "respond" /\ e.m.kind = "bm"})
<1> DEFINE S == {msg \in pending_messages : msg.to = p}
<1>1. IsFiniteSet(S) /\ S \subseteq Message
  BY FS_Subset DEF TypesOK
<1>2. Cardinality(S) \in Nat /\ Waiting(p) \in [1 .. Cardinality(S) -> S]
  BY <1>1, SetToSeqType DEF Waiting
<1> DEFINE Letters == {e \in Effect : e.effect = "respond" /\ e.m.kind = "bm"}
<1>3. \A msg \in Message : Response(Mail(msg)) \in Letters
  BY DEF Response, Mail, Effect
<1>4. \A i \in 1 .. Cardinality(S) : Waiting(p)[i] \in Message
  BY <1>1, <1>2
<1>5. DOMAIN Waiting(p) = 1 .. Cardinality(S)
  BY <1>2
<1> HIDE DEF S, Letters
<1>6. [i \in 1 .. Cardinality(S) |-> Response(Mail(Waiting(p)[i]))] \in Seq(Letters)
  BY <1>2, <1>3, <1>4
<1> QED  BY <1>4, <1>5, <1>6 DEF Letters

(***************************************************************************)
(* One effect.                                                             *)
(***************************************************************************)
World == [map : [Profiles -> Conn \cup {NoConn}], k : [Conn -> Console], lost : SUBSET Lost]

\* A console that hears something is still a console.
LEMMA HeardType ==
    ASSUME NEW con \in Console, NEW m,
           m.kind = "status" => m.f \in Profiles \cup {NoProfile} /\ m.status \in Statuses,
           m.kind = "bm" => m.msg \in Message
    PROVE  Heard(con, m) \in Console
BY DEF Heard, Console, Phase

\* What a console hears does not touch what it said, and it forgets no message.
LEMMA HeardKeeps ==
    ASSUME NEW con \in Console, NEW m
    PROVE  /\ Heard(con, m).said = con.said /\ Heard(con, m).chunk = con.chunk
           /\ con.got \subseteq Heard(con, m).got
           /\ m.kind = "bm" => m.msg \in Heard(con, m).got
           /\ m.kind \notin {"lc", "error"} => Heard(con, m).phase = con.phase
           /\ m.kind = "lc" => Heard(con, m).phase = "in"
           /\ m.kind = "error" => Heard(con, m).phase = "refused"
BY DEF Heard, Console, Phase

\* A message that is lost is remembered, with where and why.
LEMMA LoseAtType ==
    ASSUME TypesOK, NEW w \in World, NEW at \in Conn \cup {NoConn}, NEW m,
           m.kind = "bm" => m.msg \in Message
    PROVE  /\ LoseAt(w, at, m) \in World
           /\ LoseAt(w, at, m).map = w.map /\ LoseAt(w, at, m).k = w.k
           /\ w.lost \subseteq LoseAt(w, at, m).lost
           /\ m.kind # "bm" => LoseAt(w, at, m) = w
           /\ m.kind = "bm" => \E l \in LoseAt(w, at, m).lost : l.msg = m.msg
           /\ \A l \in LoseAt(w, at, m).lost \ w.lost :
                 /\ m.kind = "bm" /\ l.msg = m.msg /\ l.at = at
                 /\ l.batched = (Len(k[m.msg.by].chunk) > 1)
<1>1. CASE m.kind # "bm"
  BY <1>1 DEF LoseAt, World
<1>2. CASE m.kind = "bm"
  <2> DEFINE l == [msg |-> m.msg, at |-> at, batched |-> Len(k[m.msg.by].chunk) > 1]
  <2>1. l \in Lost
    BY <1>2 DEF Lost
  <2>2. LoseAt(w, at, m) = [w EXCEPT !.lost = @ \cup {l}]
    BY <1>2 DEF LoseAt
  <2>3. l.msg = m.msg /\ l.at = at /\ l.batched = (Len(k[m.msg.by].chunk) > 1)
    OBVIOUS
  <2> HIDE DEF l
  <2>4. LoseAt(w, at, m) = [map |-> w.map, k |-> w.k, lost |-> w.lost \cup {l}]
    BY <2>2 DEF World
  <2> QED  BY <1>2, <2>1, <2>3, <2>4 DEF World
<1> QED  BY <1>1, <1>2

(***************************************************************************)
(* What effect e of connection c makes of w is v.                          *)
(***************************************************************************)
Does(c, w, e, v) ==
    /\ \A p \in Profiles :
          v.map[p] = IF e = Register(p) THEN c ELSE IF e = Delete(p) THEN NoConn ELSE w.map[p]
    /\ \A d \in Conn : /\ v.k[d].said = w.k[d].said /\ v.k[d].chunk = w.k[d].chunk
                       /\ w.k[d].got \subseteq v.k[d].got
    /\ \A d \in Conn : v.k[d].phase # w.k[d].phase =>
          /\ d = c /\ w.k[d].phase # "gone"
          /\ \/ e = Response(LoggedIn) /\ v.k[d].phase = "in"
             \/ e = Response(Refused) /\ v.k[d].phase = "refused"
    /\ w.lost \subseteq v.lost
    /\ \A l \in v.lost \ w.lost : l.at = NoConn =>
          /\ IsMail(e) /\ w.map[e.to] = NoConn
          /\ l.batched = (Len(k[e.m.msg.by].chunk) > 1)
    /\ IsMail(e) => (\E d \in Conn : e.m.msg \in v.k[d].got) \/ \E l \in v.lost : l.msg = e.m.msg

\* What is written to a console.
Told(m) == /\ m.kind = "status" => m.f \in Profiles \cup {NoProfile} /\ m.status \in Statuses
           /\ m.kind = "bm" => m.msg \in Message

\* What a write of m to connection d makes of w is v.
Writes(w, d, m, v) ==
    /\ v.map = w.map /\ w.lost \subseteq v.lost
    /\ \A b \in Conn : /\ v.k[b].said = w.k[b].said /\ v.k[b].chunk = w.k[b].chunk
                       /\ w.k[b].got \subseteq v.k[b].got
    /\ \A b \in Conn : v.k[b].phase # w.k[b].phase =>
          /\ b = d /\ w.k[b].phase # "gone"
          /\ \/ m.kind = "lc" /\ v.k[b].phase = "in"
             \/ m.kind = "error" /\ v.k[b].phase = "refused"
    /\ \A l \in v.lost \ w.lost : l.at = d
    /\ m.kind = "bm" =>
          (\E b \in Conn : m.msg \in v.k[b].got) \/ \E l \in v.lost : l.msg = m.msg

\* A write reaches the console, or is remembered as lost.
LEMMA WriteDoes ==
    ASSUME TypesOK, NEW w \in World, NEW d \in Conn, NEW m, Told(m)
    PROVE  Write(w, d, m) \in World /\ Writes(w, d, m, Write(w, d, m))
<1>1. CASE w.k[d].phase = "gone"
  <2>1. Write(w, d, m) = LoseAt(w, d, m)
    BY <1>1 DEF Write
  <2>2. m.kind = "bm" => m.msg \in Message
    BY DEF Told
  <2>3. d \in Conn \cup {NoConn}
    OBVIOUS
  <2> QED  BY <2>1, <2>2, <2>3, LoseAtType DEF Writes
<1>2. CASE w.k[d].phase # "gone"
  <2> DEFINE con == Heard(w.k[d], m)
  <2>1. w.k \in [Conn -> Console] /\ w.k[d] \in Console
    BY DEF World
  <2>2. con \in Console
    BY <2>1, HeardType DEF Told
  <2>3. /\ con.said = w.k[d].said /\ con.chunk = w.k[d].chunk
        /\ w.k[d].got \subseteq con.got
        /\ m.kind = "bm" => m.msg \in con.got
        /\ m.kind \notin {"lc", "error"} => con.phase = w.k[d].phase
        /\ m.kind = "lc" => con.phase = "in"
        /\ m.kind = "error" => con.phase = "refused"
    BY <2>1, HeardKeeps
  <2>4. Write(w, d, m) = [map |-> w.map, k |-> [w.k EXCEPT ![d] = con], lost |-> w.lost]
    BY <1>2 DEF Write, World
  <2> HIDE DEF con
  <2> QED  BY <1>2, <2>1, <2>2, <2>3, <2>4 DEF World, Writes
<1> QED  BY <1>1, <1>2

\* An effect moves the profile it names only, and tells one console.
LEMMA ApplyDoes ==
    ASSUME TypesOK, NEW c \in Conn, NEW w \in World, NEW e \in Effect
    PROVE  Apply(c, w, e) \in World /\ Does(c, w, e, Apply(c, w, e))
<1>1. CASE e.effect = "respond"
  <2> DEFINE v == Write(w, c, e.m)
  <2>1. Apply(c, w, e) = v
    BY <1>1 DEF Apply
  <2>2. Told(e.m) /\ (e.m.kind = "lc" => e = Response(LoggedIn))
                  /\ (e.m.kind = "error" => e = Response(Refused))
    BY <1>1 DEF Effect, Told, Response, LoggedIn, Refused
  <2>3. v \in World /\ Writes(w, c, e.m, v)
    BY <2>2, WriteDoes
  <2>4. ~IsMail(e) /\ (\A p : e # Register(p) /\ e # Delete(p)) /\ c # NoConn
    BY <1>1, ConnAssumption DEF IsMail, Register, Delete
  <2> HIDE DEF v
  <2> QED  BY <2>1, <2>2, <2>3, <2>4 DEF Does, Writes
<1>2. CASE e.effect = "route"
  <2>1. Told(e.m) /\ e.to \in Profiles /\ e.m.kind \notin {"lc", "error"}
    BY <1>2 DEF Effect, Told
  <2>2. \A p : e # Register(p) /\ e # Delete(p)
    BY <1>2 DEF Register, Delete
  <2>3. CASE w.map[e.to] # NoConn
    <3>1. Apply(c, w, e) = Write(w, w.map[e.to], e.m)
      BY <1>2, <2>3 DEF Apply
    <3>2. w.map[e.to] \in Conn
      BY <2>1, <2>3 DEF World
    <3>3. IsMail(e) => e.m.kind = "bm"
      BY DEF IsMail
    <3> DEFINE d == w.map[e.to]
               v == Write(w, d, e.m)
    <3>4. v \in World /\ Writes(w, d, e.m, v)
      BY <2>1, <3>2, WriteDoes
    <3>5. Apply(c, w, e) = v /\ d \in Conn /\ d # NoConn
      BY <2>3, <3>1, <3>2
    <3> HIDE DEF v, d
    <3> QED  BY <2>1, <2>2, <3>3, <3>4, <3>5 DEF Does, Writes
  <2>4. CASE w.map[e.to] = NoConn
    <3>1. Apply(c, w, e) = LoseAt(w, NoConn, e.m)
      BY <1>2, <2>4 DEF Apply
    <3>2. e.m.kind = "bm" => e.m.msg \in Message
      BY <2>1 DEF Told
    <3>3. NoConn \in Conn \cup {NoConn}
      OBVIOUS
    <3> DEFINE v == LoseAt(w, NoConn, e.m)
    <3>4. /\ v \in World /\ v.map = w.map /\ v.k = w.k /\ w.lost \subseteq v.lost
          /\ e.m.kind = "bm" => \E l \in v.lost : l.msg = e.m.msg
          /\ \A l \in v.lost \ w.lost : e.m.kind = "bm" /\ l.batched = (Len(k[e.m.msg.by].chunk) > 1)
      BY <3>2, <3>3, LoseAtType
    <3> HIDE DEF v
    <3>5. Apply(c, w, e) = v
      BY <3>1 DEF v
    <3>6. IsMail(e) <=> e.m.kind = "bm"
      BY <1>2 DEF IsMail
    <3> QED  BY <2>2, <2>4, <3>4, <3>5, <3>6 DEF Does
  <2> QED  BY <2>3, <2>4
<1>3. CASE e.effect = "register"
  <2>1. e.pid \in Profiles /\ e = Register(e.pid)
    BY <1>3 DEF Effect, Register
  <2>2. Apply(c, w, e) = [map |-> [w.map EXCEPT ![e.pid] = c], k |-> w.k, lost |-> w.lost]
    BY <1>3 DEF Apply, World
  <2>3. ~IsMail(e) /\ \A p \in Profiles : (e = Register(p) <=> p = e.pid) /\ e # Delete(p)
    BY <1>3, <2>1 DEF IsMail, Register, Delete
  <2>4. Apply(c, w, e) \in World
    BY <2>1, <2>2 DEF World
  <2> QED  BY <2>1, <2>2, <2>3, <2>4 DEF Does, World
<1>4. CASE e.effect = "delete"
  <2>1. e.pid \in Profiles /\ e = Delete(e.pid)
    BY <1>4 DEF Effect, Delete
  <2>2. Apply(c, w, e) = [map |-> [w.map EXCEPT ![e.pid] = NoConn], k |-> w.k, lost |-> w.lost]
    BY <1>4 DEF Apply, World
  <2>3. ~IsMail(e) /\ \A p \in Profiles : (e = Delete(p) <=> p = e.pid) /\ e # Register(p)
    BY <1>4, <2>1 DEF IsMail, Register, Delete
  <2>4. Apply(c, w, e) \in World
    BY <2>1, <2>2 DEF World
  <2> QED  BY <2>1, <2>2, <2>3, <2>4 DEF Does, World
<1> QED  BY <1>1, <1>2, <1>3, <1>4 DEF Effect

(***************************************************************************)
(* All effects of a connection.                                            *)
(***************************************************************************)
Chain(c, world) ==
    /\ world[0] = [map |-> pid_map, k |-> k, lost |-> lost]
    /\ \A i \in 0 .. Len(s[c].eff) : world[i] \in World
    /\ \A i \in 1 .. Len(s[c].eff) : Does(c, world[i - 1], s[c].eff[i], world[i])

\* The effects of a connection make one world from the other, up to the outcome.
LEMMA OutcomeChain ==
    ASSUME TypesOK, NEW c \in Conn
    PROVE  /\ Len(s[c].eff) \in Nat /\ DOMAIN s[c].eff = 1 .. Len(s[c].eff)
           /\ \E world : Worlds(c, world) /\ Chain(c, world) /\ Outcome(c) = world[Len(s[c].eff)]
<1> DEFINE es == s[c].eff
           n == Len(es)
<1>1. es \in Seq(Effect) /\ n \in Nat /\ DOMAIN es = 1 .. n
  <2>1. es \in Seq(Effect)
    BY DEF TypesOK, State
  <2> HIDE DEF es
  <2> QED  BY <2>1
<1>2. PICK world : Worlds(c, world) /\ Outcome(c) = world[n]
  BY <1>1, OutcomeIsLast
<1>3. world[0] = [map |-> pid_map, k |-> k, lost |-> lost] /\ world[0] \in World
  BY <1>1, <1>2 DEF Worlds, TypesOK, World
<1>4. \A i \in 1 .. n : world[i] = Apply(c, world[i - 1], es[i]) /\ es[i] \in Effect
  <2>1. \A i \in 1 .. n : es[i] \in Effect
    <3> HIDE DEF es
    <3> QED  BY <1>1
  <2>2. \A i \in 1 .. n : i \in 0 .. n /\ i # 0
    BY <1>1
  <2> QED  BY <1>2, <2>1, <2>2 DEF Worlds
<1> HIDE DEF es, n
<1>5. \A i \in 0 .. n : world[i] \in World
  <2> DEFINE T == {i \in 0 .. n : world[i] \in World}
  <2>1. 0 \in T
    BY <1>1, <1>3
  <2>2. \A i \in 1 .. n : i - 1 \in T => i \in T
    BY <1>1, <1>4, ApplyDoes
  <2>3. \A i \in 0 .. n : i \in T
    <3> HIDE DEF T
    <3> QED  BY <1>1, <2>1, <2>2, Upwards
  <2> QED  BY <2>3
<1>6. \A i \in 1 .. n : Does(c, world[i - 1], es[i], world[i])
  <2>1. \A i \in 1 .. n : i - 1 \in 0 .. n
    BY <1>1
  <2> QED  BY <1>4, <1>5, <2>1, ApplyDoes
<1> QED  BY <1>1, <1>2, <1>3, <1>5, <1>6 DEF Chain, es, n

(***************************************************************************)
(* They say nothing for a console, and take nothing from it.  A message is *)
(* received or lost, and only one for a profile that nobody is registered  *)
(* for is lost on nobody.                                                  *)
(***************************************************************************)
LEMMA OutcomeConsoles ==
    ASSUME TypesOK, NEW c \in Conn
    PROVE  LET v == Outcome(c)
               es == s[c].eff
           IN  /\ v \in World
               /\ \A d \in Conn : /\ v.k[d].said = k[d].said /\ v.k[d].chunk = k[d].chunk
                                  /\ k[d].got \subseteq v.k[d].got
               /\ lost \subseteq v.lost
               /\ \A d \in Conn : v.k[d].phase # k[d].phase =>
                     /\ d = c /\ k[d].phase # "gone"
                     /\ \/ v.k[d].phase = "in" /\ Response(LoggedIn) \in Range(es)
                        \/ v.k[d].phase = "refused" /\ Response(Refused) \in Range(es)
<1> DEFINE es == s[c].eff
           n == Len(es)
<1>1. n \in Nat /\ DOMAIN es = 1 .. n
  BY OutcomeChain
<1>2. PICK world : Chain(c, world) /\ Outcome(c) = world[n]
  BY OutcomeChain
<1>3. /\ world[0] = [map |-> pid_map, k |-> k, lost |-> lost]
      /\ \A i \in 0 .. n : world[i] \in World
      /\ \A i \in 1 .. n : Does(c, world[i - 1], es[i], world[i]) /\ es[i] \in Range(es)
  BY <1>1, <1>2 DEF Chain, Range
<1> HIDE DEF es, n
<1> DEFINE Kept(i) ==
              /\ \A d \in Conn : /\ world[i].k[d].said = k[d].said
                                 /\ world[i].k[d].chunk = k[d].chunk
                                 /\ k[d].got \subseteq world[i].k[d].got
              /\ lost \subseteq world[i].lost
           Phased(i) ==
              \A d \in Conn : world[i].k[d].phase # k[d].phase =>
                     /\ d = c /\ k[d].phase # "gone"
                     /\ \/ world[i].k[d].phase = "in" /\ Response(LoggedIn) \in Range(es)
                        \/ world[i].k[d].phase = "refused" /\ Response(Refused) \in Range(es)
           T == {i \in 0 .. n : Kept(i) /\ Phased(i)}
<1>4. 0 \in T
  BY <1>1, <1>3
<1>5. ASSUME NEW i \in 1 .. n, i - 1 \in T
      PROVE  i \in T
  <2>1. Kept(i - 1) /\ Phased(i - 1) /\ Does(c, world[i - 1], es[i], world[i])
    BY <1>3, <1>5
  <2>2. Kept(i)
    BY <2>1 DEF Does
  <2>3. Phased(i)
    BY <2>1, <1>3 DEF Does
  <2> QED  BY <2>2, <2>3
<1>6. n \in T
  <2> HIDE DEF T
  <2>1. \A i \in 0 .. n : i \in T
    BY <1>1, <1>4, <1>5, Upwards
  <2> QED  BY <1>1, <2>1
<1>7. world[n] \in World /\ Kept(n) /\ Phased(n)
  BY <1>1, <1>3, <1>6
<1> QED  BY <1>2, <1>7 DEF es

\* Every message among the effects arrives or is lost, and is lost by nobody
\* being there only if its connection had more to do.
LEMMA OutcomeMail ==
    ASSUME TypesOK, NEW c \in Conn
    PROVE  LET v == Outcome(c)
               es == s[c].eff
           IN  /\ \A e \in Range(es) : IsMail(e) =>
                     (\E d \in Conn : e.m.msg \in v.k[d].got) \/ \E l \in v.lost : l.msg = e.m.msg
               /\ \A l \in v.lost \ lost : l.at = NoConn =>
                     \E e \in Range(es) : /\ IsMail(e)
                                          /\ Len(es) = 1 => pid_map[e.to] = NoConn
                                          /\ l.batched = (Len(k[e.m.msg.by].chunk) > 1)
<1> DEFINE es == s[c].eff
           n == Len(es)
<1>1. n \in Nat /\ DOMAIN es = 1 .. n
  BY OutcomeChain
<1>2. PICK world : Chain(c, world) /\ Outcome(c) = world[n]
  BY OutcomeChain
<1>3. /\ world[0] = [map |-> pid_map, k |-> k, lost |-> lost]
      /\ \A i \in 0 .. n : world[i] \in World
      /\ \A i \in 1 .. n : Does(c, world[i - 1], es[i], world[i]) /\ es[i] \in Range(es)
  BY <1>1, <1>2 DEF Chain, Range
<1> HIDE DEF es, n
<1> DEFINE Arrived(e, i) ==
              \/ \E d \in Conn : e.m.msg \in world[i].k[d].got
              \/ \E l \in world[i].lost : l.msg = e.m.msg
           Mailed(i) == \A j \in 1 .. i : IsMail(es[j]) => Arrived(es[j], i)
           Because(l) ==
              \E e \in Range(es) : /\ IsMail(e)
                                   /\ n = 1 => pid_map[e.to] = NoConn
                                   /\ l.batched = (Len(k[e.m.msg.by].chunk) > 1)
           Missed(i) == \A l \in world[i].lost \ lost : l.at = NoConn => Because(l)
           T == {i \in 0 .. n : Mailed(i) /\ Missed(i)}
<1>4. 0 \in T
  BY <1>1, <1>3
<1>5. ASSUME NEW i \in 1 .. n, i - 1 \in T
      PROVE  i \in T
  <2>1. Mailed(i - 1) /\ Missed(i - 1) /\ Does(c, world[i - 1], es[i], world[i])
    BY <1>3, <1>5
  <2>2. ASSUME NEW j \in 1 .. i, IsMail(es[j])
        PROVE  Arrived(es[j], i)
    <3>1. CASE j = i
      BY <2>1, <2>2, <3>1 DEF Does
    <3>2. CASE j # i
      <4>1. Arrived(es[j], i - 1)
        BY <2>1, <2>2, <3>2
      <4> QED  BY <2>1, <4>1 DEF Does
    <3> QED  BY <3>1, <3>2
  <2>3. ASSUME NEW l \in world[i].lost \ lost, l.at = NoConn
        PROVE  Because(l)
    <3>1. CASE l \in world[i - 1].lost
      BY <2>1, <2>3, <3>1
    <3>2. CASE l \notin world[i - 1].lost
      <4>1. /\ IsMail(es[i]) /\ world[i - 1].map[es[i].to] = NoConn
            /\ l.batched = (Len(k[es[i].m.msg.by].chunk) > 1)
        BY <2>1, <2>3, <3>2 DEF Does
      <4>2. n = 1 => world[i - 1].map = pid_map
        BY <1>3
      <4>3. es[i] \in Range(es)
        BY <1>3
      <4> QED  BY <4>1, <4>2, <4>3
    <3> QED  BY <3>1, <3>2
  <2> QED  BY <2>2, <2>3
<1>6. n \in T
  <2> HIDE DEF T
  <2>1. \A i \in 0 .. n : i \in T
    BY <1>1, <1>4, <1>5, Upwards
  <2> QED  BY <1>1, <2>1
<1>7. Mailed(n) /\ Missed(n)
  BY <1>6
<1>8. \A e \in Range(es) : \E j \in 1 .. n : e = es[j]
  BY <1>1 DEF Range
<1>9. \A e \in Range(es) : IsMail(e) => Arrived(e, n)
  BY <1>7, <1>8
<1> QED  BY <1>2, <1>7, <1>9 DEF es, n

(***************************************************************************)
(* What the registry is afterwards.                                        *)
(***************************************************************************)
LEMMA OutcomeRegistry ==
    ASSUME TypesOK, NEW c \in Conn, NEW p \in Profiles
    PROVE  LET new == Outcome(c).map[p]
               es == s[c].eff
           IN  /\ \/ new = pid_map[p]
                  \/ new = c /\ Register(p) \in Range(es)
                  \/ new = NoConn /\ Delete(p) \in Range(es)
               /\ JoinsLast(es, p) => new = c
               /\ LeavesLast(es, p) => new = NoConn
<1> DEFINE es == s[c].eff
           n == Len(es)
<1>1. n \in Nat /\ DOMAIN es = 1 .. n
  BY OutcomeChain
<1>2. PICK world : Chain(c, world) /\ Outcome(c) = world[n]
  BY OutcomeChain
<1>3. /\ world[0] = [map |-> pid_map, k |-> k, lost |-> lost]
      /\ \A i \in 1 .. n : Does(c, world[i - 1], es[i], world[i]) /\ es[i] \in Range(es)
  BY <1>1, <1>2 DEF Chain, Range
<1>4. \A i \in 1 .. n : world[i].map[p] = IF es[i] = Register(p) THEN c
                                          ELSE IF es[i] = Delete(p) THEN NoConn
                                          ELSE world[i - 1].map[p]
  BY <1>3 DEF Does
<1> HIDE DEF es, n
<1>5. \/ world[n].map[p] = pid_map[p]
      \/ world[n].map[p] = c /\ Register(p) \in Range(es)
      \/ world[n].map[p] = NoConn /\ Delete(p) \in Range(es)
  <2> DEFINE T == {i \in 0 .. n : \/ world[i].map[p] = pid_map[p]
                                  \/ world[i].map[p] = c /\ Register(p) \in Range(es)
                                  \/ world[i].map[p] = NoConn /\ Delete(p) \in Range(es)}
  <2>1. 0 \in T
    BY <1>1, <1>3
  <2>2. \A i \in 1 .. n : i - 1 \in T => i \in T
    BY <1>1, <1>3, <1>4
  <2>3. n \in T
    <3> HIDE DEF T
    <3>1. \A i \in 0 .. n : i \in T
      BY <1>1, <2>1, <2>2, Upwards
    <3> QED  BY <1>1, <3>1
  <2> QED  BY <2>3
<1>6. ASSUME NEW j \in 1 .. n, NEW last,
             world[j].map[p] = last,
             \A i \in 1 .. n : i > j =>
                 (es[i] = Register(p) => last = c) /\ (es[i] = Delete(p) => last = NoConn)
      PROVE  world[n].map[p] = last
  <2> DEFINE T == {i \in 0 .. n : i >= j => world[i].map[p] = last}
  <2>1. 0 \in T
    BY <1>1
  <2>2. \A i \in 1 .. n : i - 1 \in T => i \in T
    BY <1>1, <1>4, <1>6
  <2>3. n \in T
    <3> HIDE DEF T
    <3>1. \A i \in 0 .. n : i \in T
      BY <1>1, <2>1, <2>2, Upwards
    <3> QED  BY <1>1, <3>1
  <2> QED  BY <1>1, <2>3
<1>7. JoinsLast(es, p) => world[n].map[p] = c
  <2> SUFFICES ASSUME JoinsLast(es, p)
               PROVE  world[n].map[p] = c
    OBVIOUS
  <2>1. PICK j \in 1 .. n : es[j] = Register(p) /\ \A i \in 1 .. n : i > j => ~Moves(es[i])
    BY <1>1 DEF JoinsLast
  <2>2. world[j].map[p] = c
    BY <1>4, <2>1
  <2>3. \A i \in 1 .. n : i > j => es[i] # Register(p) /\ es[i] # Delete(p)
    BY <2>1 DEF Moves, Register, Delete
  <2> QED  BY <1>6, <2>2, <2>3
<1>8. LeavesLast(es, p) => world[n].map[p] = NoConn
  <2> SUFFICES ASSUME LeavesLast(es, p)
               PROVE  world[n].map[p] = NoConn
    OBVIOUS
  <2>1. PICK j \in 1 .. n :
            es[j] = Delete(p) /\ \A i \in 1 .. n : i > j => es[i].effect # "register"
    BY <1>1 DEF LeavesLast
  <2>2. world[j].map[p] = NoConn
    BY <1>4, <2>1 DEF Register, Delete
  <2>3. \A i \in 1 .. n : i > j => es[i] # Register(p)
    BY <2>1 DEF Register
  <2> QED  BY <1>6, <2>2, <2>3
<1> QED  BY <1>2, <1>5, <1>7, <1>8 DEF es, n

(***************************************************************************)
(* What is left of a chunk.                                                *)
(***************************************************************************)
LEMMA LoginIsNoCommand ==
    /\ \A x \in Commands : x.cmd # "login" /\ (x.cmd \notin {"logout", "status"} => x.who \in Profiles)
    /\ Login # <<>> /\ Login \notin Seq(Commands) /\ Head(Login).cmd = "login"
    /\ Tail(Login) = <<>> /\ Len(Login) = 1
<1>1. \A x \in Commands : x.cmd # "login" /\ (x.cmd \notin {"logout", "status"} => x.who \in Profiles)
  BY DEF Commands
<1>2. Login # <<>> /\ Len(Login) = 1 /\ Login[1].cmd = "login" /\ Head(Login).cmd = "login"
      /\ Tail(Login) = <<>>
  BY DEF Login
<1>3. Login \notin Seq(Commands)
  <2> SUFFICES ASSUME Login \in Seq(Commands)
               PROVE  FALSE
    OBVIOUS
  <2>1. Login[1] \in Commands
    <3> HIDE DEF Login
    <3> QED  BY <1>2, ElementOfSeq
  <2> QED  BY <1>1, <1>2, <2>1
<1> QED  BY <1>1, <1>2, <1>3

(***************************************************************************)
(* There is no message in a chunk that is a login.                         *)
(***************************************************************************)
LEMMA LoginIsAlone ==
    ToSet(Login) = {Head(Login)} /\ \A x \in ToSet(Login) : x.cmd = "login"
BY DEF Login, ToSet

(***************************************************************************)
(* What is left of one that is none.                                       *)
(***************************************************************************)
LEMMA TodoType ==
    ASSUME NEW st \in State, st.todo # <<>>, st.todo # Login
    PROVE  /\ st.todo \in Seq(Commands) /\ Head(st.todo) \in Commands
           /\ Tail(st.todo) \in Seq(Commands) /\ Tail(st.todo) # Login
           /\ Len(st.todo) \in Nat /\ Len(st.todo) >= 1 /\ Len(Tail(st.todo)) = Len(st.todo) - 1
           /\ Head(st.todo) = st.todo[1] /\ 1 \in DOMAIN st.todo
           /\ \A i \in DOMAIN Tail(st.todo) : i + 1 \in DOMAIN st.todo
                                              /\ Tail(st.todo)[i] = st.todo[i + 1]
           /\ ToSet(st.todo) = {Head(st.todo)} \cup ToSet(Tail(st.todo))
           /\ Tail(st.todo) = <<>> <=> Len(st.todo) = 1
<1> DEFINE todo == st.todo
<1>1. todo \in Seq(Commands) /\ todo # <<>>
  BY DEF State
<1> HIDE DEF todo
<1>2. /\ Head(todo) \in Commands /\ Tail(todo) \in Seq(Commands)
      /\ Len(todo) \in Nat /\ Len(todo) >= 1 /\ Len(Tail(todo)) = Len(todo) - 1
      /\ \A i \in 1 .. Len(Tail(todo)) : Tail(todo)[i] = todo[i + 1]
  BY <1>1, HeadTailProperties, EmptySeq, LenProperties
<1>3. DOMAIN todo = 1 .. Len(todo) /\ DOMAIN Tail(todo) = 1 .. Len(todo) - 1
  BY <1>1, <1>2, LenProperties
<1>4. Head(todo) = todo[1]
  BY <1>1
<1>5. ToSet(todo) = {Head(todo)} \cup ToSet(Tail(todo))
  <2>1. \A i \in DOMAIN todo : i = 1 \/ i - 1 \in DOMAIN Tail(todo)
    BY <1>2, <1>3
  <2>2. \A i \in DOMAIN Tail(todo) : i + 1 \in DOMAIN todo /\ Tail(todo)[i] = todo[i + 1]
    BY <1>2, <1>3
  <2>3. \A i \in DOMAIN todo : i = 1 \/ todo[i] = Tail(todo)[i - 1]
    BY <1>2, <1>3
  <2>4. 1 \in DOMAIN todo
    BY <1>2, <1>3
  <2> QED  BY <1>4, <2>1, <2>2, <2>3, <2>4 DEF ToSet
<1>6. Tail(todo) = <<>> <=> Len(todo) = 1
  <2>1. Tail(todo) \in Seq(Commands) /\ Len(Tail(todo)) = Len(todo) - 1 /\ Len(todo) \in Nat
    BY <1>2
  <2>2. Len(<<>>) = 0 /\ (Tail(todo) # <<>> => Len(Tail(todo)) # 0)
    BY <2>1, EmptySeq
  <2> QED  BY <2>1, <2>2
<1>7. \A i \in DOMAIN Tail(todo) : i + 1 \in DOMAIN todo /\ Tail(todo)[i] = todo[i + 1]
  BY <1>2, <1>3
<1>8. 1 \in DOMAIN todo /\ Tail(todo) # Login
  BY <1>2, <1>3, LoginIsNoCommand
<1> QED  BY <1>1, <1>2, <1>4, <1>5, <1>6, <1>7, <1>8 DEF todo

(***************************************************************************)
(* A logout that comes last comes last in what follows the first command.  *)
(***************************************************************************)
LEMMA LogoutStaysLast ==
    ASSUME NEW st \in State, st.todo # <<>>, st.todo # Login,
           \A i \in DOMAIN st.todo : st.todo[i].cmd = "logout" => i = Len(st.todo)
    PROVE  \A i \in DOMAIN Tail(st.todo) :
               Tail(st.todo)[i].cmd = "logout" => i = Len(Tail(st.todo))
<1> SUFFICES ASSUME NEW i \in DOMAIN Tail(st.todo), Tail(st.todo)[i].cmd = "logout"
             PROVE  i = Len(Tail(st.todo))
  OBVIOUS
<1>1. i \in Nat
  BY TodoType, LenProperties
<1>2. i + 1 = Len(st.todo)
  BY TodoType
<1> QED  BY <1>1, <1>2, TodoType

(***************************************************************************)
(* How a coroutine goes on, as values.                                     *)
(***************************************************************************)
Moved(state, label) == [state EXCEPT !.pc = label]
Returned(state, effects) ==
    [state EXCEPT !.pc = "next", !.todo = Tail(@), !.cur = << >>, !.eff = @ \o effects]
Raised(state) == [state EXCEPT !.pc = "next", !.todo = << >>, !.cur = << >>]

\* What a command may change of st before it goes on.
Touched(st, state) == state = [st EXCEPT !.status = state.status, !.buddies = state.buddies]

\* Whoever left by old has left by new.
StillLeaves(old, new) == \A p \in Profiles : LeavesLast(old, p) => LeavesLast(new, p)

\* What new has more than old moves nothing and is no message.
OnlyTells(old, new) ==
    /\ Range(old) \subseteq Range(new)
    /\ \A e \in Range(new) : Moves(e) \/ IsMail(e) => e \in Range(old)
    /\ StillLeaves(old, new)

(***************************************************************************)
(* A command that returns tidings leaves everything as it should be.       *)
(***************************************************************************)
LEMMA ReturnFits ==
    ASSUME NEW c \in Conn, NEW st \in State, NEW state \in State, Touched(st, state),
           NEW phase, NEW said, NEW chunk \in Seq(Commands), Fits(c, st, phase, said, chunk),
           st.todo # <<>>, st.pc \notin Joining,
           NEW effects \in Seq(Tidings)
    PROVE  /\ Returned(state, effects) \in State
           /\ Fits(c, Returned(state, effects), phase, said, chunk)
           /\ Range(Returned(state, effects).eff) = Range(st.eff) \cup Range(effects)
           /\ StillLeaves(st.eff, Returned(state, effects).eff)
<1> DEFINE new == Returned(state, effects)
<1>1. /\ st.todo \in Seq(Commands) \cup {Login} /\ st.eff \in Seq(Effect)
      /\ state.todo = st.todo /\ state.eff = st.eff /\ state.profileid = st.profileid
      /\ state.sesskey = st.sesskey
  BY DEF State, Touched
<1>2. effects \in Seq(Effect) /\ \A e \in Range(effects) : e \in Tidings
  <2>1. Tidings \subseteq Effect
    BY DEF Tidings
  <2> QED  BY <2>1, SeqMonotonic, RangeOfSeq
<1>3. /\ st.eff \o effects \in Seq(Effect)
      /\ Range(st.eff \o effects) = Range(st.eff) \cup Range(effects)
  BY <1>1, <1>2, Concatenation
<1>4. /\ Tail(st.todo) \in Seq(Commands) /\ Tail(st.todo) # Login
      /\ ToSet(Tail(st.todo)) \subseteq ToSet(st.todo)
      /\ st.todo = Login => Tail(st.todo) = <<>>
      /\ \A i \in DOMAIN Tail(st.todo) : Tail(st.todo)[i].cmd = "logout" => i = Len(Tail(st.todo))
      /\ Tail(st.todo) # <<>> => Len(Tail(st.todo)) < Len(chunk)
  <2>1. CASE st.todo = Login
    <3>1. Tail(st.todo) = <<>> /\ Tail(st.todo) \in Seq(Commands)
      BY <2>1, LoginIsNoCommand, EmptySeq
    <3> QED  BY <3>1, LoginIsNoCommand DEF ToSet
  <2>2. CASE st.todo # Login
    <3>1. \A i \in DOMAIN st.todo : st.todo[i].cmd = "logout" => i = Len(st.todo)
      BY DEF Fits, FlowOK
    <3>2. Len(st.todo) <= Len(chunk) /\ Len(chunk) \in Nat
      BY <2>2, LenProperties DEF Fits, ChunkOK
    <3>3. \A i \in DOMAIN Tail(st.todo) : Tail(st.todo)[i].cmd = "logout" => i = Len(Tail(st.todo))
      BY <2>2, <3>1, LogoutStaysLast
    <3>4. /\ Tail(st.todo) \in Seq(Commands) /\ Tail(st.todo) # Login
          /\ ToSet(Tail(st.todo)) \subseteq ToSet(st.todo)
          /\ Len(st.todo) \in Nat /\ Len(Tail(st.todo)) = Len(st.todo) - 1
      BY <2>2, TodoType
    <3> QED  BY <2>2, <3>2, <3>3, <3>4
  <2> QED  BY <2>1, <2>2
<1>5. /\ new.pc = "next" /\ new.todo = Tail(st.todo) /\ new.cur = <<>>
      /\ new.eff = st.eff \o effects
      /\ new.profileid = st.profileid /\ new.sesskey = st.sesskey
  BY <1>1 DEF Returned, State
<1>6. new \in State
  <2>1. <<>> \in Seq(Effect) /\ "next" \in Pc
    BY EmptySeq DEF Pc
  <2> QED  BY <1>1, <1>3, <1>4, <2>1 DEF Returned, State
<1> HIDE DEF new
<1>7. st.pc \in LoginSteps \cup (Working \ {"read"}) /\ st.pc \notin Idle \cup Ending
  BY DEF Fits, FlowOK, State, Pc, Idle, Ending, Working
<1>8. FlowOK(new)
  BY <1>4, <1>5, <1>7 DEF Fits, FlowOK, Idle, Ending, LoginSteps, Joining, Working
<1>9. NameOK(new, phase)
  BY <1>4, <1>5, <1>7, LoginIsNoCommand
  DEF Fits, NameOK, Idle, Ending, LoginSteps, Joining, Working
<1>10. Response(LoggedIn) \notin Range(new.eff)
  BY <1>2, <1>3, <1>5, TidingsMoveNothing DEF Fits, EffectsOK
<1>11. phase = "in" => \A i \in DOMAIN new.todo : new.todo[i].cmd # "logout"
  <2>1. CASE st.todo = Login
    BY <1>4, <1>5, <2>1
  <2>2. CASE st.todo # Login
    BY <1>5, <2>2, TodoType DEF Fits, EffectsOK
  <2> QED  BY <2>1, <2>2
<1>12. EffectsOK(new, phase)
  BY <1>2, <1>3, <1>4, <1>5, <1>7, <1>10, <1>11, TidingsMoveNothing
  DEF Fits, EffectsOK, Idle, Ending, Joining, Working
<1>13. \A e \in Range(new.eff) : IsMail(e) => e \in Range(st.eff)
  BY <1>2, <1>3, <1>5, TidingsMoveNothing
<1>14. Len(chunk) \in Nat
  BY LenProperties
<1>15. ChunkOK(c, new, said, chunk)
  <2>1. new.todo # Login => ToSet(new.todo) \subseteq said
    <3>1. CASE st.todo = Login
      BY <1>4, <1>5, <3>1 DEF ToSet
    <3>2. CASE st.todo # Login
      BY <1>4, <1>5, <3>2 DEF Fits, ChunkOK
    <3> QED  BY <3>1, <3>2
  <2>2. new.todo # <<>> => Len(new.todo) < Len(chunk) /\ Len(new.todo) \in Nat
    BY <1>4, <1>5, LenProperties
  <2>3. \A e \in Range(new.eff) : IsMail(e) =>
            e.m.msg = [by |-> c, to |-> e.to] /\ Len(chunk) >= 1 /\ Len(chunk) # 1
    BY <1>13 DEF Fits, ChunkOK
  <2> QED  BY <1>14, <2>1, <2>2, <2>3 DEF ChunkOK
<1>16. StillLeaves(st.eff, new.eff)
  BY <1>1, <1>2, <1>5, LeavesExtends, TidingsMoveNothing DEF StillLeaves
<1> QED  BY <1>3, <1>5, <1>6, <1>8, <1>9, <1>12, <1>15, <1>16 DEF Fits, new

(***************************************************************************)
(* So does one that raises.                                                *)
(***************************************************************************)
LEMMA RaiseFits ==
    ASSUME NEW c \in Conn, NEW st \in State, NEW state \in State,
           state.todo = st.todo, state.eff = st.eff, state.profileid = st.profileid,
           NEW phase, NEW said, NEW chunk \in Seq(Commands), Fits(c, st, phase, said, chunk),
           st.todo # <<>>
    PROVE  Raised(state) \in State /\ Fits(c, Raised(state), phase, said, chunk)
<1> DEFINE new == Raised(state)
<1>1. /\ new.pc = "next" /\ new.todo = <<>> /\ new.cur = <<>> /\ new.eff = st.eff
      /\ new.profileid = st.profileid
  BY DEF Raised, State
<1>2. new \in State
  <2>1. <<>> \in Seq(Effect) /\ <<>> \in Seq(Commands) /\ "next" \in Pc
    BY EmptySeq DEF Pc
  <2> QED  BY <2>1 DEF Raised, State
<1> HIDE DEF new
<1>3. st.pc \in LoginSteps \cup (Working \ {"read"}) /\ st.pc \notin Idle \cup Ending
  BY DEF Fits, FlowOK, State, Pc, Idle, Ending, Working
<1>4. <<>> # Login /\ DOMAIN <<>> = {} /\ ToSet(<<>>) = {}
  BY LoginIsNoCommand DEF ToSet
<1>5. FlowOK(new)
  BY <1>1, <1>3, <1>4 DEF Fits, FlowOK, Idle, Ending, LoginSteps, Joining, Working
<1>6. NameOK(new, phase)
  BY <1>1, <1>3, <1>4 DEF Fits, NameOK, Idle, Ending, LoginSteps, Joining, Working
<1>7. EffectsOK(new, phase)
  BY <1>1, <1>3, <1>4 DEF Fits, EffectsOK, Idle, Ending, Joining, Working
<1>8. ChunkOK(c, new, said, chunk)
  BY <1>1, <1>4, LenProperties DEF Fits, ChunkOK
<1> QED  BY <1>2, <1>5, <1>6, <1>7, <1>8 DEF Fits, new

-----------------------------------------------------------------------------
(***************************************************************************)
(* What a step of the server may do, if connection c takes it and its      *)
(* effects do not take place yet: st is what becomes of c.                 *)
(***************************************************************************)
Shape(c, st) ==
    /\ st \in State /\ s' = [s EXCEPT ![c] = st]
    /\ Open(c) /\ st.pc # "new"
    /\ loop \in {NoConn, c}
    /\ loop' = IF st.pc \in {"next", "lost", "bye"} THEN c ELSE NoConn
    /\ UNCHANGED <<pid_map, k, lost, overlap>>
    /\ Fits(c, st, k[c].phase, k[c].said, k[c].chunk)

Mine(c, st, rows) ==
    /\ st.profileid # NoProfile => [user |-> UserOf[c], profileid |-> st.profileid] \in rows
    /\ \A e \in Range(st.eff) \cup Range(st.cur) :
          Moves(e) => [user |-> UserOf[c], profileid |-> e.pid] \in rows

Named(c, st) ==
    /\ Mine(c, st, users')
    /\ \/ st.profileid = s[c].profileid
       \/ st.profileid = NoProfile /\ LogoutOf(c) /\ k[c].phase # "in"
       \/ s[c].profileid = NoProfile /\ ~s[c].sesskey /\ st.pc = "friends" /\ k[c].phase # "in"
    /\ \/ users' = users
       \/ /\ s[c].pc = "create" /\ Cardinality(users) + 1 \in Profiles
          /\ users' = users \cup {[user |-> UserOf[c], profileid |-> Cardinality(users) + 1]}
    /\ st.pc = "create" => users' = users /\ \A u \in users : u.user # UserOf[c]

Sessioned(c, st) ==
    /\ \/ sessions' = sessions /\ st.pc # "insert"
       \/ /\ s[c].pc \in {"cleanse", "unsession"} /\ st.profileid = s[c].profileid
          /\ sessions' = {r \in sessions : r.profileid # s[c].profileid}
       \/ /\ s[c].pc = "insert" /\ st.pc # "insert" /\ st.profileid = s[c].profileid
          /\ st.sesskey
          /\ sessions' = sessions \cup {[session |-> c, profileid |-> s[c].profileid]}
    /\ s[c].sesskey => st.sesskey
    /\ st.pc = "bye" => s[c].pc = "unsession" \/ (s[c].pc = "lost" /\ ~s[c].sesskey)
    /\ s[c].pc = "unsession" => sessions' = {r \in sessions : r.profileid # s[c].profileid}
    /\ st.pc = "closed" => c \in raised'

Befriended(c, st) ==
    /\ \/ buddies' = buddies
       \/ /\ s[c].pc = "row" /\ st.pc = "reread" /\ s[c].profileid \in Profiles
          /\ \E q \in Profiles : \/ buddies' = buddies \cup {<<s[c].profileid, q>>}
                                 \/ buddies' = buddies \ {<<s[c].profileid, q>>}
    /\ IF s[c].pc \in {"friends", "reread"}
       THEN /\ st.buddies = BuddyList(s[c].profileid) /\ buddies' = buddies
            /\ st.profileid = s[c].profileid
       ELSE st.buddies = s[c].buddies

Posted(c, st) ==
    /\ pending_messages \subseteq pending_messages'
    /\ pending_messages' \subseteq Message /\ IsFiniteSet(pending_messages')
    /\ \A e \in Range(st.eff) : IsMail(e) => e \in Range(s[c].eff) \/ Active(e.to)
    /\ c \notin raised' =>
          /\ \A x \in ToSet(s[c].todo) : x.cmd = "bm" =>
                \/ x \in ToSet(st.todo)
                \/ [by |-> c, to |-> x.who] \in pending_messages'
                \/ Route(x.who, Mail([by |-> c, to |-> x.who])) \in Range(st.eff)
          /\ Range(s[c].eff) \subseteq Range(st.eff)
          /\ \A p \in Profiles : s[c].profileid = p \/ LeavesLast(s[c].eff, p) =>
                st.profileid = p \/ LeavesLast(st.eff, p)

Step(c, st) ==
    Shape(c, st) /\ Named(c, st) /\ Sessioned(c, st) /\ Befriended(c, st) /\ Posted(c, st)

\* What every step starts from.
LocalInv == TypesOK /\ EachFits /\ LoopOK /\ UsersOK /\ PlaysOK

\* What the invariant says of one connection.
LEMMA LocalFacts ==
    ASSUME LocalInv, NEW c \in Conn
    PROVE  /\ s[c] \in State /\ Fits(c, s[c], k[c].phase, k[c].said, k[c].chunk)
           /\ k[c].phase \in Phase /\ k[c].said \subseteq Commands
           /\ k[c].chunk \in Seq(Commands)
           /\ Mine(c, s[c], users)
           /\ s[c] = [s[c] EXCEPT !.pc = s[c].pc]
BY DEF LocalInv, TypesOK, EachFits, PlaysOK, Plays, Mine, State, Console

(***************************************************************************)
(* A step that only tells others something, or goes on.                    *)
(***************************************************************************)
LEMMA PlainStep ==
    ASSUME LocalInv, NEW c \in Conn, NEW st, Shape(c, st),
           UNCHANGED tables,
           st.profileid = s[c].profileid, st.buddies = s[c].buddies,
           st.sesskey = s[c].sesskey,
           s[c].pc \notin {"friends", "reread", "unsession"},
           st.pc \notin {"create", "insert", "bye", "closed"},
           \A e \in Range(st.eff) \cup Range(st.cur) : Moves(e) =>
               e \in Range(s[c].eff) \cup Range(s[c].cur),
           \A e \in Range(st.eff) : IsMail(e) => e \in Range(s[c].eff) \/ Active(e.to),
           c \notin raised' =>
              /\ \A x \in ToSet(s[c].todo) : x.cmd = "bm" =>
                    \/ x \in ToSet(st.todo)
                    \/ Route(x.who, Mail([by |-> c, to |-> x.who])) \in Range(st.eff)
              /\ Range(s[c].eff) \subseteq Range(st.eff)
              /\ StillLeaves(s[c].eff, st.eff)
    PROVE  Step(c, st)
<1>1. Mine(c, s[c], users)
  BY LocalFacts
<1>2. Named(c, st)
  BY <1>1 DEF Named, Mine, tables
<1>3. Sessioned(c, st)
  BY DEF Sessioned, tables
<1>4. Befriended(c, st)
  BY DEF Befriended, tables
<1>5. Posted(c, st)
  BY DEF Posted, StillLeaves, tables, LocalInv, TypesOK
<1> QED  BY <1>2, <1>3, <1>4, <1>5 DEF Step

(***************************************************************************)
(* A step by its value: from s[c], with other databases or not, to st.     *)
(***************************************************************************)
LEMMA MovedFields ==
    ASSUME NEW state \in State, NEW label \in Pc
    PROVE  /\ Moved(state, label) \in State /\ Moved(state, label).pc = label
           /\ Moved(state, label).todo = state.todo /\ Moved(state, label).eff = state.eff
           /\ Moved(state, label).cur = state.cur
           /\ Moved(state, label).profileid = state.profileid
           /\ Moved(state, label).buddies = state.buddies
           /\ Moved(state, label).sesskey = state.sesskey
BY DEF Moved, State

\* A chunk whose first command is a login is nothing else.
LEMMA HeadIsLogin ==
    ASSUME NEW st \in State, st.todo # <<>>
    PROVE  /\ Head(st.todo).cmd = "login" <=> st.todo = Login
           /\ st.todo # Login => st.todo \in Seq(Commands) /\ Head(st.todo) \in Commands
                                 /\ Head(st.todo) \in ToSet(st.todo)
BY TodoType, LoginIsNoCommand

(***************************************************************************)
(* A step that returns tidings.                                            *)
(***************************************************************************)
LEMMA ReturnShape ==
    ASSUME LocalInv, NEW c \in Conn, s[c].todo # <<>>, s[c].pc \notin Joining,
           loop \in {NoConn, c},
           NEW state \in State, Touched(s[c], state), NEW effects \in Seq(Tidings),
           Return(c, state, effects), UNCHANGED <<pid_map, k, lost, overlap>>
    PROVE  LET st == Returned(state, effects)
           IN  /\ Shape(c, st)
               /\ st.pc = "next" /\ st.todo = Tail(s[c].todo) /\ st.cur = <<>>
               /\ st.profileid = s[c].profileid /\ st.sesskey = s[c].sesskey
               /\ st.buddies = state.buddies
               /\ ToSet(s[c].todo) \subseteq {Head(s[c].todo)} \cup ToSet(st.todo)
               /\ OnlyTells(s[c].eff, st.eff)
<1> DEFINE st == Returned(state, effects)
<1>1. s[c] \in State /\ Fits(c, s[c], k[c].phase, k[c].said, k[c].chunk)
      /\ k[c].chunk \in Seq(Commands)
  BY LocalFacts
<1>2. /\ st \in State /\ Fits(c, st, k[c].phase, k[c].said, k[c].chunk)
      /\ Range(st.eff) = Range(s[c].eff) \cup Range(effects)
      /\ StillLeaves(s[c].eff, st.eff)
  BY <1>1, ReturnFits
<1>3. /\ st.pc = "next" /\ st.todo = Tail(s[c].todo) /\ st.cur = <<>>
      /\ st.profileid = s[c].profileid /\ st.sesskey = s[c].sesskey
      /\ st.buddies = state.buddies
  BY <1>1 DEF Returned, Touched, State
<1>4. \A e \in Range(effects) : ~Moves(e) /\ ~IsMail(e)
  BY RangeOfSeq, TidingsMoveNothing
<1>5. ToSet(s[c].todo) \subseteq {Head(s[c].todo)} \cup ToSet(Tail(s[c].todo))
  <2>1. CASE s[c].todo = Login
    BY <2>1, LoginIsAlone
  <2>2. CASE s[c].todo # Login
    BY <1>1, <2>2, TodoType
  <2> QED  BY <2>1, <2>2
<1>6. s' = [s EXCEPT ![c] = st] /\ loop' = c
  BY DEF Return, Returned
<1>7. Open(c)
  BY <1>1 DEF Fits, FlowOK, Open, Idle
<1> HIDE DEF st
<1>8. Shape(c, st)
  BY <1>2, <1>3, <1>6, <1>7 DEF Shape
<1>9. OnlyTells(s[c].eff, st.eff)
  BY <1>2, <1>4 DEF OnlyTells
<1> QED  BY <1>3, <1>5, <1>8, <1>9 DEF st

\* A command that returns tidings.
LEMMA ReturnStep ==
    ASSUME LocalInv, NEW c \in Conn, s[c].todo # <<>>, Head(s[c].todo).cmd # "bm",
           s[c].pc \notin Joining \cup {"reread"}, loop \in {NoConn, c},
           NEW state \in State, Touched(s[c], state), state.buddies = s[c].buddies,
           NEW effects \in Seq(Tidings),
           Return(c, state, effects), UNCHANGED <<pid_map, tables, k, lost, overlap>>
    PROVE  \E st : Step(c, st)
<1> DEFINE st == Returned(state, effects)
<1>1. /\ Shape(c, st)
      /\ st.pc = "next" /\ st.todo = Tail(s[c].todo) /\ st.cur = <<>>
      /\ st.profileid = s[c].profileid /\ st.sesskey = s[c].sesskey
      /\ st.buddies = s[c].buddies
      /\ ToSet(s[c].todo) \subseteq {Head(s[c].todo)} \cup ToSet(st.todo)
      /\ OnlyTells(s[c].eff, st.eff)
  <2>1. s[c].pc \notin Joining /\ UNCHANGED <<pid_map, k, lost, overlap>>
    OBVIOUS
  <2>2. ToSet(s[c].todo) \subseteq {Head(s[c].todo)} \cup ToSet(st.todo)
    BY <2>1, ReturnShape
  <2>3. Shape(c, st) /\ OnlyTells(s[c].eff, st.eff)
    BY <2>1, ReturnShape
  <2>4. /\ st.pc = "next" /\ st.todo = Tail(s[c].todo) /\ st.cur = <<>>
        /\ st.profileid = s[c].profileid /\ st.sesskey = s[c].sesskey
        /\ st.buddies = s[c].buddies
    BY <2>1, ReturnShape
  <2> QED  BY <2>2, <2>3, <2>4
<1>2. s[c].pc \notin {"friends", "reread", "unsession"}
  BY LocalFacts DEF Fits, FlowOK, Joining, Ending
<1>3. Range(st.cur) = {}
  BY <1>1 DEF Range
<1> HIDE DEF st
<1> QED  BY <1>1, <1>2, <1>3, PlainStep DEF OnlyTells

\* A command that raises.
LEMMA RaiseStep ==
    ASSUME LocalInv, NEW c \in Conn, s[c].todo # <<>>,
           s[c].pc \notin Joining \cup {"reread"}, loop \in {NoConn, c},
           NEW state \in State, Touched(s[c], state), state.buddies = s[c].buddies,
           Raise(c, state), UNCHANGED <<pid_map, tables, k, lost, overlap>>
    PROVE  \E st : Step(c, st)
<1> DEFINE st == Raised(state)
<1>1. s[c] \in State /\ Fits(c, s[c], k[c].phase, k[c].said, k[c].chunk)
      /\ k[c].chunk \in Seq(Commands)
  BY LocalFacts
<1>2. /\ state.todo = s[c].todo /\ state.eff = s[c].eff /\ state.profileid = s[c].profileid
      /\ state.sesskey = s[c].sesskey
  BY <1>1 DEF Touched, State
<1>3. st \in State /\ Fits(c, st, k[c].phase, k[c].said, k[c].chunk)
  BY <1>1, <1>2, RaiseFits
<1>4. /\ st.pc = "next" /\ st.todo = <<>> /\ st.cur = <<>> /\ st.eff = s[c].eff
      /\ st.profileid = s[c].profileid /\ st.sesskey = s[c].sesskey
      /\ st.buddies = s[c].buddies
  BY <1>2 DEF Raised, State
<1>5. s' = [s EXCEPT ![c] = st] /\ loop' = c /\ c \in raised'
  BY DEF Raise, Raised, Fail
<1>6. Open(c) /\ s[c].pc \notin {"friends", "reread", "unsession"}
  BY <1>1 DEF Fits, FlowOK, Open, Idle, Joining, Ending
<1>7. Range(st.cur) = {}
  BY <1>4 DEF Range
<1> HIDE DEF st
<1>8. Shape(c, st)
  BY <1>3, <1>4, <1>5, <1>6 DEF Shape
<1> QED  BY <1>4, <1>5, <1>6, <1>7, <1>8, PlainStep DEF StillLeaves

-----------------------------------------------------------------------------
(* login *)

\* login waits for the token: nothing has happened yet.
LEMMA LoginAwaitsTokenStep ==
    ASSUME LocalInv, NEW c \in Conn, LoginAwaitsToken(c)
    PROVE  \E st : Step(c, st)
<1> DEFINE st == Moved(s[c], "check")
<1>1. /\ s[c].pc = "next" /\ s[c].todo # <<>> /\ Head(s[c].todo).cmd = "login"
      /\ loop \in {NoConn, c} /\ s' = [s EXCEPT ![c] = st] /\ loop' = NoConn
      /\ UNCHANGED <<pid_map, tables, k, history>>
  BY DEF LoginAwaitsToken, Turn, At, Await, Moved
<1>2. s[c] \in State /\ Fits(c, s[c], k[c].phase, k[c].said, k[c].chunk)
  BY LocalFacts
<1>3. s[c].todo = Login
  BY <1>1, <1>2, HeadIsLogin
<1>4. /\ st \in State /\ st.pc = "check" /\ st.todo = s[c].todo /\ st.eff = s[c].eff
      /\ st.cur = s[c].cur /\ st.profileid = s[c].profileid /\ st.buddies = s[c].buddies
      /\ st.sesskey = s[c].sesskey
  BY <1>2, MovedFields DEF Pc, LoginSteps
<1> HIDE DEF st
<1>5. FlowOK(st)
  BY <1>1, <1>2, <1>3, <1>4 DEF Fits, FlowOK, Idle, Ending, LoginSteps, Joining, Working
<1>6. NameOK(st, k[c].phase)
  BY <1>1, <1>2, <1>3, <1>4 DEF Fits, NameOK, Joining
<1>7. EffectsOK(st, k[c].phase)
  BY <1>1, <1>2, <1>3, <1>4, LoginIsNoCommand DEF Fits, EffectsOK, Ending, Joining
<1>8. ChunkOK(c, st, k[c].said, k[c].chunk)
  BY <1>1, <1>2, <1>3, <1>4, LoginIsNoCommand DEF Fits, ChunkOK
<1>9. Shape(c, st)
  BY <1>1, <1>4, <1>5, <1>6, <1>7, <1>8 DEF Shape, Fits, Open, history
<1> QED  BY <1>1, <1>4, <1>9, PlainStep DEF StillLeaves

\* An unknown token: the login is answered and nobody is known.
LEMMA UnknownTokenStep ==
    ASSUME LocalInv, NEW c \in Conn, UnknownToken(c)
    PROVE  \E st : Step(c, st)
<1>1. /\ s[c].pc = "check" /\ loop \in {NoConn, c}
      /\ Return(c, s[c], <<Response(Refused)>>)
      /\ UNCHANGED <<pid_map, tables, k, history>>
  BY DEF UnknownToken, At
<1>2. s[c] \in State /\ Touched(s[c], s[c])
  BY LocalFacts DEF Touched, State
<1>3. s[c].todo = Login
  BY <1>1, LocalFacts DEF Fits, FlowOK, LoginSteps
<1>4. s[c].todo # <<>> /\ Head(s[c].todo).cmd # "bm"
  BY <1>3, LoginIsNoCommand
<1>5. <<Response(Refused)>> \in Seq(Tidings)
  <2>1. Response(Refused) \in Tidings
    BY DEF Response, Refused, Tidings, Effect
  <2> QED  BY <2>1
<1> QED  BY <1>1, <1>2, <1>4, <1>5, ReturnStep DEF Joining, history

\* Nobody is found: who comes in between has a connection open at the same time.
LEMMA NewUserStep ==
    ASSUME LocalInv, NEW c \in Conn, NewUser(c)
    PROVE  \E st : Step(c, st)
<1> DEFINE st == Moved(s[c], "create")
<1>1. /\ s[c].pc = "check" /\ loop \in {NoConn, c}
      /\ s' = [s EXCEPT ![c] = st] /\ loop' = NoConn
      /\ \A u \in users : u.user # UserOf[c]
      /\ UNCHANGED <<pid_map, tables, k, history>>
  BY DEF NewUser, At, Await, Moved
<1>2. s[c] \in State /\ Fits(c, s[c], k[c].phase, k[c].said, k[c].chunk)
      /\ Mine(c, s[c], users)
  BY LocalFacts
<1>3. /\ st \in State /\ st.pc = "create" /\ st.todo = s[c].todo /\ st.eff = s[c].eff
      /\ st.cur = s[c].cur /\ st.profileid = s[c].profileid /\ st.buddies = s[c].buddies
      /\ st.sesskey = s[c].sesskey
  BY <1>2, MovedFields DEF Pc, LoginSteps
<1> HIDE DEF st
<1>4. FlowOK(st)
  BY <1>1, <1>2, <1>3 DEF Fits, FlowOK, Idle, Ending, LoginSteps, Joining, Working
<1>5. NameOK(st, k[c].phase)
  BY <1>1, <1>2, <1>3 DEF Fits, NameOK, Joining
<1>6. EffectsOK(st, k[c].phase)
  BY <1>1, <1>2, <1>3 DEF Fits, EffectsOK, Ending, Joining, Working
<1>7. ChunkOK(c, st, k[c].said, k[c].chunk)
  BY <1>1, <1>2, <1>3 DEF Fits, ChunkOK
<1>8. Shape(c, st)
  BY <1>1, <1>3, <1>4, <1>5, <1>6, <1>7 DEF Shape, Fits, Open, history
<1>9. Named(c, st)
  BY <1>1, <1>2, <1>3 DEF Named, Mine, tables
<1>10. Sessioned(c, st) /\ Befriended(c, st)
  BY <1>1, <1>3 DEF Sessioned, Befriended, tables
<1>11. Posted(c, st)
  BY <1>1, <1>3 DEF Posted, tables, LocalInv, TypesOK
<1> QED  BY <1>8, <1>9, <1>10, <1>11 DEF Step

(***************************************************************************)
(* The rest of the login before its next statement: the profile is refused *)
(* to the connection, or its kick, if any, and its registration wait.      *)
(***************************************************************************)
LEMMA AdmitStep ==
    ASSUME LocalInv, NEW c \in Conn, NEW p \in Profiles, Admit(c, p),
           s[c].pc \in {"check", "create"}, loop \in {NoConn, c},
           \/ users' = users
           \/ /\ s[c].pc = "create" /\ Cardinality(users) + 1 \in Profiles
              /\ users' = users \cup {[user |-> UserOf[c], profileid |-> Cardinality(users) + 1]},
           [user |-> UserOf[c], profileid |-> p] \in users',
           UNCHANGED <<pid_map, buddies, sessions, pending_messages, k, history>>
    PROVE  \E st : Step(c, st)
<1>1. /\ s[c] \in State /\ Fits(c, s[c], k[c].phase, k[c].said, k[c].chunk)
      /\ Mine(c, s[c], users)
  BY LocalFacts
<1>2. /\ s[c].todo = Login /\ s[c].eff = <<>> /\ s[c].cur = <<>> /\ Awaits
      /\ s[c].profileid = NoProfile /\ ~s[c].sesskey /\ k[c].phase \notin {"in", "off", "up"}
  BY <1>1, LoginIsNoCommand
  DEF Fits, FlowOK, NameOK, EffectsOK, LoginSteps, Joining, Working
<1>3. users \subseteq users'
  OBVIOUS
<1>4. CASE Return(c, s[c], <<Response(Refused)>>)
  <2> DEFINE st == Returned(s[c], <<Response(Refused)>>)
  <2>1. <<Response(Refused)>> \in Seq(Tidings)
    <3>1. Response(Refused) \in Tidings
      BY DEF Response, Refused, Tidings, Effect
    <3> QED  BY <3>1
  <2>2. Touched(s[c], s[c])
    BY <1>1 DEF Touched, State
  <2>3. s[c].todo # <<>> /\ s[c].pc \notin Joining
    BY <1>2, LoginIsNoCommand DEF Joining
  <2>4. /\ Shape(c, st)
        /\ st.pc = "next" /\ st.cur = <<>>
        /\ st.profileid = s[c].profileid /\ st.sesskey = s[c].sesskey
        /\ st.buddies = s[c].buddies
        /\ OnlyTells(s[c].eff, st.eff)
    BY <1>1, <1>4, <2>1, <2>2, <2>3, ReturnShape DEF history
  <2> HIDE DEF st
  <2>5. Named(c, st)
    <3>1. Range(st.cur) = {}
      BY <2>4 DEF Range
    <3> QED  BY <1>1, <1>2, <1>3, <2>4, <3>1 DEF Named, Mine, OnlyTells
  <2>6. Sessioned(c, st) /\ Befriended(c, st)
    BY <1>2, <2>4 DEF Sessioned, Befriended
  <2>7. Posted(c, st)
    <3>1. \A x \in ToSet(s[c].todo) : x.cmd # "bm"
      BY <1>2, LoginIsAlone
    <3>2. \A q \in Profiles : s[c].profileid # q
      BY <1>2, BoundAssumption DEF Profiles, NoProfile
    <3> QED  BY <2>4, <3>1, <3>2 DEF Posted, LocalInv, TypesOK, OnlyTells, StillLeaves
  <2> QED  BY <2>4, <2>5, <2>6, <2>7 DEF Step
<1>5. CASE ~Return(c, s[c], <<Response(Refused)>>)
  <2> DEFINE kick == IF Active(p) THEN <<Route(p, Kicked), Delete(p)>> ELSE << >>
             cur == kick \o <<Register(p)>>
             st == [s[c] EXCEPT !.profileid = p, !.cur = cur, !.pc = "friends"]
  <2>1. /\ kick \in Seq(Effect)
        /\ \A e \in Range(kick) : ~IsMail(e) /\ (Moves(e) => e.effect = "delete" /\ e.pid = p)
    <3>1. Route(p, Kicked) \in Effect /\ Delete(p) \in Effect
      BY DEF Route, Kicked, Delete, Effect
    <3>2. /\ ~Moves(Route(p, Kicked)) /\ Delete(p).effect = "delete" /\ Delete(p).pid = p
          /\ ~IsMail(Route(p, Kicked)) /\ ~IsMail(Delete(p))
      BY DEF Route, Kicked, Delete, Moves, IsMail
    <3>3. CASE Active(p)
      <4>1. kick = <<Route(p, Kicked), Delete(p)>>
        BY <3>3
      <4> QED  BY <3>1, <3>2, <4>1 DEF Range
    <3>4. CASE ~Active(p)
      <4>1. kick = <<>>
        BY <3>4
      <4> QED  BY <4>1, EmptySeq DEF Range
    <3> QED  BY <3>3, <3>4
  <2>2. /\ Register(p) \in Effect /\ Register(p).effect = "register" /\ Register(p).pid = p
        /\ <<Register(p)>> \in Seq(Effect) /\ Range(<<Register(p)>>) = {Register(p)}
    <3>1. Register(p) \in Effect /\ Register(p).effect = "register" /\ Register(p).pid = p
      BY DEF Register, Effect
    <3> QED  BY <3>1 DEF Range
  <2>3. cur \in Seq(Effect) /\ Range(cur) = Range(kick) \cup {Register(p)}
    <3> DEFINE last == <<Register(p)>>
    <3> HIDE DEF kick, last
    <3>1. last \in Seq(Effect) /\ Range(last) = {Register(p)} /\ cur = kick \o last
      BY <2>2 DEF last
    <3> HIDE DEF cur
    <3> QED  BY <2>1, <3>1, Concatenation
  <2>4. JoinsLast(cur, p)
    <3> HIDE DEF kick
    <3>1. DOMAIN cur = 1 .. Len(kick) + 1 /\ Len(kick) \in Nat
      BY <2>1, <2>2, Concatenation
    <3>2. cur[Len(kick) + 1] = Register(p)
      BY <2>1, <2>2, <3>1, Concatenation
    <3> QED  BY <3>1, <3>2 DEF JoinsLast
  <2>5. s' = [s EXCEPT ![c] = st] /\ loop' = NoConn
    BY <1>5 DEF Admit, Await
  <2> HIDE DEF cur, kick
  <2>6. /\ st \in State /\ st.pc = "friends" /\ st.todo = Login /\ st.eff = <<>>
        /\ st.cur = cur /\ st.profileid = p /\ st.buddies = s[c].buddies /\ ~st.sesskey
    BY <1>1, <1>2, <2>3 DEF State, Pc, LoginSteps
  <2> HIDE DEF st
  <2>7. p # NoProfile
    BY BoundAssumption DEF Profiles, NoProfile
  <2>8. Range(st.eff) = {}
    BY <2>6 DEF Range
  <2>9. FlowOK(st)
    BY <1>1, <1>2, <2>6 DEF Fits, FlowOK, Idle, Ending, LoginSteps, Joining, Working
  <2>10. NameOK(st, k[c].phase)
    BY <1>1, <1>2, <2>6, <2>7 DEF Fits, NameOK, Joining
  <2>11. EffectsOK(st, k[c].phase)
    BY <1>2, <2>1, <2>2, <2>3, <2>4, <2>6, <2>8 DEF EffectsOK, Ending, Joining, Moves, IsMail
  <2>12. ChunkOK(c, st, k[c].said, k[c].chunk)
    BY <2>6, <2>8 DEF ChunkOK
  <2>13. Shape(c, st)
    BY <2>5, <2>6, <2>9, <2>10, <2>11, <2>12 DEF Shape, Fits, Open, history
  <2>14. Mine(c, st, users')
    BY <2>1, <2>2, <2>3, <2>6, <2>8 DEF Mine
  <2>15. Named(c, st) /\ Sessioned(c, st) /\ Befriended(c, st)
    BY <1>2, <2>6, <2>14 DEF Named, Sessioned, Befriended
  <2>16. Posted(c, st)
    <3>1. \A x \in ToSet(s[c].todo) : x.cmd # "bm"
      BY <1>2, LoginIsAlone
    <3>2. Range(s[c].eff) = {} /\ \A q \in Profiles : s[c].profileid # q /\ ~LeavesLast(s[c].eff, q)
      BY <1>2, BoundAssumption DEF Range, LeavesLast, Profiles, NoProfile
    <3> QED  BY <2>8, <3>1, <3>2 DEF Posted, LocalInv, TypesOK
  <2> QED  BY <2>13, <2>15, <2>16 DEF Step
<1> QED  BY <1>4, <1>5

\* The row is inserted, and its profile is the new one.
LEMMA CreateUserStep ==
    ASSUME LocalInv, NEW c \in Conn, CreateUser(c)
    PROVE  \E st : Step(c, st)
<1> DEFINE p == Cardinality(users) + 1
<1>1. /\ s[c].pc = "create" /\ loop \in {NoConn, c} /\ p \in Profiles
      /\ users' = users \cup {[user |-> UserOf[c], profileid |-> p]}
      /\ Admit(c, p)
      /\ UNCHANGED <<pid_map, buddies, sessions, pending_messages, k, history>>
  BY DEF CreateUser, At
<1>2. [user |-> UserOf[c], profileid |-> p] \in users'
  BY <1>1
<1> QED  BY <1>1, <1>2, AdmitStep

\* The row is found, and its profile is the one there.
LEMMA PerformLoginStep ==
    ASSUME LocalInv, NEW c \in Conn, PerformLogin(c)
    PROVE  \E st : Step(c, st)
<1>1. /\ s[c].pc = "check" /\ loop \in {NoConn, c} /\ users' = users
      /\ UNCHANGED <<pid_map, buddies, sessions, pending_messages, k, history>>
  BY DEF PerformLogin, At, tables
<1>2. PICK u \in users : u.user = UserOf[c] /\ Admit(c, u.profileid)
  BY DEF PerformLogin
<1>3. u.profileid \in Profiles /\ u = [user |-> UserOf[c], profileid |-> u.profileid]
  BY <1>2 DEF LocalInv, TypesOK
<1>4. [user |-> UserOf[c], profileid |-> u.profileid] \in users'
  BY <1>1, <1>2, <1>3
<1> QED  BY <1>1, <1>2, <1>3, <1>4, AdmitStep

\* From here the list of friends is the one in the table.
LEMMA GetBuddyListStep ==
    ASSUME LocalInv, NEW c \in Conn, GetBuddyList(c)
    PROVE  \E st : Step(c, st)
<1> DEFINE list == BuddyList(s[c].profileid)
           st == Moved([s[c] EXCEPT !.buddies = list], "cleanse")
<1>1. /\ s[c].pc = "friends" /\ loop \in {NoConn, c}
      /\ s' = [s EXCEPT ![c] = st] /\ loop' = NoConn
      /\ UNCHANGED <<pid_map, tables, k, history>>
  BY DEF GetBuddyList, At, Await, Moved
<1>2. s[c] \in State /\ Fits(c, s[c], k[c].phase, k[c].said, k[c].chunk)
      /\ Mine(c, s[c], users)
  BY LocalFacts
<1>3. list \subseteq Profiles
  BY DEF LocalInv, TypesOK, BuddyList
<1> HIDE DEF list
<1>4. /\ st \in State /\ st.pc = "cleanse" /\ st.todo = s[c].todo /\ st.eff = s[c].eff
      /\ st.cur = s[c].cur /\ st.profileid = s[c].profileid /\ st.buddies = list
      /\ st.sesskey = s[c].sesskey
  BY <1>2, <1>3 DEF Moved, State, Pc, LoginSteps
<1> HIDE DEF st
<1>5. FlowOK(st)
  BY <1>1, <1>2, <1>4 DEF Fits, FlowOK, Idle, Ending, LoginSteps, Joining, Working
<1>6. NameOK(st, k[c].phase)
  BY <1>1, <1>2, <1>4 DEF Fits, NameOK, Joining
<1>7. EffectsOK(st, k[c].phase)
  BY <1>1, <1>2, <1>4 DEF Fits, EffectsOK, Ending, Joining, Working
<1>8. ChunkOK(c, st, k[c].said, k[c].chunk)
  BY <1>1, <1>2, <1>4 DEF Fits, ChunkOK
<1>9. Shape(c, st)
  BY <1>1, <1>4, <1>5, <1>6, <1>7, <1>8 DEF Shape, Fits, Open, history
<1>10. Named(c, st)
  BY <1>1, <1>2, <1>4 DEF Named, Mine, tables
<1>11. Sessioned(c, st) /\ Befriended(c, st)
  BY <1>1, <1>4 DEF Sessioned, Befriended, tables, list
<1>12. Posted(c, st)
  BY <1>1, <1>4 DEF Posted, tables, LocalInv, TypesOK
<1> QED  BY <1>9, <1>10, <1>11, <1>12 DEF Step

\* From here the profile has no session, or its user has two connections.
LEMMA CleanseSessionsStep ==
    ASSUME LocalInv, NEW c \in Conn, CleanseSessions(c)
    PROVE  \E st : Step(c, st)
<1> DEFINE st == Moved(s[c], "insert")
<1>1. /\ s[c].pc = "cleanse" /\ loop \in {NoConn, c}
      /\ s' = [s EXCEPT ![c] = st] /\ loop' = NoConn
      /\ sessions' = {r \in sessions : r.profileid # s[c].profileid}
      /\ UNCHANGED <<pid_map, users, buddies, pending_messages, k, history>>
  BY DEF CleanseSessions, At, Await, Moved
<1>2. s[c] \in State /\ Fits(c, s[c], k[c].phase, k[c].said, k[c].chunk)
      /\ Mine(c, s[c], users)
  BY LocalFacts
<1>3. /\ st \in State /\ st.pc = "insert" /\ st.todo = s[c].todo /\ st.eff = s[c].eff
      /\ st.cur = s[c].cur /\ st.profileid = s[c].profileid /\ st.buddies = s[c].buddies
      /\ st.sesskey = s[c].sesskey
  BY <1>2, MovedFields DEF Pc, LoginSteps
<1> HIDE DEF st
<1>4. FlowOK(st)
  BY <1>1, <1>2, <1>3 DEF Fits, FlowOK, Idle, Ending, LoginSteps, Joining, Working
<1>5. NameOK(st, k[c].phase)
  BY <1>1, <1>2, <1>3 DEF Fits, NameOK, Joining
<1>6. EffectsOK(st, k[c].phase)
  BY <1>1, <1>2, <1>3 DEF Fits, EffectsOK, Ending, Joining, Working
<1>7. ChunkOK(c, st, k[c].said, k[c].chunk)
  BY <1>1, <1>2, <1>3 DEF Fits, ChunkOK
<1>8. Shape(c, st)
  BY <1>1, <1>3, <1>4, <1>5, <1>6, <1>7 DEF Shape, Fits, Open, history
<1>9. Named(c, st) /\ Sessioned(c, st) /\ Befriended(c, st)
  BY <1>1, <1>2, <1>3 DEF Named, Mine, Sessioned, Befriended
<1>10. Posted(c, st)
  BY <1>1, <1>3 DEF Posted, LocalInv, TypesOK
<1> QED  BY <1>8, <1>9, <1>10 DEF Step

\* The session is inserted: it is the only one, or its user has two connections.
LEMMA InsertSessionStep ==
    ASSUME LocalInv, NEW c \in Conn, InsertSession(c)
    PROVE  \E st : Step(c, st)
<1> DEFINE state == [s[c] EXCEPT !.sesskey = TRUE, !.status = "1"]
           row == [session |-> c, profileid |-> s[c].profileid]
<1>1. /\ s[c].pc = "insert" /\ loop \in {NoConn, c}
      /\ sessions' = sessions \cup {row}
      /\ UNCHANGED <<pid_map, users, buddies, pending_messages, k, lost, overlap>>
  BY DEF InsertSession, At
<1>2. /\ s[c] \in State /\ Fits(c, s[c], k[c].phase, k[c].said, k[c].chunk)
      /\ Mine(c, s[c], users) /\ k[c].chunk \in Seq(Commands)
  BY LocalFacts
<1>3. /\ state \in State /\ state.todo = s[c].todo /\ state.eff = s[c].eff
      /\ state.cur = s[c].cur /\ state.profileid = s[c].profileid
      /\ state.buddies = s[c].buddies /\ state.sesskey
  BY <1>2 DEF State, Statuses
<1>4. /\ s[c].todo = Login /\ s[c].todo # <<>> /\ s[c].eff = <<>> /\ Awaits /\ s[c].profileid # NoProfile
      /\ \A x \in ToSet(s[c].todo) : x.cmd # "bm"
  BY <1>1, <1>2, LoginIsNoCommand, LoginIsAlone DEF Fits, FlowOK, NameOK, LoginSteps, Joining
<1>5. \/ s' = [s EXCEPT ![c] = Raised(state)] /\ loop' = c /\ c \in raised'
      \/ /\ s' = [s EXCEPT ![c] = Moved([state EXCEPT !.cur =
                      @ \o <<Response(LoggedIn)>> \o Relays(c, "1", s[c].buddies)], "pending")]
         /\ loop' = NoConn
  BY DEF InsertSession, Raise, Raised, Fail, Await, Moved
<1> HIDE DEF state
<1>6. CASE s' = [s EXCEPT ![c] = Raised(state)] /\ loop' = c /\ c \in raised'
  <2> DEFINE st == Raised(state)
  <2>1. st \in State /\ Fits(c, st, k[c].phase, k[c].said, k[c].chunk)
    BY <1>2, <1>3, <1>4, RaiseFits
  <2>2. /\ st.pc = "next" /\ st.todo = <<>> /\ st.cur = <<>> /\ st.eff = s[c].eff
        /\ st.profileid = s[c].profileid /\ st.sesskey
        /\ st.buddies = s[c].buddies
    BY <1>3 DEF Raised, State
  <2>3. s' = [s EXCEPT ![c] = st]
    BY <1>6
  <2>4. Range(st.cur) = {}
    BY <2>2 DEF Range
  <2> HIDE DEF st
  <2>5. Shape(c, st)
    BY <1>1, <1>6, <2>1, <2>2, <2>3 DEF Shape, Open
  <2>6. Named(c, st)
    BY <1>1, <1>2, <2>2, <2>4 DEF Named, Mine
  <2>7. Sessioned(c, st) /\ Befriended(c, st)
    BY <1>1, <1>3, <2>2 DEF Sessioned, Befriended
  <2>8. Posted(c, st)
    BY <1>1, <1>6, <2>2 DEF Posted, LocalInv, TypesOK
  <2> QED  BY <2>5, <2>6, <2>7, <2>8 DEF Step
<1>7. CASE /\ s' = [s EXCEPT ![c] = Moved([state EXCEPT !.cur =
                      @ \o <<Response(LoggedIn)>> \o Relays(c, "1", s[c].buddies)], "pending")]
           /\ loop' = NoConn
  <2> DEFINE lc == <<Response(LoggedIn)>>
             relays == Relays(c, "1", s[c].buddies)
             cur == s[c].cur \o lc \o relays
             st == Moved([state EXCEPT !.cur = cur], "pending")
  <2>1. lc \in Seq(Effect) /\ \A e \in Range(lc) : ~Moves(e) /\ ~IsMail(e)
    <3>1. Response(LoggedIn) \in Effect
      BY DEF Response, LoggedIn, Effect
    <3>2. Range(lc) = {Response(LoggedIn)}
      BY DEF Range
    <3> QED  BY <3>1, <3>2 DEF Response, Moves, IsMail
  <2>2. relays \in Seq(Effect) /\ \A e \in Range(relays) : ~Moves(e) /\ ~IsMail(e)
    <3>1. relays \in Seq(Tidings)
      BY <1>2, RelaysAreTidings DEF LocalInv, State, Statuses
    <3>2. \A e \in Range(relays) : e \in Tidings
      BY <3>1, RangeOfSeq
    <3>3. Tidings \subseteq Effect
      BY DEF Tidings
    <3>4. relays \in Seq(Effect)
      BY <3>1, <3>3, SeqMonotonic
    <3> QED  BY <3>2, <3>4, TidingsMoveNothing
  <2>3. s' = [s EXCEPT ![c] = st]
    BY <1>3, <1>7
  <2>4. s[c].cur \in Seq(Effect) /\ JoinsLast(s[c].cur, s[c].profileid)
        /\ \A e \in Range(s[c].cur) :
              ~IsMail(e) /\ (e.effect = "register" => e.pid = s[c].profileid)
    BY <1>1, <1>2 DEF Fits, EffectsOK, Joining, State
  <2> HIDE DEF lc, relays
  <2>5. /\ cur \in Seq(Effect) /\ JoinsLast(cur, s[c].profileid)
        /\ Range(cur) = Range(s[c].cur) \cup Range(lc) \cup Range(relays)
    <3> DEFINE first == s[c].cur \o lc
    <3>1. /\ first \in Seq(Effect) /\ JoinsLast(first, s[c].profileid)
          /\ Range(first) = Range(s[c].cur) \cup Range(lc)
      BY <2>1, <2>4, Concatenation, JoinsExtends
    <3> HIDE DEF first
    <3>2. first \o relays \in Seq(Effect) /\ JoinsLast(first \o relays, s[c].profileid)
          /\ Range(first \o relays) = Range(first) \cup Range(relays)
      BY <2>2, <3>1, Concatenation, JoinsExtends
    <3> QED  BY <3>1, <3>2 DEF first
  <2> HIDE DEF cur
  <2>6. /\ st \in State /\ st.pc = "pending" /\ st.todo = Login /\ st.eff = <<>>
        /\ st.cur = cur /\ st.profileid = s[c].profileid /\ st.buddies = s[c].buddies
        /\ st.sesskey
    BY <1>3, <1>4, <2>5 DEF Moved, State, Pc, LoginSteps
  <2> HIDE DEF st
  <2>7. Range(st.eff) = {}
    BY <2>6 DEF Range
  <2>8. \A e \in Range(cur) : /\ ~IsMail(e) /\ (e.effect = "register" => e.pid = s[c].profileid)
                              /\ Moves(e) => e \in Range(s[c].cur)
    BY <2>1, <2>2, <2>4, <2>5 DEF Moves
  <2>9. FlowOK(st)
    BY <1>1, <1>2, <1>4, <2>6 DEF Fits, FlowOK, Idle, Ending, LoginSteps, Joining, Working
  <2>10. NameOK(st, k[c].phase)
    BY <1>1, <1>2, <1>4, <2>6 DEF Fits, NameOK, Joining
  <2>11. EffectsOK(st, k[c].phase)
    BY <1>1, <1>2, <1>4, <2>5, <2>6, <2>7, <2>8 DEF Fits, EffectsOK, Ending, Joining
  <2>12. ChunkOK(c, st, k[c].said, k[c].chunk)
    BY <2>6, <2>7 DEF ChunkOK
  <2>13. Shape(c, st)
    BY <1>1, <1>7, <2>3, <2>6, <2>9, <2>10, <2>11, <2>12 DEF Shape, Fits, Open
  <2>14. Named(c, st)
    BY <1>1, <1>2, <2>6, <2>7, <2>8 DEF Named, Mine
  <2>15. Sessioned(c, st) /\ Befriended(c, st)
    BY <1>1, <2>6 DEF Sessioned, Befriended
  <2>16. Posted(c, st)
    BY <1>1, <1>4, <2>6, <2>7 DEF Posted, LocalInv, TypesOK
  <2> QED  BY <2>13, <2>14, <2>15, <2>16 DEF Step
<1> QED  BY <1>5, <1>6, <1>7

\* The login is complete: its effects will register the profile last.
LEMMA GetPendingMessagesStep ==
    ASSUME LocalInv, NEW c \in Conn, GetPendingMessages(c)
    PROVE  \E st : Step(c, st)
<1> DEFINE cur == s[c].cur
           mail == [i \in DOMAIN Waiting(s[c].profileid) |->
                       Response(Mail(Waiting(s[c].profileid)[i]))]
           st == Returned(s[c], cur \o mail)
<1>1. /\ s[c].pc = "pending" /\ loop \in {NoConn, c}
      /\ s' = [s EXCEPT ![c] = st] /\ loop' = c
      /\ UNCHANGED <<pid_map, tables, k, history>>
  BY DEF GetPendingMessages, At, Return, Returned
<1>2. /\ s[c] \in State /\ Fits(c, s[c], k[c].phase, k[c].said, k[c].chunk)
      /\ Mine(c, s[c], users) /\ k[c].chunk \in Seq(Commands)
  BY LocalFacts
<1>3. /\ s[c].todo = Login /\ s[c].todo # <<>> /\ s[c].eff = <<>> /\ Awaits /\ s[c].profileid # NoProfile
      /\ \A x \in ToSet(s[c].todo) : x.cmd # "bm"
      /\ k[c].phase \notin {"in", "up", "off"}
  BY <1>1, <1>2, LoginIsNoCommand, LoginIsAlone
  DEF Fits, FlowOK, NameOK, EffectsOK, LoginSteps, Joining
<1>4. cur \in Seq(Effect) /\ JoinsLast(cur, s[c].profileid)
      /\ \A e \in Range(cur) : ~IsMail(e) /\ (e.effect = "register" => e.pid = s[c].profileid)
  BY <1>1, <1>2 DEF Fits, EffectsOK, Joining, State
<1>5. mail \in Seq(Effect) /\ \A e \in Range(mail) : ~Moves(e) /\ ~IsMail(e)
  <2> DEFINE Letters == {e \in Effect : e.effect = "respond" /\ e.m.kind = "bm"}
  <2>1. mail \in Seq(Letters)
    BY MailIsEffects DEF LocalInv
  <2>2. Letters \subseteq Effect /\ \A e \in Letters : ~Moves(e) /\ ~IsMail(e)
    BY DEF Moves, IsMail
  <2> HIDE DEF Letters, mail
  <2> QED  BY <2>1, <2>2, SeqMonotonic, RangeOfSeq
<1> HIDE DEF mail, cur
<1>6. /\ cur \o mail \in Seq(Effect) /\ JoinsLast(cur \o mail, s[c].profileid)
      /\ Range(cur \o mail) = Range(cur) \cup Range(mail)
  BY <1>4, <1>5, Concatenation, JoinsExtends
<1> DEFINE es == cur \o mail
<1> HIDE DEF es
<1>7. /\ st \in State /\ st.pc = "next" /\ st.todo = <<>> /\ st.eff = es /\ st.cur = <<>>
      /\ st.profileid = s[c].profileid /\ st.buddies = s[c].buddies
      /\ st.sesskey = s[c].sesskey
  <2>1. <<>> \o es = es
    BY <1>6, ConcatEmptySeq DEF es
  <2>2. Tail(s[c].todo) = <<>> /\ <<>> \in Seq(Effect) /\ <<>> \in Seq(Commands)
    BY <1>3, LoginIsNoCommand, EmptySeq
  <2>3. st = Returned(s[c], es)
    BY DEF es
  <2> HIDE DEF st
  <2> QED  BY <1>2, <1>3, <1>6, <2>1, <2>2, <2>3 DEF Returned, State, Pc, es
<1> HIDE DEF st
<1>8. \A e \in Range(es) : /\ ~IsMail(e) /\ (e.effect = "register" => e.pid = s[c].profileid)
                           /\ Moves(e) => e \in Range(s[c].cur)
  BY <1>4, <1>5, <1>6 DEF Moves, es, cur
<1>9. Range(st.cur) = {} /\ DOMAIN st.todo = {} /\ ToSet(st.todo) = {} /\ st.todo # Login
  BY <1>7, LoginIsNoCommand DEF Range, ToSet
<1>10. FlowOK(st)
  BY <1>1, <1>3, <1>7, <1>9 DEF FlowOK, Idle, Ending, LoginSteps, Joining, Working
<1>11. NameOK(st, k[c].phase)
  BY <1>1, <1>2, <1>3, <1>7, <1>9 DEF Fits, NameOK, Joining
<1>12. EffectsOK(st, k[c].phase)
  BY <1>3, <1>6, <1>7, <1>8 DEF EffectsOK, Ending, Joining, es
<1>13. ChunkOK(c, st, k[c].said, k[c].chunk)
  BY <1>7, <1>8, <1>9 DEF ChunkOK
<1>14. Shape(c, st)
  BY <1>1, <1>7, <1>10, <1>11, <1>12, <1>13 DEF Shape, Fits, Open, history
<1>15. Named(c, st)
  BY <1>1, <1>2, <1>7, <1>8, <1>9 DEF Named, Mine, tables
<1>16. Sessioned(c, st) /\ Befriended(c, st)
  BY <1>1, <1>7 DEF Sessioned, Befriended, tables
<1>17. Posted(c, st)
  <2>1. Range(s[c].eff) = {} /\ \A q \in Profiles : ~LeavesLast(s[c].eff, q)
    BY <1>3 DEF Range, LeavesLast
  <2> QED  BY <1>1, <1>3, <1>7, <1>8, <2>1 DEF Posted, LocalInv, TypesOK, tables
<1> QED  BY <1>14, <1>15, <1>16, <1>17 DEF Step

-----------------------------------------------------------------------------
(* The other commands. *)

(***************************************************************************)
(* A command at its turn is one of those its console said, and not the     *)
(* login.                                                                  *)
(***************************************************************************)
LEMMA TurnFacts ==
    ASSUME LocalInv, NEW c \in Conn, s[c].todo # <<>>, Head(s[c].todo).cmd # "login"
    PROVE  /\ s[c].todo # Login /\ s[c].todo \in Seq(Commands)
           /\ Head(s[c].todo) \in Commands /\ Head(s[c].todo) \in ToSet(s[c].todo)
           /\ Head(s[c].todo) \in k[c].said
           /\ s[c].profileid \in Profiles /\ s[c].profileid # NoProfile
           /\ k[c].phase \notin {"off", "up"}
<1>1. s[c] \in State /\ Fits(c, s[c], k[c].phase, k[c].said, k[c].chunk)
  BY LocalFacts
<1>2. /\ s[c].todo # Login /\ s[c].todo \in Seq(Commands)
      /\ Head(s[c].todo) \in Commands /\ Head(s[c].todo) \in ToSet(s[c].todo)
  BY <1>1, HeadIsLogin
<1>3. Head(s[c].todo) \in k[c].said
  BY <1>1, <1>2 DEF Fits, ChunkOK
<1>4. s[c].profileid # NoProfile /\ s[c].profileid \in Profiles
  BY <1>1, <1>2 DEF Fits, NameOK, State
<1>5. k[c].phase \notin {"off", "up"}
  BY <1>1, <1>2, <1>4 DEF Fits, NameOK
<1> QED  BY <1>2, <1>3, <1>4, <1>5

\* The status is told to friends.
LEMMA StatusStep ==
    ASSUME LocalInv, NEW c \in Conn, Status(c)
    PROVE  \E st : Step(c, st)
<1> DEFINE state == [s[c] EXCEPT !.status = "2"]
           relays == Relays(c, "2", s[c].buddies)
<1>1. /\ s[c].pc = "next" /\ s[c].todo # <<>> /\ Head(s[c].todo).cmd = "status"
      /\ loop \in {NoConn, c}
      /\ Raise(c, state) \/ Return(c, state, relays)
      /\ UNCHANGED <<pid_map, tables, k, lost, overlap>>
  BY DEF Status, Turn, At
<1>2. s[c] \in State
  BY LocalFacts
<1>3. state \in State /\ Touched(s[c], state) /\ state.buddies = s[c].buddies
  BY <1>2 DEF State, Statuses, Touched
<1>4. relays \in Seq(Tidings)
  BY <1>2, RelaysAreTidings DEF LocalInv, State, Statuses
<1>5. s[c].pc \notin Joining \cup {"reread"}
  BY <1>1 DEF Joining
<1> HIDE DEF state, relays
<1>6. CASE Raise(c, state)
  BY <1>1, <1>3, <1>5, <1>6, RaiseStep
<1>7. CASE Return(c, state, relays)
  BY <1>1, <1>3, <1>4, <1>5, <1>7, ReturnStep
<1> QED  BY <1>1, <1>6, <1>7

\* The one who asked is told.
LEMMA AuthAddStep ==
    ASSUME LocalInv, NEW c \in Conn, AuthAdd(c)
    PROVE  \E st : Step(c, st)
<1> DEFINE answer == IF Active(Who(c)) THEN <<Route(Who(c), Accepted)>> ELSE << >>
           relays == Relays(c, s[c].status, s[c].buddies \cap {Who(c)})
<1>1. /\ s[c].pc = "next" /\ s[c].todo # <<>> /\ Head(s[c].todo).cmd = "authadd"
      /\ loop \in {NoConn, c}
      /\ Raise(c, s[c]) \/ Return(c, s[c], answer \o relays)
      /\ UNCHANGED <<pid_map, tables, k, lost, overlap>>
  BY DEF AuthAdd, Turn, At
<1>2. s[c] \in State /\ Touched(s[c], s[c])
  BY LocalFacts DEF Touched, State
<1>3. Who(c) \in Profiles
  BY <1>1, TurnFacts, LoginIsNoCommand DEF Who
<1>4. relays \in Seq(Tidings)
  <2>1. s[c].status \in Statuses /\ s[c].buddies \cap {Who(c)} \in SUBSET Profiles
    BY <1>2 DEF State
  <2> QED  BY <2>1, RelaysAreTidings DEF LocalInv
<1>5. answer \in Seq(Tidings)
  <2>1. Route(Who(c), Accepted) \in Tidings
    BY <1>3 DEF Route, Accepted, Tidings, Effect
  <2> QED  BY <2>1, EmptySeq
<1>6. answer \o relays \in Seq(Tidings)
  <2> HIDE DEF answer, relays
  <2> QED  BY <1>4, <1>5, Concatenation
<1>7. s[c].pc \notin Joining \cup {"reread"}
  BY <1>1 DEF Joining
<1> DEFINE effects == answer \o relays
<1> HIDE DEF effects
<1>8. CASE Raise(c, s[c])
  BY <1>1, <1>2, <1>7, <1>8, RaiseStep
<1>9. CASE Return(c, s[c], effects)
  BY <1>1, <1>2, <1>6, <1>7, <1>9, ReturnStep DEF effects
<1> QED  BY <1>1, <1>8, <1>9 DEF effects

\* The list of friends is the one in the table again.
LEMMA RereadBuddyListStep ==
    ASSUME LocalInv, NEW c \in Conn, RereadBuddyList(c)
    PROVE  \E st : Step(c, st)
<1> DEFINE list == BuddyList(s[c].profileid)
           state == [s[c] EXCEPT !.buddies = list]
           answer == IF Head(s[c].todo).cmd = "addbuddy" /\ Active(Who(c))
                     THEN <<Route(Who(c), Request)>> ELSE << >>
           st == Returned(state, answer)
<1>1. /\ s[c].pc = "reread" /\ loop \in {NoConn, c} /\ Return(c, state, answer)
      /\ UNCHANGED <<pid_map, tables, k, history>>
  BY DEF RereadBuddyList, At
<1>2. s[c] \in State /\ Mine(c, s[c], users) /\ Fits(c, s[c], k[c].phase, k[c].said, k[c].chunk)
  BY LocalFacts
<1>3. s[c].todo # <<>> /\ Head(s[c].todo).cmd \in {"addbuddy", "delbuddy"}
  BY <1>1, <1>2 DEF Fits, FlowOK
<1>4. Who(c) \in Profiles
  BY <1>3, TurnFacts, LoginIsNoCommand DEF Who
<1>5. list \in SUBSET Profiles
  BY DEF LocalInv, TypesOK, BuddyList
<1>6. state \in State /\ Touched(s[c], state) /\ state.buddies = list
  <2> HIDE DEF list
  <2> QED  BY <1>2, <1>5 DEF State, Touched
<1>7. answer \in Seq(Tidings)
  <2>1. Route(Who(c), Request) \in Tidings
    BY <1>4 DEF Route, Request, Tidings, Effect
  <2> QED  BY <2>1, EmptySeq
<1>8. s[c].pc \notin Joining /\ UNCHANGED <<pid_map, k, lost, overlap>>
  BY <1>1 DEF Joining, history
<1> HIDE DEF list, state, answer
<1>9. /\ Shape(c, st) /\ OnlyTells(s[c].eff, st.eff)
      /\ st.pc = "next" /\ st.cur = <<>>
      /\ st.profileid = s[c].profileid /\ st.sesskey = s[c].sesskey
      /\ st.buddies = list
  BY <1>1, <1>3, <1>6, <1>7, <1>8, ReturnShape
<1>10. ToSet(s[c].todo) \subseteq {Head(s[c].todo)} \cup ToSet(st.todo)
  BY <1>1, <1>3, <1>6, <1>7, <1>8, ReturnShape
<1> HIDE DEF st
<1>11. Range(st.cur) = {}
  BY <1>9 DEF Range
<1>12. Named(c, st)
  BY <1>1, <1>2, <1>9, <1>11 DEF Named, Mine, OnlyTells, tables
<1>13. Sessioned(c, st) /\ Befriended(c, st)
  BY <1>1, <1>9 DEF Sessioned, Befriended, tables, list
<1>14. Posted(c, st)
  BY <1>1, <1>3, <1>9, <1>10 DEF Posted, OnlyTells, StillLeaves, tables, LocalInv, TypesOK
<1> QED  BY <1>9, <1>12, <1>13, <1>14 DEF Step

\* The message is in the table.
LEMMA SavePendingMessageStep ==
    ASSUME LocalInv, NEW c \in Conn, SavePendingMessage(c)
    PROVE  \E st : Step(c, st)
<1> DEFINE st == Returned(s[c], <<>>)
<1>1. /\ s[c].pc = "save" /\ loop \in {NoConn, c} /\ Return(c, s[c], <<>>)
      /\ pending_messages' = pending_messages \cup {MessageOf(c)}
      /\ UNCHANGED <<pid_map, users, buddies, sessions, k, history>>
  BY DEF SavePendingMessage, At
<1>2. /\ s[c] \in State /\ Touched(s[c], s[c]) /\ Mine(c, s[c], users)
      /\ Fits(c, s[c], k[c].phase, k[c].said, k[c].chunk)
  BY LocalFacts DEF Touched, State
<1>3. s[c].todo # <<>> /\ Head(s[c].todo).cmd = "bm"
  BY <1>1, <1>2 DEF Fits, FlowOK
<1>4. MessageOf(c) = [by |-> c, to |-> Head(s[c].todo).who] /\ MessageOf(c) \in Message
  BY <1>3, TurnFacts, LoginIsNoCommand DEF MessageOf, Who, Message
<1>5. <<>> \in Seq(Tidings)
  BY EmptySeq
<1>6. s[c].pc \notin Joining /\ UNCHANGED <<pid_map, k, lost, overlap>>
  BY <1>1 DEF Joining, history
<1>7. /\ Shape(c, st) /\ OnlyTells(s[c].eff, st.eff)
      /\ st.pc = "next" /\ st.cur = <<>>
      /\ st.profileid = s[c].profileid /\ st.sesskey = s[c].sesskey
      /\ st.buddies = s[c].buddies
  BY <1>1, <1>2, <1>3, <1>5, <1>6, ReturnShape
<1>8. ToSet(s[c].todo) \subseteq {Head(s[c].todo)} \cup ToSet(st.todo)
  BY <1>1, <1>2, <1>3, <1>5, <1>6, ReturnShape
<1> HIDE DEF st
<1>9. Range(st.cur) = {}
  BY <1>7 DEF Range
<1>10. Named(c, st)
  BY <1>1, <1>2, <1>7, <1>9 DEF Named, Mine, OnlyTells
<1>11. Sessioned(c, st) /\ Befriended(c, st)
  BY <1>1, <1>7 DEF Sessioned, Befriended
<1>12. IsFiniteSet(pending_messages') /\ pending_messages' \subseteq Message
  BY <1>1, <1>4, FS_AddElement DEF LocalInv, TypesOK
<1>13. Posted(c, st)
  BY <1>1, <1>4, <1>7, <1>8, <1>12 DEF Posted, OnlyTells, StillLeaves
<1> QED  BY <1>7, <1>10, <1>11, <1>13 DEF Step

(***************************************************************************)
(* A command that comes to its statement, with nothing changed but where   *)
(* it is.                                                                  *)
(***************************************************************************)
LEMMA AwaitStep ==
    ASSUME LocalInv, NEW c \in Conn, s[c].pc = "next", s[c].todo # <<>>,
           Head(s[c].todo).cmd # "login", loop \in {NoConn, c}, NEW label \in {"save", "row"},
           label = "save" => Head(s[c].todo).cmd = "bm",
           label = "row" => Head(s[c].todo).cmd \in {"addbuddy", "delbuddy"},
           Await(c, s[c], label), UNCHANGED <<pid_map, tables, k, history>>
    PROVE  \E st : Step(c, st)
<1> DEFINE st == Moved(s[c], label)
<1>1. s' = [s EXCEPT ![c] = st] /\ loop' = NoConn
  BY DEF Await, Moved
<1>2. s[c] \in State /\ Fits(c, s[c], k[c].phase, k[c].said, k[c].chunk)
  BY LocalFacts
<1>3. s[c].todo # Login
  BY TurnFacts
<1>4. /\ st \in State /\ st.pc = label /\ st.todo = s[c].todo /\ st.eff = s[c].eff
      /\ st.cur = s[c].cur /\ st.profileid = s[c].profileid /\ st.buddies = s[c].buddies
      /\ st.sesskey = s[c].sesskey
  BY <1>2, MovedFields DEF Pc
<1> HIDE DEF st
<1>5. FlowOK(st)
  BY <1>2, <1>3, <1>4 DEF Fits, FlowOK, Idle, Ending, LoginSteps, Joining, Working
<1>6. NameOK(st, k[c].phase)
  BY <1>2, <1>3, <1>4 DEF Fits, NameOK, Joining
<1>7. EffectsOK(st, k[c].phase)
  BY <1>2, <1>4 DEF Fits, EffectsOK, Ending, Joining, Working
<1>8. ChunkOK(c, st, k[c].said, k[c].chunk)
  BY <1>2, <1>4 DEF Fits, ChunkOK
<1>9. Shape(c, st)
  BY <1>1, <1>4, <1>5, <1>6, <1>7, <1>8 DEF Shape, Fits, Open, history
<1> QED  BY <1>4, <1>9, PlainStep DEF StillLeaves

\* addbuddy and delbuddy wait for their first statement.
LEMMA AddOrDelAwaitsStep ==
    ASSUME LocalInv, NEW c \in Conn, AddOrDelAwaits(c)
    PROVE  \E st : Step(c, st)
<1>1. /\ s[c].pc = "next" /\ s[c].todo # <<>> /\ loop \in {NoConn, c}
      /\ Head(s[c].todo).cmd \in {"addbuddy", "delbuddy"}
      /\ Await(c, s[c], "row") /\ UNCHANGED <<pid_map, tables, k, history>>
  BY DEF AddOrDelAwaits, Turn, At
<1> QED  BY <1>1, AwaitStep

\* The message is among the effects, if somebody is there, or will be saved.
LEMMA BuddyMessageStep ==
    ASSUME LocalInv, NEW c \in Conn, BuddyMessage(c)
    PROVE  \E st : Step(c, st)
<1> DEFINE mail == Route(Who(c), Mail(MessageOf(c)))
           st == Returned(s[c], <<mail>>)
<1>1. /\ s[c].pc = "next" /\ s[c].todo # <<>> /\ loop \in {NoConn, c}
      /\ Head(s[c].todo).cmd = "bm"
      /\ \/ Await(c, s[c], "save")
         \/ Active(Who(c)) /\ s' = [s EXCEPT ![c] = st] /\ loop' = c
      /\ UNCHANGED <<pid_map, tables, k, history>>
  BY DEF BuddyMessage, Turn, At, Return, Returned
<1>2. CASE Await(c, s[c], "save")
  BY <1>1, <1>2, AwaitStep
<1>3. CASE Active(Who(c)) /\ s' = [s EXCEPT ![c] = st] /\ loop' = c
  <2>1. /\ s[c] \in State /\ Mine(c, s[c], users)
        /\ Fits(c, s[c], k[c].phase, k[c].said, k[c].chunk) /\ k[c].chunk \in Seq(Commands)
    BY LocalFacts
  <2>2. s[c].todo # Login /\ Head(s[c].todo) \in Commands /\ k[c].phase \notin {"off", "up"}
    BY <1>1, TurnFacts
  <2>3. Who(c) \in Profiles /\ MessageOf(c) = [by |-> c, to |-> Who(c)] /\ MessageOf(c) \in Message
    BY <1>1, <2>2, LoginIsNoCommand DEF MessageOf, Who, Message
  <2>4. /\ mail \in Effect /\ ~Moves(mail) /\ mail # Response(LoggedIn)
        /\ mail.effect # "register"
        /\ mail.m.msg = [by |-> c, to |-> mail.to] /\ mail.to = Who(c)
    BY <2>3 DEF Route, Mail, Effect, Moves, Response
  <2> DEFINE new == <<mail>>
  <2>5. new \in Seq(Effect) /\ Range(new) = {mail} /\ Len(new) = 1
    BY <2>4 DEF Range
  <2>6. /\ s[c].eff \in Seq(Effect) /\ s[c].eff \o new \in Seq(Effect)
        /\ Range(s[c].eff \o new) = Range(s[c].eff) \cup {mail}
        /\ s[c].eff = <<>> => Len(s[c].eff \o new) = 1
        /\ StillLeaves(s[c].eff, s[c].eff \o new)
    <3>1. s[c].eff \in Seq(Effect)
      BY <2>1 DEF State
    <3> HIDE DEF new, mail
    <3>2. /\ s[c].eff \o new \in Seq(Effect)
          /\ Range(s[c].eff \o new) = Range(s[c].eff) \cup {mail}
      BY <2>5, <3>1, Concatenation
    <3>3. s[c].eff = <<>> => Len(s[c].eff \o new) = 1
      BY <2>5, ConcatEmptySeq
    <3>4. \A e \in Range(new) : e.effect # "register"
      BY <2>4, <2>5
    <3>5. StillLeaves(s[c].eff, s[c].eff \o new)
      BY <2>5, <3>1, <3>4, LeavesExtends DEF StillLeaves
    <3> QED  BY <3>1, <3>2, <3>3, <3>5
  <2>7. /\ Tail(s[c].todo) \in Seq(Commands) /\ Tail(s[c].todo) # Login
        /\ Len(s[c].todo) \in Nat /\ Len(s[c].todo) >= 1
        /\ Len(Tail(s[c].todo)) = Len(s[c].todo) - 1
        /\ ToSet(s[c].todo) = {Head(s[c].todo)} \cup ToSet(Tail(s[c].todo))
        /\ Tail(s[c].todo) = <<>> <=> Len(s[c].todo) = 1
    BY <1>1, <2>1, <2>2, TodoType
  <2>8. /\ \A i \in DOMAIN Tail(s[c].todo) :
              i + 1 \in DOMAIN s[c].todo /\ Tail(s[c].todo)[i] = s[c].todo[i + 1] /\ i \in Nat
    BY <1>1, <2>1, <2>2, <2>7, TodoType, LenProperties
  <2>9. st = Returned(s[c], new)
    OBVIOUS
  <2> HIDE DEF mail, new
  <2>10. /\ st \in State /\ st.pc = "next" /\ st.todo = Tail(s[c].todo)
         /\ st.eff = s[c].eff \o new /\ st.cur = <<>>
         /\ st.profileid = s[c].profileid /\ st.buddies = s[c].buddies
         /\ st.sesskey = s[c].sesskey
    <3>1. <<>> \in Seq(Effect)
      BY EmptySeq
    <3> HIDE DEF st
    <3> QED  BY <2>1, <2>6, <2>7, <2>9, <3>1 DEF Returned, State, Pc
  <2> HIDE DEF st
  <2>11. /\ Len(s[c].todo) <= Len(k[c].chunk) /\ Len(k[c].chunk) \in Nat
         /\ Len(s[c].todo) = Len(k[c].chunk) => s[c].eff = <<>>
    BY <1>1, <2>1, <2>2, LenProperties DEF Fits, ChunkOK
  <2>12. FlowOK(st)
    <3>1. Awaits /\ \A i \in DOMAIN s[c].todo : s[c].todo[i].cmd = "logout" => i = Len(s[c].todo)
      BY <1>1, <2>1 DEF Fits, FlowOK, Working
    <3>2. \A i \in DOMAIN st.todo : st.todo[i].cmd = "logout" => i = Len(st.todo)
      BY <1>1, <2>1, <2>2, <2>10, <3>1, LogoutStaysLast
    <3> QED  BY <2>7, <2>10, <3>1, <3>2 DEF FlowOK, Idle, Ending, LoginSteps, Joining, Working
  <2>13. NameOK(st, k[c].phase)
    BY <1>1, <2>1, <2>2, <2>7, <2>10 DEF Fits, NameOK, Joining
  <2>14. EffectsOK(st, k[c].phase)
    <3>1. /\ \A e \in Range(s[c].eff) : ~Moves(e) /\ e # Response(LoggedIn)
          /\ k[c].phase = "in" =>
                /\ s[c].profileid # NoProfile /\ Awaits
                /\ \A i \in DOMAIN s[c].todo : s[c].todo[i].cmd # "logout"
      BY <1>1, <2>1 DEF Fits, EffectsOK
    <3>2. \A e \in Range(st.eff) : ~Moves(e) /\ e # Response(LoggedIn) /\ e.effect # "register"
      BY <2>4, <2>6, <2>10, <3>1 DEF Moves
    <3>3. k[c].phase = "in" => \A i \in DOMAIN st.todo : st.todo[i].cmd # "logout"
      BY <2>8, <2>10, <3>1
    <3> QED  BY <2>7, <2>10, <3>1, <3>2, <3>3 DEF EffectsOK, Ending, Joining, Working
  <2>15. ChunkOK(c, st, k[c].said, k[c].chunk)
    <3>1. \A e \in Range(s[c].eff) : IsMail(e) =>
              /\ e.m.msg = [by |-> c, to |-> e.to]
              /\ Len(k[c].chunk) >= 1 /\ Len(k[c].chunk) # 1
      BY <1>1, <2>1 DEF Fits, ChunkOK
    <3>2. ToSet(st.todo) \subseteq k[c].said
      BY <2>1, <2>2, <2>7, <2>10 DEF Fits, ChunkOK
    <3>3. st.todo # <<>> => Len(st.todo) < Len(k[c].chunk)
      BY <2>7, <2>10, <2>11
    <3>4. Len(k[c].chunk) = 1 => st.todo = <<>> /\ Len(st.eff) = 1
      BY <2>6, <2>7, <2>10, <2>11
    <3>5. Len(k[c].chunk) >= 1
      BY <2>7, <2>11
    <3>6. \A e \in Range(st.eff) : e = mail \/ e \in Range(s[c].eff)
      BY <2>6, <2>10
    <3> QED  BY <2>4, <2>10, <2>11, <3>1, <3>2, <3>3, <3>4, <3>5, <3>6 DEF ChunkOK
  <2>16. Shape(c, st)
    BY <1>1, <1>3, <2>10, <2>12, <2>13, <2>14, <2>15 DEF Shape, Fits, Open, history
  <2>17. \A e \in Range(st.eff) \cup Range(st.cur) : Moves(e) => e \in Range(s[c].eff)
    <3>1. Range(st.cur) = {}
      BY <2>10 DEF Range
    <3> QED  BY <2>4, <2>6, <2>10, <3>1
  <2>18. \A e \in Range(st.eff) : IsMail(e) => e \in Range(s[c].eff) \/ Active(e.to)
    BY <1>3, <2>4, <2>6, <2>10
  <2>19. \A x \in ToSet(s[c].todo) : x.cmd = "bm" =>
            x \in ToSet(st.todo) \/ Route(x.who, Mail([by |-> c, to |-> x.who])) \in Range(st.eff)
    <3>1. Route(Head(s[c].todo).who, Mail([by |-> c, to |-> Head(s[c].todo).who])) = mail
      BY <2>3 DEF mail, Who
    <3> QED  BY <2>6, <2>7, <2>10, <3>1
  <2>20. Range(s[c].eff) \subseteq Range(st.eff) /\ StillLeaves(s[c].eff, st.eff)
    BY <2>6, <2>10
  <2> QED
    BY <1>1, <2>10, <2>16, <2>17, <2>18, <2>19, <2>20, PlainStep
<1> QED  BY <1>1, <1>2, <1>3

\* The table changes, and the list is not read again yet.
LEMMA AddOrDelRowStep ==
    ASSUME LocalInv, NEW c \in Conn, AddOrDelRow(c)
    PROVE  \E st : Step(c, st)
<1> DEFINE st == Moved(s[c], "reread")
           row == <<s[c].profileid, Who(c)>>
<1>1. /\ s[c].pc = "row" /\ loop \in {NoConn, c}
      /\ s' = [s EXCEPT ![c] = st] /\ loop' = NoConn
      /\ buddies' = buddies \cup {row} \/ buddies' = buddies \ {row}
      /\ UNCHANGED <<pid_map, users, sessions, pending_messages, k, history>>
  BY DEF AddOrDelRow, At, Await, Moved
<1>2. s[c] \in State /\ Fits(c, s[c], k[c].phase, k[c].said, k[c].chunk) /\ Mine(c, s[c], users)
  BY LocalFacts
<1>3. s[c].todo # <<>> /\ Head(s[c].todo).cmd \in {"addbuddy", "delbuddy"} /\ Awaits
  BY <1>1, <1>2 DEF Fits, FlowOK, Working
<1>4. Who(c) \in Profiles /\ s[c].profileid \in Profiles /\ s[c].todo # Login
  BY <1>3, TurnFacts, LoginIsNoCommand DEF Who
<1>5. /\ st \in State /\ st.pc = "reread" /\ st.todo = s[c].todo /\ st.eff = s[c].eff
      /\ st.cur = s[c].cur /\ st.profileid = s[c].profileid /\ st.buddies = s[c].buddies
      /\ st.sesskey = s[c].sesskey
  BY <1>2, MovedFields DEF Pc
<1> HIDE DEF st
<1>6. FlowOK(st)
  BY <1>1, <1>2, <1>3, <1>4, <1>5 DEF Fits, FlowOK, Idle, Ending, LoginSteps, Joining, Working
<1>7. NameOK(st, k[c].phase)
  BY <1>1, <1>2, <1>4, <1>5 DEF Fits, NameOK, Joining
<1>8. EffectsOK(st, k[c].phase)
  BY <1>1, <1>2, <1>5 DEF Fits, EffectsOK, Ending, Joining, Working
<1>9. ChunkOK(c, st, k[c].said, k[c].chunk)
  BY <1>1, <1>2, <1>5 DEF Fits, ChunkOK
<1>10. Shape(c, st)
  BY <1>1, <1>5, <1>6, <1>7, <1>8, <1>9 DEF Shape, Fits, Open, history
<1>11. Named(c, st) /\ Sessioned(c, st)
  BY <1>1, <1>2, <1>5 DEF Named, Mine, Sessioned
<1>12. Befriended(c, st)
  BY <1>1, <1>4, <1>5 DEF Befriended
<1>13. Posted(c, st)
  BY <1>1, <1>5 DEF Posted, LocalInv, TypesOK
<1> QED  BY <1>10, <1>11, <1>12, <1>13 DEF Step

(***************************************************************************)
(* A logout is the last of its chunk, and takes the registration back      *)
(* after it told friends.                                                  *)
(***************************************************************************)
LEMMA LogoutStep ==
    ASSUME LocalInv, NEW c \in Conn, Logout(c)
    PROVE  \E st : Step(c, st)
<1> DEFINE p == s[c].profileid
           offline == [s[c] EXCEPT !.status = "0"]
           relays == Relays(c, "0", s[c].buddies)
           last == <<Delete(p)>>
           es == relays \o last
           st == Returned([offline EXCEPT !.profileid = NoProfile], es)
<1>1. /\ s[c].pc = "next" /\ s[c].todo # <<>> /\ loop \in {NoConn, c}
      /\ Head(s[c].todo).cmd = "logout"
      /\ UNCHANGED <<pid_map, tables, k, lost, overlap>>
  BY DEF Logout, Turn, At
<1>2. /\ s[c] \in State /\ Mine(c, s[c], users)
      /\ Fits(c, s[c], k[c].phase, k[c].said, k[c].chunk) /\ k[c].chunk \in Seq(Commands)
  BY LocalFacts
<1>3. /\ s[c].todo # Login /\ Head(s[c].todo) \in k[c].said /\ k[c].phase \notin {"off", "up"}
      /\ p \in Profiles /\ p # NoProfile /\ Head(s[c].todo) \in Commands
  BY <1>1, TurnFacts
<1>4. \/ Raise(c, offline)
      \/ s' = [s EXCEPT ![c] = st] /\ loop' = c
  BY <1>3 DEF Logout, Return, Returned
<1>5. CASE Raise(c, offline)
  <2>1. offline \in State /\ Touched(s[c], offline) /\ offline.buddies = s[c].buddies
    BY <1>2 DEF State, Statuses, Touched
  <2>2. s[c].pc \notin Joining \cup {"reread"}
    BY <1>1 DEF Joining
  <2> HIDE DEF offline
  <2> QED  BY <1>1, <1>5, <2>1, <2>2, RaiseStep
<1>6. CASE s' = [s EXCEPT ![c] = st] /\ loop' = c
  <2>1. /\ relays \in Seq(Effect) /\ \A e \in Range(relays) : e \in Tidings
    <3>1. relays \in Seq(Tidings)
      BY <1>2, RelaysAreTidings DEF LocalInv, State, Statuses
    <3>2. Tidings \subseteq Effect
      BY DEF Tidings
    <3> HIDE DEF relays
    <3> QED  BY <3>1, <3>2, SeqMonotonic, RangeOfSeq
  <2>2. /\ last \in Seq(Effect) /\ Range(last) = {Delete(p)} /\ Len(last) = 1
        /\ last[1] = Delete(p)
        /\ Delete(p).effect = "delete" /\ ~IsMail(Delete(p)) /\ Delete(p) # Response(LoggedIn)
    <3>1. Delete(p) \in Effect
      BY <1>3 DEF Delete, Effect
    <3> QED  BY <3>1 DEF Range, Delete, IsMail, Response
  <2>3. LeavesLast(last, p)
    BY LeavesAlone
  <2> HIDE DEF relays, last
  <2>4. /\ es \in Seq(Effect) /\ Range(es) = Range(relays) \cup {Delete(p)}
        /\ LeavesLast(es, p)
    BY <2>1, <2>2, <2>3, Concatenation, LeavesAfter
  <2>5. \A e \in Range(es) : /\ e.effect # "register" /\ ~IsMail(e) /\ e # Response(LoggedIn)
                             /\ Moves(e) => e = Delete(p)
    BY <2>1, <2>2, <2>4, TidingsMoveNothing
  <2>6. st = Returned([offline EXCEPT !.profileid = NoProfile], es)
    OBVIOUS
  <2> HIDE DEF es
  <2>7. s[c].eff \in Seq(Effect) /\ s[c].eff \o es \in Seq(Effect)
        /\ Range(s[c].eff \o es) = Range(s[c].eff) \cup Range(es)
    <3>1. s[c].eff \in Seq(Effect)
      BY <1>2 DEF State
    <3> QED  BY <2>4, <3>1, Concatenation
  <2>8. /\ Tail(s[c].todo) = <<>>
        /\ ToSet(s[c].todo) = {Head(s[c].todo)} \cup ToSet(Tail(s[c].todo))
        /\ Len(s[c].todo) = 1
    <3>1. Head(s[c].todo) = s[c].todo[1] /\ 1 \in DOMAIN s[c].todo
          /\ ToSet(s[c].todo) = {Head(s[c].todo)} \cup ToSet(Tail(s[c].todo))
          /\ (Tail(s[c].todo) = <<>> <=> Len(s[c].todo) = 1)
      BY <1>1, <1>2, <1>3, TodoType
    <3>2. Len(s[c].todo) = 1
      BY <1>1, <1>2, <3>1 DEF Fits, FlowOK
    <3> QED  BY <3>1, <3>2
  <2>9. /\ st \in State /\ st.pc = "next" /\ st.todo = <<>>
        /\ st.eff = s[c].eff \o es /\ st.cur = <<>>
        /\ st.profileid = NoProfile /\ st.buddies = s[c].buddies
        /\ st.sesskey = s[c].sesskey
    <3>1. <<>> \in Seq(Effect) /\ <<>> \in Seq(Commands)
      BY EmptySeq
    <3> HIDE DEF st
    <3> QED  BY <1>2, <2>6, <2>7, <2>8, <3>1 DEF Returned, State, Pc, Statuses
  <2> HIDE DEF st, p
  <2>10. Range(st.cur) = {} /\ DOMAIN st.todo = {} /\ ToSet(st.todo) = {} /\ st.todo # Login
    BY <2>9, LoginIsNoCommand DEF Range, ToSet
  <2>11. /\ \A e \in Range(s[c].eff) : ~Moves(e) /\ e # Response(LoggedIn)
         /\ k[c].phase # "in" /\ Awaits
    <3>1. Head(s[c].todo) = s[c].todo[1] /\ 1 \in DOMAIN s[c].todo
      BY <1>1, <1>2, <1>3, TodoType
    <3> QED  BY <1>1, <1>2, <1>3, <3>1 DEF Fits, FlowOK, EffectsOK, Working
  <2>12. FlowOK(st)
    BY <2>9, <2>10, <2>11 DEF FlowOK, Idle, Ending, LoginSteps, Joining, Working
  <2>13. NameOK(st, k[c].phase)
    BY <1>1, <1>2, <1>3, <2>9, <2>10 DEF Fits, NameOK, Joining
  <2>14. EffectsOK(st, k[c].phase)
    <3>1. \A e \in Range(st.eff) : e.effect # "register" /\ e # Response(LoggedIn)
      BY <2>5, <2>7, <2>9, <2>11 DEF Moves
    <3> QED  BY <2>9, <2>11, <3>1 DEF EffectsOK, Ending, Joining, Working
  <2>15. ChunkOK(c, st, k[c].said, k[c].chunk)
    <3>1. \A e \in Range(s[c].eff) : IsMail(e) =>
              /\ e.m.msg = [by |-> c, to |-> e.to]
              /\ Len(k[c].chunk) >= 1 /\ Len(k[c].chunk) # 1
      BY <1>1, <1>2 DEF Fits, ChunkOK
    <3>2. \A e \in Range(st.eff) : IsMail(e) => e \in Range(s[c].eff)
      BY <2>5, <2>7, <2>9
    <3> QED  BY <2>9, <2>10, <3>1, <3>2 DEF ChunkOK
  <2>16. Shape(c, st)
    BY <1>1, <1>6, <2>9, <2>12, <2>13, <2>14, <2>15 DEF Shape, Fits, Open
  <2>17. LogoutOf(c)
    BY <1>1, <1>3 DEF LogoutOf, Commands
  <2>18. Named(c, st)
    <3>1. \A e \in Range(st.eff) \cup Range(st.cur) : Moves(e) => e = Delete(p)
      BY <2>5, <2>7, <2>9, <2>10, <2>11
    <3>2. [user |-> UserOf[c], profileid |-> p] \in users /\ Delete(p).pid = p
      BY <1>2, <1>3 DEF Mine, p, Delete
    <3> QED  BY <1>1, <2>9, <2>11, <2>17, <3>1, <3>2 DEF Named, Mine, tables
  <2>19. Sessioned(c, st) /\ Befriended(c, st)
    BY <1>1, <2>9 DEF Sessioned, Befriended, tables
  <2>20. \A q \in Profiles : s[c].profileid = q \/ LeavesLast(s[c].eff, q) => LeavesLast(st.eff, q)
    <3>1. ASSUME NEW q \in Profiles, LeavesLast(s[c].eff, q)
          PROVE  LeavesLast(st.eff, q)
      BY <2>4, <2>5, <2>7, <2>9, <3>1, LeavesExtends
    <3>2. LeavesLast(st.eff, p)
      BY <2>4, <2>7, <2>9, LeavesAfter
    <3> QED  BY <3>1, <3>2 DEF p
  <2>21. Posted(c, st)
    <3>1. \A x \in ToSet(s[c].todo) : x.cmd # "bm"
      BY <1>1, <2>8, <2>10, <2>9
    <3>2. \A e \in Range(st.eff) : IsMail(e) => e \in Range(s[c].eff)
      BY <2>5, <2>7, <2>9
    <3>3. Range(s[c].eff) \subseteq Range(st.eff)
      BY <2>7, <2>9
    <3> QED  BY <1>1, <2>20, <3>1, <3>2, <3>3 DEF Posted, tables, LocalInv, TypesOK
  <2> QED  BY <2>16, <2>18, <2>19, <2>21 DEF Step
<1> QED  BY <1>4, <1>5, <1>6

-----------------------------------------------------------------------------
(* The end of a connection. *)

\* The stream ends: nothing has been done about it.
LEMMA EndOfStreamStep ==
    ASSUME LocalInv, NEW c \in Conn, EndOfStream(c)
    PROVE  \E st : Step(c, st)
<1> DEFINE st == Moved(s[c], "lost")
<1>1. /\ s[c].pc = "read" /\ loop \in {NoConn, c} /\ k[c].phase = "gone"
      /\ s' = [s EXCEPT ![c] = st] /\ loop' = c
      /\ UNCHANGED <<pid_map, tables, k, history>>
  BY DEF EndOfStream, At, Moved
<1>2. s[c] \in State /\ Fits(c, s[c], k[c].phase, k[c].said, k[c].chunk)
  BY LocalFacts
<1>3. /\ st \in State /\ st.pc = "lost" /\ st.todo = s[c].todo /\ st.eff = s[c].eff
      /\ st.cur = s[c].cur /\ st.profileid = s[c].profileid /\ st.buddies = s[c].buddies
      /\ st.sesskey = s[c].sesskey
  BY <1>2, MovedFields DEF Pc
<1> HIDE DEF st
<1>4. s[c].todo = <<>> /\ s[c].eff = <<>> /\ s[c].cur = <<>>
  BY <1>1, <1>2 DEF Fits, FlowOK, Idle, Joining, LoginSteps
<1>5. FlowOK(st)
  BY <1>1, <1>3, <1>4, LoginIsNoCommand
  DEF FlowOK, Idle, Ending, LoginSteps, Joining, Working
<1>6. NameOK(st, k[c].phase)
  BY <1>1, <1>2, <1>3, <1>4, LoginIsNoCommand DEF Fits, NameOK, Joining
<1>7. EffectsOK(st, k[c].phase)
  BY <1>1, <1>3, <1>4 DEF EffectsOK, Ending, Joining, Range
<1>8. ChunkOK(c, st, k[c].said, k[c].chunk)
  BY <1>3, <1>4 DEF ChunkOK, Range, ToSet
<1>9. Shape(c, st)
  BY <1>1, <1>3, <1>5, <1>6, <1>7, <1>8 DEF Shape, Fits, Open, history
<1> QED  BY <1>1, <1>3, <1>9, PlainStep DEF StillLeaves

\* The teardown: the last effect takes the profile out of the registry.
LEMMA OnConnectionLostStep ==
    ASSUME LocalInv, NEW c \in Conn, OnConnectionLost(c)
    PROVE  \E st : Step(c, st)
<1> DEFINE p == s[c].profileid
           offline == [s[c] EXCEPT !.status = "0"]
           relays == Relays(c, "0", s[c].buddies)
           last == IF p # NoProfile THEN <<Delete(p)>> ELSE << >>
           es == relays \o last
           label == IF s[c].sesskey THEN "unsession" ELSE "bye"
           ended == Moved([offline EXCEPT !.eff = es], label)
<1>1. s[c].pc = "lost" /\ loop \in {NoConn, c} /\ UNCHANGED <<pid_map, tables, k, lost, overlap>>
  BY DEF OnConnectionLost, At
<1>2. \/ c \in raised' /\ s' = [s EXCEPT ![c] = Moved(offline, "closed")] /\ loop' = NoConn
      \/ /\ s' = [s EXCEPT ![c] = ended]
         /\ loop' = IF s[c].sesskey THEN NoConn ELSE c
  BY DEF OnConnectionLost, Fail, Await, GoOn, Moved
<1>3. /\ s[c] \in State /\ Mine(c, s[c], users)
      /\ Fits(c, s[c], k[c].phase, k[c].said, k[c].chunk)
  BY LocalFacts
<1>4. /\ s[c].todo = <<>> /\ s[c].eff = <<>> /\ s[c].cur = <<>>
      /\ k[c].phase \notin {"in", "off", "up"} /\ p \in Profiles \cup {NoProfile}
  BY <1>1, <1>3
  DEF Fits, FlowOK, NameOK, EffectsOK, Idle, Joining, LoginSteps, Working, State
<1>5. offline \in State /\ offline.todo = <<>> /\ offline.eff = <<>> /\ offline.cur = <<>>
      /\ offline.profileid = p /\ offline.buddies = s[c].buddies
      /\ offline.sesskey = s[c].sesskey
  BY <1>3, <1>4 DEF State, Statuses
<1>6. Range(<<>>) = {} /\ ToSet(<<>>) = {} /\ DOMAIN <<>> = {} /\ <<>> # Login
  BY LoginIsNoCommand DEF Range, ToSet
<1>7. relays \in Seq(Effect) /\ \A e \in Range(relays) : e \in Tidings
  <2>1. relays \in Seq(Tidings)
    BY <1>3, RelaysAreTidings DEF LocalInv, State, Statuses
  <2>2. Tidings \subseteq Effect
    BY DEF Tidings
  <2> HIDE DEF relays
  <2> QED  BY <2>1, <2>2, SeqMonotonic, RangeOfSeq
<1>8. /\ last \in Seq(Effect) /\ Range(last) \subseteq {Delete(p)}
      /\ p # NoProfile => Range(last) = {Delete(p)}
      /\ p = NoProfile => Range(last) = {}
      /\ Delete(p).effect = "delete" /\ ~IsMail(Delete(p)) /\ Delete(p) # Response(LoggedIn)
      /\ Delete(p).pid = p
  <2>1. Delete(p).effect = "delete" /\ ~IsMail(Delete(p)) /\ Delete(p) # Response(LoggedIn)
        /\ Delete(p).pid = p
    BY DEF Delete, IsMail, Response
  <2>2. CASE p = NoProfile
    <3>1. last = <<>>
      BY <2>2
    <3> QED  BY <1>6, <2>1, <2>2, <3>1, EmptySeq
  <2>3. CASE p # NoProfile
    <3>1. last = <<Delete(p)>> /\ Delete(p) \in Effect
      BY <1>4, <2>3 DEF Delete, Effect
    <3>2. Range(<<Delete(p)>>) = {Delete(p)}
      BY DEF Range
    <3> QED  BY <2>1, <2>3, <3>1, <3>2
  <2> QED  BY <2>2, <2>3
<1> HIDE DEF offline, relays, last
<1>9. es \in Seq(Effect) /\ Range(es) = Range(relays) \cup Range(last)
  BY <1>7, <1>8, Concatenation
<1> HIDE DEF es
<1>10. CASE c \in raised' /\ s' = [s EXCEPT ![c] = Moved(offline, "closed")] /\ loop' = NoConn
  <2> DEFINE st == Moved(offline, "closed")
  <2>1. /\ st \in State /\ st.pc = "closed" /\ st.todo = <<>> /\ st.eff = <<>>
        /\ st.cur = <<>> /\ st.profileid = p /\ st.buddies = s[c].buddies
        /\ st.sesskey = s[c].sesskey
    BY <1>5, MovedFields DEF Pc
  <2>2. s' = [s EXCEPT ![c] = st]
    BY <1>10
  <2> HIDE DEF st
  <2>3. FlowOK(st)
    BY <1>6, <2>1 DEF FlowOK, Idle, Ending, LoginSteps, Joining, Working
  <2>4. NameOK(st, k[c].phase)
    BY <1>1, <1>3, <1>4, <1>6, <2>1 DEF Fits, NameOK, Joining
  <2>5. EffectsOK(st, k[c].phase) /\ ChunkOK(c, st, k[c].said, k[c].chunk)
    BY <1>4, <1>6, <2>1 DEF EffectsOK, ChunkOK, Ending, Joining
  <2>6. Shape(c, st)
    BY <1>1, <1>10, <2>1, <2>2, <2>3, <2>4, <2>5 DEF Shape, Fits, Open
  <2>7. Named(c, st)
    BY <1>1, <1>3, <1>6, <2>1 DEF Named, Mine, tables
  <2>8. Sessioned(c, st) /\ Befriended(c, st)
    BY <1>1, <1>10, <2>1 DEF Sessioned, Befriended, tables
  <2>9. Posted(c, st)
    BY <1>1, <1>6, <1>10, <2>1 DEF Posted, tables, LocalInv, TypesOK
  <2> QED  BY <2>6, <2>7, <2>8, <2>9 DEF Step
<1>11. CASE /\ s' = [s EXCEPT ![c] = ended]
            /\ loop' = IF s[c].sesskey THEN NoConn ELSE c
  <2> DEFINE st == ended
  <2>1. /\ st \in State /\ st.pc = label /\ st.todo = <<>> /\ st.eff = es
        /\ st.cur = <<>> /\ st.profileid = p /\ st.buddies = s[c].buddies
        /\ st.sesskey = s[c].sesskey
    BY <1>5, <1>9 DEF Moved, State, Pc
  <2>2. label \in Ending /\ (label = "bye" <=> ~s[c].sesskey)
    BY DEF Ending
  <2>3. s' = [s EXCEPT ![c] = st]
    BY <1>11
  <2> HIDE DEF st, label
  <2>4. FlowOK(st)
    BY <1>6, <2>1, <2>2 DEF FlowOK, Idle, Ending, LoginSteps, Joining, Working
  <2>5. NameOK(st, k[c].phase)
    BY <1>1, <1>3, <1>4, <1>6, <2>1, <2>2 DEF Fits, NameOK, Joining, Ending
  <2>6. \A e \in Range(es) : /\ e.effect # "register" /\ ~IsMail(e) /\ e # Response(LoggedIn)
                             /\ Moves(e) => e = Delete(p) /\ p # NoProfile
    BY <1>7, <1>8, <1>9, TidingsMoveNothing
  <2>7. EffectsOK(st, k[c].phase)
    BY <1>4, <1>6, <1>8, <1>9, <2>1, <2>2, <2>6 DEF EffectsOK, Ending, Joining
  <2>8. ChunkOK(c, st, k[c].said, k[c].chunk)
    BY <1>6, <2>1, <2>6 DEF ChunkOK
  <2>9. Shape(c, st)
    BY <1>1, <1>11, <2>1, <2>2, <2>3, <2>4, <2>5, <2>7, <2>8 DEF Shape, Fits, Open, Ending
  <2>10. Named(c, st)
    BY <1>1, <1>3, <1>6, <1>8, <2>1, <2>2, <2>6 DEF Named, Mine, tables, Ending
  <2>11. Sessioned(c, st) /\ Befriended(c, st)
    BY <1>1, <2>1, <2>2 DEF Sessioned, Befriended, tables, Ending
  <2>12. Posted(c, st)
    <3>1. \A q : ~LeavesLast(s[c].eff, q)
      BY <1>4, <1>6 DEF LeavesLast
    <3> QED  BY <1>1, <1>4, <1>6, <2>1, <2>6, <3>1 DEF Posted, tables, LocalInv, TypesOK
  <2> QED  BY <2>9, <2>10, <2>11, <2>12 DEF Step
<1> QED  BY <1>2, <1>10, <1>11

\* The session of the profile is deleted.
LEMMA DeleteSessionStep ==
    ASSUME LocalInv, NEW c \in Conn, DeleteSession(c)
    PROVE  \E st : Step(c, st)
<1> DEFINE st == Moved(s[c], "bye")
<1>1. /\ s[c].pc = "unsession" /\ loop \in {NoConn, c}
      /\ s' = [s EXCEPT ![c] = st] /\ loop' = c
      /\ sessions' = {r \in sessions : r.profileid # s[c].profileid}
      /\ UNCHANGED <<pid_map, users, buddies, pending_messages, k, history>>
  BY DEF DeleteSession, At, GoOn, Moved
<1>2. s[c] \in State /\ Fits(c, s[c], k[c].phase, k[c].said, k[c].chunk)
      /\ Mine(c, s[c], users)
  BY LocalFacts
<1>3. /\ st \in State /\ st.pc = "bye" /\ st.todo = s[c].todo /\ st.eff = s[c].eff
      /\ st.cur = s[c].cur /\ st.profileid = s[c].profileid /\ st.buddies = s[c].buddies
      /\ st.sesskey = s[c].sesskey
  BY <1>2, MovedFields DEF Pc
<1> HIDE DEF st
<1>4. s[c].todo = <<>> /\ s[c].todo # Login
  BY <1>1, <1>2, LoginIsNoCommand DEF Fits, FlowOK, Idle, Ending
<1>5. FlowOK(st)
  BY <1>1, <1>2, <1>3, <1>4 DEF Fits, FlowOK, Idle, Ending, LoginSteps, Joining, Working
<1>6. NameOK(st, k[c].phase)
  BY <1>1, <1>2, <1>3, <1>4 DEF Fits, NameOK, Joining
<1>7. EffectsOK(st, k[c].phase)
  BY <1>1, <1>2, <1>3 DEF Fits, EffectsOK, Ending, Joining, Working
<1>8. ChunkOK(c, st, k[c].said, k[c].chunk)
  BY <1>1, <1>2, <1>3, <1>4 DEF Fits, ChunkOK
<1>9. Shape(c, st)
  BY <1>1, <1>3, <1>5, <1>6, <1>7, <1>8 DEF Shape, Fits, Open, history
<1>10. Named(c, st) /\ Sessioned(c, st) /\ Befriended(c, st)
  <2>1. Named(c, st)
    BY <1>1, <1>2, <1>3 DEF Named, Mine
  <2>2. Sessioned(c, st)
    <3>1. s[c].sesskey => st.sesskey
      BY <1>3
    <3> QED  BY <1>1, <1>3, <3>1 DEF Sessioned
  <2>3. Befriended(c, st)
    BY <1>1, <1>3 DEF Befriended
  <2> QED  BY <2>1, <2>2, <2>3
<1>11. Posted(c, st)
  BY <1>1, <1>3 DEF Posted, LocalInv, TypesOK
<1> QED  BY <1>9, <1>10, <1>11 DEF Step

(***************************************************************************)
(* Every step of the server is of this kind, or lets effects take place.   *)
(***************************************************************************)
LEMMA ServerSteps ==
    ASSUME LocalInv, NEW c \in Conn, Server(c)
    PROVE  EndOfChunk(c) \/ Close(c) \/ \E st : Step(c, st)
<1>1. CASE LoginAwaitsToken(c)    BY <1>1, LoginAwaitsTokenStep
<1>2. CASE UnknownToken(c)        BY <1>2, UnknownTokenStep
<1>3. CASE NewUser(c)             BY <1>3, NewUserStep
<1>4. CASE CreateUser(c)          BY <1>4, CreateUserStep
<1>5. CASE PerformLogin(c)        BY <1>5, PerformLoginStep
<1>6. CASE GetBuddyList(c)        BY <1>6, GetBuddyListStep
<1>7. CASE CleanseSessions(c)     BY <1>7, CleanseSessionsStep
<1>8. CASE InsertSession(c)       BY <1>8, InsertSessionStep
<1>9. CASE GetPendingMessages(c)  BY <1>9, GetPendingMessagesStep
<1>10. CASE Logout(c)             BY <1>10, LogoutStep
<1>11. CASE Status(c)             BY <1>11, StatusStep
<1>12. CASE BuddyMessage(c)       BY <1>12, BuddyMessageStep
<1>13. CASE SavePendingMessage(c) BY <1>13, SavePendingMessageStep
<1>14. CASE AddOrDelAwaits(c)     BY <1>14, AddOrDelAwaitsStep
<1>15. CASE AddOrDelRow(c)        BY <1>15, AddOrDelRowStep
<1>16. CASE RereadBuddyList(c)    BY <1>16, RereadBuddyListStep
<1>17. CASE AuthAdd(c)            BY <1>17, AuthAddStep
<1>18. CASE EndOfStream(c)        BY <1>18, EndOfStreamStep
<1>19. CASE OnConnectionLost(c)   BY <1>19, OnConnectionLostStep
<1>20. CASE DeleteSession(c)      BY <1>20, DeleteSessionStep
<1> QED
  BY <1>1, <1>2, <1>3, <1>4, <1>5, <1>6, <1>7, <1>8, <1>9, <1>10, <1>11, <1>12, <1>13,
     <1>14, <1>15, <1>16, <1>17, <1>18, <1>19, <1>20 DEF Server

-----------------------------------------------------------------------------
(* What such a step preserves. *)

\* What connections share, and what holds for one of them.
SharedInv ==
    /\ OverlapOK /\ RowsOK /\ SessionsOK
    /\ BuddiesOK /\ OnlineOK /\ RoutedOK /\ NothingMisrouted

(***************************************************************************)
(* Connections that play one profile are of one user: if both are open,    *)
(* they overlap.                                                           *)
(***************************************************************************)
LEMMA OneUser ==
    ASSUME TypesOK, UsersOK, OverlapOK, NEW c \in Conn, NEW d \in Conn, c # d,
           NEW p, Plays(c, p), Plays(d, p), Open(c), Open(d)
    PROVE  c \in overlap /\ d \in overlap
<1>1. UserOf[c] = UserOf[d]
  BY DEF Plays, UsersOK
<1> QED  BY <1>1 DEF OverlapOK

\* Such a step touches one connection.
LEMMA StepFrame ==
    ASSUME TypesOK, NEW c \in Conn, NEW st, Shape(c, st)
    PROVE  /\ s' \in [Conn -> State] /\ s'[c] = st
           /\ \A d \in Conn : d # c => s'[d] = s[d]
BY DEF Shape, TypesOK

\* It keeps types, and a new row has a new profile.
LEMMA StepTypes ==
    ASSUME LocalInv, NEW c \in Conn, NEW st, Step(c, st)
    PROVE  TypesOK'
<1>1. TypesOK /\ Shape(c, st) /\ s' \in [Conn -> State]
  BY StepFrame DEF LocalInv, Step
<1>2. loop' \in Conn \cup {NoConn}
  BY <1>1 DEF Shape
<1>3. users' \subseteq [user : Range(UserOf), profileid : Profiles] /\ IsFiniteSet(users')
  <2>1. UserOf[c] \in Range(UserOf)
    BY ConnAssumption DEF Range
  <2>2. users \subseteq [user : Range(UserOf), profileid : Profiles] /\ IsFiniteSet(users)
    BY <1>1 DEF TypesOK
  <2>3. \/ users' = users
        \/ /\ Cardinality(users) + 1 \in Profiles
           /\ users' = users \cup {[user |-> UserOf[c], profileid |-> Cardinality(users) + 1]}
    BY DEF Step, Named
  <2>4. CASE users' = users
    BY <2>2, <2>4
  <2>5. CASE /\ Cardinality(users) + 1 \in Profiles
             /\ users' = users \cup {[user |-> UserOf[c], profileid |-> Cardinality(users) + 1]}
    <3> DEFINE row == [user |-> UserOf[c], profileid |-> Cardinality(users) + 1]
    <3>1. row \in [user : Range(UserOf), profileid : Profiles] /\ users' = users \cup {row}
      BY <2>1, <2>5
    <3> HIDE DEF row
    <3> QED  BY <2>2, <3>1, FS_AddElement
  <2> QED  BY <2>3, <2>4, <2>5
<1>4. buddies' \subseteq Profiles \X Profiles
  BY <1>1 DEF Step, Befriended, TypesOK
<1>5. sessions' \subseteq [session : Conn, profileid : Profiles]
  <2>1. s[c].pc = "insert" => s[c].profileid \in Profiles
    BY LocalFacts DEF Fits, NameOK, Joining, State
  <2> QED  BY <1>1, <2>1 DEF Step, Sessioned, TypesOK
<1>6. pending_messages' \subseteq Message /\ IsFiniteSet(pending_messages')
  BY DEF Step, Posted
<1>7. UNCHANGED <<pid_map, k, lost, overlap>>
  BY <1>1 DEF Shape
<1> QED  BY <1>1, <1>2, <1>3, <1>4, <1>5, <1>6, <1>7 DEF TypesOK

\* It keeps what is true of each connection by itself.
LEMMA StepLocal ==
    ASSUME LocalInv, NEW c \in Conn, NEW st, Step(c, st)
    PROVE  LocalInv'
<1>1. /\ TypesOK /\ EachFits /\ LoopOK /\ UsersOK /\ PlaysOK
      /\ Shape(c, st) /\ Named(c, st)
  BY DEF LocalInv, Step
<1>2. s'[c] = st /\ \A d \in Conn : d # c => s'[d] = s[d]
  BY <1>1, StepFrame
<1>3. TypesOK'
  BY StepTypes
<1>4. EachFits'
  BY <1>1, <1>2 DEF EachFits, Shape
<1>5. LoopOK'
  BY <1>1, <1>2, ConnAssumption DEF LoopOK, Shape
<1>6. UsersOK' /\ users \subseteq users'
  <2>1. CASE users' = users
    BY <1>1, <2>1 DEF UsersOK
  <2>2. CASE /\ Cardinality(users) + 1 \in Profiles
             /\ users' = users \cup {[user |-> UserOf[c], profileid |-> Cardinality(users) + 1]}
    <3> DEFINE n == Cardinality(users)
               row == [user |-> UserOf[c], profileid |-> n + 1]
    <3>1. n \in Nat /\ \A u \in users : u.profileid <= n /\ u.profileid \in Nat
      BY <1>1, FS_CardinalityType DEF UsersOK, TypesOK, Profiles
    <3>2. row \notin users
      BY <3>1
    <3>3. Cardinality(users') = n + 1
      <4> HIDE DEF row
      <4>1. users' = users \cup {row}
        BY <2>2 DEF row
      <4> QED  BY <1>1, <3>1, <3>2, <4>1, FS_AddElement DEF TypesOK
    <3>4. row.profileid = n + 1 /\ users' = users \cup {row}
      BY <2>2
    <3> HIDE DEF n, row
    <3>5. \A u \in users' : u.profileid <= Cardinality(users')
      BY <3>1, <3>3, <3>4
    <3>6. \A u, v \in users' : u.profileid = v.profileid => u = v
      BY <1>1, <3>1, <3>4 DEF UsersOK
    <3> QED  BY <3>4, <3>5, <3>6 DEF UsersOK
  <2> QED  BY <1>1, <2>1, <2>2 DEF Named
<1>7. PlaysOK'
  <2>1. /\ s'[c].profileid # NoProfile => Plays(c, s[c].profileid)'
        /\ \A e \in Range(s'[c].eff) \cup Range(s'[c].cur) : Moves(e) => Plays(c, e.pid)'
    BY <1>1, <1>2 DEF Named, Mine, Plays
  <2>2. ASSUME NEW d \in Conn, d # c
        PROVE  /\ s'[d].profileid # NoProfile => Plays(d, s[d].profileid)'
               /\ \A e \in Range(s'[d].eff) \cup Range(s'[d].cur) : Moves(e) => Plays(d, e.pid)'
    <3>1. /\ s[d].profileid # NoProfile => Plays(d, s[d].profileid)
          /\ \A e \in Range(s[d].eff) \cup Range(s[d].cur) : Moves(e) => Plays(d, e.pid)
      BY <1>1 DEF PlaysOK
    <3> QED  BY <1>2, <1>6, <2>2, <3>1 DEF Plays
  <2> QED  BY <2>1, <2>2 DEF PlaysOK
<1> QED  BY <1>3, <1>4, <1>5, <1>6, <1>7 DEF LocalInv

\* It keeps what connections share.
LEMMA StepShared ==
    ASSUME LocalInv, SharedInv, NEW c \in Conn, NEW st, Step(c, st)
    PROVE  SharedInv'
<1>1. /\ TypesOK /\ EachFits /\ UsersOK /\ PlaysOK
      /\ Shape(c, st) /\ Named(c, st) /\ Sessioned(c, st) /\ Befriended(c, st) /\ Posted(c, st)
      /\ OverlapOK /\ RowsOK /\ SessionsOK /\ BuddiesOK /\ OnlineOK /\ RoutedOK
      /\ NothingMisrouted
  BY DEF LocalInv, SharedInv, Step
<1>2. s'[c] = st /\ \A d \in Conn : d # c => s'[d] = s[d]
  BY <1>1, StepFrame
<1>3. UNCHANGED <<pid_map, k, lost, overlap>> /\ Open(c) /\ st.pc # "new"
  BY <1>1 DEF Shape
<1>4. OverlapOK'
  BY <1>1, <1>2, <1>3 DEF OverlapOK, Open
<1>5. users \subseteq users' /\ Mine(c, st, users')
  BY <1>1 DEF Named
<1>6. RowsOK'
  <2>1. CASE users' = users
    BY <1>1, <1>2, <1>3, <2>1 DEF RowsOK, Named
  <2>2. CASE /\ s[c].pc = "create"
             /\ users' = users \cup {[user |-> UserOf[c], profileid |-> Cardinality(users) + 1]}
             /\ users' # users
    <3>1. \A u \in users' \ users : u.user = UserOf[c]
      BY <2>2
    <3>2. st.pc # "create"
      BY <1>1, <2>2 DEF Named
    <3>3. \A d \in Conn : d # c /\ s[d].pc = "create" /\ UserOf[d] = UserOf[c] => d \in overlap
      BY <1>1, <1>3 DEF OverlapOK, Open
    <3>4. c \in overlap \/ \A u \in users : u.user # UserOf[c]
      BY <1>1, <2>2 DEF RowsOK
    <3>5. \A d \in Conn : s'[d].pc = "create" =>
              d \in overlap \/ \A u \in users' : u.user # UserOf[d]
      BY <1>1, <1>2, <3>1, <3>2, <3>3 DEF RowsOK
    <3>6. \A u, v \in users' : u.user = v.user /\ u # v => \E d \in overlap : UserOf[d] = u.user
      <4>1. \A u, v \in users : u.user = v.user /\ u # v => \E d \in overlap : UserOf[d] = u.user
        BY <1>1 DEF RowsOK
      <4>2. \A u, v \in users' \ users : u = v
        BY <2>2
      <4> QED  BY <3>1, <3>4, <4>1, <4>2
    <3> QED  BY <1>3, <3>5, <3>6 DEF RowsOK
  <2> QED  BY <1>1, <2>1, <2>2 DEF Named
<1>7. SessionsOK'
  <2>1. \/ sessions' \subseteq sessions
        \/ /\ s[c].pc = "insert" /\ st.pc # "insert" /\ st.profileid = s[c].profileid
           /\ sessions' = sessions \cup {[session |-> c, profileid |-> s[c].profileid]}
    BY <1>1 DEF Sessioned
  <2>2. s[c].pc = "insert" => s[c].profileid # NoProfile /\ Plays(c, s[c].profileid)
    BY <1>1 DEF EachFits, Fits, NameOK, Joining, PlaysOK
  <2>3. \A r \in sessions' : Plays(r.session, r.profileid)' /\ s'[r.session].pc # "new"
    <3>1. \A r \in sessions : r.session \in Conn /\ Plays(r.session, r.profileid)
                              /\ s[r.session].pc # "new"
      BY <1>1 DEF SessionsOK, TypesOK
    <3>2. \A d, p : Plays(d, p) => Plays(d, p)'
      BY <1>5 DEF Plays
    <3> QED  BY <1>2, <1>3, <2>1, <2>2, <3>1, <3>2
  <2>4. ASSUME NEW d \in Conn, NEW r \in sessions', s'[d].pc = "insert",
               r.profileid = s'[d].profileid
        PROVE  {d, r.session} \subseteq overlap
    <3>1. CASE d = c
      <4>1. sessions' = {q \in sessions : q.profileid # s[c].profileid} /\ st.profileid = s[c].profileid
        BY <1>1, <1>2, <2>4, <3>1 DEF Sessioned
      <4> QED  BY <1>2, <2>4, <3>1, <4>1
    <3>2. CASE d # c /\ r \in sessions
      BY <1>1, <1>2, <2>4, <3>2 DEF SessionsOK
    <3>3. CASE d # c /\ r \notin sessions
      <4>1. s[c].pc = "insert" /\ r = [session |-> c, profileid |-> s[c].profileid]
        BY <2>1, <2>4, <3>3
      <4>2. s[d].pc = "insert" /\ s[d].profileid = s[c].profileid
        BY <1>2, <2>4, <3>3, <4>1
      <4>3. Plays(c, s[c].profileid) /\ Plays(d, s[c].profileid)
        BY <1>1, <2>2, <4>1, <4>2 DEF PlaysOK
      <4>4. Open(d)
        BY <4>2 DEF Open
      <4> QED  BY <1>1, <1>3, <3>3, <4>1, <4>3, <4>4, OneUser
    <3> QED  BY <3>1, <3>2, <3>3
  <2>5. \A q, r \in sessions' :
            q.profileid = r.profileid /\ q # r => {q.session, r.session} \subseteq overlap
    <3>1. \A q, r \in sessions :
              q.profileid = r.profileid /\ q # r => {q.session, r.session} \subseteq overlap
      BY <1>1 DEF SessionsOK
    <3>2. s[c].pc = "insert" => \A r \in sessions : r.profileid = s[c].profileid =>
              {c, r.session} \subseteq overlap
      BY <1>1 DEF SessionsOK
    <3> QED  BY <2>1, <3>1, <3>2
  <2> QED  BY <1>3, <2>3, <2>4, <2>5 DEF SessionsOK
<1>8. BuddiesOK'
  <2> SUFFICES ASSUME NEW d \in Conn, d \notin overlap, Open(d)', s'[d].profileid # NoProfile,
                      s'[d].pc \notin {"friends", "reread"}
               PROVE  (s[d].buddies = BuddyList(s[d].profileid))'
    BY <1>3 DEF BuddiesOK
  <2>1. CASE d = c
    <3>1. buddies' = buddies
      BY <1>1, <1>2, <2>1 DEF Befriended
    <3>2. st.profileid = s[c].profileid
      BY <1>1, <1>2, <2>1 DEF Named
    <3>3. st.buddies = BuddyList(s[c].profileid)
      BY <1>1, <1>2, <1>3, <2>1, <3>2 DEF Befriended, BuddiesOK
    <3> QED  BY <1>2, <2>1, <3>1, <3>2, <3>3 DEF BuddyList
  <2>2. CASE d # c
    <3>1. s'[d] = s[d] /\ s[d].buddies = BuddyList(s[d].profileid)
      BY <1>1, <1>2, <2>2 DEF BuddiesOK, Open
    <3>2. buddies' # buddies => s[d].profileid # s[c].profileid
      <4> SUFFICES ASSUME buddies' # buddies, s[d].profileid = s[c].profileid
                   PROVE  FALSE
        OBVIOUS
      <4>1. Plays(c, s[c].profileid) /\ Plays(d, s[c].profileid)
        BY <1>1, <3>1 DEF PlaysOK
      <4>2. Open(d)
        BY <3>1 DEF Open
      <4> QED  BY <1>1, <1>3, <2>2, <4>1, <4>2, OneUser
    <3>3. {r \in buddies' : r[1] = s[d].profileid} = {r \in buddies : r[1] = s[d].profileid}
      BY <1>1, <3>2 DEF Befriended
    <3> QED  BY <3>1, <3>3 DEF BuddyList
  <2> QED  BY <2>1, <2>2
<1>9. OnlineOK'
  BY <1>1, <1>2, <1>3 DEF OnlineOK, Named
<1>10. RoutedOK'
  BY <1>1, <1>2, <1>3 DEF RoutedOK, Posted, Active
<1>11. NothingMisrouted'
  BY <1>1, <1>3 DEF NothingMisrouted
<1> QED  BY <1>4, <1>6, <1>7, <1>8, <1>9, <1>10, <1>11 DEF SharedInv

(***************************************************************************)
(* Of connections that did not raise, those in the registry are open, rows *)
(* of table sessions go with them, and no message is dropped.              *)
(***************************************************************************)
LEMMA StepCalm ==
    ASSUME LocalInv, CalmInv, raised \subseteq raised', NEW c \in Conn, NEW st, Step(c, st)
    PROVE  CalmInv'
<1>1. /\ TypesOK /\ EachFits /\ LiveUnlessRaised /\ EndedOK /\ MailIsKept
      /\ Shape(c, st) /\ Named(c, st) /\ Sessioned(c, st) /\ Posted(c, st)
  BY DEF LocalInv, CalmInv, Step
<1>2. s'[c] = st /\ \A d \in Conn : d # c => s'[d] = s[d]
  BY <1>1, StepFrame
<1>3. /\ UNCHANGED <<pid_map, k, lost, overlap>> /\ st.pc # "new"
      /\ c \notin raised' => st.pc # "closed"
  BY <1>1 DEF Shape, Sessioned
<1>4. LiveUnlessRaised'
  <2>1. c \notin raised' =>
            \A p \in Profiles : s[c].profileid = p \/ LeavesLast(s[c].eff, p) =>
                                st.profileid = p \/ LeavesLast(st.eff, p)
    BY <1>1 DEF Posted
  <2> QED  BY <1>1, <1>2, <1>3, <2>1 DEF LiveUnlessRaised, Open
<1>5. EndedOK'
  <2> SUFFICES ASSUME NEW r \in sessions', r.session \notin raised'
               PROVE  LET d == r.session
                      IN  /\ s'[d].sesskey
                          /\ s'[d].profileid = r.profileid \/ LogoutOf(d)
                          /\ s'[d].pc \in {"bye", "closed"} => LogoutOf(d)
    BY <1>3 DEF EndedOK, LogoutOf
  <2>1. CASE r \in sessions /\ r.session # c
    <3>1. r.session \in Conn
      BY <1>1, <2>1 DEF TypesOK
    <3> QED  BY <1>1, <1>2, <2>1, <3>1 DEF EndedOK
  <2>2. CASE r \in sessions /\ r.session = c
    <3>1. /\ s[c].sesskey /\ (s[c].profileid = r.profileid \/ LogoutOf(c))
          /\ s[c].pc \in {"bye", "closed"} => LogoutOf(c)
      BY <1>1, <2>2 DEF EndedOK
    <3>2. st.sesskey
      <4>1. s[c].sesskey => st.sesskey
        BY <1>1 DEF Sessioned
      <4> QED  BY <3>1, <4>1
    <3>3. st.profileid = r.profileid \/ LogoutOf(c)
      BY <1>1, <3>1 DEF Named
    <3>4. st.pc = "bye" => LogoutOf(c)
      BY <1>1, <3>1 DEF Sessioned
    <3> QED  BY <1>2, <1>3, <2>2, <3>2, <3>3, <3>4
  <2>3. CASE r \notin sessions
    <3>1. /\ s[c].pc = "insert" /\ st.profileid = s[c].profileid /\ st.sesskey
          /\ r = [session |-> c, profileid |-> s[c].profileid]
      BY <1>1, <2>3 DEF Sessioned
    <3>2. st.pc # "bye"
      BY <1>1, <3>1 DEF Sessioned
    <3> QED  BY <1>2, <1>3, <3>1, <3>2
  <2> QED  BY <2>1, <2>2, <2>3
<1>6. MailIsKept'
  <2> SUFFICES ASSUME NEW d \in Conn, d \notin raised',
                      NEW cmd \in k[d].said, cmd.cmd = "bm"
               PROVE  LET msg == [by |-> d, to |-> cmd.who]
                      IN  \/ msg \in pending_messages'
                          \/ \E b \in Conn : msg \in k[b].got
                          \/ \E i \in DOMAIN s'[d].todo : s'[d].todo[i] = cmd
                          \/ \E i \in DOMAIN s'[d].eff : s'[d].eff[i] = Route(cmd.who, Mail(msg))
                          \/ \E l \in lost : l.msg = msg
    BY <1>3 DEF MailIsKept
  <2> DEFINE msg == [by |-> d, to |-> cmd.who]
             mail == Route(cmd.who, Mail(msg))
  <2>1. \/ msg \in pending_messages
        \/ \E b \in Conn : msg \in k[b].got
        \/ cmd \in ToSet(s[d].todo)
        \/ mail \in Range(s[d].eff)
        \/ \E l \in lost : l.msg = msg
    BY <1>1 DEF MailIsKept, ToSet, Range
  <2>2. d = c => /\ Range(s[c].eff) \subseteq Range(st.eff)
                 /\ cmd \in ToSet(s[c].todo) => \/ cmd \in ToSet(st.todo)
                                                \/ msg \in pending_messages'
                                                \/ mail \in Range(st.eff)
    BY <1>1 DEF Posted
  <2>3. pending_messages \subseteq pending_messages'
    BY <1>1 DEF Posted
  <2>4. \/ msg \in pending_messages'
        \/ \E b \in Conn : msg \in k[b].got
        \/ cmd \in ToSet(s'[d].todo)
        \/ mail \in Range(s'[d].eff)
        \/ \E l \in lost : l.msg = msg
    BY <1>2, <2>1, <2>2, <2>3
  <2> QED  BY <2>4 DEF ToSet, Range
<1> QED  BY <1>4, <1>5, <1>6 DEF CalmInv

-----------------------------------------------------------------------------
(***************************************************************************)
(* The effects of connection c take place.  It is the one that runs, and   *)
(* reads on or is closed.                                                  *)
(***************************************************************************)
Takes(c, label) ==
    /\ s[c].pc = IF label = "read" THEN "next" ELSE "bye"
    /\ s[c].todo = <<>> /\ loop \in {NoConn, c}
    /\ ProcessEffects(c)
    /\ s' = [s EXCEPT ![c] = [s[c] EXCEPT !.pc = label, !.eff = <<>>]]
    /\ loop' = NoConn
    /\ UNCHANGED <<tables, raced, raised, overlap>>

\* The end of a chunk and of a connection are the steps where effects take place.
LEMMA TakesEffects ==
    ASSUME LocalInv, NEW c \in Conn, EndOfChunk(c) \/ Close(c)
    PROVE  \E label \in {"read", "closed"} : Takes(c, label)
<1>1. s[c] \in State /\ Fits(c, s[c], k[c].phase, k[c].said, k[c].chunk) /\ s \in [Conn -> State]
  BY LocalFacts DEF LocalInv, TypesOK
<1>2. CASE EndOfChunk(c)
  <2>1. s' = [s EXCEPT ![c] = [s[c] EXCEPT !.pc = "read", !.eff = <<>>]]
    BY <1>1, <1>2 DEF EndOfChunk, State
  <2>2. Takes(c, "read")
    BY <1>2, <2>1 DEF EndOfChunk, At, Takes
  <2> QED  BY <2>2
<1>3. CASE Close(c)
  <2>1. s' = [s EXCEPT ![c] = [s[c] EXCEPT !.pc = "closed", !.eff = <<>>]]
    BY <1>1, <1>3 DEF Close, State
  <2>2. s[c].todo = <<>>
    BY <1>1, <1>3 DEF Close, At, Fits, FlowOK, Ending
  <2>3. Takes(c, "closed")
    BY <1>3, <2>1, <2>2 DEF Close, At, Takes
  <2> QED  BY <2>3
<1> QED  BY <1>2, <1>3

\* The connection has nothing left to do then.
LEMMA TakesFields ==
    ASSUME LocalInv, NEW c \in Conn, NEW label \in {"read", "closed"}, Takes(c, label)
    PROVE  /\ s' \in [Conn -> State]
           /\ s'[c].pc = label /\ s'[c].todo = <<>> /\ s'[c].eff = <<>> /\ s'[c].cur = <<>>
           /\ s'[c].profileid = s[c].profileid /\ s'[c].buddies = s[c].buddies
           /\ s'[c].sesskey = s[c].sesskey
           /\ \A d \in Conn : d # c => s'[d] = s[d]
           /\ UNCHANGED <<users, buddies, sessions, pending_messages, overlap>>
           /\ Open(c) /\ k[c].phase \notin {"off", "up"}
<1> DEFINE st == [s[c] EXCEPT !.pc = label, !.eff = <<>>]
<1>1. /\ s[c] \in State /\ Fits(c, s[c], k[c].phase, k[c].said, k[c].chunk)
      /\ s \in [Conn -> State]
  BY LocalFacts DEF LocalInv, TypesOK
<1>2. /\ s' = [s EXCEPT ![c] = st] /\ s[c].pc \in {"next", "bye"} /\ s[c].todo = <<>>
      /\ UNCHANGED <<users, buddies, sessions, pending_messages, overlap>>
  BY DEF Takes, tables
<1>3. s[c].cur = <<>> /\ Open(c) /\ k[c].phase \notin {"off", "up"}
  BY <1>1, <1>2 DEF Fits, FlowOK, NameOK, Joining, Open
<1>4. /\ st \in State /\ st.pc = label /\ st.todo = <<>> /\ st.eff = <<>> /\ st.cur = <<>>
      /\ st.profileid = s[c].profileid /\ st.buddies = s[c].buddies
      /\ st.sesskey = s[c].sesskey
  <2>1. <<>> \in Seq(Effect) /\ label \in Pc
    BY EmptySeq DEF Pc
  <2> QED  BY <1>1, <1>2, <1>3, <2>1 DEF State
<1> HIDE DEF st
<1> QED  BY <1>1, <1>2, <1>3, <1>4

\* What consoles know afterwards.
Informed(c) ==
    /\ k' \in [Conn -> Console] /\ lost' \subseteq Lost /\ lost \subseteq lost'
    /\ \A d \in Conn : /\ k'[d].said = k[d].said /\ k'[d].chunk = k[d].chunk
                       /\ k[d].got \subseteq k'[d].got
                       /\ d # c => k'[d].phase = k[d].phase
    /\ \/ k'[c].phase = k[c].phase
       \/ k'[c].phase = "in" /\ Response(LoggedIn) \in Range(s[c].eff)
       \/ k'[c].phase = "refused"

\* Only its own console may change phase, and no message is forgotten.
LEMMA TakesInforms ==
    ASSUME LocalInv, NEW c \in Conn, NEW label, Takes(c, label)
    PROVE  Informed(c)
<1> DEFINE v == Outcome(c)
<1>1. TypesOK /\ k' = v.k /\ lost' = v.lost
  BY DEF LocalInv, Takes, ProcessEffects
<1>2. /\ v \in World
      /\ \A d \in Conn : /\ v.k[d].said = k[d].said /\ v.k[d].chunk = k[d].chunk
                         /\ k[d].got \subseteq v.k[d].got
      /\ lost \subseteq v.lost
      /\ \A d \in Conn : v.k[d].phase # k[d].phase =>
            /\ d = c
            /\ \/ v.k[d].phase = "in" /\ Response(LoggedIn) \in Range(s[c].eff)
               \/ v.k[d].phase = "refused"
  BY <1>1, OutcomeConsoles
<1> HIDE DEF v
<1> QED  BY <1>1, <1>2 DEF Informed, World

\* And the registry.
Listed(c) ==
    /\ pid_map' \in [Profiles -> Conn \cup {NoConn}]
    /\ \A p \in Profiles :
          /\ \/ pid_map'[p] = pid_map[p]
             \/ pid_map'[p] = c /\ Register(p) \in Range(s[c].eff)
             \/ pid_map'[p] = NoConn /\ Delete(p) \in Range(s[c].eff)
          /\ JoinsLast(s[c].eff, p) => pid_map'[p] = c
          /\ LeavesLast(s[c].eff, p) => pid_map'[p] = NoConn

\* The registry changes for the profiles its effects name, the last one counts.
LEMMA TakesLists ==
    ASSUME LocalInv, NEW c \in Conn, NEW label, Takes(c, label)
    PROVE  Listed(c)
<1>1. TypesOK /\ pid_map' = Outcome(c).map
  BY DEF LocalInv, Takes, ProcessEffects
<1>2. Outcome(c) \in World
  BY <1>1, OutcomeConsoles
<1> QED  BY <1>1, <1>2, OutcomeRegistry DEF Listed, World

\* It keeps what is true of each connection by itself.
LEMMA TakesLocal ==
    ASSUME LocalInv, NEW c \in Conn, NEW label \in {"read", "closed"}, Takes(c, label)
    PROVE  LocalInv'
<1>1. /\ TypesOK /\ EachFits /\ LoopOK /\ UsersOK /\ PlaysOK
      /\ Fits(c, s[c], k[c].phase, k[c].said, k[c].chunk)
  BY LocalFacts DEF LocalInv
<1>2. /\ s' \in [Conn -> State]
      /\ s'[c].pc = label /\ s'[c].todo = <<>> /\ s'[c].eff = <<>> /\ s'[c].cur = <<>>
      /\ s'[c].profileid = s[c].profileid
      /\ \A d \in Conn : d # c => s'[d] = s[d]
      /\ UNCHANGED <<users, buddies, sessions, pending_messages, overlap>>
      /\ k[c].phase \notin {"off", "up"}
  BY TakesFields
<1>3. Informed(c) /\ Listed(c)
  BY TakesInforms, TakesLists
<1>4. loop' = NoConn /\ loop \in {NoConn, c}
  BY DEF Takes
<1>5. TypesOK'
  BY <1>1, <1>2, <1>3, <1>4 DEF TypesOK, Informed, Listed
<1>6. Range(<<>>) = {} /\ ToSet(<<>>) = {} /\ DOMAIN <<>> = {} /\ <<>> # Login
  BY LoginIsNoCommand DEF Range, ToSet
<1>7. EachFits'
  <2>1. Fits(c, s'[c], k'[c].phase, k'[c].said, k'[c].chunk)
    <3>1. k'[c].phase = "in" => label = "read" /\ s[c].profileid # NoProfile /\ Awaits
      <4>1. s[c].pc = IF label = "read" THEN "next" ELSE "bye"
        BY DEF Takes
      <4>2. k[c].phase = "in" => s[c].profileid # NoProfile /\ s[c].pc \in Working /\ Awaits
        BY <1>1 DEF Fits, EffectsOK
      <4>3. Response(LoggedIn) \in Range(s[c].eff) => s[c].profileid # NoProfile /\ s[c].pc = "next"
        BY <1>1 DEF Fits, EffectsOK
      <4>4. s[c].pc = "next" => Awaits
        BY <1>1 DEF Fits, FlowOK, Working
      <4> QED  BY <1>3, <4>1, <4>2, <4>3, <4>4 DEF Informed, Working
    <3>2. k'[c].phase \notin {"off", "up"}
      BY <1>2, <1>3 DEF Informed
    <3>3. FlowOK(s'[c])
      BY <1>2, <1>6 DEF FlowOK, Idle, Ending, LoginSteps, Joining, Working
    <3>4. NameOK(s'[c], k'[c].phase)
      BY <1>2, <1>6, <3>2 DEF NameOK, Joining
    <3>5. EffectsOK(s'[c], k'[c].phase)
      BY <1>2, <1>6, <3>1 DEF EffectsOK, Joining, Ending, Working
    <3>6. ChunkOK(c, s'[c], k'[c].said, k'[c].chunk)
      BY <1>2, <1>6 DEF ChunkOK
    <3> QED  BY <3>3, <3>4, <3>5, <3>6 DEF Fits
  <2>2. \A d \in Conn : d # c => Fits(d, s'[d], k'[d].phase, k'[d].said, k'[d].chunk)
    BY <1>1, <1>2, <1>3 DEF EachFits, Informed
  <2> QED  BY <2>1, <2>2 DEF EachFits
<1>8. LoopOK'
  BY <1>1, <1>2, <1>4, ConnAssumption DEF LoopOK
<1>9. UsersOK'
  BY <1>1, <1>2 DEF UsersOK
<1>10. PlaysOK'
  BY <1>1, <1>2, <1>6 DEF PlaysOK, Plays
<1> QED  BY <1>5, <1>7, <1>8, <1>9, <1>10 DEF LocalInv

\* It keeps what connections share: who is logged in by it is registered by it,
\* and it moves no profile of others.
LEMMA TakesShared ==
    ASSUME LocalInv, SharedInv, NEW c \in Conn, NEW label \in {"read", "closed"}, Takes(c, label)
    PROVE  SharedInv'
<1>1. /\ TypesOK /\ EachFits /\ LoopOK /\ UsersOK /\ PlaysOK
      /\ Fits(c, s[c], k[c].phase, k[c].said, k[c].chunk)
      /\ OverlapOK /\ RowsOK /\ SessionsOK /\ BuddiesOK /\ OnlineOK /\ RoutedOK
      /\ NothingMisrouted
  BY LocalFacts DEF LocalInv, SharedInv
<1>2. /\ s'[c].pc = label /\ s'[c].eff = <<>>
      /\ s'[c].profileid = s[c].profileid /\ s'[c].buddies = s[c].buddies
      /\ \A d \in Conn : d # c => s'[d] = s[d]
      /\ UNCHANGED <<users, buddies, sessions, overlap>>
      /\ Open(c)
  BY TakesFields
<1>3. Informed(c) /\ Listed(c)
  BY TakesInforms, TakesLists
<1>4. loop \in {NoConn, c} /\ s[c].pc = IF label = "read" THEN "next" ELSE "bye"
  BY DEF Takes
<1>5. OverlapOK'
  BY <1>1, <1>2 DEF OverlapOK, Open
<1>6. RowsOK'
  BY <1>1, <1>2 DEF RowsOK
<1>7. SessionsOK'
  <2>1. \A r \in sessions : Plays(r.session, r.profileid)' /\ s'[r.session].pc # "new"
    BY <1>1, <1>2 DEF SessionsOK, Plays, TypesOK
  <2>2. \A d \in Conn, r \in sessions : s'[d].pc = "insert" /\ r.profileid = s'[d].profileid
            => {d, r.session} \subseteq overlap
    BY <1>1, <1>2 DEF SessionsOK
  <2> QED  BY <1>1, <1>2, <2>1, <2>2 DEF SessionsOK
<1>8. BuddiesOK'
  <2> SUFFICES ASSUME NEW d \in Conn, d \notin overlap, Open(d)', s'[d].profileid # NoProfile,
                      s'[d].pc \notin {"friends", "reread"}
               PROVE  s'[d].buddies = BuddyList(s[d].profileid) /\ s'[d].profileid = s[d].profileid
    BY <1>2 DEF BuddiesOK, BuddyList
  <2>1. CASE d = c
    BY <1>1, <1>2, <1>4, <2>1 DEF BuddiesOK
  <2>2. CASE d # c
    BY <1>1, <1>2, <2>2 DEF BuddiesOK, Open
  <2> QED  BY <2>1, <2>2
<1>9. OnlineOK'
  <2> SUFFICES ASSUME NEW d \in Conn, d \notin overlap, k'[d].phase = "in"
               PROVE  pid_map'[s'[d].profileid] = d
    BY <1>2 DEF OnlineOK
  <2>1. CASE d = c
    <3>1. CASE k[c].phase = "in"
      <4>1. /\ s[c].profileid \in Profiles /\ pid_map[s[c].profileid] = c
            /\ \A e \in Range(s[c].eff) : ~Moves(e)
        BY <1>1, <2>1, <3>1 DEF OnlineOK, Fits, EffectsOK, TypesOK, State
      <4>2. Register(s[c].profileid) \notin Range(s[c].eff)
            /\ Delete(s[c].profileid) \notin Range(s[c].eff)
        BY <4>1 DEF Register, Delete, Moves
      <4> QED  BY <1>2, <1>3, <2>1, <4>1, <4>2 DEF Listed
    <3>2. CASE k[c].phase # "in"
      <4>1. Response(LoggedIn) \in Range(s[c].eff)
        BY <1>3, <2>1, <3>2 DEF Informed
      <4>2. s[c].profileid \in Profiles /\ JoinsLast(s[c].eff, s[c].profileid)
        BY <1>1, <4>1 DEF Fits, EffectsOK, TypesOK, State
      <4> QED  BY <1>2, <1>3, <2>1, <4>2 DEF Listed
    <3> QED  BY <3>1, <3>2
  <2>2. CASE d # c
    <3> DEFINE p == s[d].profileid
    <3>1. k[d].phase = "in" /\ s'[d] = s[d]
      BY <1>2, <1>3, <2>2 DEF Informed
    <3>2. pid_map[p] = d /\ p \in Profiles /\ s[d].pc \in Working /\ p # NoProfile
      BY <1>1, <1>2, <3>1 DEF OnlineOK, EachFits, Fits, EffectsOK, TypesOK, State
    <3>3. Plays(d, p) /\ Open(d)
      BY <1>1, <3>2 DEF PlaysOK, Open, Working
    <3>4. ~Plays(c, p)
      BY <1>1, <1>2, <2>2, <3>3, OneUser
    <3>5. Register(p) \notin Range(s[c].eff) /\ Delete(p) \notin Range(s[c].eff)
      <4>1. \A e \in Range(s[c].eff) : Moves(e) => e.pid # p
        BY <1>1, <3>4 DEF PlaysOK
      <4> QED  BY <4>1 DEF Register, Delete, Moves
    <3> HIDE DEF p
    <3>6. pid_map'[p] = d
      BY <1>3, <3>2, <3>5 DEF Listed
    <3> QED  BY <3>1, <3>6 DEF p
  <2> QED  BY <2>1, <2>2
<1>10. RoutedOK'
  <2>1. \A d \in Conn : d # c => s[d].pc # "next"
    BY <1>1, <1>4, ConnAssumption DEF LoopOK
  <2>2. \A d \in Conn : d # c /\ Len(k[d].chunk) = 1 => \A e \in Range(s[d].eff) : ~IsMail(e)
    BY <1>1, <2>1 DEF EachFits, Fits, ChunkOK
  <2>3. Range(s'[c].eff) = {}
    BY <1>2 DEF Range
  <2> QED  BY <1>2, <1>3, <2>2, <2>3 DEF RoutedOK, Informed
<1>11. NothingMisrouted'
  <2> DEFINE es == s[c].eff
             n == Len(k[c].chunk)
             late == Outcome(c).lost
  <2>1. ASSUME NEW l \in late \ lost, l.at = NoConn
        PROVE  l.batched
    <3>1. PICK e \in Range(es) : /\ IsMail(e)
                                 /\ Len(es) = 1 => pid_map[e.to] = NoConn
                                 /\ l.batched = (Len(k[e.m.msg.by].chunk) > 1)
      BY <1>1, <2>1, OutcomeMail, Zenon
    <3>2. e.m.msg = [by |-> c, to |-> e.to] /\ n >= 1 /\ (n = 1 => Len(es) = 1)
      <4>1. ChunkOK(c, s[c], k[c].said, k[c].chunk)
        BY <1>1 DEF Fits
      <4> QED  BY <3>1, <4>1, Zenon DEF ChunkOK
    <3>3. e.m.msg.by = c
      BY <3>2
    <3>4. n # 1
      BY <1>1, <3>1, <3>2, Zenon DEF RoutedOK, Active
    <3>5. n \in Nat
      BY LocalFacts, LenProperties
    <3> HIDE DEF es, n
    <3>6. n > 1
      BY <3>2, <3>4, <3>5
    <3>7. l.batched = (n > 1)
      BY <3>1, <3>3, Zenon DEF n
    <3> QED  BY <3>6, <3>7, Zenon
  <2>2. lost' = late
    BY DEF Takes, ProcessEffects
  <2> HIDE DEF late
  <2> QED  BY <1>1, <2>1, <2>2, Zenon DEF NothingMisrouted
<1> QED  BY <1>5, <1>6, <1>7, <1>8, <1>9, <1>10, <1>11 DEF SharedInv

\* It keeps the registry live, and messages that were routed have arrived.
LEMMA TakesCalm ==
    ASSUME LocalInv, CalmInv, NEW c \in Conn, NEW label \in {"read", "closed"}, Takes(c, label)
    PROVE  CalmInv'
<1>1. /\ TypesOK /\ Fits(c, s[c], k[c].phase, k[c].said, k[c].chunk)
      /\ LiveUnlessRaised /\ EndedOK /\ MailIsKept
  BY LocalFacts DEF LocalInv, CalmInv
<1>2. /\ s'[c].pc = label /\ s'[c].eff = <<>> /\ s'[c].todo = <<>>
      /\ s'[c].profileid = s[c].profileid /\ s'[c].sesskey = s[c].sesskey
      /\ \A d \in Conn : d # c => s'[d] = s[d]
      /\ UNCHANGED <<sessions, pending_messages, raised>>
  BY TakesFields DEF Takes
<1>3. Informed(c) /\ Listed(c)
  BY TakesInforms, TakesLists
<1>4. s[c].pc = (IF label = "read" THEN "next" ELSE "bye") /\ s[c].todo = <<>>
  BY DEF Takes
<1>5. LiveUnlessRaised'
  <2> SUFFICES ASSUME NEW d \in Conn \ raised, NEW p \in Profiles, pid_map'[p] = d
               PROVE  /\ s'[d].pc \notin {"new", "closed"}
                      /\ s'[d].profileid = p \/ LeavesLast(s'[d].eff, p)
    BY <1>2 DEF LiveUnlessRaised, Open
  <2>1. CASE d # c
    <3>1. pid_map[p] = d
      BY <1>3, <2>1, ConnAssumption DEF Listed
    <3> QED  BY <1>1, <1>2, <2>1, <3>1 DEF LiveUnlessRaised, Open
  <2>2. CASE d = c
    <3>1. ~LeavesLast(s[c].eff, p)
      BY <1>3, <2>2, ConnAssumption DEF Listed
    <3>2. s[c].profileid = p
      <4>1. CASE Register(p) \in Range(s[c].eff)
        <5>1. \A e \in Range(s[c].eff) : e.effect = "register" => e.pid = s[c].profileid
          BY <1>1 DEF Fits, EffectsOK
        <5> QED  BY <4>1, <5>1 DEF Register
      <4>2. CASE Register(p) \notin Range(s[c].eff)
        <5>1. pid_map[p] = c
          BY <1>3, <2>2, <4>2, ConnAssumption DEF Listed
        <5> QED  BY <1>1, <2>2, <3>1, <5>1 DEF LiveUnlessRaised
      <4> QED  BY <4>1, <4>2
    <3>3. label = "read"
      <4> SUFFICES ASSUME s[c].pc = "bye"
                   PROVE  FALSE
        BY <1>4
      <4>1. /\ \A e \in Range(s[c].eff) : e.effect # "register"
            /\ s[c].profileid # NoProfile => Delete(p) \in Range(s[c].eff)
        BY <1>1, <3>2 DEF Fits, EffectsOK, Ending
      <4>2. s[c].profileid # NoProfile
        BY <3>2, BoundAssumption DEF Profiles, NoProfile
      <4>3. LeavesLast(s[c].eff, p)
        BY <4>1, <4>2 DEF LeavesLast, Range
      <4> QED  BY <3>1, <4>3
    <3> QED  BY <1>2, <2>2, <3>2, <3>3
  <2> QED  BY <2>1, <2>2
<1>6. EndedOK'
  <2> SUFFICES ASSUME NEW r \in sessions, r.session \notin raised
               PROVE  LET d == r.session
                      IN  /\ s'[d].sesskey
                          /\ s'[d].profileid = r.profileid \/ LogoutOf(d)
                          /\ s'[d].pc \in {"bye", "closed"} => LogoutOf(d)
    <3>1. \A d \in Conn : LogoutOf(d)' <=> LogoutOf(d)
      BY <1>3 DEF Informed, LogoutOf
    <3>2. \A r \in sessions : r.session \in Conn
      BY <1>1 DEF TypesOK
    <3> QED  BY <1>2, <3>1, <3>2 DEF EndedOK
  <2>1. /\ r.session \in Conn /\ s[r.session].sesskey
        /\ s[r.session].profileid = r.profileid \/ LogoutOf(r.session)
        /\ s[r.session].pc \in {"bye", "closed"} => LogoutOf(r.session)
    BY <1>1 DEF EndedOK, TypesOK
  <2>2. CASE r.session # c
    BY <1>2, <2>1, <2>2
  <2>3. CASE r.session = c
    BY <1>2, <1>4, <2>1, <2>3
  <2> QED  BY <2>2, <2>3
<1>7. MailIsKept'
  <2> SUFFICES ASSUME NEW d \in Conn, d \notin raised,
                      NEW cmd \in k[d].said, cmd.cmd = "bm"
               PROVE  LET msg == [by |-> d, to |-> cmd.who]
                      IN  \/ msg \in pending_messages
                          \/ \E b \in Conn : msg \in k'[b].got
                          \/ \E i \in DOMAIN s'[d].todo : s'[d].todo[i] = cmd
                          \/ \E i \in DOMAIN s'[d].eff : s'[d].eff[i] = Route(cmd.who, Mail(msg))
                          \/ \E l \in lost' : l.msg = msg
    <3>1. /\ pending_messages' = pending_messages /\ raised' = raised
          /\ \A d \in Conn : k'[d].said = k[d].said
      BY <1>2, <1>3 DEF Informed
    <3> QED  BY <3>1 DEF MailIsKept
  <2> DEFINE msg == [by |-> d, to |-> cmd.who]
             mail == Route(cmd.who, Mail(msg))
  <2>1. \/ msg \in pending_messages
        \/ \E b \in Conn : msg \in k[b].got
        \/ \E i \in DOMAIN s[d].todo : s[d].todo[i] = cmd
        \/ \E i \in DOMAIN s[d].eff : s[d].eff[i] = mail
        \/ \E l \in lost : l.msg = msg
    BY <1>1 DEF MailIsKept
  <2>2. (\E b \in Conn : msg \in k[b].got) => \E b \in Conn : msg \in k'[b].got
    BY <1>3 DEF Informed
  <2>3. (\E l \in lost : l.msg = msg) => \E l \in lost' : l.msg = msg
    BY <1>3 DEF Informed
  <2>4. CASE d # c
    BY <1>2, <2>1, <2>2, <2>3, <2>4
  <2>5. CASE d = c
    <3>1. ~\E i \in DOMAIN s[c].todo : s[c].todo[i] = cmd
      BY <1>4
    <3>2. ASSUME NEW i \in DOMAIN s[c].eff, s[c].eff[i] = mail
          PROVE  (\E b \in Conn : msg \in k'[b].got) \/ \E l \in lost' : l.msg = msg
      <4>1. mail \in Range(s[c].eff) /\ IsMail(mail) /\ mail.m.msg = msg
        BY <3>2 DEF Range, IsMail, Route, Mail
      <4>2. k' = Outcome(c).k /\ lost' = Outcome(c).lost
        BY DEF Takes, ProcessEffects
      <4> HIDE DEF mail, msg
      <4> QED  BY <1>1, <4>1, <4>2, OutcomeMail
    <3> QED  BY <2>1, <2>2, <2>3, <2>5, <3>1, <3>2
  <2> QED  BY <2>4, <2>5
<1> QED  BY <1>5, <1>6, <1>7 DEF CalmInv

-----------------------------------------------------------------------------
(***************************************************************************)
(* A console does something, or is read: connection c is st afterwards and *)
(* its console con.  Nobody else is touched, and no effect is added.       *)
(***************************************************************************)
Acts(c, st, con) ==
    /\ st \in State /\ con \in Console /\ Fits(c, st, con.phase, con.said, con.chunk)
    /\ s' = [s EXCEPT ![c] = st] /\ k' = [k EXCEPT ![c] = con]
    /\ UNCHANGED <<pid_map, users, buddies, sessions, pending_messages, lost>>
    /\ st.eff = s[c].eff /\ st.cur = s[c].cur /\ st.profileid = s[c].profileid
    /\ st.buddies = s[c].buddies /\ st.sesskey = s[c].sesskey
    /\ con.got = k[c].got /\ k[c].said \subseteq con.said
    /\ con.chunk = k[c].chunk \/ st.eff = <<>>
    /\ con.phase = "in" => k[c].phase = "in"
    /\ loop' \in Conn \cup {NoConn}
    /\ loop' = c <=> st.pc \in {"next", "lost", "bye"}
    /\ \A d \in Conn : d # c => (loop' = d <=> loop = d)

\* What it is at, and who is there at the same time.
Turns(c, st) ==
    /\ \/ st.pc = s[c].pc
       \/ s[c].pc = "read" /\ st.pc \in {"next", "lost"}
       \/ s[c].pc = "new" /\ st.pc = "read" /\ st.profileid = NoProfile
    /\ overlap \subseteq overlap' /\ overlap' \subseteq Conn
    /\ s[c].pc = "new" /\ st.pc = "read" =>
          \A d \in Conn \ {c} : UserOf[d] = UserOf[c] /\ Open(d) => {c, d} \subseteq overlap'

\* What it said is still to be handled.
Utters(c, st, con) ==
    /\ \A x \in con.said : x.cmd = "bm" => x \in k[c].said \/ x \in ToSet(st.todo)
    /\ ToSet(s[c].todo) \subseteq ToSet(st.todo)

Deed(c) == \E st, con : Acts(c, st, con) /\ Turns(c, st) /\ Utters(c, st, con)

\* A console connects: those of its user that are open overlap with it.
LEMMA ConnectActs ==
    ASSUME LocalInv, NEW c \in Conn, Connect(c)
    PROVE  Deed(c)
<1> DEFINE st == [s[c] EXCEPT !.pc = "read"]
           con == [k[c] EXCEPT !.phase = "up"]
<1>1. /\ s[c] \in State /\ Fits(c, s[c], k[c].phase, k[c].said, k[c].chunk)
      /\ s \in [Conn -> State] /\ k \in [Conn -> Console] /\ k[c] \in Console
      /\ loop \in Conn \cup {NoConn} /\ overlap \subseteq Conn /\ LoopOK
  BY LocalFacts DEF LocalInv, TypesOK
<1>2. /\ s[c].pc = "new" /\ s' = [s EXCEPT ![c] = st] /\ k' = [k EXCEPT ![c] = con]
      /\ overlap' = overlap \cup
            UNION {{c, d} : d \in {e \in Conn \ {c} : UserOf[e] = UserOf[c] /\ Open(e)}}
      /\ UNCHANGED <<pid_map, loop, users, buddies, sessions, pending_messages, lost>>
  BY <1>1 DEF Connect, Open, tables
<1>3. /\ s[c].todo = <<>> /\ s[c].eff = <<>> /\ s[c].cur = <<>> /\ <<>> # Login
      /\ s[c].profileid = NoProfile /\ ~s[c].sesskey /\ loop # c
  BY <1>1, <1>2, LoginIsNoCommand DEF Fits, FlowOK, NameOK, Idle, Joining, LoopOK
<1>4. /\ st \in State /\ st.pc = "read" /\ st.todo = s[c].todo /\ st.eff = s[c].eff
      /\ st.cur = s[c].cur /\ st.profileid = s[c].profileid /\ st.buddies = s[c].buddies
      /\ st.sesskey = s[c].sesskey
  BY <1>1 DEF State, Pc
<1>5. /\ con \in Console /\ con.phase = "up" /\ con.said = k[c].said
      /\ con.chunk = k[c].chunk /\ con.got = k[c].got
  BY <1>1 DEF Console, Phase
<1> HIDE DEF st, con
<1>6. Fits(c, st, con.phase, con.said, con.chunk)
  <2>1. Range(st.eff) = {} /\ ToSet(st.todo) = {} /\ DOMAIN st.todo = {}
    BY <1>3, <1>4 DEF Range, ToSet
  <2>2. FlowOK(st)
    BY <1>3, <1>4, <2>1 DEF FlowOK, Idle, Ending, LoginSteps, Joining, Working
  <2>3. NameOK(st, con.phase)
    BY <1>3, <1>4, <1>5 DEF NameOK, Joining
  <2>4. EffectsOK(st, con.phase)
    BY <1>4, <1>5, <2>1 DEF EffectsOK, Joining, Ending
  <2>5. ChunkOK(c, st, con.said, con.chunk)
    BY <1>3, <1>4, <2>1 DEF ChunkOK
  <2> QED  BY <2>2, <2>3, <2>4, <2>5 DEF Fits
<1>7. Acts(c, st, con)
  BY <1>1, <1>2, <1>3, <1>4, <1>5, <1>6 DEF Acts
<1>8. Turns(c, st)
  BY <1>1, <1>2, <1>3, <1>4 DEF Turns
<1>9. Utters(c, st, con)
  BY <1>4, <1>5 DEF Utters
<1> QED  BY <1>7, <1>8, <1>9 DEF Deed

\* A console goes; the server has not noticed.
LEMMA LeaveActs ==
    ASSUME LocalInv, NEW c \in Conn, Leave(c)
    PROVE  Deed(c)
<1> DEFINE con == [k[c] EXCEPT !.phase = "gone"]
<1>1. /\ s[c] \in State /\ Fits(c, s[c], k[c].phase, k[c].said, k[c].chunk)
      /\ s \in [Conn -> State] /\ k \in [Conn -> Console] /\ k[c] \in Console
      /\ loop \in Conn \cup {NoConn} /\ overlap \subseteq Conn /\ LoopOK
  BY LocalFacts DEF LocalInv, TypesOK
<1>2. /\ k[c].phase # "off" /\ s' = s /\ k' = [k EXCEPT ![c] = con] /\ overlap' = overlap
      /\ UNCHANGED <<pid_map, loop, users, buddies, sessions, pending_messages, lost>>
  BY DEF Leave, Up, tables, history
<1>3. /\ con \in Console /\ con.phase = "gone" /\ con.said = k[c].said
      /\ con.chunk = k[c].chunk /\ con.got = k[c].got
  BY <1>1 DEF Console, Phase
<1> HIDE DEF con
<1>4. Fits(c, s[c], con.phase, con.said, con.chunk)
  <2>1. NameOK(s[c], con.phase) /\ EffectsOK(s[c], con.phase)
    BY <1>1, <1>2, <1>3 DEF Fits, NameOK, EffectsOK
  <2> QED  BY <1>1, <1>3, <2>1 DEF Fits
<1>5. s' = [s EXCEPT ![c] = s[c]]
  BY <1>1, <1>2
<1>6. Acts(c, s[c], con)
  BY <1>1, <1>2, <1>3, <1>4, <1>5 DEF Acts, LoopOK
<1>7. Turns(c, s[c]) /\ Utters(c, s[c], con)
  BY <1>1, <1>2, <1>3 DEF Turns, Utters
<1> QED  BY <1>6, <1>7 DEF Deed

\* The chunk c reads is todo, or its connection ends.
Takeover(c, todo) ==
    IF Awaits THEN [s[c] EXCEPT !.todo = todo, !.pc = "next"] ELSE [s[c] EXCEPT !.pc = "lost"]

\* A connection that reads had nothing left to do.
LEMMA ReadChunkFields ==
    ASSUME LocalInv, NEW c \in Conn, NEW todo \in Seq(Commands) \cup {Login},
           At(c, "read"),
           IF Awaits THEN GoOn(c, [s[c] EXCEPT !.todo = todo], "next") ELSE GoOn(c, s[c], "lost")
    PROVE  LET st == Takeover(c, todo)
           IN  /\ st \in State /\ s' = [s EXCEPT ![c] = st]
               /\ st.pc = (IF Awaits THEN "next" ELSE "lost")
               /\ st.todo = (IF Awaits THEN todo ELSE <<>>)
               /\ st.eff = <<>> /\ st.cur = <<>> /\ st.profileid = s[c].profileid
               /\ st.buddies = s[c].buddies /\ st.sesskey = s[c].sesskey
               /\ s[c].pc = "read" /\ s[c].todo = <<>> /\ s[c].eff = <<>> /\ s[c].cur = <<>>
               /\ loop' = c /\ loop \in {NoConn, c}
<1>1. s[c] \in State /\ Fits(c, s[c], k[c].phase, k[c].said, k[c].chunk)
  BY LocalFacts
<1>2. s[c].pc = "read" /\ loop \in {NoConn, c}
  BY DEF At
<1>3. s[c].todo = <<>> /\ s[c].eff = <<>> /\ s[c].cur = <<>>
  BY <1>1, <1>2 DEF Fits, FlowOK, Idle, Joining
<1>4. CASE Awaits
  <2>1. s' = [s EXCEPT ![c] = Takeover(c, todo)] /\ loop' = c
    BY <1>1, <1>4 DEF GoOn, Takeover
  <2>2. /\ Takeover(c, todo) \in State /\ Takeover(c, todo).pc = "next"
        /\ Takeover(c, todo).todo = todo /\ Takeover(c, todo).eff = s[c].eff
        /\ Takeover(c, todo).cur = s[c].cur /\ Takeover(c, todo).profileid = s[c].profileid
        /\ Takeover(c, todo).buddies = s[c].buddies /\ Takeover(c, todo).sesskey = s[c].sesskey
    BY <1>1, <1>4 DEF Takeover, State, Pc
  <2> QED  BY <1>2, <1>3, <1>4, <2>1, <2>2
<1>5. CASE ~Awaits
  <2>1. s' = [s EXCEPT ![c] = Takeover(c, todo)] /\ loop' = c
    BY <1>5 DEF GoOn, Takeover
  <2>2. /\ Takeover(c, todo) \in State /\ Takeover(c, todo).pc = "lost"
        /\ Takeover(c, todo).todo = s[c].todo /\ Takeover(c, todo).eff = s[c].eff
        /\ Takeover(c, todo).cur = s[c].cur /\ Takeover(c, todo).profileid = s[c].profileid
        /\ Takeover(c, todo).buddies = s[c].buddies /\ Takeover(c, todo).sesskey = s[c].sesskey
    BY <1>1, <1>5 DEF Takeover, State, Pc
  <2> QED  BY <1>2, <1>3, <1>5, <2>1, <2>2
<1> QED  BY <1>4, <1>5

\* A console logs in.
LEMMA SayLoginActs ==
    ASSUME LocalInv, NEW c \in Conn, SayLogin(c)
    PROVE  Deed(c)
<1> DEFINE st == Takeover(c, Login)
           con == [k[c] EXCEPT !.phase = "asked"]
<1>1. /\ s[c] \in State /\ Fits(c, s[c], k[c].phase, k[c].said, k[c].chunk)
      /\ k \in [Conn -> Console] /\ k[c] \in Console
      /\ loop \in Conn \cup {NoConn} /\ overlap \subseteq Conn /\ LoopOK
  BY LocalFacts DEF LocalInv, TypesOK
<1>2. /\ k[c].phase = "up" /\ k' = [k EXCEPT ![c] = con] /\ overlap' = overlap
      /\ UNCHANGED <<pid_map, users, buddies, sessions, pending_messages, lost>>
  BY <1>1 DEF SayLogin, ReadChunk, tables, history
<1>3. /\ st \in State /\ s' = [s EXCEPT ![c] = st]
      /\ st.pc = (IF Awaits THEN "next" ELSE "lost")
      /\ st.todo = (IF Awaits THEN Login ELSE <<>>)
      /\ st.eff = <<>> /\ st.cur = <<>> /\ st.profileid = s[c].profileid
      /\ st.buddies = s[c].buddies /\ st.sesskey = s[c].sesskey
      /\ s[c].pc = "read" /\ s[c].todo = <<>> /\ s[c].eff = <<>> /\ s[c].cur = <<>>
      /\ loop' = c /\ loop \in {NoConn, c}
  BY ReadChunkFields DEF SayLogin, ReadChunk, Login
<1>4. /\ con \in Console /\ con.phase = "asked" /\ con.said = k[c].said
      /\ con.chunk = k[c].chunk /\ con.got = k[c].got
  BY <1>1 DEF Console, Phase
<1> HIDE DEF st, con
<1>5. s[c].profileid = NoProfile /\ ~s[c].sesskey /\ <<>> # Login
  BY <1>1, <1>2, LoginIsNoCommand DEF Fits, NameOK
<1>6. Fits(c, st, con.phase, con.said, con.chunk)
  <2>1. Range(st.eff) = {} /\ \A i \in DOMAIN st.todo : st.todo[i].cmd # "logout"
    BY <1>3 DEF Range, Login
  <2>2. FlowOK(st)
    BY <1>3, <1>5, <2>1 DEF FlowOK, Idle, Ending, LoginSteps, Joining, Working
  <2>3. NameOK(st, con.phase)
    BY <1>3, <1>4, <1>5 DEF NameOK, Joining
  <2>4. EffectsOK(st, con.phase)
    BY <1>3, <1>4, <2>1 DEF EffectsOK, Joining, Ending
  <2>5. ChunkOK(c, st, con.said, con.chunk)
    <3>1. st.todo # Login => st.todo = <<>> /\ ToSet(st.todo) = {}
      BY <1>3 DEF ToSet
    <3> QED  BY <2>1, <3>1 DEF ChunkOK
  <2> QED  BY <2>2, <2>3, <2>4, <2>5 DEF Fits
<1>7. Acts(c, st, con)
  <2>1. loop' \in Conn \cup {NoConn} /\ \A d \in Conn : d # c => (loop' = d <=> loop = d)
    BY <1>3, ConnAssumption
  <2> QED  BY <1>2, <1>3, <1>4, <1>6, <2>1 DEF Acts
<1>8. Turns(c, st)
  BY <1>1, <1>2, <1>3 DEF Turns
<1>9. Utters(c, st, con)
  <2>1. ToSet(s[c].todo) = {}
    BY <1>3 DEF ToSet
  <2> QED  BY <1>4, <2>1 DEF Utters
<1> QED  BY <1>7, <1>8, <1>9 DEF Deed

\* A chunk has commands, and a logout comes last in it.
LEMMA ChunkType ==
    ASSUME NEW c \in Conn, NEW chunk \in Chunks(c)
    PROVE  /\ chunk \in Seq(Commands) /\ Len(chunk) \in Nat /\ Len(chunk) >= 1
           /\ DOMAIN chunk = 1 .. Len(chunk) /\ chunk # <<>> /\ chunk # Login
           /\ Range(chunk) \subseteq Commands /\ ToSet(chunk) = Range(chunk)
           /\ Last(chunk) = chunk[Len(chunk)]
           /\ \A i \in DOMAIN chunk : chunk[i].cmd = "logout" => i = Len(chunk)
<1>1. PICK n \in 1 .. MaxBatch : chunk \in [1 .. n -> Command[c] \ k[c].said]
  BY DEF Chunks
<1>2. Command[c] \subseteq Commands /\ n \in Nat /\ n >= 1
  BY BoundAssumption, ConnAssumption
<1>3. chunk \in [1 .. n -> Commands]
  BY <1>1, <1>2
<1>4. chunk \in Seq(Commands) /\ Len(chunk) = n /\ DOMAIN chunk = 1 .. n
  BY <1>2, <1>3
<1>5. chunk # <<>> /\ chunk # Login
  BY <1>2, <1>4, LoginIsNoCommand, EmptySeq
<1>6. Range(chunk) \subseteq Commands /\ ToSet(chunk) = Range(chunk)
  BY <1>3 DEF Range, ToSet
<1>7. \A i \in DOMAIN chunk : chunk[i].cmd = "logout" => i = Len(chunk)
  BY DEF Chunks
<1> QED  BY <1>2, <1>4, <1>5, <1>6, <1>7 DEF Last

\* A console that is logged in says something.
LEMMA SayActs ==
    ASSUME LocalInv, NEW c \in Conn, Say(c)
    PROVE  Deed(c)
<1>1. /\ s[c] \in State /\ Fits(c, s[c], k[c].phase, k[c].said, k[c].chunk)
      /\ k \in [Conn -> Console] /\ k[c] \in Console
      /\ loop \in Conn \cup {NoConn} /\ overlap \subseteq Conn /\ LoopOK
  BY LocalFacts DEF LocalInv, TypesOK
<1>2. k[c].phase = "in"
  BY DEF Say
<1>3. s[c].profileid # NoProfile /\ Awaits
  BY <1>1, <1>2 DEF Fits, EffectsOK
<1>4. PICK chunk \in Chunks(c) :
          /\ k' = [k EXCEPT ![c].said = @ \cup Range(chunk),
                           ![c].chunk = chunk,
                           ![c].phase = IF Last(chunk).cmd = "logout" THEN "out" ELSE @]
          /\ ReadChunk(c, chunk)
  BY DEF Say
<1>5. /\ chunk \in Seq(Commands) /\ Len(chunk) \in Nat /\ Len(chunk) >= 1
      /\ DOMAIN chunk = 1 .. Len(chunk) /\ chunk # <<>> /\ chunk # Login
      /\ Range(chunk) \subseteq Commands /\ ToSet(chunk) = Range(chunk)
      /\ Last(chunk) = chunk[Len(chunk)]
      /\ \A i \in DOMAIN chunk : chunk[i].cmd = "logout" => i = Len(chunk)
  BY ChunkType
<1> DEFINE st == Takeover(c, chunk)
           con == [k[c] EXCEPT !.said = @ \cup Range(chunk), !.chunk = chunk,
                               !.phase = IF Last(chunk).cmd = "logout" THEN "out" ELSE "in"]
<1>6. /\ k' = [k EXCEPT ![c] = con] /\ overlap' = overlap
      /\ UNCHANGED <<pid_map, users, buddies, sessions, pending_messages, lost>>
  BY <1>1, <1>2, <1>4 DEF ReadChunk, tables, history
<1>7. /\ st \in State /\ s' = [s EXCEPT ![c] = st]
      /\ st.pc = "next" /\ st.todo = chunk
      /\ st.eff = <<>> /\ st.cur = <<>> /\ st.profileid = s[c].profileid
      /\ st.buddies = s[c].buddies /\ st.sesskey = s[c].sesskey
      /\ s[c].pc = "read" /\ s[c].todo = <<>> /\ s[c].eff = <<>> /\ s[c].cur = <<>>
      /\ loop' = c /\ loop \in {NoConn, c}
  BY <1>3, <1>4, <1>5, ReadChunkFields DEF ReadChunk
<1>8. /\ con \in Console /\ con.said = k[c].said \cup Range(chunk)
      /\ con.phase = (IF Last(chunk).cmd = "logout" THEN "out" ELSE "in")
      /\ con.chunk = chunk /\ con.got = k[c].got
  BY <1>1, <1>5 DEF Console, Phase
<1> HIDE DEF st, con
<1>9. Fits(c, st, con.phase, con.said, con.chunk)
  <2>1. Range(st.eff) = {} /\ ToSet(st.todo) = Range(chunk)
    BY <1>5, <1>7 DEF Range
  <2>2. con.phase = "in" => \A i \in DOMAIN st.todo : st.todo[i].cmd # "logout"
    BY <1>5, <1>7, <1>8
  <2>3. FlowOK(st)
    BY <1>3, <1>5, <1>7 DEF FlowOK, Idle, Ending, LoginSteps, Joining, Working
  <2>4. NameOK(st, con.phase)
    BY <1>3, <1>5, <1>7, <1>8 DEF NameOK, Joining
  <2>5. EffectsOK(st, con.phase)
    BY <1>3, <1>5, <1>7, <1>8, <2>1, <2>2 DEF EffectsOK, Joining, Ending, Working
  <2>6. ChunkOK(c, st, con.said, con.chunk)
    BY <1>5, <1>7, <1>8, <2>1 DEF ChunkOK
  <2> QED  BY <2>3, <2>4, <2>5, <2>6 DEF Fits
<1>10. Acts(c, st, con)
  <2>1. loop' \in Conn \cup {NoConn} /\ \A d \in Conn : d # c => (loop' = d <=> loop = d)
    BY <1>7, ConnAssumption
  <2> QED  BY <1>2, <1>6, <1>7, <1>8, <1>9, <2>1 DEF Acts
<1>11. Turns(c, st)
  BY <1>1, <1>6, <1>7 DEF Turns
<1>12. Utters(c, st, con)
  <2>1. ToSet(s[c].todo) = {} /\ ToSet(st.todo) = Range(chunk)
    BY <1>5, <1>7 DEF ToSet
  <2> QED  BY <1>8, <2>1 DEF Utters
<1> QED  BY <1>10, <1>11, <1>12 DEF Deed

-----------------------------------------------------------------------------
(* What the deed of a console preserves. *)

\* Such a deed touches one connection and its console.
LEMMA ActsFrame ==
    ASSUME LocalInv, NEW c \in Conn, NEW st, NEW con, Acts(c, st, con)
    PROVE  /\ s' \in [Conn -> State] /\ s'[c] = st
           /\ k' \in [Conn -> Console] /\ k'[c] = con
           /\ \A d \in Conn : d # c => s'[d] = s[d] /\ k'[d] = k[d]
BY DEF LocalInv, TypesOK, Acts

\* It keeps what is true of each connection by itself.
LEMMA ActsLocal ==
    ASSUME LocalInv, NEW c \in Conn, NEW st, NEW con, Acts(c, st, con), Turns(c, st)
    PROVE  LocalInv'
<1>1. TypesOK /\ EachFits /\ LoopOK /\ UsersOK /\ PlaysOK
  BY DEF LocalInv
<1>2. /\ s' \in [Conn -> State] /\ s'[c] = st
      /\ k' \in [Conn -> Console] /\ k'[c] = con
      /\ \A d \in Conn : d # c => s'[d] = s[d] /\ k'[d] = k[d]
  BY ActsFrame
<1>3. /\ UNCHANGED <<pid_map, users, buddies, sessions, pending_messages, lost>>
      /\ st.eff = s[c].eff /\ st.cur = s[c].cur /\ st.profileid = s[c].profileid
      /\ loop' \in Conn \cup {NoConn} /\ (loop' = c <=> st.pc \in {"next", "lost", "bye"})
      /\ \A d \in Conn : d # c => (loop' = d <=> loop = d)
      /\ Fits(c, st, con.phase, con.said, con.chunk)
  BY DEF Acts
<1>4. TypesOK'
  BY <1>1, <1>2, <1>3 DEF TypesOK, Turns
<1>5. EachFits'
  BY <1>1, <1>2, <1>3 DEF EachFits
<1>6. LoopOK'
  BY <1>1, <1>2, <1>3 DEF LoopOK
<1>7. UsersOK'
  BY <1>1, <1>3 DEF UsersOK
<1>8. PlaysOK'
  <2>1. \A d \in Conn : /\ s'[d].profileid = s[d].profileid
                        /\ s'[d].eff = s[d].eff /\ s'[d].cur = s[d].cur
    BY <1>2, <1>3
  <2>2. \A d, p : Plays(d, p)' <=> Plays(d, p)
    BY <1>3 DEF Plays
  <2> QED  BY <1>1, <2>1, <2>2 DEF PlaysOK
<1> QED  BY <1>4, <1>5, <1>6, <1>7, <1>8 DEF LocalInv

\* It keeps what connections share.
LEMMA ActsShared ==
    ASSUME LocalInv, SharedInv, NEW c \in Conn, NEW st, NEW con, Acts(c, st, con), Turns(c, st)
    PROVE  SharedInv'
<1>1. /\ TypesOK /\ EachFits /\ UsersOK /\ PlaysOK
      /\ OverlapOK /\ RowsOK /\ SessionsOK /\ BuddiesOK /\ OnlineOK /\ RoutedOK
      /\ NothingMisrouted
  BY DEF LocalInv, SharedInv
<1>2. /\ s'[c] = st /\ k'[c] = con
      /\ \A d \in Conn : d # c => s'[d] = s[d] /\ k'[d] = k[d]
  BY ActsFrame
<1>3. /\ UNCHANGED <<pid_map, users, buddies, sessions, pending_messages, lost>>
      /\ st.eff = s[c].eff /\ st.profileid = s[c].profileid /\ st.buddies = s[c].buddies
      /\ con.chunk = k[c].chunk \/ st.eff = <<>>
      /\ con.phase = "in" => k[c].phase = "in"
  BY DEF Acts
<1>4. /\ \/ st.pc = s[c].pc
         \/ s[c].pc = "read" /\ st.pc \in {"next", "lost"}
         \/ s[c].pc = "new" /\ st.pc = "read" /\ st.profileid = NoProfile
      /\ overlap \subseteq overlap' /\ overlap' \subseteq Conn
      /\ s[c].pc = "new" /\ st.pc = "read" =>
            \A d \in Conn \ {c} : UserOf[d] = UserOf[c] /\ Open(d) => {c, d} \subseteq overlap'
  BY DEF Turns
<1>5. OverlapOK'
  <2> SUFFICES ASSUME NEW a \in Conn, NEW b \in Conn, a # b, UserOf[a] = UserOf[b],
                      Open(a)', Open(b)'
               PROVE  a \in overlap'
    BY DEF OverlapOK
  <2>1. CASE Open(a) /\ Open(b)
    BY <1>1, <1>4, <2>1 DEF OverlapOK
  <2>2. CASE ~Open(a)
    <3>1. a = c /\ s[c].pc = "new" /\ st.pc = "read"
      BY <1>2, <1>4, <2>2 DEF Open
    <3>2. Open(b)
      BY <1>2, <3>1 DEF Open
    <3> QED  BY <1>4, <3>1, <3>2
  <2>3. CASE ~Open(b)
    <3>1. b = c /\ s[c].pc = "new" /\ st.pc = "read"
      BY <1>2, <1>4, <2>3 DEF Open
    <3>2. Open(a)
      BY <1>2, <3>1 DEF Open
    <3> QED  BY <1>4, <3>1, <3>2
  <2> QED  BY <2>1, <2>2, <2>3
<1>6. RowsOK'
  <2>1. \A d \in Conn : s'[d].pc = "create" => s[d].pc = "create"
    BY <1>2, <1>4
  <2> QED  BY <1>1, <1>3, <1>4, <2>1 DEF RowsOK
<1>7. SessionsOK'
  <2>1. \A d \in Conn : /\ s'[d].profileid = s[d].profileid
                        /\ s'[d].pc = "insert" => s[d].pc = "insert"
                        /\ s'[d].pc = "new" => s[d].pc = "new"
    BY <1>2, <1>3, <1>4
  <2>2. \A r \in sessions : Plays(r.session, r.profileid)' /\ s'[r.session].pc # "new"
    BY <1>1, <1>3, <2>1 DEF SessionsOK, Plays, TypesOK
  <2>3. \A d \in Conn, r \in sessions : s'[d].pc = "insert" /\ r.profileid = s'[d].profileid
            => {d, r.session} \subseteq overlap'
    BY <1>1, <1>4, <2>1 DEF SessionsOK
  <2>4. \A q, r \in sessions :
            q.profileid = r.profileid /\ q # r => {q.session, r.session} \subseteq overlap'
    BY <1>1, <1>4 DEF SessionsOK
  <2> QED  BY <1>3, <2>2, <2>3, <2>4 DEF SessionsOK
<1>8. BuddiesOK'
  <2> SUFFICES ASSUME NEW d \in Conn, d \notin overlap', Open(d)', s'[d].profileid # NoProfile,
                      s'[d].pc \notin {"friends", "reread"}
               PROVE  s'[d].buddies = BuddyList(s[d].profileid) /\ s'[d].profileid = s[d].profileid
    BY <1>3 DEF BuddiesOK, BuddyList
  <2>1. Open(d) /\ s[d].pc \notin {"friends", "reread"}
    BY <1>2, <1>4 DEF Open
  <2>2. s'[d].profileid = s[d].profileid /\ s'[d].buddies = s[d].buddies
    BY <1>2, <1>3
  <2> QED  BY <1>1, <1>4, <2>1, <2>2 DEF BuddiesOK
<1>9. OnlineOK'
  <2>1. \A d \in Conn : /\ k'[d].phase = "in" => k[d].phase = "in"
                        /\ s'[d].profileid = s[d].profileid
    BY <1>2, <1>3
  <2> QED  BY <1>1, <1>3, <1>4, <2>1 DEF OnlineOK
<1>10. RoutedOK'
  <2>1. \A d \in Conn : s'[d].eff = s[d].eff /\ (k'[d].chunk = k[d].chunk \/ s'[d].eff = <<>>)
    BY <1>2, <1>3
  <2>2. \A d \in Conn : k'[d].chunk = k[d].chunk \/ Range(s'[d].eff) = {}
    BY <2>1 DEF Range
  <2>3. \A p : Active(p)' <=> Active(p)
    BY <1>3 DEF Active
  <2> QED  BY <1>1, <2>1, <2>2, <2>3 DEF RoutedOK
<1>11. NothingMisrouted'
  BY <1>1, <1>3 DEF NothingMisrouted
<1> QED  BY <1>5, <1>6, <1>7, <1>8, <1>9, <1>10, <1>11 DEF SharedInv

\* It keeps the registry live, and what was said is handled.
LEMMA ActsCalm ==
    ASSUME LocalInv, CalmInv, raised \subseteq raised', NEW c \in Conn, NEW st, NEW con,
           Acts(c, st, con), Turns(c, st), Utters(c, st, con)
    PROVE  CalmInv'
<1>1. /\ TypesOK /\ LiveUnlessRaised /\ EndedOK /\ MailIsKept
      /\ Fits(c, s[c], k[c].phase, k[c].said, k[c].chunk)
  BY LocalFacts DEF LocalInv, CalmInv
<1>2. /\ s'[c] = st /\ k'[c] = con
      /\ \A d \in Conn : d # c => s'[d] = s[d] /\ k'[d] = k[d]
  BY ActsFrame
<1>3. /\ UNCHANGED <<pid_map, users, buddies, sessions, pending_messages, lost>>
      /\ st.eff = s[c].eff /\ st.profileid = s[c].profileid /\ st.sesskey = s[c].sesskey
      /\ con.got = k[c].got /\ k[c].said \subseteq con.said
  BY DEF Acts
<1>4. \/ st.pc = s[c].pc
      \/ s[c].pc = "read" /\ st.pc \in {"next", "lost"}
      \/ s[c].pc = "new" /\ st.pc = "read"
  BY DEF Turns
<1>5. \A d \in Conn : /\ s'[d].eff = s[d].eff /\ s'[d].profileid = s[d].profileid
                      /\ s'[d].sesskey = s[d].sesskey
                      /\ k'[d].got = k[d].got /\ k[d].said \subseteq k'[d].said
                      /\ Open(d) => s'[d].pc \notin {"new", "closed"}
                      /\ s'[d].pc \in {"bye", "closed"} => s[d].pc \in {"bye", "closed"}
  BY <1>2, <1>3, <1>4 DEF Open
<1>6. LiveUnlessRaised'
  BY <1>1, <1>3, <1>5 DEF LiveUnlessRaised, Open
<1>7. EndedOK'
  <2>1. \A d \in Conn : LogoutOf(d) => LogoutOf(d)'
    BY <1>5 DEF LogoutOf
  <2>2. \A r \in sessions : r.session \in Conn
    BY <1>1 DEF TypesOK
  <2> QED  BY <1>1, <1>3, <1>5, <2>1, <2>2 DEF EndedOK
<1>8. MailIsKept'
  <2> SUFFICES ASSUME NEW d \in Conn, d \notin raised',
                      NEW cmd \in k'[d].said, cmd.cmd = "bm"
               PROVE  LET msg == [by |-> d, to |-> cmd.who]
                      IN  \/ msg \in pending_messages
                          \/ \E b \in Conn : msg \in k'[b].got
                          \/ \E i \in DOMAIN s'[d].todo : s'[d].todo[i] = cmd
                          \/ \E i \in DOMAIN s'[d].eff : s'[d].eff[i] = Route(cmd.who, Mail(msg))
                          \/ \E l \in lost : l.msg = msg
    BY <1>3 DEF MailIsKept
  <2> DEFINE msg == [by |-> d, to |-> cmd.who]
             mail == Route(cmd.who, Mail(msg))
  <2>1. cmd \in k[d].said \/ cmd \in ToSet(s'[d].todo)
    BY <1>2 DEF Utters
  <2>2. CASE cmd \in ToSet(s'[d].todo)
    BY <2>2 DEF ToSet
  <2>3. CASE cmd \in k[d].said
    <3>1. \/ msg \in pending_messages
          \/ \E b \in Conn : msg \in k[b].got
          \/ \E i \in DOMAIN s[d].todo : s[d].todo[i] = cmd
          \/ \E i \in DOMAIN s[d].eff : s[d].eff[i] = mail
          \/ \E l \in lost : l.msg = msg
      BY <1>1, <2>3 DEF MailIsKept
    <3>2. ToSet(s[d].todo) \subseteq ToSet(s'[d].todo)
      BY <1>2 DEF Utters
    <3>3. (\E i \in DOMAIN s[d].todo : s[d].todo[i] = cmd)
             => \E i \in DOMAIN s'[d].todo : s'[d].todo[i] = cmd
      BY <3>2 DEF ToSet
    <3> HIDE DEF msg, mail
    <3>4. (\E b \in Conn : msg \in k[b].got) => \E b \in Conn : msg \in k'[b].got
      BY <1>5
    <3>5. s'[d].eff = s[d].eff
      BY <1>5
    <3> QED  BY <3>1, <3>3, <3>4, <3>5 DEF msg, mail
  <2> QED  BY <2>1, <2>2, <2>3
<1> QED  BY <1>6, <1>7, <1>8 DEF CalmInv

-----------------------------------------------------------------------------
(* The invariant. *)

(***************************************************************************)
(* At the start nobody is there.                                           *)
(***************************************************************************)
LEMMA StartsRight ==
    ASSUME Init
    PROVE  LocalInv /\ SharedInv /\ RaisedOK /\ CalmInv
<1> DEFINE st == [pc |-> "new", todo |-> << >>, eff |-> << >>, cur |-> << >>,
                  profileid |-> NoProfile, buddies |-> {}, status |-> "0", sesskey |-> FALSE]
           con == [phase |-> "off", seen |-> [p \in Profiles |-> Unseen], got |-> {},
                   told |-> FALSE, said |-> {}, chunk |-> << >>]
<1>1. /\ pid_map = [p \in Profiles |-> NoConn] /\ s = [c \in Conn |-> st] /\ loop = NoConn
      /\ sessions = {} /\ pending_messages = {} /\ k = [c \in Conn |-> con]
      /\ lost = {} /\ overlap = {} /\ raised = {}
  BY DEF Init
<1>2. /\ buddies \subseteq Profiles \X Profiles
      /\ users \subseteq [user : Range(UserOf), profileid : Profiles] /\ IsFiniteSet(users)
      /\ \A u \in users : u.profileid <= Cardinality(users)
      /\ \A u, v \in users : u.profileid = v.profileid \/ u.user = v.user => u = v
      /\ folded \in BOOLEAN
  <2>1. PICK start \in Tables :
            users = start.users /\ buddies = start.buddies /\ folded = start.folded
    BY DEF Init
  <2> QED  BY <2>1, TablesAssumption
<1>3. /\ st \in State /\ st.pc = "new" /\ st.todo = <<>> /\ st.eff = <<>> /\ st.cur = <<>>
      /\ st.profileid = NoProfile /\ st.sesskey = FALSE
  <2>1. <<>> \in Seq(Effect) /\ <<>> \in Seq(Commands)
    BY EmptySeq
  <2> QED  BY <2>1 DEF State, Pc, Statuses
<1>4. con \in Console /\ con.phase = "off" /\ con.said = {} /\ con.chunk = <<>>
  <2>1. <<>> \in Seq(Commands)
    BY EmptySeq
  <2> QED  BY <2>1 DEF Console, Phase, Unseen
<1> HIDE DEF st, con
<1>5. \A c \in Conn : s[c] = st /\ k[c] = con
  BY <1>1
<1>6. /\ Range(<<>>) = {} /\ ToSet(<<>>) = {} /\ DOMAIN <<>> = {} /\ Len(<<>>) # 1
      /\ <<>> # Login
  BY LoginIsNoCommand DEF Range, ToSet
<1>7. LocalInv
  <2>1. TypesOK
    BY <1>1, <1>2, <1>3, <1>4, FS_EmptySet DEF TypesOK
  <2>2. ASSUME NEW c \in Conn
        PROVE  Fits(c, st, con.phase, con.said, con.chunk)
    <3>1. FlowOK(st)
      BY <1>3, <1>6 DEF FlowOK, Idle, Ending, LoginSteps, Joining, Working
    <3>2. NameOK(st, con.phase)
      BY <1>3, <1>4, <1>6 DEF NameOK, Joining
    <3>3. EffectsOK(st, con.phase)
      BY <1>3, <1>4, <1>6 DEF EffectsOK, Joining, Ending
    <3>4. ChunkOK(c, st, con.said, con.chunk)
      BY <1>3, <1>4, <1>6 DEF ChunkOK
    <3> QED  BY <3>1, <3>2, <3>3, <3>4 DEF Fits
  <2>3. EachFits
    BY <1>5, <2>2 DEF EachFits
  <2>4. LoopOK
    BY <1>1, <1>3, <1>5, ConnAssumption DEF LoopOK
  <2>5. UsersOK
    BY <1>2 DEF UsersOK
  <2>6. PlaysOK
    BY <1>3, <1>5, <1>6 DEF PlaysOK
  <2> QED  BY <2>1, <2>3, <2>4, <2>5, <2>6 DEF LocalInv
<1>8. SharedInv
  <2>1. OverlapOK /\ BuddiesOK
    BY <1>3, <1>5 DEF OverlapOK, BuddiesOK, Open
  <2>2. RowsOK
    BY <1>2, <1>3, <1>5 DEF RowsOK
  <2>3. SessionsOK /\ NothingMisrouted
    BY <1>1 DEF SessionsOK, NothingMisrouted
  <2>4. OnlineOK /\ RoutedOK
    BY <1>4, <1>5, <1>6 DEF OnlineOK, RoutedOK
  <2> QED  BY <2>1, <2>2, <2>3, <2>4 DEF SharedInv
<1>9. CalmInv
  <2>1. LiveUnlessRaised
    BY <1>1, ConnAssumption DEF LiveUnlessRaised
  <2>2. EndedOK
    BY <1>1 DEF EndedOK
  <2>3. MailIsKept
    BY <1>4, <1>5 DEF MailIsKept
  <2> QED  BY <2>1, <2>2, <2>3 DEF CalmInv
<1>10. RaisedOK
  BY <1>1, <1>2 DEF RaisedOK
<1> QED  BY <1>7, <1>8, <1>9, <1>10

(***************************************************************************)
(* Every step is one of the three kinds.                                   *)
(***************************************************************************)
LEMMA NextIs ==
    ASSUME LocalInv, Next
    PROVE  \E c \in Conn : \/ \E st : Step(c, st)
                           \/ \E label \in {"read", "closed"} : Takes(c, label)
                           \/ Deed(c)
<1>1. PICK c \in Conn : Server(c) \/ Connect(c) \/ SayLogin(c) \/ Say(c) \/ Leave(c)
  BY DEF Next
<1>2. CASE Server(c)
  BY <1>2, ServerSteps, TakesEffects
<1>3. CASE Connect(c)
  BY <1>3, ConnectActs
<1>4. CASE SayLogin(c)
  BY <1>4, SayLoginActs
<1>5. CASE Say(c)
  BY <1>5, SayActs
<1>6. CASE Leave(c)
  BY <1>6, LeaveActs
<1> QED  BY <1>1, <1>2, <1>3, <1>4, <1>5, <1>6

(***************************************************************************)
(* A step that changes nothing.                                            *)
(***************************************************************************)
LEMMA Stutters ==
    ASSUME UNCHANGED vars
    PROVE  /\ LocalInv => LocalInv'
           /\ SharedInv => SharedInv'
           /\ CalmInv => CalmInv'
<1>1. UNCHANGED <<pid_map, s, loop, users, buddies, sessions, pending_messages, k,
                  lost, raced, raised, overlap, folded>>
  BY DEF vars, tables, history
<1>2. LocalInv => LocalInv'
  BY <1>1 DEF LocalInv, TypesOK, EachFits, LoopOK, UsersOK, PlaysOK, Plays
<1>3. SharedInv => SharedInv'
  BY <1>1 DEF SharedInv, OverlapOK, RowsOK, SessionsOK, BuddiesOK, OnlineOK, RoutedOK,
              NothingMisrouted, Plays, Open, BuddyList, Active
<1>4. CalmInv => CalmInv'
  BY <1>1 DEF CalmInv, LiveUnlessRaised, EndedOK, MailIsKept, Open, LogoutOf
<1> QED  BY <1>2, <1>3, <1>4

\* The invariant is inductive.
LEMMA Preserves ==
    ASSUME LocalInv, SharedInv, [Next]_vars
    PROVE  LocalInv' /\ SharedInv'
<1>1. CASE UNCHANGED vars
  BY <1>1, Stutters
<1>2. CASE Next
  <2>1. PICK c \in Conn : \/ \E st : Step(c, st)
                          \/ \E label \in {"read", "closed"} : Takes(c, label)
                          \/ Deed(c)
    BY <1>2, NextIs
  <2>2. CASE \E st : Step(c, st)
    BY <2>2, StepLocal, StepShared
  <2>3. CASE \E label \in {"read", "closed"} : Takes(c, label)
    BY <2>3, TakesLocal, TakesShared
  <2>4. CASE Deed(c)
    BY <2>4, ActsLocal, ActsShared DEF Deed
  <2> QED  BY <2>1, <2>2, <2>3, <2>4
<1> QED  BY <1>1, <1>2

\* A handler raises over a folded name, or not at all.
LEMMA ServerFails ==
    ASSUME NEW c \in Conn, Server(c)
    PROVE  folded' = folded /\ (raised' = raised \/ (raised' = raised \cup {c} /\ folded))
<1>1. CASE \/ LoginAwaitsToken(c) \/ UnknownToken(c) \/ NewUser(c) \/ PerformLogin(c)
           \/ GetBuddyList(c) \/ GetPendingMessages(c) \/ BuddyMessage(c)
           \/ AddOrDelAwaits(c) \/ RereadBuddyList(c) \/ EndOfStream(c)
  BY <1>1 DEF LoginAwaitsToken, UnknownToken, NewUser, PerformLogin, GetBuddyList,
              GetPendingMessages, BuddyMessage, AddOrDelAwaits, RereadBuddyList, EndOfStream,
              tables, history
<1>2. CASE \/ CreateUser(c) \/ CleanseSessions(c) \/ SavePendingMessage(c)
           \/ AddOrDelRow(c) \/ DeleteSession(c) \/ EndOfChunk(c) \/ Close(c)
  BY <1>2 DEF CreateUser, CleanseSessions, SavePendingMessage, AddOrDelRow, DeleteSession,
              EndOfChunk, Close, tables, history
<1>3. CASE InsertSession(c) \/ Logout(c) \/ Status(c) \/ AuthAdd(c) \/ OnConnectionLost(c)
  <2>1. folded' = folded
    BY <1>3 DEF InsertSession, Logout, Status, AuthAdd, OnConnectionLost, tables
  <2>2. Cross(c) \/ (Fail(c) /\ Raises(c))
    BY <1>3 DEF InsertSession, Logout, Status, AuthAdd, OnConnectionLost, Raise
  <2> QED  BY <2>1, <2>2 DEF Cross, Fail, Raises
<1> QED  BY <1>1, <1>2, <1>3 DEF Server

\* What raised did raise, and names stay folded.
LEMMA PreservesRaised ==
    ASSUME RaisedOK, [Next]_vars
    PROVE  RaisedOK' /\ folded' = folded /\ raised \subseteq raised'
<1>1. CASE UNCHANGED vars
  BY <1>1 DEF vars, tables, history, RaisedOK
<1>2. CASE Next
  <2>1. PICK c \in Conn : Server(c) \/ Connect(c) \/ SayLogin(c) \/ Say(c) \/ Leave(c)
    BY <1>2 DEF Next
  <2>2. CASE Server(c)
    BY <2>2, ServerFails DEF RaisedOK
  <2>3. CASE Connect(c) \/ SayLogin(c) \/ Say(c) \/ Leave(c)
    <3>1. folded' = folded /\ raised' = raised
      BY <2>3 DEF Connect, SayLogin, Say, Leave, ReadChunk, tables, history
    <3> QED  BY <3>1 DEF RaisedOK
  <2> QED  BY <2>1, <2>2, <2>3
<1> QED  BY <1>1, <1>2

\* So is the rest of it.
LEMMA PreservesCalm ==
    ASSUME LocalInv, SharedInv, RaisedOK, CalmInv, [Next]_vars
    PROVE  CalmInv'
<1>0. raised \subseteq raised'
  BY PreservesRaised
<1>1. CASE UNCHANGED vars
  BY <1>1, Stutters
<1>2. CASE Next
  <2>1. PICK c \in Conn : \/ \E st : Step(c, st)
                          \/ \E label \in {"read", "closed"} : Takes(c, label)
                          \/ Deed(c)
    BY <1>2, NextIs
  <2>2. CASE \E st : Step(c, st)
    BY <1>0, <2>2, StepCalm
  <2>3. CASE \E label \in {"read", "closed"} : Takes(c, label)
    BY <2>3, TakesCalm
  <2>4. CASE Deed(c)
    BY <1>0, <2>4, ActsCalm DEF Deed
  <2> QED  BY <2>1, <2>2, <2>3, <2>4
<1> QED  BY <1>1, <1>2

(***************************************************************************)
(* The invariant holds, whatever handlers raise and whether or not run()   *)
(* awaits on_data_received.                                                *)
(***************************************************************************)
THEOREM Invariance == Spec => []IInv
<1>1. Init => IInv
  BY StartsRight DEF IInv, LocalInv, SharedInv
<1>2. IInv /\ [Next]_vars => IInv'
  BY Preserves DEF IInv, LocalInv, SharedInv
<1> QED  BY <1>1, <1>2, PTL DEF Spec

(***************************************************************************)
(* And what a connection loses only by raising: it is open as long as it   *)
(* is in the registry, its session goes with it, and its messages arrive.  *)
(***************************************************************************)
THEOREM CalmInvariance == Spec => [](IInv /\ RaisedOK /\ CalmInv)
<1>1. Init => IInv /\ RaisedOK /\ CalmInv
  BY StartsRight DEF IInv, LocalInv, SharedInv
<1>2. IInv /\ RaisedOK /\ CalmInv /\ [Next]_vars => IInv' /\ RaisedOK' /\ CalmInv'
  BY Preserves, PreservesRaised, PreservesCalm DEF IInv, LocalInv, SharedInv
<1> QED  BY <1>1, <1>2, PTL DEF Spec

-----------------------------------------------------------------------------
(* What it says. *)

(***************************************************************************)
(* A profile has two sessions, and a user two rows, only when connections  *)
(* of that user were open at once: create_session deletes the sessions     *)
(* there are in a statement of its own, and perform_login inserts the row  *)
(* it did not find in another.                                             *)
(***************************************************************************)
THEOREM DuplicatesOverlap == Spec => []OnlyOverlapsDuplicate
<1>1. IInv => OnlyOverlapsDuplicate
  BY DEF IInv, SessionsOK, RowsOK, OnlyOverlapsDuplicate
<1> QED  BY <1>1, Invariance, PTL

(***************************************************************************)
(* A user with one connection at a time is in the registry while its       *)
(* console is logged in: no teardown of an earlier connection, and no      *)
(* effect of another user's, takes it out.                                 *)
(***************************************************************************)
THEOREM LonersStayOnline == Spec => []LonersAreOnline
<1>1. IInv => LonersAreOnline
  BY DEF IInv, OnlineOK, LonersAreOnline, Settled
<1> QED  BY <1>1, Invariance, PTL

(***************************************************************************)
(* A buddy message that is alone in its chunk is never routed to a profile *)
(* that is not there: nothing awaits between the look into the registry    *)
(* and the dispatch.                                                       *)
(***************************************************************************)
THEOREM LoneMailIsRouted == Spec => []NothingMisrouted
<1>1. IInv => NothingMisrouted
  BY DEF IInv
<1> QED  BY <1>1, Invariance, PTL

(***************************************************************************)
(* The friends a connection relays its status to are those of the table,   *)
(* for a user with one connection at a time.                               *)
(***************************************************************************)
THEOREM BuddiesStayCurrent == Spec => []BuddiesAreCurrent
<1>1. IInv => BuddiesAreCurrent
  <2> SUFFICES ASSUME IInv, NEW c \in Conn \ overlap, Settled(c)
               PROVE  s[c].buddies = BuddyList(s[c].profileid)
    BY DEF BuddiesAreCurrent
  <2>1. k[c].phase = "in" /\ s[c].pc = "read"
    BY DEF Settled
  <2>2. s[c].profileid # NoProfile
    BY <2>1 DEF IInv, EachFits, Fits, EffectsOK
  <2> QED  BY <2>1, <2>2 DEF IInv, BuddiesOK, Open
<1> QED  BY <1>1, Invariance, PTL

(***************************************************************************)
(* No closed connection is in the registry: a connection that ends is      *)
(* taken out even if the profile is registered for it again meanwhile,     *)
(* unless it raised.  This is of folded names as well as of others.        *)
(***************************************************************************)
THEOREM RegistryStaysLive == Spec => []RegistryIsLive
<1>1. IInv /\ RaisedOK /\ CalmInv => RegistryIsLive
  <2> SUFFICES ASSUME IInv, RaisedOK, CalmInv
               PROVE  RegistryIsLive
    OBVIOUS
  <2>1. TypesOK /\ LiveUnlessRaised
    BY DEF IInv, CalmInv
  <2>2. TypeOK
    <3>1. \A c \in Conn : s[c] \in State /\ k[c] \in Console
      BY <2>1 DEF TypesOK
    <3>2. \A c \in Conn : /\ s[c].profileid \in Profiles \cup {NoProfile}
                          /\ s[c].buddies \subseteq Profiles /\ s[c].status \in Statuses
                          /\ s[c].eff \in Seq(Effect) /\ s[c].cur \in Seq(Effect)
                          /\ k[c].seen \in [Profiles -> Statuses \cup {Unseen}]
                          /\ k[c].got \subseteq Message
      BY <3>1 DEF State, Console
    <3>3. \A es \in Seq(Effect) : Range(es) \subseteq Effect
      BY ElementOfSeq, LenProperties DEF Range
    <3> QED  BY <2>1, <3>2, <3>3 DEF TypesOK, TypeOK, Lost, RaisedOK
  <2>3. \A p \in Profiles :
            Active(p) /\ s[pid_map[p]].pc = "closed" => pid_map[p] \in raised
    BY <2>1 DEF TypesOK, LiveUnlessRaised, Open, Active
  <2> QED  BY <2>2, <2>3 DEF RegistryIsLive
<1> QED  BY <1>1, CalmInvariance, PTL

(***************************************************************************)
(* The session of a connection that ended is gone, unless it had logged    *)
(* out or raised.                                                          *)
(***************************************************************************)
THEOREM LogoutsLeaveSessions == Spec => []OnlyLogoutsLeaveSessions
<1>1. CalmInv => OnlyLogoutsLeaveSessions
  BY DEF CalmInv, EndedOK, LogoutOf, OnlyLogoutsLeaveSessions
<1> QED  BY <1>1, CalmInvariance, PTL

(***************************************************************************)
(* No buddy message disappears but those of connections that raised.       *)
(***************************************************************************)
THEOREM MailStays == Spec => []MailIsKept
<1>1. CalmInv => MailIsKept
  BY DEF CalmInv
<1> QED  BY <1>1, CalmInvariance, PTL


-----------------------------------------------------------------------------
(* What friends see of each other. *)

(***************************************************************************)
(* What a connection holds: the effects it has collected, those of the     *)
(* command at hand last.  They take place in that order.                   *)
(***************************************************************************)
Held(st) == st.eff \o st.cur
Holds(st, e) == e \in Range(Held(st))

\* It looked at its friends at its login, and is not registered yet.
Logging(st) == Holds(st, Response(LoggedIn))

\* It tells x that f is y; it learns that f is y.
TellsThat(st, x, f, y) == Holds(st, Route(x, Relay(f, y)))
LearnsThat(st, f, y) == Holds(st, Response(Relay(f, y)))

\* An effect that moves nobody and tells nobody's status.
Plain(e) == ~Moves(e) /\ e.m.kind \notin {"lc", "status"}

(***************************************************************************)
(* A step of a coroutine is one of three.  It goes on, and holds more that *)
(* is plain; or it is admitted to a login; or it looks at its friends.     *)
(***************************************************************************)
Onward(c, st) ==
    /\ st.profileid = s[c].profileid /\ st.status = s[c].status /\ st.sesskey = s[c].sesskey
    /\ st.buddies = s[c].buddies \/ s[c].pc \in {"friends", "reread"}
    /\ st.pc \notin {"friends", "pending"} /\ s[c].pc \notin {"insert", "lost"}
    /\ st.pc \in Joining => s[c].pc \in Joining
    /\ s[c].pc \in Joining /\ st.pc \notin Joining => s[c].pc = "pending"
    /\ s[c].pc = "pending" => st.pc = "next"
    /\ s[c].pc = "next" => s[c].todo # <<>>
    /\ st.pc \in Ending <=> s[c].pc \in Ending
    /\ st.pc = "lost" => k[c].phase = "gone"
    /\ raced' = raced

Goes(c, st) ==
    /\ \E more \in Seq(Effect) :
          Held(st) = Held(s[c]) \o more /\ \A e \in Range(more) : Plain(e)
    /\ Onward(c, st)

Enters(c, st) ==
    /\ s[c].pc \in {"check", "create"} /\ st.pc = "friends"
    /\ \A e \in Range(Held(st)) :
          e \in {Route(st.profileid, Kicked), Delete(st.profileid), Register(st.profileid)}
    /\ st.profileid \in Profiles
    /\ st.status = s[c].status /\ st.sesskey = s[c].sesskey /\ st.buddies = s[c].buddies
    /\ raced' = raced

\* more is what c holds after it told those of targets that are there.
Relayed(c, st, targets, more) ==
    /\ \A x \in Profiles, f \in Profiles \cup {NoProfile}, y \in Statuses :
          Route(x, Relay(f, y)) \in Range(more) <=>
              x \in Present(c, targets) /\ f = s[c].profileid /\ y = st.status
    /\ \A f \in Profiles, y \in Statuses :
          Response(Relay(f, y)) \in Range(more) <=>
              f \in Present(c, targets) /\ y = StatusOf(f, c, st.status)
    /\ Response(LoggedIn) \in Range(more) <=> s[c].pc = "insert"
    /\ \A e \in Range(more) : Moves(e) =>
          /\ e = Delete(s[c].profileid) /\ st.status = "0"
          /\ st.profileid = NoProfile \/ st.pc \in Ending

LooksFrom(c, st, more) ==
    \/ /\ s[c].pc = "insert" /\ st.pc = "pending" /\ st.sesskey
       /\ st.profileid = s[c].profileid
    \/ /\ s[c].pc = "next" /\ st.pc = "next" /\ s[c].todo \notin {<<>>, Login}
       /\ st.sesskey = s[c].sesskey
       /\ \/ st.profileid = s[c].profileid
          \/ st.profileid = NoProfile /\ Delete(s[c].profileid) \in Range(more)
    \/ /\ s[c].pc = "lost" /\ st.pc \in Ending /\ st.status = "0"
       /\ st.sesskey = s[c].sesskey /\ st.profileid = s[c].profileid

Looks(c, st) ==
    /\ \E more \in Seq(Effect), targets \in SUBSET s[c].buddies :
          /\ Held(st) = Held(s[c]) \o more
          /\ Relayed(c, st, targets, more) /\ LooksFrom(c, st, more)
          /\ targets = s[c].buddies \/ (s[c].pc = "next" /\ st.status = s[c].status)
    /\ st.buddies = s[c].buddies
    /\ Cross(c) /\ ~Raises(c)

Kind(c, st) == Goes(c, st) \/ Enters(c, st) \/ Looks(c, st)

\* Or it raises, and holds no more than it held.
Falters(c, st) == folded /\ Range(Held(st)) \subseteq Range(Held(s[c]))

\* What is held, as a sequence and as a set.
LEMMA HeldFacts ==
    ASSUME NEW st \in State
    PROVE  /\ Held(st) \in Seq(Effect)
           /\ Range(Held(st)) = Range(st.eff) \cup Range(st.cur)
           /\ st.cur = <<>> => Held(st) = st.eff
           /\ st.eff = <<>> => Held(st) = st.cur
           /\ Held(st) \o <<>> = Held(st)
<1>1. st.eff \in Seq(Effect) /\ st.cur \in Seq(Effect)
  BY DEF State
<1>2. Held(st) \in Seq(Effect) /\ Range(Held(st)) = Range(st.eff) \cup Range(st.cur)
  BY <1>1, Concatenation DEF Held
<1>3. /\ st.cur = <<>> => Held(st) = st.eff
      /\ st.eff = <<>> => Held(st) = st.cur
  BY <1>1, ConcatEmptySeq DEF Held
<1> QED  BY <1>2, <1>3, ConcatEmptySeq

\* More of it.
LEMMA HeldMore ==
    ASSUME NEW st \in State, NEW more \in Seq(Effect), NEW new,
           Held(new) = Held(st) \o more
    PROVE  Range(Held(new)) = Range(Held(st)) \cup Range(more)
BY HeldFacts, Concatenation

(***************************************************************************)
(* Every step of the server that does not raise is of one kind.            *)
(***************************************************************************)
\* A coroutine that awaits the next statement, or goes on without effects.
LEMMA AwaitGoes ==
    ASSUME LocalInv, NEW c \in Conn, NEW state \in State, NEW label \in Pc,
           state = [s[c] EXCEPT !.buddies = state.buddies],
           s' = [s EXCEPT ![c] = Moved(state, label)], raced' = raced,
           state.buddies = s[c].buddies \/ s[c].pc = "friends",
           \/ s[c].pc = "next" /\ s[c].todo # <<>> /\ label \in {"check", "save", "row"}
           \/ s[c].pc = "read" /\ label = "lost" /\ k[c].phase = "gone"
           \/ <<s[c].pc, label>> \in {<<"check", "create">>, <<"friends", "cleanse">>,
                  <<"cleanse", "insert">>, <<"row", "reread">>, <<"unsession", "bye">>}
    PROVE  Kind(c, s'[c])
<1> DEFINE st == Moved(state, label)
<1>1. s[c] \in State /\ s \in [Conn -> State]
  BY LocalFacts DEF LocalInv, TypesOK
<1>2. s'[c] = st
  BY <1>1
<1>3. /\ st \in State /\ st.pc = label /\ st.eff = s[c].eff /\ st.cur = s[c].cur
      /\ st.profileid = s[c].profileid /\ st.status = s[c].status
      /\ st.sesskey = s[c].sesskey /\ st.buddies = state.buddies
  BY <1>1 DEF Moved, State
<1> HIDE DEF st
<1>4. Onward(c, st)
  BY <1>3 DEF Onward, Joining, Ending
<1>5. Held(st) = Held(s[c]) \o <<>> /\ <<>> \in Seq(Effect) /\ Range(<<>>) = {}
  BY <1>1, <1>3, HeldFacts, EmptySeq DEF Held, Range
<1>6. Goes(c, st)
  BY <1>4, <1>5 DEF Goes
<1> QED  BY <1>2, <1>6 DEF Kind

\* A command that returns plain effects.
LEMMA ReturnGoes ==
    ASSUME LocalInv, NEW c \in Conn, NEW state \in State,
           state = [s[c] EXCEPT !.buddies = state.buddies],
           NEW effects \in Seq(Effect), \A e \in Range(effects) : Plain(e),
           Return(c, state, effects), raced' = raced,
           state.buddies = s[c].buddies \/ s[c].pc = "reread",
           \/ s[c].pc = "next" /\ s[c].todo # <<>>
           \/ s[c].pc \in {"check", "create", "save", "reread"}
    PROVE  Kind(c, s'[c])
<1> DEFINE st == Returned(state, effects)
<1>1. s[c] \in State /\ s \in [Conn -> State] /\ s[c].cur = <<>>
  BY LocalFacts DEF LocalInv, TypesOK, Fits, FlowOK, Joining
<1>2. s' = [s EXCEPT ![c] = st]
  BY DEF Return, Returned
<1>3. s'[c] = st
  BY <1>1, <1>2
<1>4. /\ st.pc = "next" /\ st.eff = s[c].eff \o effects /\ st.cur = <<>>
      /\ st.profileid = s[c].profileid /\ st.status = s[c].status
      /\ st.sesskey = s[c].sesskey /\ st.buddies = state.buddies
  BY <1>1 DEF Returned, State
<1> HIDE DEF st
<1>5. Onward(c, st)
  BY <1>4 DEF Onward, Joining, Ending
<1>6. Held(st) = Held(s[c]) \o effects
  <2>1. s[c].eff \in Seq(Effect) /\ s[c].eff \o effects \in Seq(Effect)
    BY <1>1, Concatenation DEF State
  <2> QED  BY <1>1, <1>4, <2>1, HeldFacts, ConcatEmptySeq DEF Held
<1>7. Goes(c, st)
  BY <1>5, <1>6 DEF Goes
<1> QED  BY <1>3, <1>7 DEF Kind

\* What is plain.
LEMMA PlainEffects ==
    /\ Range(<<>>) = {} /\ <<>> \in Seq(Effect)
    /\ <<Response(Refused)>> \in Seq(Effect)
    /\ \A e \in Range(<<Response(Refused)>>) : Plain(e)
    /\ \A p \in Profiles, m \in {Kicked, Request, Accepted} :
          <<Route(p, m)>> \in Seq(Effect) /\ \A e \in Range(<<Route(p, m)>>) : Plain(e)
    /\ \A p \in Profiles, msg \in Message :
          /\ <<Route(p, Mail(msg))>> \in Seq(Effect)
          /\ \A e \in Range(<<Route(p, Mail(msg))>>) : Plain(e)
<1>1. \A e : Range(<<e>>) = {e}
  BY DEF Range
<1>2. Response(Refused) \in Effect /\ Plain(Response(Refused))
  BY DEF Response, Refused, Effect, Plain, Moves
<1>3. \A p \in Profiles, m \in {Kicked, Request, Accepted} :
          Route(p, m) \in Effect /\ Plain(Route(p, m))
  BY DEF Route, Kicked, Request, Accepted, Effect, Plain, Moves
<1>4. \A p \in Profiles, msg \in Message :
          Route(p, Mail(msg)) \in Effect /\ Plain(Route(p, Mail(msg)))
  BY DEF Route, Mail, Effect, Plain, Moves
<1>5. Range(<<>>) = {} /\ <<>> \in Seq(Effect)
  BY EmptySeq DEF Range
<1> QED  BY <1>1, <1>2, <1>3, <1>4, <1>5

\* The steps that wait for the next statement.
LEMMA AwaitsKind ==
    ASSUME LocalInv, NEW c \in Conn,
           \/ LoginAwaitsToken(c) \/ NewUser(c) \/ GetBuddyList(c) \/ CleanseSessions(c)
           \/ AddOrDelAwaits(c) \/ AddOrDelRow(c) \/ EndOfStream(c) \/ DeleteSession(c)
    PROVE  Kind(c, s'[c])
<1>1. s[c] \in State /\ s[c] = [s[c] EXCEPT !.buddies = s[c].buddies]
  BY LocalFacts DEF State
<1>2. CASE LoginAwaitsToken(c)
  <2>1. s[c].pc = "next" /\ s[c].todo # <<>> /\ s' = [s EXCEPT ![c] = Moved(s[c], "check")]
        /\ raced' = raced
    BY <1>2 DEF LoginAwaitsToken, Turn, At, Await, Moved, history
  <2> QED  BY <1>1, <2>1, AwaitGoes DEF Pc, LoginSteps
<1>3. CASE NewUser(c)
  <2>1. s[c].pc = "check" /\ s' = [s EXCEPT ![c] = Moved(s[c], "create")] /\ raced' = raced
    BY <1>3 DEF NewUser, At, Await, Moved, history
  <2> QED  BY <1>1, <2>1, AwaitGoes DEF Pc, LoginSteps
<1>4. CASE GetBuddyList(c)
  <2> DEFINE state == [s[c] EXCEPT !.buddies = BuddyList(s[c].profileid)]
  <2>1. s[c].pc = "friends" /\ s' = [s EXCEPT ![c] = Moved(state, "cleanse")] /\ raced' = raced
    BY <1>4 DEF GetBuddyList, At, Await, Moved, history
  <2>2. state \in State /\ state = [s[c] EXCEPT !.buddies = state.buddies]
    <3>1. BuddyList(s[c].profileid) \in SUBSET Profiles
      BY DEF BuddyList, LocalInv, TypesOK
    <3> QED  BY <1>1, <3>1 DEF State
  <2> HIDE DEF state
  <2> QED  BY <2>1, <2>2, AwaitGoes DEF Pc, LoginSteps
<1>5. CASE CleanseSessions(c)
  <2>1. s[c].pc = "cleanse" /\ s' = [s EXCEPT ![c] = Moved(s[c], "insert")] /\ raced' = raced
    BY <1>5 DEF CleanseSessions, At, Await, Moved, history
  <2> QED  BY <1>1, <2>1, AwaitGoes DEF Pc, LoginSteps
<1>6. CASE AddOrDelAwaits(c)
  <2>1. s[c].pc = "next" /\ s[c].todo # <<>> /\ s' = [s EXCEPT ![c] = Moved(s[c], "row")]
        /\ raced' = raced
    BY <1>6 DEF AddOrDelAwaits, Turn, At, Await, Moved, history
  <2> QED  BY <1>1, <2>1, AwaitGoes DEF Pc, LoginSteps
<1>7. CASE AddOrDelRow(c)
  <2>1. s[c].pc = "row" /\ s' = [s EXCEPT ![c] = Moved(s[c], "reread")] /\ raced' = raced
    BY <1>7 DEF AddOrDelRow, At, Await, Moved, history
  <2> QED  BY <1>1, <2>1, AwaitGoes DEF Pc, LoginSteps
<1>8. CASE EndOfStream(c)
  <2>1. s[c].pc = "read" /\ k[c].phase = "gone" /\ raced' = raced
        /\ s' = [s EXCEPT ![c] = Moved(s[c], "lost")]
    BY <1>1, <1>8 DEF EndOfStream, At, Moved, history, State
  <2> QED  BY <1>1, <2>1, AwaitGoes DEF Pc, LoginSteps
<1>9. CASE DeleteSession(c)
  <2>1. s[c].pc = "unsession" /\ s' = [s EXCEPT ![c] = Moved(s[c], "bye")] /\ raced' = raced
    BY <1>9 DEF DeleteSession, At, GoOn, Moved, history
  <2> QED  BY <1>1, <2>1, AwaitGoes DEF Pc, LoginSteps
<1> QED  BY <1>2, <1>3, <1>4, <1>5, <1>6, <1>7, <1>8, <1>9

\* The commands that return no status.
LEMMA ReturnsKind ==
    ASSUME LocalInv, NEW c \in Conn,
           UnknownToken(c) \/ BuddyMessage(c) \/ SavePendingMessage(c) \/ RereadBuddyList(c)
    PROVE  Kind(c, s'[c])
<1>1. s[c] \in State /\ s[c] = [s[c] EXCEPT !.buddies = s[c].buddies]
      /\ Fits(c, s[c], k[c].phase, k[c].said, k[c].chunk)
  BY LocalFacts DEF State
<1>2. CASE UnknownToken(c)
  <2>1. s[c].pc = "check" /\ Return(c, s[c], <<Response(Refused)>>) /\ raced' = raced
    BY <1>2 DEF UnknownToken, At, history
  <2> QED  BY <1>1, <2>1, PlainEffects, ReturnGoes
<1>3. CASE BuddyMessage(c)
  <2>1. /\ s[c].pc = "next" /\ s[c].todo # <<>> /\ Head(s[c].todo).cmd = "bm" /\ raced' = raced
        /\ \/ Return(c, s[c], <<Route(Who(c), Mail(MessageOf(c)))>>)
           \/ s' = [s EXCEPT ![c] = Moved(s[c], "save")]
    BY <1>3 DEF BuddyMessage, Turn, At, Await, Moved, history
  <2>2. Who(c) \in Profiles /\ MessageOf(c) \in Message
    BY <2>1, TurnFacts, LoginIsNoCommand DEF Who, MessageOf, Message
  <2>3. CASE Return(c, s[c], <<Route(Who(c), Mail(MessageOf(c)))>>)
    <3> DEFINE es == <<Route(Who(c), Mail(MessageOf(c)))>>
    <3>1. es \in Seq(Effect) /\ \A e \in Range(es) : Plain(e)
      BY <2>2, PlainEffects
    <3>2. Return(c, s[c], es)
      BY <2>3
    <3> HIDE DEF es
    <3> QED  BY <1>1, <2>1, <3>1, <3>2, ReturnGoes
  <2>4. CASE s' = [s EXCEPT ![c] = Moved(s[c], "save")]
    BY <1>1, <2>1, <2>4, AwaitGoes DEF Pc, LoginSteps
  <2> QED  BY <2>1, <2>3, <2>4
<1>4. CASE SavePendingMessage(c)
  <2>1. s[c].pc = "save" /\ Return(c, s[c], <<>>) /\ raced' = raced
    BY <1>4 DEF SavePendingMessage, At, history
  <2> QED  BY <1>1, <2>1, PlainEffects, ReturnGoes
<1>5. CASE RereadBuddyList(c)
  <2> DEFINE state == [s[c] EXCEPT !.buddies = BuddyList(s[c].profileid)]
             es == IF Head(s[c].todo).cmd = "addbuddy" /\ Active(Who(c))
                   THEN <<Route(Who(c), Request)>> ELSE << >>
  <2>1. s[c].pc = "reread" /\ Return(c, state, es) /\ raced' = raced
    BY <1>5 DEF RereadBuddyList, At, history
  <2>2. state \in State /\ state = [s[c] EXCEPT !.buddies = state.buddies]
    <3>1. BuddyList(s[c].profileid) \in SUBSET Profiles
      BY DEF BuddyList, LocalInv, TypesOK
    <3> QED  BY <1>1, <3>1 DEF State
  <2>3. Who(c) \in Profiles
    <3>1. s[c].todo # <<>> /\ Head(s[c].todo).cmd \in {"addbuddy", "delbuddy"}
      BY <1>1, <2>1 DEF Fits, FlowOK
    <3> QED  BY <3>1, TurnFacts, LoginIsNoCommand DEF Who
  <2>4. es \in Seq(Effect) /\ \A e \in Range(es) : Plain(e)
    BY <2>3, PlainEffects
  <2> HIDE DEF state, es
  <2> QED  BY <2>1, <2>2, <2>4, ReturnGoes
<1> QED  BY <1>2, <1>3, <1>4, <1>5

\* The login is complete: what waits for the profile is held as well.
LEMMA GetPendingKind ==
    ASSUME LocalInv, NEW c \in Conn, GetPendingMessages(c)
    PROVE  Kind(c, s'[c])
<1> DEFINE cur == s[c].cur
           mail == [i \in DOMAIN Waiting(s[c].profileid) |->
                       Response(Mail(Waiting(s[c].profileid)[i]))]
           st == Returned(s[c], cur \o mail)
<1>1. /\ s[c].pc = "pending" /\ s' = [s EXCEPT ![c] = st] /\ raced' = raced
  BY DEF GetPendingMessages, At, Return, Returned, history
<1>2. /\ s[c] \in State /\ s[c].todo = Login /\ s[c].eff = <<>> /\ s \in [Conn -> State]
  BY <1>1, LocalFacts, LoginIsNoCommand DEF Fits, FlowOK, LoginSteps, LocalInv, TypesOK
<1>3. mail \in Seq(Effect) /\ \A e \in Range(mail) : Plain(e)
  <2> DEFINE Letters == {e \in Effect : e.effect = "respond" /\ e.m.kind = "bm"}
  <2>1. mail \in Seq(Letters)
    BY MailIsEffects DEF LocalInv
  <2>2. Letters \subseteq Effect /\ \A e \in Letters : Plain(e)
    BY DEF Plain, Moves
  <2> HIDE DEF Letters, mail
  <2> QED  BY <2>1, <2>2, SeqMonotonic, RangeOfSeq
<1>4. s'[c] = st
  BY <1>1, <1>2
<1> HIDE DEF mail
<1>5. cur \in Seq(Effect) /\ cur \o mail \in Seq(Effect)
  BY <1>2, <1>3, Concatenation DEF State
<1>6. /\ st.pc = "next" /\ st.eff = <<>> \o (cur \o mail) /\ st.cur = <<>>
      /\ st.profileid = s[c].profileid /\ st.status = s[c].status
      /\ st.sesskey = s[c].sesskey /\ st.buddies = s[c].buddies
  BY <1>2 DEF Returned, State
<1>7. Held(s[c]) = cur
  BY <1>2, HeldFacts
<1> HIDE DEF cur, st
<1>8. Held(st) = Held(s[c]) \o mail
  BY <1>5, <1>6, <1>7, ConcatEmptySeq DEF Held
<1>9. Onward(c, st)
  BY <1>1, <1>6 DEF Onward, Joining, Ending
<1> QED  BY <1>3, <1>4, <1>8, <1>9 DEF Goes, Kind

\* A login is refused, or goes on as somebody.
LEMMA AdmitKind ==
    ASSUME LocalInv, NEW c \in Conn, NEW p \in Profiles, Admit(c, p),
           s[c].pc \in {"check", "create"}, raced' = raced
    PROVE  Kind(c, s'[c])
<1>1. /\ s[c] \in State /\ s[c] = [s[c] EXCEPT !.buddies = s[c].buddies] /\ s \in [Conn -> State]
      /\ s[c].todo = Login /\ s[c].eff = <<>>
  BY LocalFacts, LoginIsNoCommand DEF State, LocalInv, TypesOK, Fits, FlowOK, LoginSteps
<1>2. CASE Return(c, s[c], <<Response(Refused)>>)
  BY <1>1, <1>2, PlainEffects, ReturnGoes
<1>3. CASE ~Return(c, s[c], <<Response(Refused)>>)
  <2> DEFINE kick == IF Active(p) THEN <<Route(p, Kicked), Delete(p)>> ELSE << >>
             last == <<Register(p)>>
             cur == kick \o last
             st == [s[c] EXCEPT !.profileid = p, !.cur = cur, !.pc = "friends"]
  <2>1. kick \in Seq(Effect) /\ Range(kick) \subseteq {Route(p, Kicked), Delete(p)}
    <3>1. Route(p, Kicked) \in Effect /\ Delete(p) \in Effect
      BY DEF Route, Kicked, Delete, Effect
    <3>2. CASE Active(p)
      <4>1. kick = <<Route(p, Kicked), Delete(p)>>
        BY <3>2
      <4> QED  BY <3>1, <4>1 DEF Range
    <3>3. CASE ~Active(p)
      <4>1. kick = <<>>
        BY <3>3
      <4> QED  BY <4>1, EmptySeq DEF Range
    <3> QED  BY <3>2, <3>3
  <2>2. last \in Seq(Effect) /\ Range(last) = {Register(p)}
    <3>1. Register(p) \in Effect
      BY DEF Register, Effect
    <3> QED  BY <3>1 DEF Range
  <2>3. s' = [s EXCEPT ![c] = st]
    BY <1>3 DEF Admit, Await
  <2> HIDE DEF kick, last
  <2>4. cur \in Seq(Effect) /\ Range(cur) = Range(kick) \cup Range(last)
    BY <2>1, <2>2, Concatenation
  <2> HIDE DEF cur
  <2>5. /\ st \in State /\ st.pc = "friends" /\ st.eff = <<>> /\ st.cur = cur
        /\ st.profileid = p /\ st.buddies = s[c].buddies /\ st.sesskey = s[c].sesskey
        /\ st.status = s[c].status
    BY <1>1, <2>4 DEF State, Pc, LoginSteps
  <2> HIDE DEF st
  <2>7. s'[c] = st
    BY <1>1, <2>3
  <2>6. Held(st) = cur
    BY <2>5, HeldFacts
  <2> QED  BY <2>1, <2>2, <2>4, <2>5, <2>6, <2>7 DEF Enters, Kind
<1> QED  BY <1>2, <1>3

\* Users that are found or created.
LEMMA AdmitsKind ==
    ASSUME LocalInv, NEW c \in Conn, CreateUser(c) \/ PerformLogin(c)
    PROVE  Kind(c, s'[c])
<1>1. CASE CreateUser(c)
  BY <1>1, AdmitKind DEF CreateUser, At, history
<1>2. CASE PerformLogin(c)
  <2>1. PICK u \in users : Admit(c, u.profileid)
    BY <1>2 DEF PerformLogin
  <2>2. u.profileid \in Profiles
    BY DEF LocalInv, TypesOK
  <2> QED  BY <1>2, <2>1, <2>2, AdmitKind DEF PerformLogin, At, history
<1> QED  BY <1>1, <1>2

\* A finite set is the range of its sequence.
LEMMA SetToSeqRange ==
    ASSUME NEW S, IsFiniteSet(S)
    PROVE  \A x \in S : \E i \in 1 .. Cardinality(S) : SetToSeq(S)[i] = x
<1> DEFINE n == Cardinality(S)
           I == 1 .. n
<1>1. n \in Nat /\ ExistsBijection(I, S)
  BY FS_CardinalityType
<1>2. \E f \in [I -> S] : IsInjective(f)
  BY <1>1 DEF ExistsBijection, Bijection, Injection
<1>3. SetToSeq(S) \in Injection(I, S)
  BY <1>2 DEF SetToSeq, Injection
<1>4. IsFiniteSet(I) /\ Cardinality(I) = n
  <2> HIDE DEF n
  <2>1. IsFiniteSet(1 .. n) /\ Cardinality(1 .. n) = IF 1 > n THEN 0 ELSE n - 1 + 1
    BY <1>1, FS_Interval
  <2> QED  BY <1>1, <2>1
<1> HIDE DEF I, n
<1>5. SetToSeq(S) \in Surjection(I, S)
  BY <1>3, <1>4, FS_Injection DEF n
<1> QED  BY <1>5 DEF Surjection, I, n

(***************************************************************************)
(* What _yield_status_to_friends yields: for each friend that is there, a  *)
(* status to it and the status of it.                                      *)
(***************************************************************************)
LEMMA RelaysSay ==
    ASSUME TypesOK, NEW c \in Conn, NEW y \in Statuses, NEW targets \in SUBSET Profiles
    PROVE  /\ Relays(c, y, targets) \in Seq(Effect)
           /\ \A e : e \in Range(Relays(c, y, targets)) <=>
                 \E p \in Present(c, targets) : \/ e = Route(p, Relay(s[c].profileid, y))
                                                \/ e = Response(Relay(p, StatusOf(p, c, y)))
<1> DEFINE there == Present(c, targets)
           n == Cardinality(there)
           f == SetToSeq(there)
           es == Relays(c, y, targets)
<1>1. IsFiniteSet(there)
  <2>1. IsFiniteSet(Profiles)
    BY BoundAssumption, FS_Interval DEF Profiles
  <2>2. there \subseteq Profiles
    BY DEF Present
  <2> QED  BY <2>1, <2>2, FS_Subset
<1>2. n \in Nat /\ f \in [1 .. n -> there]
  BY <1>1, SetToSeqType
<1>3. \A p \in there : \E i \in 1 .. n : f[i] = p
  BY <1>1, SetToSeqRange
<1>4. es \in Seq(Effect)
  <2>1. es \in Seq(Tidings) /\ Tidings \subseteq Effect
    BY RelaysAreTidings DEF Tidings
  <2> HIDE DEF es
  <2> QED  BY <2>1, SeqMonotonic
<1> HIDE DEF n, f
<1>5. es = [i \in 1 .. 2 * n |->
            IF i % 2 = 1 THEN Route(f[(i + 1) \div 2], Relay(s[c].profileid, y))
            ELSE Response(Relay(f[(i + 1) \div 2], StatusOf(f[(i + 1) \div 2], c, y)))]
  BY DEF Relays, n, f
<1>6. \A i \in 1 .. 2 * n : (i + 1) \div 2 \in 1 .. n
  BY <1>2
<1>7. \A i \in 1 .. n : /\ 2 * i - 1 \in 1 .. 2 * n /\ (2 * i - 1) % 2 = 1
                        /\ (2 * i - 1 + 1) \div 2 = i
                        /\ 2 * i \in 1 .. 2 * n /\ (2 * i) % 2 # 1 /\ (2 * i + 1) \div 2 = i
  BY <1>2
<1> HIDE DEF there, es
<1>8. ASSUME NEW e, e \in Range(es)
      PROVE  \E p \in there : \/ e = Route(p, Relay(s[c].profileid, y))
                              \/ e = Response(Relay(p, StatusOf(p, c, y)))
  <2>1. PICK i \in 1 .. 2 * n : e = es[i]
    BY <1>5, <1>8 DEF Range
  <2>2. f[(i + 1) \div 2] \in there
    BY <1>2, <1>6
  <2> QED  BY <1>5, <2>1, <2>2
<1>9. ASSUME NEW p \in there
      PROVE  /\ Route(p, Relay(s[c].profileid, y)) \in Range(es)
             /\ Response(Relay(p, StatusOf(p, c, y))) \in Range(es)
  <2>1. PICK i \in 1 .. n : f[i] = p
    BY <1>3
  <2>2. es[2 * i - 1] = Route(p, Relay(s[c].profileid, y))
    BY <1>5, <1>7, <2>1
  <2>3. es[2 * i] = Response(Relay(p, StatusOf(p, c, y)))
    BY <1>5, <1>7, <2>1
  <2>4. 2 * i - 1 \in DOMAIN es /\ 2 * i \in DOMAIN es
    BY <1>5, <1>7
  <2> QED  BY <2>2, <2>3, <2>4 DEF Range
<1> QED  BY <1>4, <1>8, <1>9 DEF there, es

\* Statuses that are told, with other effects before and after them.
LEMMA RelayedBetween ==
    ASSUME LocalInv, NEW c \in Conn, NEW st, st.status \in Statuses,
           NEW targets \in SUBSET s[c].buddies,
           NEW before \in Seq(Effect), NEW after \in Seq(Effect),
           \A e \in Range(before) : e = Response(LoggedIn) \/ Plain(e),
           Response(LoggedIn) \in Range(before) <=> s[c].pc = "insert",
           \A e \in Range(after) :
               /\ e = Delete(s[c].profileid) /\ st.status = "0"
               /\ st.profileid = NoProfile \/ st.pc \in Ending
    PROVE  LET more == (before \o Relays(c, st.status, targets)) \o after
           IN  /\ more \in Seq(Effect)
               /\ Relayed(c, st, targets, more)
               /\ Range(after) \subseteq Range(more)
<1> DEFINE relays == Relays(c, st.status, targets)
           more == (before \o relays) \o after
           there == Present(c, targets)
           tells(p) == Route(p, Relay(s[c].profileid, st.status))
           learns(p) == Response(Relay(p, StatusOf(p, c, st.status)))
<1>1. targets \in SUBSET Profiles
  BY LocalFacts DEF State
<1>2. /\ relays \in Seq(Effect)
      /\ \A e : e \in Range(relays) <=> \E p \in there : e = tells(p) \/ e = learns(p)
  BY <1>1, RelaysSay DEF LocalInv
<1> HIDE DEF relays
<1>3. more \in Seq(Effect) /\ Range(more) = Range(before) \cup Range(relays) \cup Range(after)
  <2> DEFINE first == before \o relays
  <2>1. first \in Seq(Effect) /\ Range(first) = Range(before) \cup Range(relays)
    BY <1>2, Concatenation
  <2> HIDE DEF first
  <2>2. first \o after \in Seq(Effect) /\ Range(first \o after) = Range(first) \cup Range(after)
    BY <2>1, Concatenation
  <2> QED  BY <2>1, <2>2 DEF first
<1> HIDE DEF more, there
<1>4. /\ \A x, f, y : Route(x, Relay(f, y)) \notin Range(before) \cup Range(after)
      /\ \A f, y : Response(Relay(f, y)) \notin Range(before) \cup Range(after)
      /\ Response(LoggedIn) \notin Range(after)
      /\ \A e \in Range(before) : ~Moves(e)
  <2>1. /\ \A x, f, y : /\ Route(x, Relay(f, y)) # Response(LoggedIn)
                        /\ ~Plain(Route(x, Relay(f, y)))
                        /\ \A p : Route(x, Relay(f, y)) # Delete(p)
        /\ \A f, y : /\ Response(Relay(f, y)) # Response(LoggedIn)
                     /\ ~Plain(Response(Relay(f, y)))
                     /\ \A p : Response(Relay(f, y)) # Delete(p)
        /\ \A p : Response(LoggedIn) # Delete(p)
        /\ ~Moves(Response(LoggedIn)) /\ \A e : Plain(e) => ~Moves(e)
    BY DEF Route, Response, Relay, LoggedIn, Plain, Delete, Moves
  <2> QED  BY <2>1
<1>5. /\ \A x, f, y : Route(x, Relay(f, y)) \in Range(relays) <=>
             x \in there /\ f = s[c].profileid /\ y = st.status
      /\ \A f, y : Response(Relay(f, y)) \in Range(relays) <=>
             f \in there /\ y = StatusOf(f, c, st.status)
      /\ Response(LoggedIn) \notin Range(relays)
      /\ \A e \in Range(relays) : ~Moves(e)
  <2>1. /\ \A x, f, y, p : Route(x, Relay(f, y)) = tells(p) <=>
               x = p /\ f = s[c].profileid /\ y = st.status
        /\ \A x, f, y, p : Route(x, Relay(f, y)) # learns(p)
        /\ \A f, y, p : Response(Relay(f, y)) = learns(p) <=>
               f = p /\ y = StatusOf(p, c, st.status)
        /\ \A f, y, p : Response(Relay(f, y)) # tells(p)
        /\ \A p : Response(LoggedIn) # tells(p) /\ Response(LoggedIn) # learns(p)
        /\ \A p : ~Moves(tells(p)) /\ ~Moves(learns(p))
    BY DEF Route, Response, Relay, LoggedIn, Moves
  <2> QED  BY <1>2, <2>1
<1>6. Relayed(c, st, targets, more)
  <2>1. /\ \A x \in Profiles, f \in Profiles \cup {NoProfile}, y \in Statuses :
              Route(x, Relay(f, y)) \in Range(more) <=>
                  x \in Present(c, targets) /\ f = s[c].profileid /\ y = st.status
        /\ \A f \in Profiles, y \in Statuses :
              Response(Relay(f, y)) \in Range(more) <=>
                  f \in Present(c, targets) /\ y = StatusOf(f, c, st.status)
    BY <1>3, <1>4, <1>5 DEF there
  <2>2. Response(LoggedIn) \in Range(more) <=> s[c].pc = "insert"
    BY <1>3, <1>4, <1>5
  <2>3. \A e \in Range(more) : Moves(e) => e \in Range(after)
    BY <1>3, <1>4, <1>5
  <2> QED  BY <2>1, <2>2, <2>3 DEF Relayed
<1> QED  BY <1>3, <1>6 DEF more, relays

\* The login looks at its friends.
LEMMA InsertSessionKind ==
    ASSUME LocalInv, NEW c \in Conn, ~Raises(c), InsertSession(c)
    PROVE  Kind(c, s'[c])
<1> DEFINE lc == <<Response(LoggedIn)>>
           relays == Relays(c, "1", s[c].buddies)
           state == [s[c] EXCEPT !.sesskey = TRUE, !.status = "1"]
           st == Moved([state EXCEPT !.cur = @ \o lc \o relays], "pending")
           more == (lc \o relays) \o <<>>
<1>1. s[c].pc = "insert" /\ s' = [s EXCEPT ![c] = st] /\ Cross(c)
  BY DEF InsertSession, At, Await, Moved
<1>2. /\ s[c] \in State /\ s[c].eff = <<>> /\ s \in [Conn -> State]
      /\ s[c].cur \in Seq(Effect) /\ s[c].buddies \in SUBSET Profiles
  BY <1>1, LocalFacts DEF Fits, FlowOK, LoginSteps, LocalInv, TypesOK, State
<1>3. s'[c] = st
  BY <1>1, <1>2
<1>4. /\ lc \in Seq(Effect) /\ Range(lc) = {Response(LoggedIn)}
      /\ <<>> \in Seq(Effect) /\ Range(<<>>) = {}
  <2>1. Response(LoggedIn) \in Effect
    BY DEF Response, LoggedIn, Effect
  <2> QED  BY <2>1, EmptySeq DEF Range
<1>5. relays \in Seq(Effect)
  BY <1>2, RelaysSay DEF LocalInv, Statuses
<1> HIDE DEF lc, relays
<1>6. /\ st.pc = "pending" /\ st.sesskey /\ st.status = "1" /\ st.eff = <<>>
      /\ st.cur = s[c].cur \o lc \o relays
      /\ st.profileid = s[c].profileid /\ st.buddies = s[c].buddies
  BY <1>2 DEF Moved, State
<1>7. more \in Seq(Effect) /\ Relayed(c, st, s[c].buddies, more)
  <2>1. st.status \in Statuses
    BY <1>6 DEF Statuses
  <2>2. more = (lc \o Relays(c, st.status, s[c].buddies)) \o <<>>
    BY <1>6 DEF relays
  <2> HIDE DEF st, more
  <2>3. /\ (lc \o Relays(c, st.status, s[c].buddies)) \o <<>> \in Seq(Effect)
        /\ Relayed(c, st, s[c].buddies, (lc \o Relays(c, st.status, s[c].buddies)) \o <<>>)
    BY <1>1, <1>4, <2>1, RelayedBetween
  <2> QED  BY <2>2, <2>3
<1>8. Held(st) = Held(s[c]) \o more
  <2>1. lc \o relays \in Seq(Effect)
    BY <1>4, <1>5, Concatenation
  <2>2. more = lc \o relays
    BY <2>1, ConcatEmptySeq
  <2> HIDE DEF st, more
  <2>3. st.cur = s[c].cur \o (lc \o relays)
    <3> DEFINE cur == s[c].cur
    <3>1. cur \in Seq(Effect)
      BY <1>2
    <3>2. st.cur = (cur \o lc) \o relays
      BY <1>6
    <3> HIDE DEF cur
    <3>3. st.cur = cur \o (lc \o relays)
      BY <1>4, <1>5, <3>1, <3>2, ConcatAssociative
    <3> QED  BY <3>3 DEF cur
  <2>4. st.cur \in Seq(Effect)
    BY <1>2, <2>1, <2>3, Concatenation
  <2> QED  BY <1>2, <1>6, <2>2, <2>3, <2>4, ConcatEmptySeq DEF Held
<1> HIDE DEF st, more
<1>9. LooksFrom(c, st, more)
  BY <1>1, <1>6 DEF LooksFrom
<1>10. Looks(c, st)
  BY <1>1, <1>6, <1>7, <1>8, <1>9 DEF Looks
<1> QED  BY <1>3, <1>10 DEF Kind

\* A command that tells friends something returns.
LEMMA ReturnLooks ==
    ASSUME LocalInv, NEW c \in Conn, NEW state \in State,
           state.buddies = s[c].buddies, state.sesskey = s[c].sesskey,
           state.eff = s[c].eff,
           s[c].pc = "next", s[c].todo \notin {<<>>, Login},
           NEW targets \in SUBSET s[c].buddies,
           targets = s[c].buddies \/ state.status = s[c].status,
           NEW before \in Seq(Effect), NEW after \in Seq(Effect),
           \A e \in Range(before) : Plain(e),
           \A e \in Range(after) :
               e = Delete(s[c].profileid) /\ state.status = "0" /\ state.profileid = NoProfile,
           \/ state.profileid = s[c].profileid
           \/ state.profileid = NoProfile /\ Delete(s[c].profileid) \in Range(after),
           s' = [s EXCEPT ![c] =
                   Returned(state, (before \o Relays(c, state.status, targets)) \o after)],
           Cross(c), ~Raises(c)
    PROVE  Kind(c, s'[c])
<1> DEFINE more == (before \o Relays(c, state.status, targets)) \o after
           st == Returned(state, more)
<1>1. /\ s[c] \in State /\ s[c].cur = <<>> /\ s \in [Conn -> State] /\ s[c].eff \in Seq(Effect)
  BY LocalFacts DEF Fits, FlowOK, Joining, LocalInv, TypesOK, State
<1>2. s'[c] = st
  BY <1>1
<1> HIDE DEF more
<1>3. /\ st.pc = "next" /\ st.sesskey = s[c].sesskey /\ st.status = state.status
      /\ st.eff = s[c].eff \o more /\ st.cur = <<>>
      /\ st.profileid = state.profileid /\ st.buddies = s[c].buddies
  BY DEF Returned, State
<1> HIDE DEF st
<1>4. /\ more \in Seq(Effect) /\ Relayed(c, st, targets, more)
      /\ Range(after) \subseteq Range(more)
  <2>1. st.status \in Statuses
    BY <1>3 DEF State
  <2>2. Response(LoggedIn) \notin Range(before)
    BY DEF Plain, Response, LoggedIn
  <2>3. more = (before \o Relays(c, st.status, targets)) \o after
    BY <1>3 DEF more
  <2>4. /\ (before \o Relays(c, st.status, targets)) \o after \in Seq(Effect)
        /\ Relayed(c, st, targets, (before \o Relays(c, st.status, targets)) \o after)
        /\ Range(after) \subseteq Range((before \o Relays(c, st.status, targets)) \o after)
    BY <1>3, <2>1, <2>2, RelayedBetween
  <2> QED  BY <2>3, <2>4
<1>5. Held(st) = Held(s[c]) \o more
  <2>1. s[c].eff \o more \in Seq(Effect)
    BY <1>1, <1>4, Concatenation
  <2> QED  BY <1>1, <1>3, <2>1, HeldFacts, ConcatEmptySeq DEF Held
<1>6. LooksFrom(c, st, more)
  BY <1>3, <1>4 DEF LooksFrom
<1>7. Looks(c, st)
  BY <1>3, <1>4, <1>5, <1>6 DEF Looks
<1> QED  BY <1>2, <1>7 DEF Kind

\* The commands that tell friends something.
LEMMA LooksKind ==
    ASSUME LocalInv, NEW c \in Conn, ~Raises(c), Logout(c) \/ Status(c) \/ AuthAdd(c)
    PROVE  Kind(c, s'[c])
<1>1. s[c] \in State /\ s[c].buddies \subseteq Profiles
  BY LocalFacts DEF State
<1>2. /\ <<>> \in Seq(Effect) /\ Range(<<>>) = {}
  BY PlainEffects
<1>3. CASE Logout(c)
  <2> DEFINE state == [s[c] EXCEPT !.status = "0", !.profileid = NoProfile]
             relays == Relays(c, "0", s[c].buddies)
             after == <<Delete(s[c].profileid)>>
  <2>1. /\ s[c].pc = "next" /\ s[c].todo # <<>> /\ Head(s[c].todo).cmd = "logout" /\ Cross(c)
    BY <1>3 DEF Logout, Turn, At
  <2>2. s[c].todo # Login /\ s[c].profileid \in Profiles /\ s[c].profileid # NoProfile
    BY <2>1, TurnFacts
  <2>3. s' = [s EXCEPT ![c] = Returned(state, relays \o after)]
    BY <1>3, <2>2 DEF Logout, Return, Returned
  <2>4. /\ state \in State /\ state.buddies = s[c].buddies /\ state.sesskey = s[c].sesskey
        /\ state.eff = s[c].eff /\ state.status = "0" /\ state.profileid = NoProfile
    BY <1>1 DEF State, Statuses
  <2>5. after \in Seq(Effect) /\ Range(after) = {Delete(s[c].profileid)}
    <3>1. Delete(s[c].profileid) \in Effect
      BY <2>2 DEF Delete, Effect
    <3> QED  BY <3>1 DEF Range
  <2>6. relays \in Seq(Effect)
    BY <1>1, RelaysSay DEF LocalInv, Statuses
  <2> HIDE DEF state, after
  <2>7. relays \o after = (<<>> \o Relays(c, state.status, s[c].buddies)) \o after
    <3>1. <<>> \o relays = relays /\ relays = Relays(c, state.status, s[c].buddies)
      BY <2>4, <2>6, ConcatEmptySeq
    <3> QED  BY <3>1
  <2> HIDE DEF relays
  <2>8. s' = [s EXCEPT ![c] =
              Returned(state, (<<>> \o Relays(c, state.status, s[c].buddies)) \o after)]
    BY <2>3, <2>7
  <2> QED  BY <1>2, <2>1, <2>2, <2>4, <2>5, <2>8, ReturnLooks
<1>4. CASE Status(c)
  <2> DEFINE state == [s[c] EXCEPT !.status = "2"]
             relays == Relays(c, "2", s[c].buddies)
  <2>1. /\ s[c].pc = "next" /\ s[c].todo # <<>> /\ Head(s[c].todo).cmd = "status" /\ Cross(c)
    BY <1>4 DEF Status, Turn, At
  <2>2. s[c].todo # Login
    BY <2>1, TurnFacts
  <2>3. s' = [s EXCEPT ![c] = Returned(state, relays)]
    BY <1>4 DEF Status, Return, Returned
  <2>4. /\ state \in State /\ state.buddies = s[c].buddies /\ state.sesskey = s[c].sesskey
        /\ state.eff = s[c].eff /\ state.status = "2" /\ state.profileid = s[c].profileid
    BY <1>1 DEF State, Statuses
  <2>5. relays \in Seq(Effect)
    BY <1>1, RelaysSay DEF LocalInv, Statuses
  <2> HIDE DEF state
  <2>6. relays = (<<>> \o Relays(c, state.status, s[c].buddies)) \o <<>>
    <3>1. <<>> \o relays = relays /\ relays \o <<>> = relays
          /\ relays = Relays(c, state.status, s[c].buddies)
      BY <2>4, <2>5, ConcatEmptySeq
    <3> QED  BY <3>1
  <2> HIDE DEF relays
  <2>7. s' = [s EXCEPT ![c] =
              Returned(state, (<<>> \o Relays(c, state.status, s[c].buddies)) \o <<>>)]
    BY <2>3, <2>6
  <2> QED  BY <1>2, <2>1, <2>2, <2>4, <2>7, ReturnLooks
<1>5. CASE AuthAdd(c)
  <2> DEFINE answer == IF Active(Who(c)) THEN <<Route(Who(c), Accepted)>> ELSE << >>
             targets == s[c].buddies \cap {Who(c)}
             relays == Relays(c, s[c].status, targets)
  <2>1. /\ s[c].pc = "next" /\ s[c].todo # <<>> /\ Head(s[c].todo).cmd = "authadd" /\ Cross(c)
    BY <1>5 DEF AuthAdd, Turn, At
  <2>2. s[c].todo # Login /\ Who(c) \in Profiles
    BY <2>1, TurnFacts, LoginIsNoCommand DEF Who
  <2>3. s' = [s EXCEPT ![c] = Returned(s[c], answer \o relays)]
    BY <1>5 DEF AuthAdd, Return, Returned
  <2>4. answer \in Seq(Effect) /\ \A e \in Range(answer) : Plain(e)
    BY <2>2, PlainEffects
  <2>5. relays \in Seq(Effect) /\ targets \in SUBSET s[c].buddies
    <3>1. s[c].status \in Statuses /\ targets \in SUBSET Profiles
      BY <1>1 DEF State
    <3> QED  BY <3>1, RelaysSay DEF LocalInv
  <2> HIDE DEF answer, relays, targets
  <2>6. answer \o relays = (answer \o relays) \o <<>>
    <3> DEFINE es == answer \o relays
    <3>1. es \in Seq(Effect)
      BY <2>4, <2>5, Concatenation
    <3> HIDE DEF es
    <3>2. es = es \o <<>>
      BY <3>1, ConcatEmptySeq
    <3> QED  BY <3>2 DEF es
  <2>7. s' = [s EXCEPT ![c] =
              Returned(s[c], (answer \o Relays(c, s[c].status, targets)) \o <<>>)]
    BY <2>3, <2>6 DEF relays
  <2> QED  BY <1>1, <1>2, <2>1, <2>2, <2>4, <2>5, <2>7, ReturnLooks
<1> QED  BY <1>3, <1>4, <1>5

\* A connection that ends tells its friends.
LEMMA LostKind ==
    ASSUME LocalInv, NEW c \in Conn, ~Raises(c), OnConnectionLost(c)
    PROVE  Kind(c, s'[c])
<1> DEFINE relays == Relays(c, "0", s[c].buddies)
           after == IF s[c].profileid # NoProfile THEN <<Delete(s[c].profileid)>> ELSE << >>
           es == relays \o after
           label == IF s[c].sesskey THEN "unsession" ELSE "bye"
           st == [s[c] EXCEPT !.status = "0", !.eff = es, !.pc = label]
           more == (<<>> \o relays) \o after
<1>1. s[c].pc = "lost" /\ s' = [s EXCEPT ![c] = st] /\ Cross(c)
  BY DEF OnConnectionLost, At, Await, GoOn
<1>2. /\ s[c] \in State /\ s[c].eff = <<>> /\ s[c].cur = <<>> /\ s \in [Conn -> State]
      /\ s[c].buddies \in SUBSET Profiles /\ s[c].profileid \in Profiles \cup {NoProfile}
  BY <1>1, LocalFacts DEF Fits, FlowOK, Idle, Joining, LocalInv, TypesOK, State
<1>3. s'[c] = st
  BY <1>1, <1>2
<1>4. after \in Seq(Effect) /\ Range(after) \subseteq {Delete(s[c].profileid)}
  <2>1. CASE s[c].profileid # NoProfile
    <3>1. Delete(s[c].profileid) \in Effect
      BY <1>2, <2>1 DEF Delete, Effect
    <3> QED  BY <2>1, <3>1 DEF Range
  <2>2. CASE s[c].profileid = NoProfile
    BY <2>2, PlainEffects
  <2> QED  BY <2>1, <2>2
<1>5. relays \in Seq(Effect)
  BY <1>2, RelaysSay DEF LocalInv, Statuses
<1> HIDE DEF relays, after
<1>6. /\ st.pc = label /\ st.sesskey = s[c].sesskey /\ st.status = "0" /\ st.eff = es
      /\ st.cur = <<>> /\ st.profileid = s[c].profileid /\ st.buddies = s[c].buddies
  BY <1>2 DEF State
<1> HIDE DEF st
<1>7. more \in Seq(Effect) /\ Relayed(c, st, s[c].buddies, more)
  <2>1. st.status \in Statuses /\ st.pc \in Ending
    BY <1>6 DEF Statuses, Ending
  <2>2. more = (<<>> \o Relays(c, st.status, s[c].buddies)) \o after
    BY <1>6 DEF relays
  <2>3. /\ <<>> \in Seq(Effect) /\ Range(<<>>) = {}
    BY PlainEffects
  <2> HIDE DEF more
  <2>4. /\ (<<>> \o Relays(c, st.status, s[c].buddies)) \o after \in Seq(Effect)
        /\ Relayed(c, st, s[c].buddies, (<<>> \o Relays(c, st.status, s[c].buddies)) \o after)
    BY <1>1, <1>4, <1>6, <2>1, <2>3, RelayedBetween
  <2> QED  BY <2>2, <2>4
<1>8. Held(st) = Held(s[c]) \o more
  <2>1. more = es
    BY <1>5, ConcatEmptySeq
  <2>2. Held(s[c]) = <<>>
    BY <1>2, HeldFacts
  <2> HIDE DEF more
  <2>3. Held(st) = more \o <<>>
    BY <1>6, <2>1 DEF Held
  <2> QED  BY <1>7, <2>2, <2>3, ConcatEmptySeq
<1> HIDE DEF more
<1>9. LooksFrom(c, st, more)
  BY <1>1, <1>6 DEF LooksFrom, Ending
<1>10. Looks(c, st)
  BY <1>1, <1>6, <1>7, <1>8, <1>9 DEF Looks
<1> QED  BY <1>3, <1>10 DEF Kind

\* Whoever raises keeps the effects of the commands before.
LEMMA RaisesFalters ==
    ASSUME LocalInv, NEW c \in Conn, Raises(c),
           InsertSession(c) \/ Logout(c) \/ Status(c) \/ AuthAdd(c) \/ OnConnectionLost(c)
    PROVE  Falters(c, s'[c])
<1>1. s[c] \in State /\ s \in [Conn -> State]
  BY LocalFacts DEF LocalInv, TypesOK
<1>2. /\ s'[c].eff = s[c].eff /\ s'[c].cur \in {s[c].cur, <<>>}
      /\ s'[c].eff \in Seq(Effect) /\ s'[c].cur \in Seq(Effect)
  <2>1. s[c].eff \in Seq(Effect) /\ s[c].cur \in Seq(Effect) /\ <<>> \in Seq(Effect)
    BY <1>1, EmptySeq DEF State
  <2>2. CASE InsertSession(c)
    BY <1>1, <2>1, <2>2 DEF InsertSession, Raise, State
  <2>3. CASE Logout(c)
    BY <1>1, <2>1, <2>3 DEF Logout, Raise, State
  <2>4. CASE Status(c)
    BY <1>1, <2>1, <2>4 DEF Status, Raise, State
  <2>5. CASE AuthAdd(c)
    BY <1>1, <2>1, <2>5 DEF AuthAdd, Raise, State
  <2>6. CASE OnConnectionLost(c)
    BY <1>1, <2>1, <2>6 DEF OnConnectionLost, Await, State
  <2> QED  BY <2>2, <2>3, <2>4, <2>5, <2>6
<1>3. Range(Held(s'[c])) = Range(s'[c].eff) \cup Range(s'[c].cur)
  BY <1>2, Concatenation DEF Held
<1>4. Range(<<>>) = {}
  BY PlainEffects
<1> QED  BY <1>1, <1>2, <1>3, <1>4, HeldFacts DEF Falters, Raises

\* Every step of the server that collects effects.
LEMMA ServerKinds ==
    ASSUME LocalInv, NEW c \in Conn, Server(c)
    PROVE  \/ \E label \in {"read", "closed"} : Takes(c, label)
           \/ (Kind(c, s'[c]) \/ Falters(c, s'[c])) /\ \E st : Step(c, st)
<1>1. \/ \E label \in {"read", "closed"} : Takes(c, label)
      \/ \E st : Step(c, st)
  BY ServerSteps, TakesEffects
<1>2. \/ EndOfChunk(c) \/ Close(c)
      \/ Kind(c, s'[c]) \/ Falters(c, s'[c])
  BY AwaitsKind, ReturnsKind, GetPendingKind, AdmitsKind, InsertSessionKind, LooksKind, LostKind,
     RaisesFalters
  DEF Server
<1> QED  BY <1>1, <1>2, TakesEffects

\* A console leaves the coroutine and what consoles show alone.
Spares(c) ==
    /\ raced' = raced
    /\ \A d \in Conn : /\ s'[d].status = s[d].status /\ k'[d].seen = k[d].seen
                       /\ k[d].phase = "gone" => k'[d].phase = "gone"
    /\ s'[c].pc = "lost" => s[c].pc = "lost" \/ ~s[c].sesskey

LEMMA SaySpares ==
    ASSUME LocalInv, NEW c \in Conn, Say(c)
    PROVE  Spares(c)
<1>1. /\ s[c] \in State /\ Fits(c, s[c], k[c].phase, k[c].said, k[c].chunk)
      /\ s \in [Conn -> State] /\ k \in [Conn -> Console] /\ k[c] \in Console
  BY LocalFacts DEF LocalInv, TypesOK
<1>2. k[c].phase = "in"
  BY DEF Say
<1>3. Awaits
  BY <1>1, <1>2 DEF Fits, EffectsOK
<1>4. PICK chunk \in Chunks(c) :
          /\ k' = [k EXCEPT ![c].said = @ \cup Range(chunk),
                           ![c].chunk = chunk,
                           ![c].phase = IF Last(chunk).cmd = "logout" THEN "out" ELSE @]
          /\ ReadChunk(c, chunk)
  BY DEF Say
<1> DEFINE st == [s[c] EXCEPT !.todo = chunk, !.pc = "next"]
           con == [k[c] EXCEPT !.said = @ \cup Range(chunk), !.chunk = chunk,
                               !.phase = IF Last(chunk).cmd = "logout" THEN "out" ELSE "in"]
<1>5. k' = [k EXCEPT ![c] = con]
  BY <1>1, <1>2, <1>4
<1>6. s' = [s EXCEPT ![c] = st] /\ raced' = raced
  BY <1>1, <1>3, <1>4 DEF ReadChunk, GoOn, history
<1>7. st.pc = "next" /\ st.status = s[c].status
  BY <1>1 DEF State
<1>8. con.seen = k[c].seen
  BY <1>1 DEF Console
<1> HIDE DEF st, con
<1> QED  BY <1>1, <1>2, <1>5, <1>6, <1>7, <1>8 DEF Spares

LEMMA ConsolesSpare ==
    ASSUME LocalInv, NEW c \in Conn, Connect(c) \/ SayLogin(c) \/ Say(c) \/ Leave(c)
    PROVE  Spares(c) /\ Deed(c)
<1>1. /\ s[c] \in State /\ s \in [Conn -> State] /\ k \in [Conn -> Console]
      /\ Fits(c, s[c], k[c].phase, k[c].said, k[c].chunk)
  BY LocalFacts DEF LocalInv, TypesOK
<1>2. k[c] \in Console
  BY <1>1
<1>3. CASE Connect(c)
  <2>1. k[c].phase = "off"
    BY <1>1, <1>3 DEF Connect, Fits, NameOK
  <2>2. Spares(c)
    BY <1>1, <1>2, <1>3, <2>1 DEF Connect, Spares, State, Console, history
  <2> QED  BY <1>3, <2>2, ConnectActs
<1>4. CASE SayLogin(c)
  <2>1. ~s[c].sesskey
    BY <1>1, <1>4 DEF SayLogin, Fits, NameOK
  <2>2. k' = [k EXCEPT ![c].phase = "asked"] /\ raced' = raced /\ k[c].phase = "up"
    BY <1>4 DEF SayLogin, ReadChunk, history
  <2>3. /\ s' = [s EXCEPT ![c] = Takeover(c, Login)]
        /\ Takeover(c, Login).pc \in {"next", "lost"}
    BY <1>4, ReadChunkFields DEF SayLogin, ReadChunk, Login
  <2>4. Takeover(c, Login).status = s[c].status
    BY <1>1 DEF Takeover, State
  <2>5. \A d \in Conn : s'[d].status = s[d].status
    BY <1>1, <2>3, <2>4
  <2>6. \A d \in Conn : k'[d].seen = k[d].seen /\ (k[d].phase = "gone" => k'[d].phase = "gone")
    BY <1>1, <1>2, <2>2 DEF Console
  <2>7. Spares(c)
    BY <2>1, <2>2, <2>5, <2>6 DEF Spares
  <2> QED  BY <1>4, <2>7, SayLoginActs
<1>5. CASE Say(c)
  BY <1>5, SaySpares, SayActs
<1>6. CASE Leave(c)
  <2>1. Spares(c)
    BY <1>1, <1>2, <1>6 DEF Leave, Spares, State, Console, history
  <2> QED  BY <1>6, <2>1, LeaveActs
<1> QED  BY <1>3, <1>4, <1>5, <1>6

\* Every step of the system.
LEMMA NextKinds ==
    ASSUME LocalInv, Next
    PROVE  \E c \in Conn : \/ (Kind(c, s'[c]) \/ Falters(c, s'[c])) /\ \E st : Step(c, st)
                           \/ \E label \in {"read", "closed"} : Takes(c, label)
                           \/ Spares(c) /\ Deed(c)
BY ServerKinds, ConsolesSpare DEF Next

-----------------------------------------------------------------------------
(***************************************************************************)
(* What a connection tells and learns, by itself.                          *)
(***************************************************************************)
\* It speaks for its own profile, and to whom it tells something it learns
\* something of.
TellsOK(st) ==
    \A x, f \in Profiles, y \in Statuses : TellsThat(st, x, f, y) =>
        /\ st.profileid = f \/ (st.profileid = NoProfile /\ Holds(st, Delete(f)))
        /\ \E z \in Statuses : LearnsThat(st, x, z)
        /\ st.pc \in Ending => y = st.status

\* Before it has a session it knows nobody.
LearnsOK(st) ==
    /\ ~st.sesskey => \A f \in Profiles, y \in Statuses : ~LearnsThat(st, f, y)
    /\ ~st.sesskey /\ st.pc \notin Joining => st.buddies = {}

LoggingOK(st) ==
    /\ Logging(st) => st.sesskey /\ st.profileid # NoProfile /\ st.pc \in {"pending", "next"}
    /\ st.pc = "pending" => Logging(st)
    /\ st.profileid # NoProfile => st.pc \in Joining \/ st.sesskey

\* It registers at a login, and otherwise deletes when it goes offline.
MovesOK(st) ==
    /\ \A p \in Profiles : Holds(st, Register(p)) => Logging(st) \/ st.pc \in Joining
    /\ \A p \in Profiles : Holds(st, Delete(p)) =>
          Logging(st) \/ st.pc \in Joining \/ st.status = "0"
    /\ st.profileid # NoProfile => \A p \in Profiles :
          Holds(st, Register(p)) \/ Holds(st, Delete(p)) =>
              p = st.profileid /\ (Logging(st) \/ st.pc \in Joining \cup Ending)

GoneOK(st, phase) == st.pc \in Ending \cup {"lost"} /\ st.sesskey => phase = "gone"

Sound(st, phase) ==
    TellsOK(st) /\ LearnsOK(st) /\ LoggingOK(st) /\ MovesOK(st) /\ GoneOK(st, phase)

EachSound == \A c \in Conn : Sound(s[c], k[c].phase)

\* Effects of different kinds are different.
LEMMA EffectsDiffer ==
    /\ \A e : Plain(e) => /\ \A x, f, y : e # Route(x, Relay(f, y))
                          /\ \A f, y : e # Response(Relay(f, y))
                          /\ \A p : e # Register(p) /\ e # Delete(p)
                          /\ e # Response(LoggedIn)
    /\ \A p, e : e \in {Route(p, Kicked), Delete(p), Register(p)} =>
          /\ \A x, f, y : e # Route(x, Relay(f, y))
          /\ \A f, y : e # Response(Relay(f, y))
          /\ \A q : e = Register(q) \/ e = Delete(q) => q = p
          /\ e # Response(LoggedIn)
    /\ \A p : /\ Moves(Register(p)) /\ Moves(Delete(p))
              /\ \A q : Register(q) # Delete(p)
              /\ \A q : Delete(q) = Delete(p) => q = p
<1>1. \A e : Plain(e) => /\ \A x, f, y : e # Route(x, Relay(f, y))
                         /\ \A f, y : e # Response(Relay(f, y))
                         /\ \A p : e # Register(p) /\ e # Delete(p)
                         /\ e # Response(LoggedIn)
  BY DEF Plain, Moves, Route, Response, Relay, LoggedIn, Register, Delete
<1>2. /\ \A p : Register(p).effect = "register" /\ Register(p).pid = p
      /\ \A p : Delete(p).effect = "delete" /\ Delete(p).pid = p
      /\ \A p, m : Route(p, m).effect = "route" /\ Route(p, m).m = m
      /\ \A m : Response(m).effect = "respond"
      /\ \A f, y : Relay(f, y).kind = "status"
      /\ Kicked.kind = "logout"
  BY DEF Route, Response, Relay, Kicked, LoggedIn, Register, Delete
<1>3. ASSUME NEW p, NEW e, e \in {Route(p, Kicked), Delete(p), Register(p)}
      PROVE  /\ \A x, f, y : e # Route(x, Relay(f, y))
             /\ \A f, y : e # Response(Relay(f, y))
             /\ \A q : e = Register(q) \/ e = Delete(q) => q = p
             /\ e # Response(LoggedIn)
  <2>1. e.effect # "respond"
    BY <1>2, <1>3
  <2>2. \A x, f, y : e # Route(x, Relay(f, y))
    BY <1>2, <1>3
  <2>3. \A q : e = Register(q) \/ e = Delete(q) => q = p
    BY <1>2, <1>3
  <2> QED  BY <1>2, <2>1, <2>2, <2>3
<1>4. \A p : /\ Moves(Register(p)) /\ Moves(Delete(p))
             /\ \A q : Register(q) # Delete(p)
             /\ \A q : Delete(q) = Delete(p) => q = p
  BY <1>2 DEF Moves
<1> QED  BY <1>1, <1>3, <1>4

\* Going on adds nothing to what is told, learnt or moved.
LEMMA GoesSame ==
    ASSUME LocalInv, NEW c \in Conn, NEW st, Goes(c, st)
    PROVE  /\ \A x, f, y : TellsThat(st, x, f, y) <=> TellsThat(s[c], x, f, y)
           /\ \A f, y : LearnsThat(st, f, y) <=> LearnsThat(s[c], f, y)
           /\ \A p : /\ Holds(st, Register(p)) <=> Holds(s[c], Register(p))
                     /\ Holds(st, Delete(p)) <=> Holds(s[c], Delete(p))
           /\ Logging(st) <=> Logging(s[c])
<1>1. PICK more \in Seq(Effect) :
         Held(st) = Held(s[c]) \o more /\ \A e \in Range(more) : Plain(e)
  BY DEF Goes
<1>2. Range(Held(st)) = Range(Held(s[c])) \cup Range(more)
  BY <1>1, LocalFacts, HeldMore
<1> QED  BY <1>1, <1>2, EffectsDiffer DEF TellsThat, LearnsThat, Holds, Logging

LEMMA GoesSound ==
    ASSUME LocalInv, NEW c \in Conn, Sound(s[c], k[c].phase), NEW st, Goes(c, st)
    PROVE  Sound(st, k[c].phase)
<1>1. Onward(c, st)
  BY DEF Goes
<1>2. /\ \A x, f, y : TellsThat(st, x, f, y) <=> TellsThat(s[c], x, f, y)
      /\ \A f, y : LearnsThat(st, f, y) <=> LearnsThat(s[c], f, y)
      /\ \A p : /\ Holds(st, Register(p)) <=> Holds(s[c], Register(p))
                /\ Holds(st, Delete(p)) <=> Holds(s[c], Delete(p))
      /\ Logging(st) <=> Logging(s[c])
  BY GoesSame
<1>3. s[c] \in State /\ Fits(c, s[c], k[c].phase, k[c].said, k[c].chunk)
  BY LocalFacts
<1>4. TellsOK(st)
  BY <1>1, <1>2 DEF Sound, TellsOK, Onward
<1>5. LearnsOK(st)
  <2>1. s[c].pc = "reread" => s[c].sesskey
    BY <1>3, LoginIsNoCommand DEF Fits, FlowOK, NameOK, Sound, LoggingOK, Joining, LoginSteps
  <2> QED  BY <1>1, <1>2, <2>1 DEF Sound, LearnsOK, LoggingOK, Onward, Joining
<1>6. LoggingOK(st)
  <2>1. Logging(s[c]) => s[c].pc = "pending"
    <3> SUFFICES ASSUME Logging(s[c]), s[c].pc = "next"
                 PROVE  FALSE
      BY DEF Sound, LoggingOK
    <3>1. s[c].cur = <<>> /\ s[c].todo # <<>>
      BY <1>1, <1>3 DEF Onward, Fits, FlowOK, Joining
    <3>2. Response(LoggedIn) \in Range(s[c].eff)
      BY <1>3, <3>1, HeldFacts DEF Logging, Holds
    <3> QED  BY <1>3, <3>1, <3>2 DEF Fits, EffectsOK
  <2> QED  BY <1>1, <1>2, <2>1 DEF Sound, LoggingOK, Onward, Joining
<1>7. MovesOK(st)
  <2>1. s[c].pc \in Joining => st.pc \in Joining \/ Logging(s[c])
    BY <1>1 DEF Sound, LoggingOK, Onward
  <2> QED  BY <1>1, <1>2, <2>1 DEF Sound, MovesOK, Onward
<1>8. GoneOK(st, k[c].phase)
  BY <1>1 DEF Sound, GoneOK, Onward
<1> QED  BY <1>4, <1>5, <1>6, <1>7, <1>8 DEF Sound

LEMMA EntersSound ==
    ASSUME LocalInv, NEW c \in Conn, NEW st, Enters(c, st)
    PROVE  /\ Sound(st, k[c].phase) /\ ~Logging(st) /\ ~st.sesskey
           /\ \A x, f, y : ~TellsThat(st, x, f, y)
           /\ \A f, y : ~LearnsThat(st, f, y)
<1>1. /\ st.pc = "friends" /\ st.profileid \in Profiles
      /\ \A e \in Range(Held(st)) :
            e \in {Route(st.profileid, Kicked), Delete(st.profileid), Register(st.profileid)}
  BY DEF Enters
<1>2. ~st.sesskey
  BY LocalFacts, LoginIsNoCommand DEF Enters, Fits, FlowOK, NameOK, LoginSteps
<1>3. ASSUME NEW e, Holds(st, e)
      PROVE  /\ \A x, f, y : e # Route(x, Relay(f, y))
             /\ \A f, y : e # Response(Relay(f, y))
             /\ \A p : e = Register(p) \/ e = Delete(p) => p = st.profileid
             /\ e # Response(LoggedIn)
  <2> DEFINE p == st.profileid
  <2>1. e \in {Route(p, Kicked), Delete(p), Register(p)}
    BY <1>1, <1>3 DEF Holds
  <2> HIDE DEF p
  <2>2. (\A x, f, y : e # Route(x, Relay(f, y))) /\ \A f, y : e # Response(Relay(f, y))
    BY <2>1, EffectsDiffer
  <2>3. (\A q : e = Register(q) \/ e = Delete(q) => q = p) /\ e # Response(LoggedIn)
    BY <2>1, EffectsDiffer
  <2> QED  BY <2>2, <2>3 DEF p
<1>4. /\ \A x, f, y : ~TellsThat(st, x, f, y)
      /\ \A f, y : ~LearnsThat(st, f, y)
      /\ \A p : Holds(st, Register(p)) \/ Holds(st, Delete(p)) => p = st.profileid
      /\ ~Logging(st)
  BY <1>3 DEF TellsThat, LearnsThat, Logging
<1> QED  BY <1>1, <1>2, <1>4
     DEF Sound, TellsOK, LearnsOK, LoggingOK, MovesOK, GoneOK, Joining, Ending

\* What a connection that looks at its friends held before.
LEMMA LooksFields ==
    ASSUME LocalInv, NEW c \in Conn, Sound(s[c], k[c].phase),
           s[c].pc \in {"insert", "lost"} \/ (s[c].pc = "next" /\ s[c].todo \notin {<<>>, Login})
    PROVE  /\ s[c].pc = "lost" => \A e : ~Holds(s[c], e)
           /\ s[c].pc = "next" => /\ \A e : Holds(s[c], e) => ~Moves(e)
                                  /\ ~Logging(s[c]) /\ s[c].sesskey
                                  /\ s[c].profileid # NoProfile
           /\ s[c].pc = "insert" => s[c].profileid # NoProfile /\ ~s[c].sesskey
<1>1. s[c] \in State /\ Fits(c, s[c], k[c].phase, k[c].said, k[c].chunk)
  BY LocalFacts
<1>2. CASE s[c].pc = "lost"
  <2>1. s[c].eff = <<>> /\ s[c].cur = <<>>
    BY <1>1, <1>2 DEF Fits, FlowOK, Idle, Joining
  <2>2. Range(Held(s[c])) = {}
    BY <1>1, <2>1, HeldFacts, EmptySeq DEF Range
  <2> QED  BY <1>2, <2>2 DEF Holds
<1>3. CASE s[c].pc = "next" /\ s[c].todo \notin {<<>>, Login}
  <2>1. s[c].cur = <<>>
    BY <1>1, <1>3 DEF Fits, FlowOK, Joining
  <2>2. Range(Held(s[c])) = Range(s[c].eff)
    BY <1>1, <2>1, HeldFacts
  <2>3. \A e : Holds(s[c], e) => ~Moves(e)
    BY <1>1, <1>3, <2>2 DEF Fits, EffectsOK, Holds
  <2>4. ~Logging(s[c])
    BY <1>1, <1>3, <2>2 DEF Fits, EffectsOK, Logging, Holds
  <2>5. s[c].profileid # NoProfile
    BY <1>1, <1>3 DEF Fits, NameOK
  <2>6. s[c].sesskey
    BY <1>3, <2>5 DEF Sound, LoggingOK, Joining
  <2> QED  BY <1>3, <2>3, <2>4, <2>5, <2>6
<1>4. CASE s[c].pc = "insert"
  BY <1>1, <1>4 DEF Fits, FlowOK, NameOK, LoginSteps, Joining
<1> QED  BY <1>2, <1>3, <1>4

\* The status of whoever is present is one.
LEMMA StatusOfType ==
    ASSUME LocalInv, NEW c \in Conn, NEW st \in State, NEW targets,
           NEW f \in Present(c, targets)
    PROVE  f \in Profiles => StatusOf(f, c, st.status) \in Statuses
<1>1. \A d \in Conn : s[d] \in State
  BY LocalFacts
<1>2. f \in Profiles => pid_map[f] \in Conn
  BY DEF Present, Active, LocalInv, TypesOK
<1> QED  BY <1>1, <1>2 DEF StatusOf, State

\* What a connection holds more after it looked at its friends.
LEMMA LooksMore ==
    ASSUME LocalInv, NEW c \in Conn, NEW st, NEW more \in Seq(Effect),
           NEW targets, Held(st) = Held(s[c]) \o more, Relayed(c, st, targets, more)
    PROVE  /\ \A e : Holds(st, e) <=> Holds(s[c], e) \/ e \in Range(more)
           /\ \A x, f \in Profiles, y \in Statuses : TellsThat(st, x, f, y) <=>
                 \/ TellsThat(s[c], x, f, y)
                 \/ x \in Present(c, targets) /\ f = s[c].profileid /\ y = st.status
           /\ \A f \in Profiles, y \in Statuses : LearnsThat(st, f, y) <=>
                 \/ LearnsThat(s[c], f, y)
                 \/ f \in Present(c, targets) /\ y = StatusOf(f, c, st.status)
           /\ Logging(st) <=> Logging(s[c]) \/ s[c].pc = "insert"
           /\ \A p : ~(Register(p) \in Range(more))
           /\ \A p : Delete(p) \in Range(more) =>
                 /\ p = s[c].profileid /\ st.status = "0"
                 /\ st.profileid = NoProfile \/ st.pc \in Ending
<1>1. Range(Held(st)) = Range(Held(s[c])) \cup Range(more)
  BY LocalFacts, HeldMore
<1>2. \A e : Holds(st, e) <=> Holds(s[c], e) \/ e \in Range(more)
  BY <1>1 DEF Holds
<1>3. \A e \in Range(more) : Moves(e) =>
          /\ e = Delete(s[c].profileid) /\ st.status = "0"
          /\ st.profileid = NoProfile \/ st.pc \in Ending
  BY DEF Relayed
<1>4. /\ \A p : ~(Register(p) \in Range(more))
      /\ \A p : Delete(p) \in Range(more) =>
            /\ p = s[c].profileid /\ st.status = "0"
            /\ st.profileid = NoProfile \/ st.pc \in Ending
  BY <1>3, EffectsDiffer
<1>5. \A x, f \in Profiles, y \in Statuses : TellsThat(st, x, f, y) <=>
          \/ TellsThat(s[c], x, f, y)
          \/ x \in Present(c, targets) /\ f = s[c].profileid /\ y = st.status
  BY <1>2 DEF Relayed, TellsThat
<1>6. \A f \in Profiles, y \in Statuses : LearnsThat(st, f, y) <=>
          \/ LearnsThat(s[c], f, y)
          \/ f \in Present(c, targets) /\ y = StatusOf(f, c, st.status)
  BY <1>2 DEF Relayed, LearnsThat
<1>7. Logging(st) <=> Logging(s[c]) \/ s[c].pc = "insert"
  BY <1>2 DEF Relayed, Logging
<1> QED  BY <1>2, <1>4, <1>5, <1>6, <1>7

LEMMA LooksSound ==
    ASSUME LocalInv, NEW c \in Conn, Sound(s[c], k[c].phase), NEW st \in State, Looks(c, st)
    PROVE  Sound(st, k[c].phase)
<1>1. PICK more \in Seq(Effect), targets \in SUBSET s[c].buddies :
         /\ Held(st) = Held(s[c]) \o more
         /\ Relayed(c, st, targets, more) /\ LooksFrom(c, st, more)
  BY DEF Looks
<1>2. /\ \A e : Holds(st, e) <=> Holds(s[c], e) \/ e \in Range(more)
      /\ \A x, f \in Profiles, y \in Statuses : TellsThat(st, x, f, y) <=>
            \/ TellsThat(s[c], x, f, y)
            \/ x \in Present(c, targets) /\ f = s[c].profileid /\ y = st.status
      /\ \A f \in Profiles, y \in Statuses : LearnsThat(st, f, y) <=>
            \/ LearnsThat(s[c], f, y)
            \/ f \in Present(c, targets) /\ y = StatusOf(f, c, st.status)
      /\ Logging(st) <=> Logging(s[c]) \/ s[c].pc = "insert"
      /\ \A p : ~(Register(p) \in Range(more))
      /\ \A p : Delete(p) \in Range(more) =>
            /\ p = s[c].profileid /\ st.status = "0"
            /\ st.profileid = NoProfile \/ st.pc \in Ending
  BY <1>1, LooksMore
<1>3. s[c].pc \in {"insert", "lost"} \/ (s[c].pc = "next" /\ s[c].todo \notin {<<>>, Login})
  BY <1>1 DEF LooksFrom
<1>4. /\ s[c].pc = "lost" => \A e : ~Holds(s[c], e)
      /\ s[c].pc = "next" => /\ \A e : Holds(s[c], e) => ~Moves(e)
                             /\ ~Logging(s[c]) /\ s[c].sesskey
                             /\ s[c].profileid # NoProfile
      /\ s[c].pc = "insert" => s[c].profileid # NoProfile /\ ~s[c].sesskey
  BY <1>3, LooksFields
<1>5. st.buddies = s[c].buddies
  BY DEF Looks
<1>6. /\ s[c].pc = "insert" => st.pc = "pending" /\ st.sesskey /\ st.profileid = s[c].profileid
      /\ s[c].pc = "next" =>
            /\ st.pc = "next" /\ st.sesskey = s[c].sesskey
            /\ \/ st.profileid = s[c].profileid
               \/ st.profileid = NoProfile /\ Holds(st, Delete(s[c].profileid))
      /\ s[c].pc = "lost" =>
            /\ st.pc \in Ending /\ st.status = "0"
            /\ st.sesskey = s[c].sesskey /\ st.profileid = s[c].profileid
  BY <1>1, <1>2, <1>3 DEF LooksFrom
<1>7. TellsOK(st)
  <2> SUFFICES ASSUME NEW x \in Profiles, NEW f \in Profiles, NEW y \in Statuses,
                      TellsThat(st, x, f, y)
               PROVE  /\ st.profileid = f \/ (st.profileid = NoProfile /\ Holds(st, Delete(f)))
                      /\ \E z \in Statuses : LearnsThat(st, x, z)
                      /\ st.pc \in Ending => y = st.status
    BY DEF TellsOK
  <2>1. CASE TellsThat(s[c], x, f, y)
    <3>1. s[c].pc # "lost"
      BY <1>4, <2>1 DEF TellsThat
    <3>2. s[c].profileid = f \/ (s[c].profileid = NoProfile /\ Holds(s[c], Delete(f)))
      BY <2>1 DEF Sound, TellsOK
    <3>3. \E z \in Statuses : LearnsThat(s[c], x, z)
      BY <2>1 DEF Sound, TellsOK
    <3>4. st.pc \notin Ending
      BY <1>3, <1>6, <3>1 DEF Ending
    <3> QED  BY <1>2, <1>3, <1>6, <3>1, <3>2, <3>3, <3>4
  <2>2. CASE x \in Present(c, targets) /\ f = s[c].profileid /\ y = st.status
    <3>1. StatusOf(x, c, st.status) \in Statuses
      BY <2>2, StatusOfType
    <3> QED  BY <1>2, <1>3, <1>6, <2>2, <3>1
  <2> QED  BY <1>2, <2>1, <2>2
<1>8. LearnsOK(st)
  <2> SUFFICES ASSUME ~st.sesskey
               PROVE  /\ \A f \in Profiles, y \in Statuses : ~LearnsThat(st, f, y)
                      /\ st.buddies = {}
    BY DEF LearnsOK
  <2>1. s[c].pc = "lost" /\ ~s[c].sesskey
    BY <1>3, <1>4, <1>6
  <2>2. s[c].buddies = {} /\ \A f \in Profiles, y \in Statuses : ~LearnsThat(s[c], f, y)
    BY <2>1 DEF Sound, LearnsOK, Joining
  <2>3. Present(c, targets) = {}
    BY <2>2 DEF Present
  <2> QED  BY <1>2, <1>5, <2>2, <2>3
<1>9. LoggingOK(st)
  <2>1. Logging(s[c]) => s[c].pc \in {"pending", "next"}
    BY DEF Sound, LoggingOK
  <2>2. s[c].profileid # NoProfile /\ s[c].pc = "lost" => s[c].sesskey
    BY DEF Sound, LoggingOK, Joining
  <2> QED  BY <1>2, <1>3, <1>4, <1>6, <2>1, <2>2 DEF LoggingOK, Joining, Ending
<1>10. MovesOK(st)
  <2>1. \A p : Holds(st, Register(p)) => s[c].pc = "insert" /\ Holds(s[c], Register(p))
    BY <1>2, <1>3, <1>4, EffectsDiffer
  <2>2. \A p : Holds(st, Delete(p)) =>
            \/ s[c].pc = "insert" /\ Holds(s[c], Delete(p))
            \/ /\ p = s[c].profileid /\ st.status = "0"
               /\ st.profileid = NoProfile \/ st.pc \in Ending
    BY <1>2, <1>3, <1>4, EffectsDiffer
  <2>3. s[c].pc = "insert" => \A p \in Profiles :
            Holds(s[c], Register(p)) \/ Holds(s[c], Delete(p)) => p = s[c].profileid
    BY <1>4 DEF Sound, MovesOK
  <2>4. st.pc \in Ending => st.profileid = s[c].profileid
    BY <1>3, <1>6 DEF Ending
  <2> QED  BY <1>2, <1>6, <2>1, <2>2, <2>3, <2>4 DEF MovesOK
<1>11. GoneOK(st, k[c].phase)
  BY <1>3, <1>6 DEF Sound, GoneOK, Ending
<1> QED  BY <1>7, <1>8, <1>9, <1>10, <1>11 DEF Sound

(***************************************************************************)
(* What a console shows when effects took place.                           *)
(***************************************************************************)
LEMMA HeardSeen ==
    ASSUME NEW con \in Console, NEW m, NEW p \in Profiles
    PROVE  Heard(con, m).seen[p] =
              IF m.kind = "status" /\ m.f = p THEN m.status ELSE con.seen[p]
<1>1. p # NoProfile
  BY BoundAssumption DEF Profiles, NoProfile
<1>2. CASE m.kind = "status" /\ m.f # NoProfile
  <2>1. Heard(con, m) = [con EXCEPT !.seen[m.f] = m.status]
    BY <1>2 DEF Heard
  <2> QED  BY <1>2, <2>1 DEF Console
<1>3. CASE ~(m.kind = "status" /\ m.f # NoProfile)
  <2>1. Heard(con, m).seen = con.seen
    BY <1>3 DEF Heard, Console
  <2> QED  BY <1>1, <1>3, <2>1
<1> QED  BY <1>2, <1>3

\* A write shows a status to one console, if that is there.
LEMMA WriteSeen ==
    ASSUME TypesOK, NEW w \in World, NEW b \in Conn, NEW m, Told(m),
           NEW d \in Conn, NEW p \in Profiles
    PROVE  Write(w, b, m).k[d].seen[p] =
              IF d = b /\ w.k[b].phase # "gone" /\ m.kind = "status" /\ m.f = p
              THEN m.status ELSE w.k[d].seen[p]
<1>1. w.k \in [Conn -> Console] /\ w.k[b] \in Console
  BY DEF World
<1>2. CASE w.k[b].phase = "gone"
  <2>1. Write(w, b, m) = LoseAt(w, b, m) /\ b \in Conn \cup {NoConn}
    BY <1>2 DEF Write
  <2>2. LoseAt(w, b, m).k = w.k
    BY <2>1, LoseAtType DEF Told
  <2> QED  BY <1>2, <2>1, <2>2
<1>3. CASE w.k[b].phase # "gone"
  <2> DEFINE con == Heard(w.k[b], m)
  <2>1. con.seen[p] = IF m.kind = "status" /\ m.f = p THEN m.status ELSE w.k[b].seen[p]
    BY <1>1, HeardSeen
  <2>2. Write(w, b, m).k = [w.k EXCEPT ![b] = con]
    BY <1>3 DEF Write, World
  <2> HIDE DEF con
  <2> QED  BY <1>1, <1>3, <2>1, <2>2
<1> QED  BY <1>2, <1>3

\* Effect e of c, in world w, shows the console of d that p is y.
Hears(c, w, d, e, p, y) ==
    /\ w.k[d].phase # "gone"
    /\ \/ c = d /\ e = Response(Relay(p, y))
       \/ \E x \in Profiles : w.map[x] = d /\ e = Route(x, Relay(p, y))

LEMMA ApplySeen ==
    ASSUME TypesOK, NEW c \in Conn, NEW w \in World, NEW e \in Effect,
           NEW d \in Conn, NEW p \in Profiles
    PROVE  LET v == Apply(c, w, e)
           IN  /\ \A y \in Statuses : Hears(c, w, d, e, p, y) => v.k[d].seen[p] = y
               /\ (\A y \in Statuses : ~Hears(c, w, d, e, p, y)) =>
                     v.k[d].seen[p] = w.k[d].seen[p]
<1> DEFINE v == Apply(c, w, e)
<1>0. /\ \A x, m : Route(x, m).effect = "route" /\ Route(x, m).to = x /\ Route(x, m).m = m
      /\ \A m : Response(m).effect = "respond" /\ Response(m).m = m
      /\ \A f, y : Relay(f, y).kind = "status" /\ Relay(f, y).f = f /\ Relay(f, y).status = y
  BY DEF Route, Response, Relay
<1>1. CASE e.effect = "respond"
  <2>1. v = Write(w, c, e.m)
    BY <1>1 DEF Apply
  <2>2. Told(e.m)
    BY <1>1 DEF Effect, Told
  <2>3. v.k[d].seen[p] = IF d = c /\ w.k[c].phase # "gone" /\ e.m.kind = "status" /\ e.m.f = p
                         THEN e.m.status ELSE w.k[d].seen[p]
    BY <2>1, <2>2, WriteSeen
  <2>4. \A y : Hears(c, w, d, e, p, y) =>
            c = d /\ w.k[d].phase # "gone" /\ e = Response(Relay(p, y))
    BY <1>0, <1>1 DEF Hears
  <2>5. e.m.kind = "status" /\ e.m.f = p =>
            e = Response(Relay(p, e.m.status)) /\ e.m.status \in Statuses
    BY <1>1 DEF Effect, Response, Relay
  <2>6. \A y \in Statuses : Hears(c, w, d, e, p, y) => v.k[d].seen[p] = y
    BY <1>0, <2>3, <2>4
  <2>7. (\A y \in Statuses : ~Hears(c, w, d, e, p, y)) => v.k[d].seen[p] = w.k[d].seen[p]
    BY <2>3, <2>5 DEF Hears
  <2> QED  BY <2>6, <2>7
<1>2. CASE e.effect = "route"
  <2>1. Told(e.m) /\ e.to \in Profiles
    BY <1>2 DEF Effect, Told
  <2>2. e.m.kind = "status" /\ e.m.f = p =>
            e = Route(e.to, Relay(p, e.m.status)) /\ e.m.status \in Statuses
    BY <1>2 DEF Effect, Route, Relay
  <2>3. \A y : Hears(c, w, d, e, p, y) =>
            w.k[d].phase # "gone" /\ w.map[e.to] = d /\ e = Route(e.to, Relay(p, y))
    BY <1>0, <1>2 DEF Hears
  <2>4. CASE w.map[e.to] # NoConn
    <3>1. v = Write(w, w.map[e.to], e.m)
      BY <1>2, <2>4 DEF Apply
    <3>2. w.map[e.to] \in Conn
      BY <2>1, <2>4 DEF World
    <3>3. v.k[d].seen[p] = IF d = w.map[e.to] /\ w.k[d].phase # "gone" /\ e.m.kind = "status"
                              /\ e.m.f = p
                           THEN e.m.status ELSE w.k[d].seen[p]
      BY <2>1, <3>1, <3>2, WriteSeen
    <3>4. \A y \in Statuses : Hears(c, w, d, e, p, y) => v.k[d].seen[p] = y
      BY <1>0, <2>3, <3>3
    <3>5. (\A y \in Statuses : ~Hears(c, w, d, e, p, y)) => v.k[d].seen[p] = w.k[d].seen[p]
      BY <2>1, <2>2, <3>3 DEF Hears
    <3> QED  BY <3>4, <3>5
  <2>5. CASE w.map[e.to] = NoConn
    <3>1. v = LoseAt(w, NoConn, e.m) /\ NoConn \in Conn \cup {NoConn}
      BY <1>2, <2>5 DEF Apply
    <3>2. v.k = w.k
      BY <2>1, <3>1, LoseAtType DEF Told
    <3>3. \A y : ~Hears(c, w, d, e, p, y)
      BY <2>3, <2>5, ConnAssumption
    <3> QED  BY <3>2, <3>3
  <2> QED  BY <2>4, <2>5
<1>3. CASE e.effect \in {"register", "delete"}
  <2>1. v.k = w.k
    BY <1>3 DEF Apply, World
  <2>2. \A y : ~Hears(c, w, d, e, p, y)
    BY <1>0, <1>3 DEF Hears
  <2> QED  BY <2>1, <2>2
<1> QED  BY <1>1, <1>2, <1>3 DEF Effect

\* Each world is what an effect makes of the one before.
LEMMA OutcomeTrace ==
    ASSUME TypesOK, NEW c \in Conn
    PROVE  LET es == s[c].eff
               n == Len(es)
           IN  /\ n \in Nat /\ DOMAIN es = 1 .. n
               /\ \E world :
                     /\ world[0] = [map |-> pid_map, k |-> k, lost |-> lost]
                     /\ Outcome(c) = world[n]
                     /\ \A i \in 1 .. n :
                           /\ i - 1 \in 0 .. n /\ es[i] \in Effect /\ es[i] \in Range(es)
                           /\ world[i - 1] \in World /\ world[i] = Apply(c, world[i - 1], es[i])
                           /\ Does(c, world[i - 1], es[i], world[i])
<1> DEFINE es == s[c].eff
           n == Len(es)
<1>1. n \in Nat /\ DOMAIN es = 1 .. n
  BY OutcomeChain
<1>2. PICK world : Worlds(c, world) /\ Chain(c, world) /\ Outcome(c) = world[n]
  BY OutcomeChain
<1>3. es \in Seq(Effect)
  BY DEF TypesOK, State
<1>4. \A i \in 1 .. n : es[i] \in Effect /\ es[i] \in Range(es)
  <2> HIDE DEF es
  <2> QED  BY <1>1, <1>3 DEF Range
<1>5. \A i \in 1 .. n : i - 1 \in 0 .. n /\ i \in 0 .. n /\ i # 0
  BY <1>1
<1>6. \A i \in 1 .. n : world[i] = Apply(c, world[i - 1], es[i])
  BY <1>2, <1>5 DEF Worlds
<1>7. \A i \in 1 .. n : world[i - 1] \in World /\ Does(c, world[i - 1], es[i], world[i])
  BY <1>2, <1>5 DEF Chain
<1>8. world[0] = [map |-> pid_map, k |-> k, lost |-> lost]
  BY <1>2 DEF Chain
<1> QED  BY <1>1, <1>2, <1>4, <1>5, <1>6, <1>7, <1>8

\* A console that nothing is told shows what it showed.
LEMMA OutcomeSame ==
    ASSUME TypesOK, NEW c \in Conn, NEW d \in Conn, NEW p \in Profiles,
           c = d => \A y \in Statuses : Response(Relay(p, y)) \notin Range(s[c].eff),
           \A x \in Profiles, y \in Statuses : Route(x, Relay(p, y)) \in Range(s[c].eff) =>
               pid_map[x] # d /\ (c = d => Register(x) \notin Range(s[c].eff))
    PROVE  Outcome(c).k[d].seen[p] = k[d].seen[p]
<1> DEFINE es == s[c].eff
           n == Len(es)
<1>1. n \in Nat
  BY OutcomeTrace
<1>2. PICK world :
          /\ world[0] = [map |-> pid_map, k |-> k, lost |-> lost] /\ Outcome(c) = world[n]
          /\ \A i \in 1 .. n :
                /\ es[i] \in Effect /\ es[i] \in Range(es)
                /\ world[i - 1] \in World /\ world[i] = Apply(c, world[i - 1], es[i])
                /\ Does(c, world[i - 1], es[i], world[i])
  BY OutcomeTrace
<1> DEFINE At0(w) == /\ w.k[d].seen[p] = k[d].seen[p]
                     /\ \A x \in Profiles : w.map[x] = d =>
                           pid_map[x] = d \/ (c = d /\ Register(x) \in Range(es))
           T == {i \in 0 .. n : At0(world[i])}
<1>3. 0 \in T
  BY <1>1, <1>2
<1>4. ASSUME NEW i \in 1 .. n, i - 1 \in T
      PROVE  i \in T
  <2>1. i \in 0 .. n /\ At0(world[i - 1])
    BY <1>1, <1>4
  <2> DEFINE w == world[i - 1]
             v == world[i]
             e == es[i]
  <2>2. /\ w \in World /\ e \in Effect /\ e \in Range(es) /\ v = Apply(c, w, e)
        /\ Does(c, w, e, v)
    BY <1>2
  <2> HIDE DEF w, v, e
  <2>3. w.k[d].seen[p] = k[d].seen[p] /\ \A x \in Profiles : w.map[x] = d =>
            pid_map[x] = d \/ (c = d /\ Register(x) \in Range(es))
    BY <2>1 DEF w
  <2>4. \A y \in Statuses : ~Hears(c, w, d, e, p, y)
    BY <2>2, <2>3 DEF Hears
  <2>5. v.k[d].seen[p] = k[d].seen[p]
    BY <2>2, <2>3, <2>4, ApplySeen
  <2>6. \A x \in Profiles : v.map[x] = d =>
            pid_map[x] = d \/ (c = d /\ Register(x) \in Range(es))
    BY <2>2, <2>3, ConnAssumption DEF Does
  <2> QED  BY <2>1, <2>5, <2>6 DEF v
<1>5. n \in T
  <2> HIDE DEF T, n
  <2>1. \A i \in 0 .. n : i \in T
    BY <1>1, <1>3, <1>4, Upwards
  <2> QED  BY <1>1, <2>1
<1> QED  BY <1>2, <1>5

\* A console shows what it was told last.
LEMMA OutcomeLast ==
    ASSUME TypesOK, NEW c \in Conn, NEW d \in Conn, NEW p \in Profiles, NEW y \in Statuses,
           k[d].phase # "gone", NEW j \in DOMAIN s[c].eff,
           \/ c = d /\ s[c].eff[j] = Response(Relay(p, y))
           \/ /\ c # d
              /\ \E x \in Profiles :
                    /\ pid_map[x] = d /\ s[c].eff[j] = Route(x, Relay(p, y))
                    /\ Register(x) \notin Range(s[c].eff) /\ Delete(x) \notin Range(s[c].eff),
           \A i \in DOMAIN s[c].eff, z \in Statuses : i > j =>
               /\ c = d /\ s[c].eff[i] = Response(Relay(p, z)) => z = y
               /\ \A x \in Profiles :
                     s[c].eff[i] = Route(x, Relay(p, z)) => z = y \/ (c # d /\ pid_map[x] # d)
    PROVE  Outcome(c).k[d].seen[p] = y
<1> DEFINE es == s[c].eff
           n == Len(es)
<1>1. n \in Nat /\ DOMAIN es = 1 .. n
  BY OutcomeTrace
<1>2. PICK world :
          /\ world[0] = [map |-> pid_map, k |-> k, lost |-> lost] /\ Outcome(c) = world[n]
          /\ \A i \in 1 .. n :
                /\ es[i] \in Effect /\ es[i] \in Range(es)
                /\ world[i - 1] \in World /\ world[i] = Apply(c, world[i - 1], es[i])
                /\ Does(c, world[i - 1], es[i], world[i])
  BY OutcomeTrace
<1> DEFINE At0(w) == /\ w.k[d].phase # "gone"
                     /\ c # d => \A x \in Profiles :
                           /\ w.map[x] = d => pid_map[x] = d
                           /\ pid_map[x] = d /\ Register(x) \notin Range(es)
                              /\ Delete(x) \notin Range(es) => w.map[x] = d
           S == {i \in 0 .. n : At0(world[i])}
           T == {i \in 0 .. n : i >= j => world[i].k[d].seen[p] = y}
<1>3. 0 \in S
  BY <1>1, <1>2
<1>4. ASSUME NEW i \in 1 .. n, i - 1 \in S
      PROVE  i \in S
  <2>1. i \in 0 .. n /\ At0(world[i - 1])
    BY <1>1, <1>4
  <2> DEFINE w == world[i - 1]
             v == world[i]
             e == es[i]
  <2>2. e \in Range(es) /\ Does(c, w, e, v)
    BY <1>2
  <2>3. At0(w)
    BY <2>1
  <2> HIDE DEF w, v, e
  <2>4. v.k[d].phase # "gone"
    BY <2>2, <2>3 DEF Does
  <2>5. c # d => \A x \in Profiles :
            /\ v.map[x] = d => pid_map[x] = d
            /\ pid_map[x] = d /\ Register(x) \notin Range(es)
               /\ Delete(x) \notin Range(es) => v.map[x] = d
    BY <2>2, <2>3, ConnAssumption DEF Does
  <2> QED  BY <2>1, <2>4, <2>5 DEF v
<1>5. \A i \in 0 .. n : At0(world[i])
  <2>1. \A i \in 0 .. n : i \in S
    <3> HIDE DEF S, n
    <3> QED  BY <1>1, <1>3, <1>4, Upwards
  <2> QED  BY <2>1
<1>6. \A i \in 1 .. n : i - 1 \in 0 .. n /\ (i > j \/ i = j \/ i < j)
  BY <1>1
<1>7. j \in 1 .. n
  BY <1>1
<1>8. ASSUME NEW i \in 1 .. n, i - 1 \in T
      PROVE  i \in T
  <2> DEFINE w == world[i - 1]
             v == world[i]
             e == es[i]
  <2>1. w \in World /\ e \in Effect /\ v = Apply(c, w, e) /\ At0(w)
    BY <1>2, <1>5, <1>6
  <2>2. CASE i = j
    <3>1. Hears(c, w, d, e, p, y)
      BY <2>1, <2>2 DEF Hears
    <3> HIDE DEF w, v, e
    <3>2. v.k[d].seen[p] = y
      BY <2>1, <3>1, ApplySeen
    <3> QED  BY <1>1, <3>2 DEF v
  <2>3. CASE i > j
    <3>1. w.k[d].seen[p] = y
      BY <1>1, <1>7, <1>8, <2>3
    <3>2. \A z \in Statuses : Hears(c, w, d, e, p, z) => z = y
      BY <1>1, <2>1, <2>3 DEF Hears
    <3> HIDE DEF w, v, e
    <3>3. v.k[d].seen[p] = y
      BY <2>1, <3>1, <3>2, ApplySeen
    <3> QED  BY <1>1, <3>3 DEF v
  <2>4. CASE i < j
    BY <1>1, <1>7, <2>4
  <2> QED  BY <1>6, <2>2, <2>3, <2>4
<1>9. n \in T
  <2>1. 0 \in T
    BY <1>1, <1>7
  <2> HIDE DEF T, n
  <2>2. \A i \in 0 .. n : i \in T
    BY <1>1, <1>8, <2>1, Upwards
  <2> QED  BY <1>1, <2>2
<1>10. n >= j
  BY <1>1, <1>7
<1> QED  BY <1>2, <1>9, <1>10

\* Whoever is idle holds nothing.
LEMMA NothingHeld ==
    ASSUME NEW st \in State, st.eff = <<>>, st.cur = <<>>
    PROVE  Held(st) = <<>> /\ \A e : ~Holds(st, e)
<1>1. Held(st) = <<>>
  BY HeldFacts
<1>2. Range(<<>>) = {}
  BY PlainEffects
<1> QED  BY <1>1, <1>2 DEF Holds

LEMMA IdleHoldsNothing ==
    ASSUME LocalInv, NEW c \in Conn, s[c].pc \in Idle
    PROVE  \A e : ~Holds(s[c], e)
<1>1. s[c] \in State /\ s[c].eff = <<>> /\ s[c].cur = <<>>
  BY LocalFacts DEF Fits, FlowOK, Idle, Joining
<1> QED  BY <1>1, NothingHeld

\* Once its effects took place, it holds none.
LEMMA TakesSound ==
    ASSUME LocalInv, NEW c \in Conn, Sound(s[c], k[c].phase),
           NEW label \in {"read", "closed"}, Takes(c, label)
    PROVE  Sound(s'[c], k'[c].phase) /\ \A e : ~Holds(s'[c], e)
<1>1. /\ s'[c] \in State /\ s'[c].pc = label /\ s'[c].eff = <<>> /\ s'[c].cur = <<>>
      /\ s'[c].profileid = s[c].profileid /\ s'[c].buddies = s[c].buddies
      /\ s'[c].sesskey = s[c].sesskey
  BY TakesFields
<1>2. \A e : ~Holds(s'[c], e)
  BY <1>1, NothingHeld
<1>3. s[c].pc \in {"next", "bye"}
  BY DEF Takes
<1>4. TellsOK(s'[c]) /\ MovesOK(s'[c])
  BY <1>2 DEF TellsOK, TellsThat, MovesOK
<1>5. LearnsOK(s'[c])
  BY <1>1, <1>2, <1>3 DEF Sound, LearnsOK, LearnsThat, Joining
<1>6. LoggingOK(s'[c])
  BY <1>1, <1>2, <1>3 DEF Sound, LoggingOK, Logging, Joining
<1>7. GoneOK(s'[c], k'[c].phase)
  BY <1>1 DEF GoneOK, Ending
<1> QED  BY <1>2, <1>4, <1>5, <1>6, <1>7 DEF Sound

\* What a console does leaves that of a connection as it is.
LEMMA DeedFields ==
    ASSUME LocalInv, NEW c \in Conn, Deed(c), Spares(c)
    PROVE  /\ \A d \in Conn :
                 /\ s'[d] \in State
                 /\ s'[d].profileid = s[d].profileid /\ s'[d].buddies = s[d].buddies
                 /\ s'[d].sesskey = s[d].sesskey /\ s'[d].status = s[d].status
                 /\ Held(s'[d]) = Held(s[d])
                 /\ k'[d].seen = k[d].seen /\ k[d].said \subseteq k'[d].said
                 /\ k[d].phase = "gone" => k'[d].phase = "gone"
                 /\ \/ s'[d].pc = s[d].pc
                    \/ s[d].pc = "read" /\ s'[d].pc \in {"next", "lost"}
                    \/ s[d].pc = "new" /\ s'[d].pc = "read" /\ s'[d].profileid = NoProfile
                 /\ s'[d].pc = "lost" => s[d].pc = "lost" \/ ~s[d].sesskey
           /\ overlap \subseteq overlap' /\ raced' = raced
           /\ UNCHANGED <<pid_map, users, buddies>>
<1>1. PICK st, con : Acts(c, st, con) /\ Turns(c, st)
  BY DEF Deed
<1>2. s \in [Conn -> State] /\ k \in [Conn -> Console]
  BY DEF LocalInv, TypesOK
<1>3. s'[c] = st /\ k'[c] = con /\ \A d \in Conn : d # c => s'[d] = s[d] /\ k'[d] = k[d]
  BY <1>1, <1>2 DEF Acts
<1>4. /\ st \in State /\ st.eff = s[c].eff /\ st.cur = s[c].cur
      /\ st.profileid = s[c].profileid /\ st.buddies = s[c].buddies
      /\ st.sesskey = s[c].sesskey /\ k[c].said \subseteq con.said
      /\ UNCHANGED <<pid_map, users, buddies>>
  BY <1>1 DEF Acts
<1>5. overlap \subseteq overlap' /\ raced' = raced
  BY <1>1 DEF Turns, Spares
<1>6. Held(st) = Held(s[c])
  BY <1>4 DEF Held
<1>7. \/ st.pc = s[c].pc
      \/ s[c].pc = "read" /\ st.pc \in {"next", "lost"}
      \/ s[c].pc = "new" /\ st.pc = "read" /\ st.profileid = NoProfile
  BY <1>1 DEF Turns
<1>8. \A d \in Conn : s[d] \in State
  BY LocalFacts
<1>9. /\ \A d \in Conn : /\ s'[d].status = s[d].status /\ k'[d].seen = k[d].seen
                         /\ k[d].phase = "gone" => k'[d].phase = "gone"
      /\ st.pc = "lost" => s[c].pc = "lost" \/ ~s[c].sesskey
  BY <1>3 DEF Spares
<1>10. ASSUME NEW d \in Conn, d # c
       PROVE  /\ s'[d] = s[d] /\ s'[d] \in State /\ k'[d].said = k[d].said
  BY <1>3, <1>8, <1>10
<1> QED  BY <1>3, <1>4, <1>5, <1>6, <1>7, <1>9, <1>10

LEMMA DeedSound ==
    ASSUME LocalInv, EachSound, NEW c \in Conn, Deed(c), Spares(c)
    PROVE  EachSound'
<1> SUFFICES ASSUME NEW d \in Conn
             PROVE  Sound(s'[d], k'[d].phase)
  BY DEF EachSound
<1>1. Sound(s[d], k[d].phase)
  BY DEF EachSound
<1>2. /\ s'[d].profileid = s[d].profileid /\ s'[d].buddies = s[d].buddies
      /\ s'[d].sesskey = s[d].sesskey /\ s'[d].status = s[d].status
      /\ Held(s'[d]) = Held(s[d]) /\ (k[d].phase = "gone" => k'[d].phase = "gone")
      /\ \/ s'[d].pc = s[d].pc
         \/ s[d].pc = "read" /\ s'[d].pc \in {"next", "lost"}
         \/ s[d].pc = "new" /\ s'[d].pc = "read" /\ s'[d].profileid = NoProfile
      /\ s'[d].pc = "lost" => s[d].pc = "lost" \/ ~s[d].sesskey
  BY DeedFields
<1>3. \A e : Holds(s'[d], e) <=> Holds(s[d], e)
  BY <1>2 DEF Holds
<1>4. s'[d].pc # s[d].pc => \A e : ~Holds(s'[d], e)
  BY <1>2, <1>3, IdleHoldsNothing DEF Idle
<1>5. TellsOK(s'[d])
  <2> SUFFICES ASSUME NEW x \in Profiles, NEW f \in Profiles, NEW y \in Statuses,
                      TellsThat(s'[d], x, f, y)
               PROVE  /\ s'[d].profileid = f
                         \/ (s'[d].profileid = NoProfile /\ Holds(s'[d], Delete(f)))
                      /\ \E z \in Statuses : LearnsThat(s'[d], x, z)
                      /\ s'[d].pc \in Ending => y = s'[d].status
    BY DEF TellsOK
  <2>1. TellsThat(s[d], x, f, y) /\ s'[d].pc = s[d].pc
    BY <1>3, <1>4 DEF TellsThat
  <2>2. /\ s[d].profileid = f \/ (s[d].profileid = NoProfile /\ Holds(s[d], Delete(f)))
        /\ \E z \in Statuses : LearnsThat(s[d], x, z)
        /\ s[d].pc \in Ending => y = s[d].status
    BY <1>1, <2>1 DEF Sound, TellsOK
  <2> QED  BY <1>2, <1>3, <2>1, <2>2 DEF LearnsThat
<1>6. LearnsOK(s'[d])
  <2>1. \A f, y : LearnsThat(s'[d], f, y) <=> LearnsThat(s[d], f, y)
    BY <1>3 DEF LearnsThat
  <2> QED  BY <1>1, <1>2, <2>1 DEF Sound, LearnsOK, Joining
<1>7. LoggingOK(s'[d])
  <2>1. Logging(s'[d]) <=> Logging(s[d])
    BY <1>3 DEF Logging
  <2> QED  BY <1>1, <1>2, <1>4, <2>1 DEF Sound, LoggingOK, Logging, Joining
<1>8. MovesOK(s'[d])
  <2>1. CASE s'[d].pc = s[d].pc
    <3>1. Logging(s'[d]) <=> Logging(s[d])
      BY <1>3 DEF Logging
    <3> QED  BY <1>1, <1>2, <1>3, <2>1, <3>1 DEF Sound, MovesOK
  <2>2. CASE s'[d].pc # s[d].pc
    BY <1>4, <2>2 DEF MovesOK
  <2> QED  BY <2>1, <2>2
<1>9. GoneOK(s'[d], k'[d].phase)
  BY <1>1, <1>2 DEF Sound, GoneOK, Ending
<1> QED  BY <1>5, <1>6, <1>7, <1>8, <1>9 DEF Sound

\* Every step keeps what is true of what a connection holds.
LEMMA TakesSounds ==
    ASSUME LocalInv, EachSound, NEW c \in Conn, NEW label \in {"read", "closed"}, Takes(c, label)
    PROVE  EachSound'
<1> SUFFICES ASSUME NEW d \in Conn
             PROVE  Sound(s'[d], k'[d].phase)
  BY DEF EachSound
<1>1. Sound(s[d], k[d].phase)
  BY DEF EachSound
<1>2. CASE d = c
  BY <1>1, <1>2, TakesSound
<1>3. CASE d # c
  BY <1>1, <1>3, TakesFields, TakesInforms DEF Informed
<1> QED  BY <1>2, <1>3

LEMMA KindSounds ==
    ASSUME LocalInv, EachSound, NEW c \in Conn, Kind(c, s'[c]), NEW st, Step(c, st)
    PROVE  EachSound'
<1>1. /\ s'[c] = st /\ (\A d \in Conn : d # c => s'[d] = s[d]) /\ k' = k
      /\ st \in State
  <2>1. Shape(c, st) /\ TypesOK
    BY DEF Step, LocalInv
  <2> QED  BY <2>1, StepFrame DEF Shape
<1> SUFFICES ASSUME NEW d \in Conn
             PROVE  Sound(s'[d], k'[d].phase)
  BY DEF EachSound
<1>2. Sound(s[d], k[d].phase)
  BY DEF EachSound
<1>3. CASE d = c
  <2>1. CASE Goes(c, st)
    BY <1>1, <1>2, <1>3, <2>1, GoesSound
  <2>2. CASE Enters(c, st)
    BY <1>1, <1>3, <2>2, EntersSound
  <2>3. CASE Looks(c, st)
    BY <1>1, <1>2, <1>3, <2>3, LooksSound
  <2> QED  BY <1>1, <2>1, <2>2, <2>3 DEF Kind
<1>4. CASE d # c
  BY <1>1, <1>2, <1>4
<1> QED  BY <1>3, <1>4

-----------------------------------------------------------------------------
(***************************************************************************)
(* What connections show of each other.                                    *)
(***************************************************************************)
\* Before it has a session, or while it logs in, nobody is registered by a
\* connection, and its console knows nobody.
FreshOK ==
    \A c \in Conn : ~s[c].sesskey \/ Logging(s[c]) =>
        \A p \in Profiles : pid_map[p] # c /\ k[c].seen[p] = Unseen

\* Once it is logged in and until it closes, it is registered.
HereOK ==
    \A c \in Conn \ overlap :
        Open(c) /\ s[c].profileid # NoProfile /\ s[c].pc \notin Joining /\ ~Logging(s[c])
            => pid_map[s[c].profileid] = c

\* The status of p, for those who ask the registry.
Now(p) == IF Active(p) THEN s[pid_map[p]].status ELSE "0"

Here(c) == pid_map[s[c].profileid] = c

\* Connection d tells x something of profile f; c learns something of p.
Tells(d, x, f) == \E y \in Statuses : TellsThat(s[d], x, f, y)
Learns(c, p) == \E y \in Statuses : LearnsThat(s[c], p, y)

\* The last thing es tells x of f is y.
TellsLast(es, x, f, y) ==
    \E j \in DOMAIN es :
        /\ es[j] = Route(x, Relay(f, y))
        /\ \A i \in DOMAIN es, z \in Statuses : i > j /\ es[i] = Route(x, Relay(f, z)) => z = y

\* Nothing keeps c from showing p as it is.
Clear(c, p) ==
    /\ s[c].profileid # NoProfile /\ k[c].phase # "gone"
    /\ Mutual(c, p) /\ ~Misled(c, p)
    /\ \A d \in Conn : Plays(d, p) => Game[d] = Game[c]

\* What c has learnt of p and not shown yet is so.
LearnsRight(c, p) == \A y \in Statuses : LearnsThat(s[c], p, y) => y = Now(p)

\* Whoever logs in for p tells c if that is registered; and not both log in.
MeetsNewcomers(c, p) ==
    \A d \in Conn : s[d].profileid = p /\ Logging(s[d]) =>
        /\ ~Logging(s[c]) /\ ~Learns(c, p)
        /\ Here(c) => Tells(d, s[c].profileid, p)

\* The last thing c is told of p is the status of who tells it.
IsToldRight(c, p) ==
    \A d \in Conn : (Logging(s[c]) \/ Here(c)) /\ Tells(d, s[c].profileid, p) =>
        TellsLast(Held(s[d]), s[c].profileid, p, s[d].status)

\* What nobody is about to change is shown as it is.
ShowsRight(c, p) ==
    /\ Here(c) /\ ~Logging(s[c]) /\ ~Learns(c, p)
       /\ (\A d \in Conn : ~Tells(d, s[c].profileid, p)) => Shows(c, p)
    /\ Logging(s[c]) /\ ~Learns(c, p) => ~Active(p)

Views(c, p) ==
    LearnsRight(c, p) /\ MeetsNewcomers(c, p) /\ IsToldRight(c, p) /\ ShowsRight(c, p)

ViewsOK == \A c \in Conn, p \in Profiles : Clear(c, p) => Views(c, p)

\* Everything that is needed to keep views right.
ViewsInv == EachSound /\ FreshOK /\ HereOK /\ ViewsOK

\* What keeps its word for everybody so far.
Grows ==
    /\ users \subseteq users' /\ overlap \subseteq overlap' /\ raced \subseteq raced'
    /\ \A d \in Conn : /\ k[d].said \subseteq k'[d].said
                       /\ k[d].phase = "gone" => k'[d].phase = "gone"
    /\ \A x, y \in Profiles : Befriends(x)' \/ (<<x, y>> \in buddies' => <<x, y>> \in buddies)

\* What is clear was clear.
LEMMA ClearBefore ==
    ASSUME Grows, NEW c \in Conn, NEW p \in Profiles, Clear(c, p)',
           s[c].profileid \in Profiles \cup {NoProfile},
           s'[c].profileid = s[c].profileid, s'[c].buddies = s[c].buddies
    PROVE  Clear(c, p)
<1>1. \A x : \A d \in Conn : Plays(d, x) => Plays(d, x)'
  BY DEF Grows, Plays
<1>2. \A x : Befriends(x) => Befriends(x)'
  BY <1>1 DEF Grows, Befriends
<1>3. Misled(c, p) => Misled(c, p)'
  BY <1>1, <1>2 DEF Grows, Misled
<1>4. Mutual(c, p)
  BY DEF Clear, Misled, Mutual, Grows
<1> QED  BY <1>1, <1>3, <1>4 DEF Clear, Grows

\* Whoever is registered has the profile.
LEMMA RegisteredPlays ==
    ASSUME LocalInv, LiveOK, EachSound, NEW x \in Profiles, NEW c \in Conn, pid_map[x] = c
    PROVE  /\ Plays(c, x) /\ Open(c)
           /\ s[c].profileid = x \/ Holds(s[c], Delete(x))
           /\ s[c].profileid # NoProfile => s[c].profileid = x
<1>1. Open(c) /\ (s[c].profileid = x \/ LeavesLast(s[c].eff, x)) /\ s[c] \in State
  BY LocalFacts DEF LiveOK
<1>2. LeavesLast(s[c].eff, x) => Delete(x) \in Range(s[c].eff)
  BY DEF LeavesLast, Range
<1>3. Delete(x) \in Range(s[c].eff) => Holds(s[c], Delete(x))
  BY <1>1, HeldFacts DEF Holds
<1>4. Plays(c, x)
  <2>1. s[c].profileid = x => Plays(c, x)
    BY BoundAssumption DEF LocalInv, PlaysOK, Profiles, NoProfile
  <2>2. Delete(x) \in Range(s[c].eff) => Plays(c, x)
    <3>1. Moves(Delete(x)) /\ Delete(x).pid = x
      BY DEF Moves, Delete
    <3> QED  BY <3>1 DEF LocalInv, PlaysOK
  <2> QED  BY <1>1, <1>2, <2>1, <2>2
<1>5. s[c].profileid # NoProfile => s[c].profileid = x
  BY <1>1, <1>2, <1>3 DEF EachSound, Sound, MovesOK
<1> QED  BY <1>1, <1>2, <1>3, <1>4, <1>5

\* Whoever tells of a profile has it.
LEMMA TellerPlays ==
    ASSUME LocalInv, EachSound, NEW d \in Conn, NEW x \in Profiles, NEW f \in Profiles,
           NEW y \in Statuses, TellsThat(s[d], x, f, y)
    PROVE  /\ Plays(d, f) /\ \E z \in Statuses : LearnsThat(s[d], x, z)
           /\ s[d].profileid = f \/ (s[d].profileid = NoProfile /\ Holds(s[d], Delete(f)))
           /\ s[d].pc \in Ending => y = s[d].status
<1>1. /\ s[d].profileid = f \/ (s[d].profileid = NoProfile /\ Holds(s[d], Delete(f)))
      /\ \E z \in Statuses : LearnsThat(s[d], x, z)
      /\ s[d].pc \in Ending => y = s[d].status
  BY DEF EachSound, Sound, TellsOK
<1>2. s[d].profileid = f => Plays(d, f)
  BY BoundAssumption DEF LocalInv, PlaysOK, Profiles, NoProfile
<1>3. Holds(s[d], Delete(f)) => Plays(d, f)
  <2>1. Moves(Delete(f)) /\ Delete(f).pid = f
    BY DEF Moves, Delete
  <2>2. Holds(s[d], Delete(f)) => Delete(f) \in Range(s[d].eff) \cup Range(s[d].cur)
    BY LocalFacts, HeldFacts DEF Holds
  <2> QED  BY <2>1, <2>2 DEF LocalInv, PlaysOK
<1> QED  BY <1>1, <1>2, <1>3

(***************************************************************************)
(* While another connection runs, one that learns something is logging in, *)
(* or has looked and waits, or is being taken down.                        *)
(***************************************************************************)
LEMMA LearnersWait ==
    ASSUME LocalInv, EachSound, NEW c \in Conn, loop \in {NoConn, c},
           NEW d \in Conn, d # c, NEW x \in Profiles, NEW z \in Statuses,
           LearnsThat(s[d], x, z)
    PROVE  \/ s[d].pc = "pending" \/ Looking(d, x)
           \/ s[d].pc = "unsession" /\ k[d].phase = "gone"
<1>1. s[d] \in State /\ Fits(d, s[d], k[d].phase, k[d].said, k[d].chunk)
  BY LocalFacts
<1>2. s[d].pc \notin {"next", "lost", "bye"}
  BY ConnAssumption DEF LocalInv, LoopOK
<1>3. s[d].sesskey
  BY DEF EachSound, Sound, LearnsOK
<1>4. s[d].pc \notin Idle
  BY IdleHoldsNothing DEF LearnsThat
<1>5. s[d].pc \in LoginSteps => s[d].pc = "pending"
  BY <1>1, <1>3 DEF Fits, FlowOK, NameOK
<1>6. s[d].pc \in {"save", "row", "reread"} => Looking(d, x)
  <2> SUFFICES ASSUME s[d].pc \in {"save", "row", "reread"}
               PROVE  Looking(d, x)
    OBVIOUS
  <2>1. s[d].cur = <<>>
    BY <1>1 DEF Fits, FlowOK, Joining
  <2>2. Response(Relay(x, z)) \in Range(s[d].eff)
    BY <1>1, <2>1, HeldFacts DEF LearnsThat, Holds
  <2>3. s[d].eff \in Seq(Effect)
    BY <1>1 DEF State
  <2>4. Contains(s[d].eff, Response(Relay(x, z)))
    <3> DEFINE es == s[d].eff
    <3>1. es \in Seq(Effect) /\ Response(Relay(x, z)) \in Range(es)
      BY <2>2, <2>3
    <3> HIDE DEF es
    <3>2. Contains(es, Response(Relay(x, z)))
      BY <3>1 DEF Contains, Range
    <3> QED  BY <3>2 DEF es
  <2> QED  BY <2>4 DEF Looking
<1>7. s[d].pc = "unsession" => k[d].phase = "gone"
  BY <1>3 DEF EachSound, Sound, GoneOK, Ending
<1>8. s[d].pc \in Pc
  BY <1>1 DEF State
<1> QED  BY <1>2, <1>4, <1>5, <1>6, <1>7, <1>8 DEF Pc, Idle, LoginSteps

\* If all it is told is one status, so is the last.
LEMMA AllTold ==
    ASSUME NEW st \in State, NEW x, NEW f, NEW v \in Statuses,
           TellsThat(st, x, f, v), \A z \in Statuses : TellsThat(st, x, f, z) => z = v
    PROVE  TellsLast(Held(st), x, f, v)
<1>1. Held(st) \in Seq(Effect)
  BY HeldFacts
<1> DEFINE es == Held(st)
<1>2. \A e : e \in Range(es) <=> \E i \in DOMAIN es : es[i] = e
  BY DEF Range
<1>3. \A z \in Statuses : Route(x, Relay(f, z)) \in Range(es) <=> TellsThat(st, x, f, z)
  BY DEF TellsThat, Holds
<1> HIDE DEF es
<1>4. PICK j \in DOMAIN es : es[j] = Route(x, Relay(f, v))
  BY <1>2, <1>3
<1>5. \A i \in DOMAIN es, z \in Statuses : es[i] = Route(x, Relay(f, z)) => z = v
  BY <1>2, <1>3
<1> QED  BY <1>4, <1>5 DEF TellsLast, es

\* What is held more and tells nothing of f leaves the last that is told.
LEMMA LastStays ==
    ASSUME NEW st \in State, NEW new, NEW more \in Seq(Effect), Held(new) = Held(st) \o more,
           NEW x, NEW f, NEW y,
           \A z \in Statuses : Route(x, Relay(f, z)) \notin Range(more),
           TellsLast(Held(st), x, f, y)
    PROVE  TellsLast(Held(new), x, f, y)
<1> DEFINE es == Held(st)
           fs == Held(new)
<1>1. es \in Seq(Effect) /\ fs = es \o more /\ TellsLast(es, x, f, y)
  BY HeldFacts
<1> HIDE DEF es, fs
<1>2. /\ \A i \in DOMAIN fs : fs[i] = IF i <= Len(es) THEN es[i] ELSE more[i - Len(es)]
      /\ DOMAIN fs = 1 .. Len(es) + Len(more)
      /\ DOMAIN es = 1 .. Len(es) /\ DOMAIN more = 1 .. Len(more)
      /\ Len(es) \in Nat /\ Len(more) \in Nat
  BY <1>1, Concatenation
<1>3. PICK j \in DOMAIN es :
         /\ es[j] = Route(x, Relay(f, y))
         /\ \A i \in DOMAIN es, z \in Statuses : i > j /\ es[i] = Route(x, Relay(f, z)) => z = y
  BY <1>1 DEF TellsLast
<1>4. j \in DOMAIN fs /\ fs[j] = Route(x, Relay(f, y))
  BY <1>2, <1>3
<1>5. ASSUME NEW i \in DOMAIN fs, NEW z \in Statuses, i > j, fs[i] = Route(x, Relay(f, z))
      PROVE  z = y
  <2>1. CASE i <= Len(es)
    BY <1>2, <1>3, <1>5, <2>1
  <2>2. CASE ~(i <= Len(es))
    <3>1. i - Len(es) \in DOMAIN more /\ fs[i] = more[i - Len(es)]
      BY <1>2, <2>2
    <3>2. fs[i] \in Range(more)
      BY <3>1 DEF Range
    <3> QED  BY <1>5, <3>2
  <2> QED  BY <2>1, <2>2
<1> QED  BY <1>4, <1>5 DEF TellsLast, fs

\* What is held more and tells one status of f makes that the last.
LEMMA LastComes ==
    ASSUME NEW st \in State, NEW new, NEW more \in Seq(Effect), Held(new) = Held(st) \o more,
           NEW x, NEW f, NEW y \in Statuses,
           Route(x, Relay(f, y)) \in Range(more),
           \A z \in Statuses : Route(x, Relay(f, z)) \in Range(more) => z = y
    PROVE  TellsLast(Held(new), x, f, y)
<1> DEFINE es == Held(st)
           fs == Held(new)
<1>1. es \in Seq(Effect) /\ fs = es \o more
  BY HeldFacts
<1> HIDE DEF es, fs
<1>2. /\ \A i \in DOMAIN fs : fs[i] = IF i <= Len(es) THEN es[i] ELSE more[i - Len(es)]
      /\ DOMAIN fs = 1 .. Len(es) + Len(more)
      /\ DOMAIN es = 1 .. Len(es) /\ DOMAIN more = 1 .. Len(more)
      /\ Len(es) \in Nat /\ Len(more) \in Nat
  BY <1>1, Concatenation
<1>3. PICK m \in DOMAIN more : more[m] = Route(x, Relay(f, y))
  BY DEF Range
<1> DEFINE j == Len(es) + m
<1>4. j \in DOMAIN fs /\ fs[j] = Route(x, Relay(f, y)) /\ j > Len(es)
  <2>1. j \in Nat /\ j > Len(es) /\ j <= Len(es) + Len(more) /\ j >= 1 /\ j - Len(es) = m
    BY <1>2
  <2>2. j \in DOMAIN fs
    BY <1>2, <2>1
  <2> QED  BY <1>2, <1>3, <2>1, <2>2
<1>5. ASSUME NEW i \in DOMAIN fs, NEW z \in Statuses, i > j, fs[i] = Route(x, Relay(f, z))
      PROVE  z = y
  <2>1. i - Len(es) \in DOMAIN more /\ fs[i] = more[i - Len(es)]
    BY <1>2, <1>4, <1>5
  <2>2. fs[i] \in Range(more)
    BY <2>1 DEF Range
  <2> QED  BY <1>5, <2>2
<1> HIDE DEF j
<1> QED  BY <1>4, <1>5 DEF TellsLast, fs

\* Connections that do not run are not about to say anything.
LEMMA OthersWait ==
    ASSUME LocalInv, NEW c \in Conn, loop \in {NoConn, c}, NEW d \in Conn, d # c
    PROVE  s[d].pc \notin {"next", "lost", "bye"}
BY ConnAssumption DEF LocalInv, LoopOK

(***************************************************************************)
(* Registrations.  A coroutine that goes on does not touch them.           *)
(***************************************************************************)
LEMMA KindFresh ==
    ASSUME LocalInv, EachSound, FreshOK, NEW c \in Conn, Kind(c, s'[c]), NEW st, Step(c, st)
    PROVE  FreshOK'
<1>1. /\ s'[c] = st /\ (\A d \in Conn : d # c => s'[d] = s[d]) /\ k' = k /\ pid_map' = pid_map
  <2>1. Shape(c, st) /\ TypesOK
    BY DEF Step, LocalInv
  <2> QED  BY <2>1, StepFrame DEF Shape
<1>2. ~st.sesskey => ~s[c].sesskey
  BY DEF Step, Sessioned
<1>3. Logging(st) => Logging(s[c]) \/ ~s[c].sesskey
  <2>1. CASE Goes(c, st)
    BY <2>1, GoesSame
  <2>2. CASE Enters(c, st)
    BY <2>2, EntersSound
  <2>3. CASE Looks(c, st)
    <3>1. PICK more \in Seq(Effect), targets \in SUBSET s[c].buddies :
             /\ Held(st) = Held(s[c]) \o more
             /\ Relayed(c, st, targets, more) /\ LooksFrom(c, st, more)
      BY <2>3 DEF Looks
    <3>2. Logging(st) => Logging(s[c]) \/ s[c].pc = "insert"
      BY <3>1, LooksMore
    <3>3. s[c].pc = "insert" => ~s[c].sesskey
      BY LooksFields DEF EachSound
    <3> QED  BY <3>2, <3>3
  <2> QED  BY <1>1, <2>1, <2>2, <2>3 DEF Kind
<1> QED  BY <1>1, <1>2, <1>3 DEF FreshOK

LEMMA KindHere ==
    ASSUME LocalInv, EachSound, HereOK, NEW c \in Conn, Kind(c, s'[c]), NEW st, Step(c, st)
    PROVE  HereOK'
<1>1. /\ s'[c] = st /\ (\A d \in Conn : d # c => s'[d] = s[d])
      /\ pid_map' = pid_map /\ overlap' = overlap /\ Open(c)
  <2>1. Shape(c, st) /\ TypesOK
    BY DEF Step, LocalInv
  <2> QED  BY <2>1, StepFrame DEF Shape
<1>2. ASSUME c \notin overlap, st.profileid # NoProfile, st.pc \notin Joining, ~Logging(st)
      PROVE  pid_map[st.profileid] = c
  <2>1. CASE Goes(c, st)
    <3>1. Onward(c, st) /\ ~Logging(s[c])
      BY <1>2, <2>1, GoesSame DEF Goes
    <3>2. s[c].pc \notin Joining
      BY <1>2, <3>1 DEF Onward, EachSound, Sound, LoggingOK
    <3> QED  BY <1>1, <1>2, <3>1, <3>2 DEF Onward, HereOK
  <2>2. CASE Enters(c, st)
    BY <1>2, <2>2 DEF Enters, Joining
  <2>3. CASE Looks(c, st)
    <3>1. PICK more \in Seq(Effect), targets \in SUBSET s[c].buddies :
             /\ Held(st) = Held(s[c]) \o more
             /\ Relayed(c, st, targets, more) /\ LooksFrom(c, st, more)
      BY <2>3 DEF Looks
    <3>2. Logging(st) <=> Logging(s[c]) \/ s[c].pc = "insert"
      BY <3>1, LooksMore
    <3>3. s[c].pc \in {"next", "lost"} /\ st.profileid = s[c].profileid
      BY <1>2, <3>1, <3>2 DEF LooksFrom
    <3> QED  BY <1>1, <1>2, <3>2, <3>3 DEF HereOK, Joining
  <2> QED  BY <1>1, <2>1, <2>2, <2>3 DEF Kind
<1>3. ASSUME NEW d \in Conn \ overlap, Open(d)', s'[d].profileid # NoProfile,
             s'[d].pc \notin Joining, ~Logging(s'[d])
      PROVE  pid_map'[s'[d].profileid] = d
  BY <1>1, <1>2, <1>3 DEF HereOK, Open
<1> QED  BY <1>1, <1>3 DEF HereOK

LEMMA TakesFresh ==
    ASSUME LocalInv, EachSound, FreshOK, NEW c \in Conn,
           NEW label \in {"read", "closed"}, Takes(c, label)
    PROVE  FreshOK'
<1>1. /\ TypesOK /\ Listed(c) /\ k' = Outcome(c).k /\ s[c] \in State
      /\ (\A d \in Conn : d # c => s'[d] = s[d]) /\ s'[c].sesskey = s[c].sesskey
      /\ s[c].pc \in {"next", "bye"}
  BY LocalFacts, TakesLists, TakesFields DEF LocalInv, Takes, ProcessEffects
<1>2. \A e : e \in Range(s[c].eff) => Holds(s[c], e)
  BY <1>1, HeldFacts DEF Holds
<1> SUFFICES ASSUME NEW d \in Conn, ~s'[d].sesskey \/ Logging(s'[d]), NEW p \in Profiles
             PROVE  pid_map'[p] # d /\ k'[d].seen[p] = Unseen
  BY DEF FreshOK
<1>3. CASE d = c
  <2>1. ~s[c].sesskey
    BY <1>1, <1>3, TakesSound DEF EachSound, Logging
  <2>2. \A x \in Profiles : pid_map[x] # c /\ k[c].seen[x] = Unseen
    BY <2>1 DEF FreshOK
  <2>3. \A x \in Profiles : Register(x) \notin Range(s[c].eff)
    <3>1. ~Logging(s[c]) /\ s[c].pc \notin Joining
      BY <1>1, <2>1 DEF EachSound, Sound, LoggingOK, Joining
    <3> QED  BY <1>2, <3>1 DEF EachSound, Sound, MovesOK
  <2>4. \A y \in Statuses : Response(Relay(p, y)) \notin Range(s[c].eff)
    BY <1>2, <2>1 DEF EachSound, Sound, LearnsOK, LearnsThat
  <2>5. Outcome(c).k[c].seen[p] = k[c].seen[p]
    BY <1>1, <2>2, <2>3, <2>4, OutcomeSame
  <2>6. pid_map'[p] # c
    BY <1>1, <2>2, <2>3, ConnAssumption DEF Listed
  <2> QED  BY <1>1, <1>3, <2>2, <2>5, <2>6
<1>4. CASE d # c
  <2>1. \A x \in Profiles : pid_map[x] # d /\ k[d].seen[x] = Unseen
    BY <1>1, <1>4 DEF FreshOK
  <2>2. Outcome(c).k[d].seen[p] = k[d].seen[p]
    BY <1>1, <1>4, <2>1, OutcomeSame
  <2>3. pid_map'[p] # d
    BY <1>1, <1>4, <2>1, ConnAssumption DEF Listed
  <2> QED  BY <1>1, <2>1, <2>2, <2>3
<1> QED  BY <1>3, <1>4

\* What c holds that moves x: it has that profile, unless others overlap with it.
LEMMA MovesAlone ==
    ASSUME LocalInv, OverlapOK, NEW c \in Conn, NEW d \in Conn, d # c, Open(c), Open(d),
           d \notin overlap, NEW x \in Profiles, Plays(d, x)
    PROVE  Register(x) \notin Range(s[c].eff) /\ Delete(x) \notin Range(s[c].eff)
<1>1. ~Plays(c, x)
  BY OneUser DEF LocalInv
<1>2. Moves(Register(x)) /\ Register(x).pid = x /\ Moves(Delete(x)) /\ Delete(x).pid = x
  BY DEF Moves, Register, Delete
<1> QED  BY <1>1, <1>2 DEF LocalInv, PlaysOK

LEMMA TakesHere ==
    ASSUME LocalInv, OverlapOK, EachSound, HereOK, NEW c \in Conn,
           NEW label \in {"read", "closed"}, Takes(c, label)
    PROVE  HereOK'
<1>1. /\ Listed(c) /\ s[c] \in State /\ Fits(c, s[c], k[c].phase, k[c].said, k[c].chunk)
      /\ (\A d \in Conn : d # c => s'[d] = s[d]) /\ overlap' = overlap /\ Open(c)
      /\ s'[c].pc = label /\ s'[c].profileid = s[c].profileid
  BY LocalFacts, TakesLists, TakesFields
<1>2. \A e : e \in Range(s[c].eff) <=> Holds(s[c], e)
  <2>1. s[c].cur = <<>>
    BY <1>1 DEF Takes, Fits, FlowOK, Joining
  <2> QED  BY <1>1, <2>1, HeldFacts DEF Holds
<1>3. \A d \in Conn : s[d].profileid # NoProfile =>
          s[d].profileid \in Profiles /\ Plays(d, s[d].profileid)
  BY LocalFacts DEF State, LocalInv, PlaysOK
<1> SUFFICES ASSUME NEW d \in Conn \ overlap, Open(d)', s'[d].profileid # NoProfile,
                    s'[d].pc \notin Joining, ~Logging(s'[d])
             PROVE  pid_map'[s'[d].profileid] = d
  BY <1>1 DEF HereOK
<1>4. CASE d = c
  <2> DEFINE q == s[c].profileid
  <2>1. q \in Profiles /\ label = "read" /\ s[c].pc = "next"
    BY <1>1, <1>3, <1>4 DEF Open, Takes
  <2>2. CASE Logging(s[c])
    <3>1. JoinsLast(s[c].eff, q)
      BY <1>1, <1>2, <2>2 DEF Logging, Fits, EffectsOK
    <3> QED  BY <1>1, <1>4, <2>1, <3>1 DEF Listed
  <2>3. CASE ~Logging(s[c])
    <3>1. pid_map[q] = c
      BY <1>1, <1>4, <2>1, <2>3 DEF HereOK, Joining
    <3>2. Register(q) \notin Range(s[c].eff) /\ Delete(q) \notin Range(s[c].eff)
      BY <1>2, <1>4, <1>1, <2>1, <2>3 DEF EachSound, Sound, MovesOK, Joining, Ending
    <3> QED  BY <1>1, <1>4, <2>1, <3>1, <3>2 DEF Listed
  <2> QED  BY <2>2, <2>3
<1>5. CASE d # c
  <2> DEFINE q == s[d].profileid
  <2>1. q \in Profiles /\ Plays(d, q) /\ Open(d) /\ s'[d] = s[d]
    BY <1>1, <1>3, <1>5 DEF Open
  <2>2. pid_map[q] = d
    BY <2>1 DEF HereOK
  <2>3. Register(q) \notin Range(s[c].eff) /\ Delete(q) \notin Range(s[c].eff)
    BY <1>1, <1>5, <2>1, MovesAlone
  <2> QED  BY <1>1, <2>1, <2>2, <2>3 DEF Listed
<1> QED  BY <1>4, <1>5

LEMMA DeedRegistry ==
    ASSUME LocalInv, FreshOK, HereOK, NEW c \in Conn, Deed(c), Spares(c)
    PROVE  FreshOK' /\ HereOK'
<1>1. \A d \in Conn :
          /\ s'[d].profileid = s[d].profileid /\ s'[d].sesskey = s[d].sesskey
          /\ (Logging(s'[d]) <=> Logging(s[d])) /\ k'[d].seen = k[d].seen
          /\ \/ s'[d].pc = s[d].pc
             \/ s[d].pc = "read" /\ s'[d].pc \in {"next", "lost"}
             \/ s[d].pc = "new" /\ s'[d].pc = "read" /\ s'[d].profileid = NoProfile
  BY DeedFields DEF Logging, Holds
<1>2. overlap \subseteq overlap' /\ pid_map' = pid_map
  BY DeedFields
<1>3. FreshOK'
  BY <1>1, <1>2 DEF FreshOK
<1>4. ASSUME NEW d \in Conn \ overlap', Open(d)', s'[d].profileid # NoProfile,
             s'[d].pc \notin Joining, ~Logging(s'[d])
      PROVE  pid_map'[s'[d].profileid] = d
  <2>1. Open(d) /\ s[d].pc \notin Joining
    BY <1>1, <1>4 DEF Open, Joining
  <2> QED  BY <1>1, <1>2, <1>4, <2>1 DEF HereOK
<1>5. HereOK'
  BY <1>4 DEF HereOK
<1> QED  BY <1>3, <1>5

(***************************************************************************)
(* What is clear stays so no longer than its step: every step grows.       *)
(***************************************************************************)
\* Who changes the table of friends has said so.
LEMMA RowIsSaid ==
    ASSUME LocalInv, NEW c \in Conn, s[c].pc \in {"row", "reread"}
    PROVE  /\ s[c].profileid \in Profiles
           /\ Befriends(s[c].profileid)
<1>1. s[c] \in State /\ Fits(c, s[c], k[c].phase, k[c].said, k[c].chunk)
  BY LocalFacts
<1>2. s[c].todo # <<>> /\ Head(s[c].todo).cmd \in {"addbuddy", "delbuddy"}
  BY <1>1 DEF Fits, FlowOK
<1>3. s[c].todo # Login
  BY <1>2, LoginIsNoCommand
<1>4. s[c].profileid \in Profiles
  BY <1>1, <1>2, <1>3 DEF Fits, NameOK, State
<1>5. Head(s[c].todo) \in k[c].said
  <2>1. s[c].todo \in Seq(Commands)
    BY <1>1, <1>3 DEF State
  <2>2. Head(s[c].todo) \in ToSet(s[c].todo)
    BY <1>2, <2>1 DEF ToSet
  <2> QED  BY <1>1, <1>3, <2>2 DEF Fits, ChunkOK
<1>6. Plays(c, s[c].profileid)
  BY <1>4, BoundAssumption DEF LocalInv, PlaysOK, Profiles, NoProfile
<1> QED  BY <1>2, <1>4, <1>5, <1>6 DEF Befriends

\* Who has changed friends has done so for good.
LEMMA BefriendsStays ==
    ASSUME users \subseteq users', \A d \in Conn : k[d].said \subseteq k'[d].said,
           NEW x, Befriends(x)
    PROVE  \E d \in Conn :
               /\ [user |-> UserOf[d], profileid |-> x] \in users'
               /\ \E e \in k'[d].said : e.cmd \in {"addbuddy", "delbuddy"}
<1>1. PICK d \in Conn : Plays(d, x) /\ \E e \in k[d].said : e.cmd \in {"addbuddy", "delbuddy"}
  BY DEF Befriends
<1>2. [user |-> UserOf[d], profileid |-> x] \in users'
  BY <1>1 DEF Plays
<1>3. \E e \in k'[d].said : e.cmd \in {"addbuddy", "delbuddy"}
  BY <1>1
<1> QED  BY <1>2, <1>3

LEMMA KindGrows ==
    ASSUME LocalInv, NEW c \in Conn, Kind(c, s'[c]), NEW st, Step(c, st)
    PROVE  Grows
<1>1. k' = k /\ overlap' = overlap
  BY DEF Step, Shape
<1>2. users \subseteq users'
  BY DEF Step, Named
<1>3. raced \subseteq raced'
  BY DEF Kind, Goes, Onward, Enters, Looks, Cross
<1>4. ASSUME NEW x \in Profiles, NEW y \in Profiles
      PROVE  Befriends(x)' \/ (<<x, y>> \in buddies' => <<x, y>> \in buddies)
  <2>1. CASE buddies' = buddies
    BY <2>1
  <2>2. CASE buddies' # buddies
    <3>1. s[c].pc = "row" /\ \E q \in Profiles :
              \/ buddies' = buddies \cup {<<s[c].profileid, q>>}
              \/ buddies' = buddies \ {<<s[c].profileid, q>>}
      BY <2>2 DEF Step, Befriended
    <3>2. Befriends(s[c].profileid)
      BY <3>1, RowIsSaid
    <3>3. \E d \in Conn :
              /\ [user |-> UserOf[d], profileid |-> s[c].profileid] \in users'
              /\ \E e \in k'[d].said : e.cmd \in {"addbuddy", "delbuddy"}
      BY <1>1, <1>2, <3>2, BefriendsStays
    <3>5. CASE x = s[c].profileid
      BY <3>3, <3>5 DEF Befriends, Plays
    <3>6. CASE x # s[c].profileid
      BY <3>1, <3>6
    <3> QED  BY <3>5, <3>6
  <2> QED  BY <2>1, <2>2
<1> QED  BY <1>1, <1>2, <1>3, <1>4 DEF Grows

LEMMA TakesGrows ==
    ASSUME LocalInv, NEW c \in Conn, NEW label \in {"read", "closed"}, Takes(c, label)
    PROVE  Grows
<1>1. /\ UNCHANGED <<users, buddies, overlap, raced>>
      /\ TypesOK /\ k' = Outcome(c).k
  BY DEF Takes, tables, LocalInv, ProcessEffects
<1>2. \A d \in Conn : /\ k'[d].said = k[d].said
                      /\ k[d].phase = "gone" => k'[d].phase = "gone"
  BY <1>1, OutcomeConsoles
<1> QED  BY <1>1, <1>2 DEF Grows

LEMMA DeedGrows ==
    ASSUME LocalInv, NEW c \in Conn, Deed(c), Spares(c)
    PROVE  Grows
BY DeedFields DEF Grows

(***************************************************************************)
(* Where c has no session, or is closed, there is nothing to show.         *)
(***************************************************************************)
LEMMA NothingToShow ==
    ASSUME NEW c \in Conn, NEW p \in Profiles,
           ~Logging(s'[c]), ~Learns(c, p)', ~Here(c)'
    PROVE  Views(c, p)'
BY DEF Views, LearnsRight, MeetsNewcomers, IsToldRight, ShowsRight, Learns

\* Shows, in terms of what p is.
LEMMA ShowsNow ==
    ASSUME NEW c \in Conn, NEW p \in Profiles
    PROVE  /\ Shows(c, p) <=> \/ k[c].seen[p] = Now(p)
                              \/ k[c].seen[p] = Unseen /\ ~Active(p)
           /\ Shows(c, p)' <=> \/ k'[c].seen[p] = Now(p)'
                               \/ k'[c].seen[p] = Unseen /\ ~Active(p)'
<1>1. CASE Active(p)
  BY <1>1 DEF Shows, Now
<1>2. CASE ~Active(p)
  BY <1>2 DEF Shows, Now
<1>3. CASE Active(p)'
  BY <1>3 DEF Shows, Now
<1>4. CASE ~Active(p)'
  BY <1>4 DEF Shows, Now
<1>5. Shows(c, p) <=> k[c].seen[p] = Now(p) \/ (k[c].seen[p] = Unseen /\ ~Active(p))
  BY <1>1, <1>2
<1>6. Shows(c, p)' <=> k'[c].seen[p] = Now(p)' \/ (k'[c].seen[p] = Unseen /\ ~Active(p)')
  BY <1>3, <1>4
<1> QED  BY <1>5, <1>6

(***************************************************************************)
(* To keep views right, take one that was right, and a session.            *)
(***************************************************************************)
LEMMA ViewsReduce ==
    ASSUME LocalInv, Grows, ViewsOK, TypesOK', EachSound', FreshOK',
           \A d \in Conn : s'[d].sesskey =>
               \/ s'[d].profileid = s[d].profileid /\ s'[d].buddies = s[d].buddies
               \/ s'[d].profileid = NoProfile
               \/ Befriends(s[d].profileid)',
           \A c \in Conn, p \in Profiles :
               s'[c].sesskey /\ s'[c].profileid = s[c].profileid
               /\ Clear(c, p)' /\ Clear(c, p) /\ Views(c, p) => Views(c, p)'
    PROVE  ViewsOK'
<1> SUFFICES ASSUME NEW c \in Conn, NEW p \in Profiles, Clear(c, p)'
             PROVE  Views(c, p)'
  BY DEF ViewsOK
<1>1. s'[c] \in State /\ s[c] \in State
  BY LocalFacts DEF TypesOK
<1>2. s'[c].profileid \in Profiles
  BY <1>1 DEF Clear, State
<1>3. CASE ~s'[c].sesskey
  <2>1. ~Logging(s'[c]) /\ ~Learns(c, p)'
    BY <1>3 DEF EachSound, Sound, LoggingOK, LearnsOK, Learns
  <2>2. ~Here(c)'
    BY <1>2, <1>3 DEF FreshOK, Here
  <2> QED  BY <2>1, <2>2, NothingToShow
<1>4. CASE s'[c].sesskey
  <2>1. s'[c].profileid = s[c].profileid /\ s'[c].buddies = s[c].buddies
    <3>1. ~(Befriends(s[c].profileid)') /\ s'[c].profileid # NoProfile
      BY DEF Clear, Misled
    <3>2. \A d \in Conn : \A x : d = c /\ x = s'[d].profileid =>
              ~(\E b \in Conn :
                    /\ [user |-> UserOf[b], profileid |-> x] \in users'
                    /\ \E e \in k'[b].said : e.cmd \in {"addbuddy", "delbuddy"})
      BY <3>1 DEF Befriends, Plays
    <3>3. ~(\E b \in Conn :
                /\ [user |-> UserOf[b], profileid |-> s'[c].profileid] \in users'
                /\ \E e \in k'[b].said : e.cmd \in {"addbuddy", "delbuddy"})
      BY <3>2
    <3> QED  BY <1>4, <3>1, <3>3
  <2>2. Clear(c, p)
    BY <1>1, <2>1, ClearBefore DEF State
  <2> QED  BY <1>4, <2>1, <2>2 DEF ViewsOK
<1> QED  BY <1>3, <1>4

\* The sessions and friends of a connection that goes on.
LEMMA KindKeeps ==
    ASSUME LocalInv, EachSound, NEW c \in Conn, Kind(c, s'[c]), NEW st, Step(c, st)
    PROVE  \A d \in Conn : s'[d].sesskey =>
               \/ s'[d].profileid = s[d].profileid /\ s'[d].buddies = s[d].buddies
               \/ s'[d].profileid = NoProfile
               \/ Befriends(s[d].profileid)'
<1>1. s'[c] = st /\ (\A d \in Conn : d # c => s'[d] = s[d]) /\ k' = k
  <2>1. Shape(c, st) /\ TypesOK
    BY DEF Step, LocalInv
  <2> QED  BY <2>1, StepFrame DEF Shape
<1>2. users \subseteq users'
  BY DEF Step, Named
<1> SUFFICES ASSUME NEW d \in Conn, s'[d].sesskey
             PROVE  \/ s'[d].profileid = s[d].profileid /\ s'[d].buddies = s[d].buddies
                    \/ s'[d].profileid = NoProfile
                    \/ Befriends(s[d].profileid)'
  OBVIOUS
<1>3. CASE d = c
  <2>1. CASE Goes(c, st)
    <3>1. Onward(c, st)
      BY <2>1 DEF Goes
    <3>2. s[c].pc # "friends"
      <4>1. s[c].sesskey
        BY <1>1, <1>3, <3>1 DEF Onward
      <4> QED  BY <4>1, LocalFacts DEF Fits, FlowOK, NameOK, LoginSteps
    <3>3. CASE s[c].pc = "reread"
      <4>1. Befriends(s[c].profileid) /\ st.profileid = s[c].profileid
        BY <3>1, <3>3, RowIsSaid DEF Onward
      <4>2. \E b \in Conn :
                /\ [user |-> UserOf[b], profileid |-> s[c].profileid] \in users'
                /\ \E e \in k'[b].said : e.cmd \in {"addbuddy", "delbuddy"}
        BY <1>1, <1>2, <4>1, BefriendsStays
      <4>3. s'[d].profileid = s[c].profileid
        BY <1>1, <1>3, <4>1
      <4> QED  BY <4>2, <4>3 DEF Befriends, Plays
    <3> QED  BY <1>1, <1>3, <3>1, <3>2, <3>3 DEF Onward
  <2>2. CASE Enters(c, st)
    BY <1>1, <1>3, <2>2, EntersSound
  <2>3. CASE Looks(c, st)
    BY <1>1, <1>3, <2>3 DEF Looks, LooksFrom
  <2> QED  BY <1>1, <2>1, <2>2, <2>3 DEF Kind
<1>4. CASE d # c
  BY <1>1, <1>4
<1> QED  BY <1>3, <1>4

(***************************************************************************)
(* The same after a step.                                                  *)
(***************************************************************************)
LEMMA TellsAfter ==
    ASSUME NEW c \in Conn, NEW p \in Profiles
    PROVE  /\ Here(c)' <=> pid_map'[s'[c].profileid] = c
           /\ Learns(c, p)' <=> \E y \in Statuses : LearnsThat(s'[c], p, y)
           /\ \A d \in Conn : Tells(d, s[c].profileid, p)' <=>
                 \E y \in Statuses : TellsThat(s'[d], s'[c].profileid, p, y)
           /\ LearnsRight(c, p)' <=> \A y \in Statuses : LearnsThat(s'[c], p, y) => y = Now(p)'
<1>1. Here(c)' <=> pid_map'[s'[c].profileid] = c
  BY DEF Here
<1>2. Learns(c, p)' <=> \E y \in Statuses : LearnsThat(s'[c], p, y)
  BY DEF Learns, LearnsThat, Holds, Held, Range
<1>3. \A d \in Conn : Tells(d, s[c].profileid, p)' <=>
          \E y \in Statuses : TellsThat(s'[d], s'[c].profileid, p, y)
  BY DEF Tells, TellsThat, Holds, Held, Range, Route
<1>4. LearnsRight(c, p)' <=> \A y \in Statuses : LearnsThat(s'[c], p, y) => y = Now(p)'
  BY DEF LearnsRight, LearnsThat, Holds, Held, Range
<1> QED  BY <1>1, <1>2, <1>3, <1>4

LEMMA ViewsAfter ==
    ASSUME NEW c \in Conn, NEW p \in Profiles
    PROVE  /\ MeetsNewcomers(c, p)' <=>
                 \A d \in Conn : s'[d].profileid = p /\ Logging(s'[d]) =>
                     /\ ~Logging(s'[c]) /\ ~Learns(c, p)'
                     /\ Here(c)' => Tells(d, s[c].profileid, p)'
           /\ IsToldRight(c, p)' <=>
                 \A d \in Conn :
                     (Logging(s'[c]) \/ Here(c)') /\ Tells(d, s[c].profileid, p)' =>
                         TellsLast(Held(s'[d]), s'[c].profileid, p, s'[d].status)
           /\ ShowsRight(c, p)' <=>
                 /\ Here(c)' /\ ~Logging(s'[c]) /\ ~Learns(c, p)'
                    /\ (\A d \in Conn : ~Tells(d, s[c].profileid, p)') => Shows(c, p)'
                 /\ Logging(s'[c]) /\ ~Learns(c, p)' => ~Active(p)'
<1>1. MeetsNewcomers(c, p)' <=>
          \A d \in Conn : s'[d].profileid = p /\ Logging(s'[d]) =>
              /\ ~Logging(s'[c]) /\ ~Learns(c, p)'
              /\ Here(c)' => Tells(d, s[c].profileid, p)'
  BY DEF MeetsNewcomers, Logging, Holds, Held, Range
<1>2. IsToldRight(c, p)' <=>
          \A d \in Conn :
              (Logging(s'[c]) \/ Here(c)') /\ Tells(d, s[c].profileid, p)' =>
                  TellsLast(Held(s'[d]), s'[c].profileid, p, s'[d].status)
  BY DEF IsToldRight, Logging, Holds, Held, Range, TellsLast, Route
<1>3. ShowsRight(c, p)' <=>
          /\ Here(c)' /\ ~Logging(s'[c]) /\ ~Learns(c, p)'
             /\ (\A d \in Conn : ~Tells(d, s[c].profileid, p)') => Shows(c, p)'
          /\ Logging(s'[c]) /\ ~Learns(c, p)' => ~Active(p)'
  BY DEF ShowsRight, Logging, Holds, Held, Range
<1> QED  BY <1>1, <1>2, <1>3

(***************************************************************************)
(* Steps that nobody can see.                                              *)
(***************************************************************************)
Unseeable ==
    /\ pid_map' = pid_map
    /\ \A d \in Conn :
          /\ s'[d].status = s[d].status /\ k'[d].seen = k[d].seen
          /\ Logging(s'[d]) <=> Logging(s[d])
          /\ Logging(s'[d]) => s'[d].profileid = s[d].profileid
          /\ \A x, f, y : TellsThat(s'[d], x, f, y) <=> TellsThat(s[d], x, f, y)
          /\ \A f, y : LearnsThat(s'[d], f, y) <=> LearnsThat(s[d], f, y)
          /\ \A x, f, y : TellsLast(Held(s[d]), x, f, y) => TellsLast(Held(s'[d]), x, f, y)

LEMMA UnseeableViews ==
    ASSUME LocalInv, Unseeable, NEW c \in Conn, NEW p \in Profiles,
           s'[c].profileid = s[c].profileid, Views(c, p)
    PROVE  Views(c, p)'
<1>1. /\ Here(c)' <=> Here(c)
      /\ Logging(s'[c]) <=> Logging(s[c])
      /\ Learns(c, p)' <=> Learns(c, p)
      /\ \A d \in Conn : Tells(d, s[c].profileid, p)' <=> Tells(d, s[c].profileid, p)
  BY TellsAfter DEF Unseeable, Here, Learns, Tells
<1>2. pid_map[p] \in Conn \cup {NoConn}
  BY DEF LocalInv, TypesOK
<1>3. (Active(p)' <=> Active(p)) /\ Now(p)' = Now(p)
  BY <1>2 DEF Unseeable, Active, Now
<1>4. k'[c].seen[p] = k[c].seen[p]
  BY DEF Unseeable
<1>5. Shows(c, p) => Shows(c, p)'
  BY <1>3, <1>4, ShowsNow
<1>6. LearnsRight(c, p)'
  BY <1>3, TellsAfter DEF Views, LearnsRight, Unseeable
<1>7. MeetsNewcomers(c, p)'
  <2>1. ASSUME NEW d \in Conn, s'[d].profileid = p, Logging(s'[d])
        PROVE  /\ ~Logging(s'[c]) /\ ~Learns(c, p)'
               /\ Here(c)' => Tells(d, s[c].profileid, p)'
    <3>1. s[d].profileid = p /\ Logging(s[d])
      BY <2>1 DEF Unseeable
    <3>2. ~Logging(s[c]) /\ ~Learns(c, p) /\ (Here(c) => Tells(d, s[c].profileid, p))
      BY <3>1 DEF Views, MeetsNewcomers
    <3> QED  BY <1>1, <3>2
  <2> QED  BY <2>1, ViewsAfter
<1>8. IsToldRight(c, p)'
  <2>1. ASSUME NEW d \in Conn, Logging(s'[c]) \/ Here(c)', Tells(d, s[c].profileid, p)'
        PROVE  TellsLast(Held(s'[d]), s'[c].profileid, p, s'[d].status)
    <3>1. (Logging(s[c]) \/ Here(c)) /\ Tells(d, s[c].profileid, p)
      BY <1>1, <2>1
    <3>2. TellsLast(Held(s[d]), s[c].profileid, p, s[d].status)
      BY <3>1 DEF Views, IsToldRight
    <3> QED  BY <3>2 DEF Unseeable
  <2> QED  BY <2>1, ViewsAfter
<1>9. ShowsRight(c, p)'
  BY <1>1, <1>3, <1>5, ViewsAfter DEF Views, ShowsRight
<1> QED  BY <1>6, <1>7, <1>8, <1>9 DEF Views

LEMMA DeedUnseeable ==
    ASSUME LocalInv, NEW c \in Conn, Deed(c), Spares(c)
    PROVE  Unseeable
<1>1. \A d \in Conn : /\ s'[d].profileid = s[d].profileid /\ s'[d].status = s[d].status
                      /\ Held(s'[d]) = Held(s[d]) /\ k'[d].seen = k[d].seen
  BY DeedFields
<1>2. pid_map' = pid_map
  BY DeedFields
<1> QED  BY <1>1, <1>2 DEF Unseeable, Logging, TellsThat, LearnsThat, Holds

LEMMA GoesUnseeable ==
    ASSUME LocalInv, NEW c \in Conn, NEW st, Step(c, st), Goes(c, st) \/ Enters(c, st)
    PROVE  Unseeable
<1>1. /\ s'[c] = st /\ (\A d \in Conn : d # c => s'[d] = s[d]) /\ k' = k /\ pid_map' = pid_map
  <2>1. Shape(c, st) /\ TypesOK
    BY DEF Step, LocalInv
  <2> QED  BY <2>1, StepFrame DEF Shape
<1>2. s[c] \in State
  BY LocalFacts
<1>3. CASE Goes(c, st)
  <2>1. /\ \A x, f, y : TellsThat(st, x, f, y) <=> TellsThat(s[c], x, f, y)
        /\ \A f, y : LearnsThat(st, f, y) <=> LearnsThat(s[c], f, y)
        /\ Logging(st) <=> Logging(s[c])
    BY <1>3, GoesSame
  <2>2. st.status = s[c].status /\ st.profileid = s[c].profileid
    BY <1>3 DEF Goes, Onward
  <2>3. PICK more \in Seq(Effect) :
           Held(st) = Held(s[c]) \o more /\ \A e \in Range(more) : Plain(e)
    BY <1>3 DEF Goes
  <2>4. \A x, f, z : Route(x, Relay(f, z)) \notin Range(more)
    BY <2>3, EffectsDiffer
  <2>5. \A x, f, y : TellsLast(Held(s[c]), x, f, y) => TellsLast(Held(st), x, f, y)
    BY <1>2, <2>3, <2>4, LastStays
  <2> QED  BY <1>1, <2>1, <2>2, <2>5 DEF Unseeable
<1>4. CASE Enters(c, st)
  <2>1. s[c].eff = <<>> /\ s[c].cur = <<>>
    BY <1>4, LocalFacts DEF Enters, Fits, FlowOK, LoginSteps, Joining
  <2>2. (\A e : ~Holds(s[c], e)) /\ Held(s[c]) = <<>>
    BY <1>2, <2>1, NothingHeld
  <2>3. /\ ~Logging(st)
        /\ \A x, f, y : ~TellsThat(st, x, f, y)
        /\ \A f, y : ~LearnsThat(st, f, y)
    BY <1>4, EntersSound
  <2>4. st.status = s[c].status
    BY <1>4 DEF Enters
  <2>5. \A x, f, y : ~TellsLast(Held(s[c]), x, f, y)
    <3>1. DOMAIN <<>> = {}
      OBVIOUS
    <3> QED  BY <2>2, <3>1 DEF TellsLast
  <2> QED  BY <1>1, <2>2, <2>3, <2>4, <2>5 DEF Unseeable, Logging, TellsThat, LearnsThat
<1> QED  BY <1>3, <1>4

(***************************************************************************)
(* Steps that look at friends.                                             *)
(***************************************************************************)
\* Who is concerned by what is clear.
LEMMA ClearFacts ==
    ASSUME LocalInv, LiveOK, EachSound, NEW c \in Conn, NEW p \in Profiles, Clear(c, p)
    PROVE  /\ s[c].profileid \in Profiles /\ s[c].profileid # NoProfile /\ s[c].profileid # p
           /\ Plays(c, s[c].profileid) /\ c \notin overlap
           /\ p \in s[c].buddies /\ <<p, s[c].profileid>> \in buddies
           /\ \A d \in Conn : Plays(d, p) =>
                 d \notin overlap /\ <<c, d>> \notin raced /\ Game[d] = Game[c]
           /\ \A d \in Conn : s[d].profileid = p => d # c /\ Plays(d, p)
           /\ \A d \in Conn : Tells(d, s[c].profileid, p) =>
                 /\ d # c /\ Plays(d, p)
                 /\ s[d].profileid = p \/ (s[d].profileid = NoProfile /\ Holds(s[d], Delete(p)))
           /\ pid_map[p] # c
           /\ Active(p) => pid_map[p] \in Conn /\ Plays(pid_map[p], p)
           /\ \A x \in Profiles : pid_map[x] = c => x = s[c].profileid
           /\ k[c].phase # "gone"
<1>1. s[c] \in State
  BY LocalFacts
<1>2. /\ s[c].profileid \in Profiles /\ s[c].profileid # NoProfile /\ s[c].profileid # p
      /\ p \in s[c].buddies /\ <<p, s[c].profileid>> \in buddies
      /\ c \notin overlap /\ k[c].phase # "gone"
  BY <1>1 DEF Clear, Mutual, Misled, State
<1>3. \A d \in Conn : Plays(d, p) =>
          d \notin overlap /\ <<c, d>> \notin raced /\ Game[d] = Game[c]
  BY DEF Clear, Misled
<1>4. p # NoProfile
  BY BoundAssumption DEF Profiles, NoProfile
<1>5. \A d \in Conn : s[d].profileid = p => d # c /\ Plays(d, p)
  BY <1>2, <1>4 DEF LocalInv, PlaysOK
<1>6. Plays(c, s[c].profileid)
  BY <1>2 DEF LocalInv, PlaysOK
<1>7. ASSUME NEW d \in Conn, Tells(d, s[c].profileid, p)
      PROVE  /\ d # c /\ Plays(d, p)
             /\ s[d].profileid = p \/ (s[d].profileid = NoProfile /\ Holds(s[d], Delete(p)))
  <2>1. PICK y \in Statuses : TellsThat(s[d], s[c].profileid, p, y)
    BY <1>7 DEF Tells
  <2>2. /\ Plays(d, p)
        /\ s[d].profileid = p \/ (s[d].profileid = NoProfile /\ Holds(s[d], Delete(p)))
    BY <1>2, <2>1, TellerPlays
  <2> QED  BY <1>2, <2>2
<1>8. \A x \in Profiles : pid_map[x] = c => x = s[c].profileid
  BY <1>2, RegisteredPlays
<1>9. pid_map[p] # c
  BY <1>2, <1>8
<1>10. Active(p) => pid_map[p] \in Conn /\ Plays(pid_map[p], p)
  <2>1. Active(p) => pid_map[p] \in Conn
    BY DEF Active, LocalInv, TypesOK
  <2> QED  BY <2>1, RegisteredPlays
<1> QED  BY <1>2, <1>3, <1>5, <1>6, <1>7, <1>8, <1>9, <1>10

\* What c sees is clear only if nobody who has p crosses with it.
LEMMA CrossedNot ==
    ASSUME Grows, NEW c \in Conn, NEW p \in Profiles, Clear(c, p)',
           NEW d \in Conn, Plays(d, p), NEW e \in Conn, NEW f \in Conn, Cross(e),
           (e = c /\ f = d) \/ (e = d /\ f = c), c # d
    PROVE  s[f].pc # "pending" /\ ~Looking(f, s[e].profileid)
<1>1. Plays(d, p)'
  BY DEF Grows, Plays
<1>2. <<c, d>> \notin raced'
  BY <1>1 DEF Clear, Misled
<1>3. f \notin Crossed(e)
  BY <1>2 DEF Cross
<1> QED  BY <1>3 DEF Crossed

\* Connection c itself looks.
LEMMA LooksOwnViews ==
    ASSUME LocalInv, LiveOK, EachSound, Grows, NEW c \in Conn, NEW st, Step(c, st), Looks(c, st),
           st.profileid = s[c].profileid,
           NEW p \in Profiles, Clear(c, p)', Clear(c, p), Views(c, p)
    PROVE  Views(c, p)'
<1> DEFINE q == s[c].profileid
<1>1. /\ s'[c] = st /\ (\A d \in Conn : d # c => s'[d] = s[d]) /\ k' = k /\ pid_map' = pid_map
      /\ st \in State /\ loop \in {NoConn, c} /\ s'[c].profileid = q
  <2>1. Shape(c, st) /\ TypesOK
    BY DEF Step, LocalInv
  <2> QED  BY <2>1, StepFrame DEF Shape
<1>2. /\ q \in Profiles /\ q # p /\ p \in s[c].buddies /\ pid_map[p] # c
      /\ \A d \in Conn : Plays(d, p) => Game[d] = Game[c]
      /\ \A d \in Conn : s[d].profileid = p => d # c /\ Plays(d, p)
      /\ \A d \in Conn : Tells(d, q, p) => d # c /\ Plays(d, p)
      /\ Active(p) => pid_map[p] \in Conn /\ Plays(pid_map[p], p)
  BY ClearFacts, ZenonT(30)
<1>3. PICK more \in Seq(Effect), targets \in SUBSET s[c].buddies :
         /\ Held(st) = Held(s[c]) \o more
         /\ Relayed(c, st, targets, more) /\ LooksFrom(c, st, more)
         /\ targets = s[c].buddies \/ (s[c].pc = "next" /\ st.status = s[c].status)
  BY DEF Looks
<1>4. /\ \A x, f \in Profiles, y \in Statuses : TellsThat(st, x, f, y) <=>
            \/ TellsThat(s[c], x, f, y)
            \/ x \in Present(c, targets) /\ f = q /\ y = st.status
      /\ \A f \in Profiles, y \in Statuses : LearnsThat(st, f, y) <=>
            \/ LearnsThat(s[c], f, y)
            \/ f \in Present(c, targets) /\ y = StatusOf(f, c, st.status)
      /\ Logging(st) <=> Logging(s[c]) \/ s[c].pc = "insert"
  BY <1>3, LooksMore
<1>5. ~Logging(s[c])
  <2>1. Sound(s[c], k[c].phase)
    BY DEF EachSound
  <2>2. \/ s[c].pc \in {"insert", "lost"} \/ (s[c].pc = "next" /\ s[c].todo \notin {<<>>, Login})
    BY <1>3 DEF LooksFrom
  <2> QED  BY <2>1, <2>2, LooksFields DEF Sound, LoggingOK, Logging
<1>6. \A d \in Conn : d # c /\ Plays(d, p) => s[d].pc # "pending" /\ ~Looking(d, q)
  BY CrossedNot DEF Looks
<1>7. /\ Active(p)' <=> Active(p)
      /\ Now(p)' = Now(p)
      /\ Active(p) => Now(p) = s[pid_map[p]].status
  BY <1>1, <1>2 DEF Active, Now
<1>8. p \in Present(c, targets) => Active(p) /\ StatusOf(p, c, st.status) = Now(p)
  BY <1>2, <1>7 DEF Present, StatusOf
<1>9. /\ Here(c)' <=> Here(c)
      /\ Learns(c, p) => Learns(c, p)'
      /\ \A d \in Conn : d # c => (Tells(d, q, p)' <=> Tells(d, q, p))
      /\ ~Tells(c, q, p)'
  <2>1. Here(c)' <=> Here(c)
    BY <1>1, TellsAfter DEF Here
  <2>2. Learns(c, p) => Learns(c, p)'
    BY <1>1, <1>4, TellsAfter DEF Learns
  <2>3. \A d \in Conn : d # c => (Tells(d, q, p)' <=> Tells(d, q, p))
    BY <1>1, TellsAfter DEF Tells
  <2>4. ~Tells(c, q, p)'
    <3>1. \A y \in Statuses : ~TellsThat(s[c], q, p, y)
      BY <1>2 DEF Tells
    <3>2. \A y \in Statuses : ~TellsThat(st, q, p, y)
      BY <1>2, <1>4, <3>1
    <3> QED  BY <1>1, <3>2, TellsAfter
  <2> QED  BY <2>1, <2>2, <2>3, <2>4
<1>10. LearnsRight(c, p)'
  <2>1. \A y \in Statuses : LearnsThat(st, p, y) => y = Now(p)
    BY <1>4, <1>8 DEF Views, LearnsRight
  <2> QED  BY <1>1, <1>7, <2>1, TellsAfter
<1>11. MeetsNewcomers(c, p)'
  <2>1. ASSUME NEW d \in Conn, s'[d].profileid = p, Logging(s'[d])
        PROVE  FALSE
    <3>1. d # c /\ s'[d] = s[d] /\ Plays(d, p)
      BY <1>1, <1>2, <2>1
    <3>2. s[d].pc \in {"pending", "next"}
      BY <2>1, <3>1 DEF EachSound, Sound, LoggingOK
    <3> QED  BY <1>1, <1>6, <3>1, <3>2, OthersWait
  <2> QED  BY <2>1, ViewsAfter
<1>12. IsToldRight(c, p)'
  <2>1. ASSUME NEW d \in Conn, Tells(d, q, p)'
        PROVE  TellsLast(Held(s'[d]), s'[c].profileid, p, s'[d].status)
    <3>1. d # c /\ Tells(d, q, p) /\ Plays(d, p) /\ s'[d] = s[d] /\ s[d] \in State
      BY <1>1, <1>2, <1>9, <2>1, LocalFacts
    <3>2. PICK y \in Statuses : TellsThat(s[d], q, p, y)
      BY <3>1 DEF Tells
    <3>3. \E z \in Statuses : LearnsThat(s[d], q, z)
      BY <1>2, <3>2, TellerPlays
    <3>4. s[d].pc = "unsession"
      BY <1>1, <1>2, <1>6, <3>1, <3>3, LearnersWait
    <3>5. \A z \in Statuses : TellsThat(s[d], q, p, z) => z = s[d].status
      BY <1>2, <3>4, TellerPlays DEF Ending
    <3>6. TellsThat(s[d], q, p, s[d].status)
      BY <3>2, <3>5
    <3>7. s[d].status \in Statuses
      BY <3>1 DEF State
    <3>8. TellsLast(Held(s[d]), q, p, s[d].status)
      BY <3>1, <3>5, <3>6, <3>7, AllTold
    <3> QED  BY <1>1, <3>1, <3>8
  <2> QED  BY <2>1, ViewsAfter
<1>13. Logging(st) /\ ~Learns(c, p)' => ~Active(p)
  <2> SUFFICES ASSUME Logging(st), Active(p)
               PROVE  Learns(c, p)'
    OBVIOUS
  <2>1. targets = s[c].buddies
    BY <1>3, <1>4, <1>5
  <2>2. p \in Present(c, targets)
    BY <1>2, <2>1 DEF Present
  <2>3. StatusOf(p, c, st.status) \in Statuses
    BY <1>1, <2>2, StatusOfType
  <2>4. LearnsThat(st, p, StatusOf(p, c, st.status))
    BY <1>4, <2>2, <2>3
  <2> QED  BY <1>1, <2>3, <2>4, TellsAfter
<1>14. Here(c) /\ ~Logging(st) /\ ~Learns(c, p)' /\ (\A d \in Conn : ~Tells(d, q, p)')
          => Shows(c, p)'
  <2> SUFFICES ASSUME Here(c), ~Logging(st), ~Learns(c, p)', \A d \in Conn : ~Tells(d, q, p)'
               PROVE  Shows(c, p)'
    OBVIOUS
  <2>1. ~Learns(c, p) /\ \A d \in Conn : ~Tells(d, q, p)
    BY <1>2, <1>9
  <2>2. Shows(c, p)
    BY <1>5, <2>1 DEF Views, ShowsRight
  <2> QED  BY <1>1, <1>7, <2>2, ShowsNow
<1>15. ShowsRight(c, p)'
  BY <1>1, <1>7, <1>9, <1>13, <1>14, ViewsAfter
<1> QED  BY <1>10, <1>11, <1>12, <1>15 DEF Views

\* Somebody looks who has not the profile.
LEMMA StrangerLooks ==
    ASSUME LocalInv, LiveOK, EachSound, NEW e \in Conn, NEW st, Step(e, st), Looks(e, st),
           NEW c \in Conn, e # c, NEW p \in Profiles, s[e].profileid # p,
           Clear(c, p), Views(c, p)
    PROVE  Views(c, p)'
<1> DEFINE q == s[c].profileid
<1>1. /\ s'[e] = st /\ (\A d \in Conn : d # e => s'[d] = s[d]) /\ k' = k /\ pid_map' = pid_map
  <2>1. Shape(e, st) /\ TypesOK
    BY DEF Step, LocalInv
  <2> QED  BY <2>1, StepFrame DEF Shape
<1>2. s'[c] = s[c] /\ q \in Profiles /\ q # p
  BY <1>1, ClearFacts, Zenon
<1>3. PICK more \in Seq(Effect), targets \in SUBSET s[e].buddies :
         /\ Held(st) = Held(s[e]) \o more
         /\ Relayed(e, st, targets, more) /\ LooksFrom(e, st, more)
  BY DEF Looks
<1>4. \A y \in Statuses : TellsThat(st, q, p, y) => TellsThat(s[e], q, p, y)
  BY <1>2, <1>3, LooksMore
<1>5. ~Holds(s[e], Delete(p)) \/ s[e].profileid # NoProfile
  <2>1. \/ s[e].pc \in {"insert", "lost"} \/ (s[e].pc = "next" /\ s[e].todo \notin {<<>>, Login})
    BY <1>3 DEF LooksFrom
  <2> QED  BY <2>1, LooksFields DEF EachSound
<1>6. pid_map[p] # e
  BY <1>5, RegisteredPlays
<1>7. \A y \in Statuses : ~TellsThat(s[e], q, p, y)
  BY <1>2, <1>5, TellerPlays
<1>8. st.profileid # p
  <2>1. p # NoProfile
    BY BoundAssumption DEF Profiles, NoProfile
  <2> QED  BY <1>3, <2>1 DEF LooksFrom
<1>9. /\ Active(p)' <=> Active(p)
      /\ Now(p)' = Now(p)
  <2>1. Active(p) => pid_map[p] \in Conn
    BY DEF Active, LocalInv, TypesOK
  <2> QED  BY <1>1, <1>6, <2>1 DEF Active, Now
<1>10. /\ Here(c)' <=> Here(c)
       /\ Learns(c, p)' <=> Learns(c, p)
       /\ \A d \in Conn : Tells(d, q, p)' <=> Tells(d, q, p)
       /\ \A d \in Conn : Tells(d, q, p) => d # e
  <2>1. Here(c)' <=> Here(c)
    BY <1>1, <1>2, TellsAfter DEF Here
  <2>2. Learns(c, p)' <=> Learns(c, p)
    BY <1>2, TellsAfter DEF Learns
  <2>3. \A d \in Conn : Tells(d, q, p)' <=> Tells(d, q, p)
    BY <1>1, <1>2, <1>4, <1>7, TellsAfter DEF Tells
  <2>4. \A d \in Conn : Tells(d, q, p) => d # e
    BY <1>7 DEF Tells
  <2> QED  BY <2>1, <2>2, <2>3, <2>4
<1>11. LearnsRight(c, p)'
  BY <1>2, <1>9, TellsAfter DEF Views, LearnsRight
<1>12. MeetsNewcomers(c, p)'
  <2>1. ASSUME NEW d \in Conn, s'[d].profileid = p, Logging(s'[d])
        PROVE  /\ ~Logging(s'[c]) /\ ~Learns(c, p)'
               /\ Here(c)' => Tells(d, q, p)'
    <3>1. d # e /\ s'[d] = s[d]
      BY <1>1, <1>8, <2>1
    <3>2. ~Logging(s[c]) /\ ~Learns(c, p) /\ (Here(c) => Tells(d, q, p))
      BY <2>1, <3>1 DEF Views, MeetsNewcomers
    <3> QED  BY <1>2, <1>10, <3>2
  <2> QED  BY <2>1, ViewsAfter
<1>13. IsToldRight(c, p)'
  <2>1. ASSUME NEW d \in Conn, Logging(s'[c]) \/ Here(c)', Tells(d, q, p)'
        PROVE  TellsLast(Held(s'[d]), s'[c].profileid, p, s'[d].status)
    <3>1. (Logging(s[c]) \/ Here(c)) /\ Tells(d, q, p) /\ s'[d] = s[d]
      BY <1>1, <1>2, <1>10, <2>1
    <3>2. TellsLast(Held(s[d]), q, p, s[d].status)
      BY <3>1 DEF Views, IsToldRight
    <3> QED  BY <1>2, <3>1, <3>2
  <2> QED  BY <2>1, ViewsAfter
<1>14. Shows(c, p) => Shows(c, p)'
  BY <1>1, <1>9, ShowsNow
<1>15. ShowsRight(c, p)'
  BY <1>2, <1>9, <1>10, <1>14, ViewsAfter DEF Views, ShowsRight
<1> QED  BY <1>11, <1>12, <1>13, <1>15 DEF Views

\* One who has the profile looks.
LEMMA FriendLooks ==
    ASSUME LocalInv, BuddiesOK, LiveOK, EachSound, Grows,
           NEW e \in Conn, NEW st, Step(e, st), Looks(e, st),
           NEW c \in Conn, e # c, NEW p \in Profiles, s[e].profileid = p,
           Clear(c, p)', Clear(c, p), Views(c, p)
    PROVE  Views(c, p)'
<1> DEFINE q == s[c].profileid
<1>1. /\ s'[e] = st /\ (\A d \in Conn : d # e => s'[d] = s[d]) /\ k' = k /\ pid_map' = pid_map
      /\ st \in State /\ loop \in {NoConn, e} /\ Open(e)
  <2>1. Shape(e, st) /\ TypesOK
    BY DEF Step, LocalInv
  <2> QED  BY <2>1, StepFrame DEF Shape
<1>2. /\ q \in Profiles /\ q # p /\ <<p, q>> \in buddies /\ Plays(e, p)
      /\ e \notin overlap /\ Game[e] = Game[c] /\ k[c].phase # "gone"
  <2>1. /\ q \in Profiles /\ q # p /\ <<p, q>> \in buddies /\ k[c].phase # "gone"
    BY ClearFacts
  <2>2. \A d \in Conn : Plays(d, p) =>
            d \notin overlap /\ <<c, d>> \notin raced /\ Game[d] = Game[c]
    BY ClearFacts
  <2>3. Plays(e, p)
    BY BoundAssumption DEF LocalInv, PlaysOK, Profiles, NoProfile
  <2> QED  BY <2>1, <2>2, <2>3
<1>3. PICK more \in Seq(Effect), targets \in SUBSET s[e].buddies :
         /\ Held(st) = Held(s[e]) \o more
         /\ Relayed(e, st, targets, more) /\ LooksFrom(e, st, more)
         /\ targets = s[e].buddies \/ (s[e].pc = "next" /\ st.status = s[e].status)
  BY DEF Looks
<1>4. /\ \A y \in Statuses : TellsThat(st, q, p, y) <=>
            TellsThat(s[e], q, p, y) \/ (q \in Present(e, targets) /\ y = st.status)
      /\ Logging(st) <=> Logging(s[e]) \/ s[e].pc = "insert"
  BY <1>2, <1>3, LooksMore
<1>5. ~Logging(s[e])
  <2>1. Sound(s[e], k[e].phase)
    BY DEF EachSound
  <2>2. \/ s[e].pc \in {"insert", "lost"} \/ (s[e].pc = "next" /\ s[e].todo \notin {<<>>, Login})
    BY <1>3 DEF LooksFrom
  <2> QED  BY <2>1, <2>2, LooksFields DEF Sound, LoggingOK, Logging
<1>6. q \in s[e].buddies
  <2>1. s[e].pc \in {"insert", "lost", "next"}
    BY <1>3 DEF LooksFrom
  <2>2. p # NoProfile
    BY BoundAssumption DEF Profiles, NoProfile
  <2>3. s[e].buddies = BuddyList(p)
    BY <1>1, <1>2, <2>1, <2>2 DEF BuddiesOK
  <2>4. <<p, q>>[1] = p /\ <<p, q>>[2] = q
    OBVIOUS
  <2> QED  BY <1>2, <2>3, <2>4 DEF BuddyList
<1>7. Here(c) => (q \in Present(e, targets) <=> q \in targets)
  <2>1. Here(c) => Active(q) /\ Game[pid_map[q]] = Game[e]
    BY <1>2, ConnAssumption DEF Here, Active
  <2> QED  BY <2>1 DEF Present
<1>8. s[c].pc # "pending" /\ ~Looking(c, p)
  BY <1>2, CrossedNot DEF Looks
<1>9. s'[c] = s[c] /\ ~Logging(s[c])
  <2>1. s'[c] = s[c]
    BY <1>1
  <2>2. s[c].pc \notin {"pending", "next"}
    BY <1>1, <1>8, OthersWait
  <2> QED  BY <2>1, <2>2 DEF EachSound, Sound, LoggingOK
<1>10. ~Learns(c, p)
  <2> SUFFICES ASSUME NEW y \in Statuses, LearnsThat(s[c], p, y)
               PROVE  FALSE
    BY DEF Learns
  <2> QED  BY <1>1, <1>2, <1>8, LearnersWait
<1>11. ~Learns(c, p)' /\ (Here(c)' <=> Here(c))
       /\ \A d \in Conn : d # e => (Tells(d, q, p)' <=> Tells(d, q, p))
  <2>1. Here(c)' <=> Here(c)
    BY <1>1, <1>9, TellsAfter DEF Here
  <2>2. ~Learns(c, p)'
    BY <1>9, <1>10, TellsAfter DEF Learns
  <2>3. \A d \in Conn : d # e => (Tells(d, q, p)' <=> Tells(d, q, p))
    BY <1>1, <1>9, TellsAfter DEF Tells
  <2> QED  BY <2>1, <2>2, <2>3
<1>12. Tells(e, q, p)' <=> \E y \in Statuses : TellsThat(st, q, p, y)
  BY <1>1, <1>9, TellsAfter
<1>13. q \in Present(e, targets) => Tells(e, q, p)' /\ TellsThat(st, q, p, st.status)
  <2>1. st.status \in Statuses
    BY <1>1 DEF State
  <2> QED  BY <1>4, <1>12, <2>1
<1>14. LearnsRight(c, p)'
  BY <1>11, TellsAfter
<1>15. MeetsNewcomers(c, p)'
  <2>1. ASSUME NEW d \in Conn, s'[d].profileid = p, Logging(s'[d]), Here(c)
        PROVE  Tells(d, q, p)'
    <3>1. CASE d = e
      <4>1. targets = s[e].buddies
        BY <1>1, <1>3, <1>4, <1>5, <2>1, <3>1
      <4> QED  BY <1>6, <1>7, <1>13, <2>1, <3>1, <4>1
    <3>2. CASE d # e
      <4>1. Tells(d, q, p)
        BY <1>1, <2>1, <3>2 DEF Views, MeetsNewcomers
      <4> QED  BY <1>11, <3>2, <4>1
    <3> QED  BY <3>1, <3>2
  <2> QED  BY <1>9, <1>11, <2>1, ViewsAfter
<1>16. Here(c) /\ q \notin Present(e, targets) => s[e].pc = "next" /\ st.status = s[e].status
  BY <1>3, <1>6, <1>7
<1>17. IsToldRight(c, p)'
  <2>1. ASSUME NEW d \in Conn, Here(c), Tells(d, q, p)'
        PROVE  TellsLast(Held(s'[d]), q, p, s'[d].status)
    <3>1. CASE d # e
      <4>1. Tells(d, q, p) /\ s'[d] = s[d]
        BY <1>1, <1>11, <2>1, <3>1
      <4> QED  BY <2>1, <4>1 DEF Views, IsToldRight
    <3>2. CASE d = e /\ q \in Present(e, targets)
      <4>1. \A y \in Statuses : Route(q, Relay(p, y)) \in Range(more) <=> y = st.status
        BY <1>2, <1>3, <3>2 DEF Relayed
      <4>2. st.status \in Statuses /\ s[e] \in State
        BY <1>1, LocalFacts DEF State
      <4>3. TellsLast(Held(st), q, p, st.status)
        BY <1>3, <4>1, <4>2, LastComes
      <4> QED  BY <1>1, <3>2, <4>3
    <3>3. CASE d = e /\ q \notin Present(e, targets)
      <4>1. Tells(e, q, p)
        BY <1>4, <1>12, <2>1, <3>3 DEF Tells
      <4>2. TellsLast(Held(s[e]), q, p, s[e].status)
        BY <2>1, <4>1 DEF Views, IsToldRight
      <4>3. \A y \in Statuses : Route(q, Relay(p, y)) \notin Range(more)
        BY <1>2, <1>3, <3>3 DEF Relayed
      <4>4. s[e] \in State
        BY LocalFacts
      <4>5. TellsLast(Held(st), q, p, s[e].status)
        BY <1>3, <4>2, <4>3, <4>4, LastStays
      <4> QED  BY <1>1, <1>16, <2>1, <3>3, <4>5
    <3> QED  BY <3>1, <3>2, <3>3
  <2> QED  BY <1>9, <1>11, <2>1, ViewsAfter
<1>18. Here(c) /\ (\A d \in Conn : ~Tells(d, q, p)') => Shows(c, p)'
  <2> SUFFICES ASSUME Here(c), \A d \in Conn : ~Tells(d, q, p)'
               PROVE  Shows(c, p)'
    OBVIOUS
  <2>1. q \notin Present(e, targets)
    BY <1>13
  <2>2. st.status = s[e].status
    BY <1>16, <2>1
  <2>3. \A d \in Conn : ~Tells(d, q, p)
    BY <1>4, <1>11, <1>12 DEF Tells
  <2>4. Shows(c, p)
    BY <1>9, <1>10, <2>3 DEF Views, ShowsRight
  <2>5. (Active(p)' <=> Active(p)) /\ Now(p)' = Now(p)
    <3>1. Active(p) => pid_map[p] \in Conn
      BY DEF Active, LocalInv, TypesOK
    <3> QED  BY <1>1, <2>2, <3>1 DEF Active, Now
  <2> QED  BY <1>1, <2>4, <2>5, ShowsNow
<1>19. ShowsRight(c, p)'
  BY <1>9, <1>11, <1>18, ViewsAfter
<1> QED  BY <1>14, <1>15, <1>17, <1>19 DEF Views

(***************************************************************************)
(* Steps where effects take place.                                         *)
(***************************************************************************)
LEMMA TakesMore ==
    ASSUME LocalInv, EachSound, NEW e \in Conn, NEW label \in {"read", "closed"}, Takes(e, label)
    PROVE  /\ TypesOK /\ Listed(e) /\ k' = Outcome(e).k /\ Open(e) /\ s[e] \in State
           /\ s[e].pc \in {"next", "bye"} /\ s[e].pc \notin Joining
           /\ label = "read" <=> s[e].pc = "next"
           /\ s'[e].pc = label /\ s'[e].profileid = s[e].profileid
           /\ \A d \in Conn : d # e => s'[d] = s[d]
           /\ \A d \in Conn : s'[d].status = s[d].status
           /\ \A x : x \in Range(s[e].eff) <=> Holds(s[e], x)
           /\ \A x : ~Holds(s'[e], x)
           /\ s[e].eff \in Seq(Effect) /\ Held(s[e]) = s[e].eff
           /\ overlap' = overlap /\ buddies' = buddies
<1>1. /\ s[e] \in State /\ Fits(e, s[e], k[e].phase, k[e].said, k[e].chunk)
      /\ (\A d \in Conn : d # e => s'[d] = s[d]) /\ Open(e) /\ Listed(e)
      /\ s'[e].pc = label /\ s'[e].profileid = s[e].profileid
      /\ UNCHANGED <<overlap, buddies>>
  BY LocalFacts, TakesFields, TakesLists
<1>2. TypesOK /\ k' = Outcome(e).k
  BY DEF LocalInv, Takes, ProcessEffects
<1>3. /\ s[e].pc \in {"next", "bye"} /\ s[e].pc \notin Joining
      /\ label = "read" <=> s[e].pc = "next"
  BY DEF Takes, Joining
<1>4. s[e].cur = <<>>
  BY <1>1, <1>3 DEF Fits, FlowOK
<1>5. s[e].eff \in Seq(Effect) /\ Held(s[e]) = s[e].eff
  BY <1>1, <1>4, HeldFacts DEF State
<1>6. \A x : ~Holds(s'[e], x)
  BY TakesSound DEF EachSound
<1>7. s'[e].status = s[e].status
  BY <1>1 DEF Takes, LocalInv, TypesOK, State
<1>8. \A d \in Conn : s'[d].status = s[d].status
  BY <1>1, <1>7
<1> QED  BY <1>1, <1>2, <1>3, <1>5, <1>6, <1>8 DEF Holds

\* Its own.
LEMMA TakesOwnViews ==
    ASSUME LocalInv, LiveOK, LiveOK', EachSound, FreshOK, HereOK,
           NEW c \in Conn, NEW label \in {"read", "closed"}, Takes(c, label),
           NEW p \in Profiles, Clear(c, p), Views(c, p)
    PROVE  Views(c, p)'
<1> DEFINE q == s[c].profileid
<1>1. /\ TypesOK /\ Listed(c) /\ k' = Outcome(c).k /\ Open(c)
      /\ s[c].pc \in {"next", "bye"} /\ s[c].pc \notin Joining
      /\ s'[c].pc = label /\ s'[c].profileid = q
      /\ \A d \in Conn : d # c => s'[d] = s[d]
      /\ \A d \in Conn : s'[d].status = s[d].status
      /\ \A x : x \in Range(s[c].eff) <=> Holds(s[c], x)
      /\ \A x : ~Holds(s'[c], x)
  BY TakesMore
<1>2. /\ q \in Profiles /\ q # NoProfile /\ q # p /\ c \notin overlap /\ pid_map[p] # c
      /\ Active(p) => pid_map[p] \in Conn
      /\ k[c].phase # "gone"
  BY ClearFacts
<1>3. \A d \in Conn : s[d].profileid = p => d # c
  BY <1>2
<1>4. \A x \in Profiles, y \in Statuses : ~TellsThat(s[c], x, p, y)
  BY <1>2, TellerPlays
<1>5. /\ ~Logging(s'[c]) /\ ~Learns(c, p)' /\ ~Tells(c, q, p)'
      /\ Here(c)' <=> pid_map'[q] = c
      /\ \A d \in Conn : d # c => (Tells(d, q, p)' <=> Tells(d, q, p))
  <2>1. ~Logging(s'[c])
    BY <1>1 DEF Logging
  <2>2. ~Learns(c, p)'
    BY <1>1, TellsAfter DEF LearnsThat
  <2>3. ~Tells(c, q, p)'
    BY <1>1, TellsAfter DEF TellsThat
  <2>4. Here(c)' <=> pid_map'[q] = c
    BY <1>1, TellsAfter
  <2>5. \A d \in Conn : d # c => (Tells(d, q, p)' <=> Tells(d, q, p))
    BY <1>1, TellsAfter DEF Tells
  <2> QED  BY <2>1, <2>2, <2>3, <2>4, <2>5
<1>6. CASE label = "closed"
  <2>1. s'[c].pc = "closed"
    BY <1>1, <1>6
  <2>2. pid_map'[q] # c
    BY <1>2, <2>1 DEF LiveOK, Open
  <2> QED  BY <1>5, <2>2, NothingToShow
<1>7. CASE label = "read"
  <2>1. Logging(s[c]) \/ Here(c)
    BY <1>1, <1>2 DEF HereOK, Here
  <2>2. pid_map'[p] = pid_map[p]
    <3>1. Register(p) \notin Range(s[c].eff) /\ Delete(p) \notin Range(s[c].eff)
      BY <1>1, <1>2 DEF EachSound, Sound, MovesOK
    <3> QED  BY <1>1, <3>1 DEF Listed
  <2>3. (Active(p)' <=> Active(p)) /\ Now(p)' = Now(p)
    BY <1>1, <1>2, <2>2 DEF Active, Now
  <2>4. LearnsRight(c, p)'
    BY <1>5, TellsAfter
  <2>5. MeetsNewcomers(c, p)'
    <3>1. ASSUME NEW d \in Conn, s'[d].profileid = p, Logging(s'[d])
          PROVE  Tells(d, q, p)'
      <4>1. d # c /\ s'[d] = s[d]
        BY <1>1, <1>2, <3>1
      <4>2. ~Logging(s[c]) /\ (Here(c) => Tells(d, q, p))
        BY <3>1, <4>1 DEF Views, MeetsNewcomers
      <4> QED  BY <1>5, <2>1, <4>1, <4>2
    <3> QED  BY <1>5, <3>1, ViewsAfter
  <2>6. IsToldRight(c, p)'
    <3>1. ASSUME NEW d \in Conn, Tells(d, q, p)'
          PROVE  TellsLast(Held(s'[d]), q, p, s'[d].status)
      <4>1. d # c /\ s'[d] = s[d] /\ Tells(d, q, p)
        BY <1>1, <1>5, <3>1
      <4> QED  BY <2>1, <4>1 DEF Views, IsToldRight
    <3> QED  BY <1>1, <3>1, ViewsAfter
  <2>7. (\A d \in Conn : ~Tells(d, q, p)') => Shows(c, p)'
    <3> SUFFICES ASSUME \A d \in Conn : ~Tells(d, q, p)'
                 PROVE  Shows(c, p)'
      OBVIOUS
    <3>1. \A d \in Conn : ~Tells(d, q, p)
      BY <1>2, <1>4, <1>5 DEF Tells
    <3>2. CASE Learns(c, p)
      <4>1. PICK y \in Statuses : LearnsThat(s[c], p, y)
        BY <3>2 DEF Learns
      <4>2. y = Now(p) /\ \A z \in Statuses : LearnsThat(s[c], p, z) => z = y
        BY <4>1 DEF Views, LearnsRight
      <4>3. \A x : x \in Range(s[c].eff) <=> \E i \in DOMAIN s[c].eff : s[c].eff[i] = x
        BY DEF Range
      <4>4. PICK j \in DOMAIN s[c].eff : s[c].eff[j] = Response(Relay(p, y))
        BY <1>1, <4>1, <4>3 DEF LearnsThat
      <4>5. \A i \in DOMAIN s[c].eff, z \in Statuses :
                s[c].eff[i] = Response(Relay(p, z)) => z = y
        BY <1>1, <4>2, <4>3 DEF LearnsThat
      <4>6. \A i \in DOMAIN s[c].eff, z \in Statuses : \A x \in Profiles :
                s[c].eff[i] # Route(x, Relay(p, z))
        BY <1>1, <1>4, <4>3 DEF TellsThat
      <4>7. Outcome(c).k[c].seen[p] = y
        BY <1>1, <1>2, <4>4, <4>5, <4>6, OutcomeLast
      <4> QED  BY <1>1, <2>3, <4>2, <4>7, ShowsNow
    <3>3. CASE ~Learns(c, p)
      <4>1. \A y \in Statuses : Response(Relay(p, y)) \notin Range(s[c].eff)
        BY <1>1, <3>3 DEF Learns, LearnsThat
      <4>2. \A x \in Profiles, y \in Statuses : Route(x, Relay(p, y)) \notin Range(s[c].eff)
        BY <1>1, <1>4 DEF TellsThat
      <4>3. k'[c].seen[p] = k[c].seen[p]
        BY <1>1, <4>1, <4>2, OutcomeSame
      <4>4. Logging(s[c]) => ~Active(p) /\ k[c].seen[p] = Unseen
        BY <3>3 DEF Views, ShowsRight, FreshOK
      <4>5. ~Logging(s[c]) => Shows(c, p)
        BY <2>1, <3>1, <3>3 DEF Views, ShowsRight
      <4> QED  BY <2>3, <4>3, <4>4, <4>5, ShowsNow
    <3> QED  BY <3>2, <3>3
  <2>8. ShowsRight(c, p)'
    BY <1>5, <2>7, ViewsAfter
  <2> QED  BY <2>4, <2>5, <2>6, <2>8 DEF Views
<1> QED  BY <1>6, <1>7

\* Nobody but e can be registered for what it has, if it does not overlap.
LEMMA OnlyIt ==
    ASSUME LocalInv, OverlapOK, LiveOK, EachSound, NEW e \in Conn, Open(e), e \notin overlap,
           NEW p \in Profiles, Plays(e, p), Active(p)
    PROVE  pid_map[p] = e
<1>1. pid_map[p] \in Conn
  BY DEF Active, LocalInv, TypesOK
<1>2. Plays(pid_map[p], p) /\ Open(pid_map[p])
  BY <1>1, RegisteredPlays
<1> QED  BY <1>1, <1>2, OneUser DEF LocalInv

\* What the console of c is told when effects of e take place.
LEMMA FriendTells ==
    ASSUME LocalInv, LiveOK, OverlapOK, EachSound,
           NEW e \in Conn, NEW label \in {"read", "closed"}, Takes(e, label),
           NEW c \in Conn, e # c, Open(c), Here(c),
           NEW p \in Profiles, Clear(c, p), Views(c, p)
    PROVE  /\ Tells(e, s[c].profileid, p) => k'[c].seen[p] = s[e].status
           /\ ~Tells(e, s[c].profileid, p) => k'[c].seen[p] = k[c].seen[p]
<1> DEFINE q == s[c].profileid
<1>1. /\ TypesOK /\ k' = Outcome(e).k /\ Open(e) /\ s[e] \in State
      /\ \A x : x \in Range(s[e].eff) <=> Holds(s[e], x)
      /\ Held(s[e]) = s[e].eff
  BY TakesMore
<1>2. /\ q \in Profiles /\ c \notin overlap /\ Plays(c, q) /\ k[c].phase # "gone"
      /\ \A x \in Profiles : pid_map[x] = c => x = q
  BY ClearFacts
<1>3. pid_map[q] = c
  BY DEF Here
<1>4. Register(q) \notin Range(s[e].eff) /\ Delete(q) \notin Range(s[e].eff)
  BY <1>1, <1>2, MovesAlone
<1>5. ASSUME Tells(e, q, p)
      PROVE  k'[c].seen[p] = s[e].status
  <2>1. TellsLast(s[e].eff, q, p, s[e].status)
    BY <1>1, <1>5 DEF Views, IsToldRight
  <2>2. PICK j \in DOMAIN s[e].eff :
           /\ s[e].eff[j] = Route(q, Relay(p, s[e].status))
           /\ \A i \in DOMAIN s[e].eff, z \in Statuses :
                 i > j /\ s[e].eff[i] = Route(q, Relay(p, z)) => z = s[e].status
    BY <2>1 DEF TellsLast
  <2>3. s[e].status \in Statuses
    BY <1>1 DEF State
  <2>4. \A i \in DOMAIN s[e].eff, z \in Statuses : i > j => \A x \in Profiles :
            s[e].eff[i] = Route(x, Relay(p, z)) => z = s[e].status \/ pid_map[x] # c
    BY <1>2, <2>2
  <2>5. Outcome(e).k[c].seen[p] = s[e].status
    BY <1>1, <1>2, <1>3, <1>4, <2>2, <2>3, <2>4, OutcomeLast
  <2> QED  BY <1>1, <2>5
<1>6. ASSUME ~Tells(e, q, p)
      PROVE  k'[c].seen[p] = k[c].seen[p]
  <2>1. \A x \in Profiles, y \in Statuses :
            Route(x, Relay(p, y)) \in Range(s[e].eff) => pid_map[x] # c
    BY <1>1, <1>2, <1>6 DEF Tells, TellsThat
  <2>2. Outcome(e).k[c].seen[p] = k[c].seen[p]
    BY <1>1, <2>1, OutcomeSame
  <2> QED  BY <1>1, <2>2
<1> QED  BY <1>5, <1>6

\* If nobody logs in for p, what it is stays, and whoever tells it is p.
LEMMA StaysNow ==
    ASSUME LocalInv, LiveOK, OverlapOK, EachSound, HereOK,
           NEW e \in Conn, NEW label \in {"read", "closed"}, Takes(e, label),
           NEW c \in Conn, NEW p \in Profiles, Clear(c, p),
           ~(Logging(s[e]) /\ s[e].profileid = p)
    PROVE  /\ Now(p)' = Now(p)
           /\ Active(p)' => Active(p)
           /\ Tells(e, s[c].profileid, p) => s[e].status = Now(p)
<1>1. /\ Listed(e) /\ Open(e) /\ s[e].pc \notin Joining
      /\ \A d \in Conn : s'[d].status = s[d].status
      /\ \A x : x \in Range(s[e].eff) <=> Holds(s[e], x)
  BY TakesMore
<1>2. Sound(s[e], k[e].phase)
  BY DEF EachSound
<1>3. \A d \in Conn : Plays(d, p) => d \notin overlap
  BY ClearFacts
<1>4. Active(p) => pid_map[p] \in Conn
  BY ClearFacts
<1>5. Holds(s[e], Delete(p)) => /\ s[e].status = "0" /\ Plays(e, p)
                                /\ Active(p) => pid_map[p] = e
  <2> SUFFICES ASSUME Holds(s[e], Delete(p))
               PROVE  /\ s[e].status = "0" /\ Plays(e, p)
                      /\ Active(p) => pid_map[p] = e
    OBVIOUS
  <2>1. ~Logging(s[e])
    BY <1>2 DEF Sound, MovesOK, LoggingOK
  <2>2. s[e].status = "0"
    BY <1>1, <1>2, <2>1 DEF Sound, MovesOK
  <2>3. Plays(e, p)
    <3>1. Moves(Delete(p)) /\ Delete(p).pid = p
      BY DEF Moves, Delete
    <3>2. Delete(p) \in Range(s[e].eff)
      BY <1>1
    <3> QED  BY <3>1, <3>2 DEF LocalInv, PlaysOK
  <2>4. Active(p) => pid_map[p] = e
    BY <1>1, <1>3, <2>3, OnlyIt
  <2> QED  BY <2>2, <2>3, <2>4
<1>6. ~Holds(s[e], Register(p))
  <2>1. Holds(s[e], Register(p)) => Logging(s[e])
    BY <1>1, <1>2 DEF Sound, MovesOK
  <2> QED  BY <1>2, <2>1 DEF Sound, MovesOK, LoggingOK
<1>7. \/ pid_map'[p] = pid_map[p]
      \/ pid_map'[p] = NoConn /\ Holds(s[e], Delete(p))
  BY <1>1, <1>6 DEF Listed
<1>8. Now(p)' = Now(p) /\ (Active(p)' => Active(p))
  <2>1. CASE pid_map'[p] = pid_map[p]
    BY <1>1, <1>4, <2>1 DEF Active, Now
  <2>2. CASE pid_map'[p] = NoConn /\ Holds(s[e], Delete(p))
    <3>1. ~Active(p)' /\ Now(p)' = "0"
      BY <2>2 DEF Active, Now
    <3>2. Active(p) => s[pid_map[p]].status = "0"
      BY <1>5, <2>2
    <3>3. Now(p) = "0"
      BY <3>2 DEF Now
    <3> QED  BY <3>1, <3>3
  <2> QED  BY <1>7, <2>1, <2>2
<1>9. ASSUME Tells(e, s[c].profileid, p)
      PROVE  s[e].status = Now(p)
  <2>1. \/ s[e].profileid = p
        \/ s[e].profileid = NoProfile /\ Holds(s[e], Delete(p))
    BY <1>9, ClearFacts, Zenon
  <2>2. CASE s[e].profileid = p
    <3>1. p # NoProfile
      BY BoundAssumption DEF Profiles, NoProfile
    <3>2. Plays(e, p)
      BY <2>2, <3>1 DEF LocalInv, PlaysOK
    <3>3. pid_map[p] = e
      BY <1>1, <1>3, <2>2, <3>1, <3>2 DEF HereOK
    <3> QED  BY <3>3, ConnAssumption DEF Now, Active
  <2>3. CASE Holds(s[e], Delete(p))
    <3>1. s[e].status = "0" /\ (Active(p) => s[pid_map[p]].status = "0")
      BY <1>5, <2>3
    <3> QED  BY <3>1 DEF Now
  <2> QED  BY <2>1, <2>2, <2>3
<1> QED  BY <1>8, <1>9

\* Somebody logs in for p, and c is told.
LEMMA FriendComes ==
    ASSUME LocalInv, LiveOK, OverlapOK, EachSound,
           NEW e \in Conn, NEW label \in {"read", "closed"}, Takes(e, label),
           NEW c \in Conn, e # c, Open(c), NEW p \in Profiles, Clear(c, p), Views(c, p),
           Logging(s[e]), s[e].profileid = p
    PROVE  /\ ~Logging(s[c]) /\ ~Learns(c, p)
           /\ Here(c) => Shows(c, p)'
<1>1. /\ Listed(e) /\ s[e] \in State /\ Fits(e, s[e], k[e].phase, k[e].said, k[e].chunk)
      /\ \A d \in Conn : s'[d].status = s[d].status
      /\ \A x : x \in Range(s[e].eff) <=> Holds(s[e], x)
  BY TakesMore, LocalFacts
<1>2. ~Logging(s[c]) /\ ~Learns(c, p) /\ (Here(c) => Tells(e, s[c].profileid, p))
  BY DEF Views, MeetsNewcomers
<1>3. JoinsLast(s[e].eff, p)
  BY <1>1 DEF Logging, Fits, EffectsOK
<1>4. pid_map'[p] = e
  BY <1>1, <1>3 DEF Listed
<1>5. Now(p)' = s[e].status
  BY <1>1, <1>4, ConnAssumption DEF Now, Active
<1>6. Here(c) => Shows(c, p)'
  BY <1>2, <1>5, FriendTells, ShowsNow
<1> QED  BY <1>2, <1>6

\* Effects of another connection.
LEMMA TakesOtherViews ==
    ASSUME LocalInv, OverlapOK, LiveOK, LiveOK', EachSound, HereOK,
           NEW e \in Conn, NEW label \in {"read", "closed"}, Takes(e, label),
           NEW c \in Conn, e # c, NEW p \in Profiles, Clear(c, p), Views(c, p)
    PROVE  Views(c, p)'
<1> DEFINE q == s[c].profileid
<1>1. /\ Listed(e) /\ Open(e)
      /\ \A d \in Conn : d # e => s'[d] = s[d]
      /\ \A x : ~Holds(s'[e], x)
      /\ \A x : x \in Range(s[e].eff) <=> Holds(s[e], x)
  BY TakesMore
<1>2. s'[c] = s[c]
  BY <1>1
<1>3. /\ q \in Profiles /\ c \notin overlap /\ Plays(c, q)
  BY ClearFacts
<1>4. /\ Learns(c, p)' <=> Learns(c, p)
      /\ \A d \in Conn : d # e => (Tells(d, q, p)' <=> Tells(d, q, p))
      /\ ~Tells(e, q, p)' /\ ~Logging(s'[e])
      /\ Here(c)' <=> pid_map'[q] = c
  <2>1. Learns(c, p)' <=> Learns(c, p)
    BY <1>2, TellsAfter DEF Learns
  <2>2. \A d \in Conn : d # e => (Tells(d, q, p)' <=> Tells(d, q, p))
    BY <1>1, <1>2, TellsAfter DEF Tells
  <2>3. ~Tells(e, q, p)' /\ ~Logging(s'[e])
    BY <1>1, TellsAfter DEF TellsThat, Logging
  <2>4. Here(c)' <=> pid_map'[q] = c
    BY <1>2, TellsAfter
  <2> QED  BY <2>1, <2>2, <2>3, <2>4
<1>5. CASE ~Open(c)
  <2>1. \A x : ~Holds(s[c], x)
    BY <1>5, IdleHoldsNothing DEF Open, Idle
  <2>2. ~Logging(s'[c]) /\ ~Learns(c, p)
    BY <1>2, <2>1 DEF Logging, Learns, LearnsThat
  <2>3. pid_map'[q] # c
    BY <1>2, <1>3, <1>5 DEF LiveOK, Open
  <2> QED  BY <1>4, <2>2, <2>3, NothingToShow
<1>6. CASE Open(c)
  <2>1. Register(q) \notin Range(s[e].eff) /\ Delete(q) \notin Range(s[e].eff)
    BY <1>1, <1>3, <1>6, MovesAlone
  <2>2. Here(c)' <=> Here(c)
    <3>1. pid_map'[q] = pid_map[q]
      BY <1>1, <1>3, <2>1 DEF Listed
    <3> QED  BY <1>4, <3>1 DEF Here
  <2>3. LearnsRight(c, p)'
    <3>1. CASE Logging(s[e]) /\ s[e].profileid = p
      BY <1>4, <1>6, <3>1, FriendComes, TellsAfter
    <3>2. CASE ~(Logging(s[e]) /\ s[e].profileid = p)
      <4>1. Now(p)' = Now(p)
        BY <3>2, StaysNow
      <4> QED  BY <1>2, <4>1, TellsAfter DEF Views, LearnsRight
    <3> QED  BY <3>1, <3>2
  <2>4. MeetsNewcomers(c, p)'
    <3>1. ASSUME NEW d \in Conn, s'[d].profileid = p, Logging(s'[d])
          PROVE  /\ ~Logging(s'[c]) /\ ~Learns(c, p)'
                 /\ Here(c)' => Tells(d, q, p)'
      <4>1. d # e /\ s'[d] = s[d]
        BY <1>1, <1>4, <3>1
      <4>2. ~Logging(s[c]) /\ ~Learns(c, p) /\ (Here(c) => Tells(d, q, p))
        BY <3>1, <4>1 DEF Views, MeetsNewcomers
      <4> QED  BY <1>2, <1>4, <2>2, <4>1, <4>2
    <3> QED  BY <3>1, ViewsAfter
  <2>5. IsToldRight(c, p)'
    <3>1. ASSUME NEW d \in Conn, Logging(s'[c]) \/ Here(c)', Tells(d, q, p)'
          PROVE  TellsLast(Held(s'[d]), s'[c].profileid, p, s'[d].status)
      <4>1. d # e /\ s'[d] = s[d] /\ Tells(d, q, p) /\ (Logging(s[c]) \/ Here(c))
        BY <1>1, <1>2, <1>4, <2>2, <3>1
      <4>2. TellsLast(Held(s[d]), q, p, s[d].status)
        BY <4>1 DEF Views, IsToldRight
      <4> QED  BY <1>2, <4>1, <4>2
    <3> QED  BY <3>1, ViewsAfter
  <2>6. ASSUME Here(c), ~Logging(s[c]), ~Learns(c, p), \A d \in Conn : ~Tells(d, q, p)'
        PROVE  Shows(c, p)'
    <3>1. CASE Logging(s[e]) /\ s[e].profileid = p
      BY <1>6, <2>6, <3>1, FriendComes
    <3>2. CASE ~(Logging(s[e]) /\ s[e].profileid = p)
      <4>1. /\ Now(p)' = Now(p) /\ (Active(p)' => Active(p))
            /\ Tells(e, q, p) => s[e].status = Now(p)
        BY <3>2, StaysNow
      <4>2. CASE Tells(e, q, p)
        <5>1. k'[c].seen[p] = s[e].status
          BY <1>6, <2>6, <4>2, FriendTells
        <5> QED  BY <4>1, <4>2, <5>1, ShowsNow
      <4>3. CASE ~Tells(e, q, p)
        <5>1. k'[c].seen[p] = k[c].seen[p]
          BY <1>6, <2>6, <4>3, FriendTells
        <5>2. Shows(c, p)
          BY <1>4, <2>6, <4>3 DEF Views, ShowsRight
        <5> QED  BY <4>1, <5>1, <5>2, ShowsNow
      <4> QED  BY <4>2, <4>3
    <3> QED  BY <3>1, <3>2
  <2>7. Logging(s[c]) /\ ~Learns(c, p) => ~Active(p)'
    <3> SUFFICES ASSUME Logging(s[c]), ~Learns(c, p)
                 PROVE  ~Active(p)'
      OBVIOUS
    <3>1. ~Active(p)
      BY DEF Views, ShowsRight
    <3>2. ~(Logging(s[e]) /\ s[e].profileid = p)
      BY <1>6, FriendComes
    <3> QED  BY <3>1, <3>2, StaysNow
  <2>8. ShowsRight(c, p)'
    BY <1>2, <1>4, <2>2, <2>6, <2>7, ViewsAfter
  <2> QED  BY <2>3, <2>4, <2>5, <2>8 DEF Views
<1> QED  BY <1>5, <1>6

(***************************************************************************)
(* The invariant of views.                                                 *)
(***************************************************************************)
LEMMA KindViews ==
    ASSUME LocalInv, BuddiesOK, LiveOK, EachSound, FreshOK, ViewsOK, TypesOK',
           NEW c \in Conn, Kind(c, s'[c]), NEW st, Step(c, st)
    PROVE  ViewsOK'
<1>1. Grows /\ EachSound' /\ FreshOK' /\ s'[c] = st
  <2>1. Shape(c, st) /\ TypesOK
    BY DEF Step, LocalInv
  <2> QED  BY <2>1, StepFrame, KindGrows, KindSounds, KindFresh
<1>2. \A d \in Conn : s'[d].sesskey =>
          \/ s'[d].profileid = s[d].profileid /\ s'[d].buddies = s[d].buddies
          \/ s'[d].profileid = NoProfile
          \/ Befriends(s[d].profileid)'
  BY KindKeeps
<1>3. ASSUME NEW d \in Conn, NEW p \in Profiles, s'[d].profileid = s[d].profileid,
             Clear(d, p)', Clear(d, p), Views(d, p)
      PROVE  Views(d, p)'
  <2>1. CASE Goes(c, st) \/ Enters(c, st)
    <3>1. Unseeable
      BY <2>1, GoesUnseeable
    <3> QED  BY <1>3, <3>1, UnseeableViews
  <2>2. CASE Looks(c, st) /\ d = c
    BY <1>1, <1>3, <2>2, LooksOwnViews
  <2>3. CASE Looks(c, st) /\ d # c /\ s[c].profileid # p
    BY <1>3, <2>3, StrangerLooks
  <2>4. CASE Looks(c, st) /\ d # c /\ s[c].profileid = p
    BY <1>1, <1>3, <2>4, FriendLooks
  <2> QED  BY <1>1, <2>1, <2>2, <2>3, <2>4 DEF Kind
<1> QED  BY <1>1, <1>2, <1>3, ViewsReduce

LEMMA TakesViews ==
    ASSUME LocalInv, OverlapOK, LiveOK, LiveOK', EachSound, FreshOK, HereOK, ViewsOK, TypesOK',
           NEW c \in Conn, NEW label \in {"read", "closed"}, Takes(c, label)
    PROVE  ViewsOK'
<1>1. Grows /\ EachSound' /\ FreshOK'
  BY TakesGrows, TakesSounds, TakesFresh
<1>2. \A d \in Conn : s'[d].profileid = s[d].profileid /\ s'[d].buddies = s[d].buddies
  BY TakesFields
<1>3. ASSUME NEW d \in Conn, NEW p \in Profiles, Clear(d, p), Views(d, p)
      PROVE  Views(d, p)'
  <2>1. CASE d = c
    BY <1>3, <2>1, TakesOwnViews
  <2>2. CASE d # c
    BY <1>3, <2>2, TakesOtherViews
  <2> QED  BY <2>1, <2>2
<1> QED  BY <1>1, <1>2, <1>3, ViewsReduce

LEMMA DeedViews ==
    ASSUME LocalInv, EachSound, FreshOK, HereOK, ViewsOK, TypesOK',
           NEW c \in Conn, Deed(c), Spares(c)
    PROVE  ViewsOK'
<1>1. Grows /\ EachSound' /\ FreshOK' /\ Unseeable
  BY DeedGrows, DeedSound, DeedRegistry, DeedUnseeable
<1>2. \A d \in Conn : s'[d].profileid = s[d].profileid /\ s'[d].buddies = s[d].buddies
  BY DeedFields
<1>3. ASSUME NEW d \in Conn, NEW p \in Profiles, Views(d, p)
      PROVE  Views(d, p)'
  BY <1>1, <1>2, <1>3, UnseeableViews
<1> QED  BY <1>1, <1>2, <1>3, ViewsReduce

LEMMA StartsViews ==
    ASSUME Init
    PROVE  ViewsInv
<1>1. /\ LocalInv
      /\ \A c \in Conn : s[c].pc = "new" /\ s[c].profileid = NoProfile /\ ~s[c].sesskey
                         /\ s[c].buddies = {}
      /\ \A p \in Profiles : pid_map[p] = NoConn
      /\ \A c \in Conn, p \in Profiles : k[c].seen[p] = Unseen
  BY StartsRight DEF Init
<1>2. \A c \in Conn : \A e : ~Holds(s[c], e)
  BY <1>1, IdleHoldsNothing DEF Idle
<1>3. EachSound
  BY <1>1, <1>2 DEF EachSound, Sound, TellsOK, TellsThat, LearnsOK, LearnsThat, LoggingOK,
                    Logging, MovesOK, GoneOK, Joining, Ending
<1>4. FreshOK
  BY <1>1, ConnAssumption DEF FreshOK
<1>5. HereOK
  BY <1>1 DEF HereOK
<1>6. ViewsOK
  BY <1>1 DEF ViewsOK, Clear
<1> QED  BY <1>3, <1>4, <1>5, <1>6 DEF ViewsInv

LEMMA ViewsStutter ==
    ASSUME LocalInv, UNCHANGED vars, ViewsInv
    PROVE  ViewsInv'
<1>1. UNCHANGED <<pid_map, s, users, buddies, k, raced, overlap>>
  BY DEF vars, tables, history
<1>2. EachSound'
  BY <1>1 DEF ViewsInv, EachSound
<1>3. FreshOK' /\ HereOK'
  BY <1>1 DEF ViewsInv, FreshOK, HereOK, Open
<1>4. Unseeable
  BY <1>1 DEF Unseeable
<1>5. ASSUME NEW c \in Conn, NEW p \in Profiles, Clear(c, p)'
      PROVE  Views(c, p)'
  <2>1. Clear(c, p)
    BY <1>1, <1>5 DEF Clear, Mutual, Misled, Befriends, Plays
  <2>2. Views(c, p)
    BY <2>1 DEF ViewsInv, ViewsOK
  <2> QED  BY <1>1, <1>4, <2>2, UnseeableViews
<1>6. ViewsOK'
  BY <1>5 DEF ViewsOK
<1> QED  BY <1>2, <1>3, <1>6 DEF ViewsInv

LEMMA PreservesViews ==
    ASSUME ~folded, LocalInv, SharedInv, RaisedOK, CalmInv, ViewsInv, [Next]_vars
    PROVE  ViewsInv'
<1>1. CASE UNCHANGED vars
  BY <1>1, ViewsStutter
<1>2. CASE Next
  <2>1. LocalInv' /\ CalmInv' /\ raised = {} /\ raised' = {}
    BY Preserves, PreservesCalm, PreservesRaised DEF RaisedOK
  <2>2. TypesOK' /\ LiveOK'
    BY <2>1 DEF LocalInv, CalmInv, LiveUnlessRaised, LiveOK
  <2>3. BuddiesOK /\ OverlapOK /\ LiveOK /\ EachSound /\ FreshOK /\ HereOK /\ ViewsOK
    BY <2>1 DEF SharedInv, CalmInv, ViewsInv, LiveUnlessRaised, LiveOK
  <2>4. PICK c \in Conn : \/ Kind(c, s'[c]) /\ \E st : Step(c, st)
                          \/ \E label \in {"read", "closed"} : Takes(c, label)
                          \/ Spares(c) /\ Deed(c)
    BY <1>2, NextKinds DEF Falters
  <2>5. CASE Kind(c, s'[c]) /\ \E st : Step(c, st)
    <3>1. PICK st : Step(c, st)
      BY <2>5
    <3>2. EachSound' /\ FreshOK' /\ HereOK'
      BY <2>3, <2>5, <3>1, KindSounds, KindFresh, KindHere
    <3>3. ViewsOK'
      BY <2>2, <2>3, <2>5, <3>1, KindViews
    <3> QED  BY <3>2, <3>3 DEF ViewsInv
  <2>6. CASE \E label \in {"read", "closed"} : Takes(c, label)
    <3>1. PICK label \in {"read", "closed"} : Takes(c, label)
      BY <2>6
    <3>2. EachSound' /\ FreshOK' /\ HereOK'
      BY <2>3, <3>1, TakesSounds, TakesFresh, TakesHere
    <3>3. ViewsOK'
      BY <2>2, <2>3, <3>1, TakesViews
    <3> QED  BY <3>2, <3>3 DEF ViewsInv
  <2>7. CASE Spares(c) /\ Deed(c)
    <3>1. EachSound' /\ FreshOK' /\ HereOK'
      BY <2>3, <2>7, DeedSound, DeedRegistry
    <3>2. ViewsOK'
      BY <2>2, <2>3, <2>7, DeedViews
    <3> QED  BY <3>1, <3>2 DEF ViewsInv
  <2> QED  BY <2>4, <2>5, <2>6, <2>7
<1> QED  BY <1>1, <1>2

(***************************************************************************)
(* Where names are folded: no connection holds a status for anybody, and   *)
(* no console shows one.                                                   *)
(***************************************************************************)
Blind(st) ==
    /\ \A x, f \in Profiles, y \in Statuses : ~TellsThat(st, x, f, y)
    /\ \A f \in Profiles, y \in Statuses : ~LearnsThat(st, f, y)

BlindInv == \A c \in Conn : Blind(s[c]) /\ \A p \in Profiles : k[c].seen[p] = Unseen

\* A step collects no status: who has friends raises, and who has none tells nobody.
LEMMA FoldedCollects ==
    ASSUME LocalInv, folded, NEW c \in Conn, Blind(s[c]), Kind(c, s'[c])
    PROVE  Blind(s'[c])
<1> DEFINE st == s'[c]
<1>1. s[c] \in State
  BY LocalFacts
<1>2. \A x, f, y : ~Plain(Route(x, Relay(f, y))) /\ ~Plain(Response(Relay(f, y)))
  BY DEF Route, Response, Relay, Plain
<1>3. \A x, f, y : /\ Route(x, Relay(f, y)).m.kind = "status" /\ Response(Relay(f, y)).m.kind = "status"
                   /\ ~Moves(Route(x, Relay(f, y))) /\ ~Moves(Response(Relay(f, y)))
  BY DEF Route, Response, Relay, Moves
<1> HIDE DEF st
<1>4. CASE Goes(c, st)
  <2>1. PICK more \in Seq(Effect) :
            Held(st) = Held(s[c]) \o more /\ \A e \in Range(more) : Plain(e)
    BY <1>4 DEF Goes
  <2>2. Range(Held(st)) = Range(Held(s[c])) \cup Range(more)
    BY <1>1, <2>1, HeldMore
  <2>3. \A e : Holds(st, e) => Holds(s[c], e) \/ Plain(e)
    BY <2>1, <2>2 DEF Holds
  <2>4. ASSUME NEW f \in Profiles, NEW y \in Statuses
        PROVE  ~LearnsThat(st, f, y) /\ \A x \in Profiles : ~TellsThat(st, x, f, y)
    BY <1>2, <2>3 DEF Blind, TellsThat, LearnsThat
  <2> QED  BY <2>4 DEF Blind, st
<1>5. CASE Enters(c, st)
  <2>1. \A e : Holds(st, e) => Moves(e) \/ e.m.kind = "logout"
    BY <1>5 DEF Enters, Holds, Route, Kicked, Delete, Register, Moves
  <2>2. ASSUME NEW f \in Profiles, NEW y \in Statuses
        PROVE  ~LearnsThat(st, f, y) /\ \A x \in Profiles : ~TellsThat(st, x, f, y)
    <3>1. ~LearnsThat(st, f, y)
      BY <1>3, <2>1 DEF LearnsThat
    <3>2. \A x \in Profiles : ~TellsThat(st, x, f, y)
      BY <1>3, <2>1 DEF TellsThat
    <3> QED  BY <3>1, <3>2
  <2> QED  BY <2>2 DEF Blind, st
<1>6. CASE Looks(c, st)
  <2>1. PICK more \in Seq(Effect), targets \in SUBSET s[c].buddies :
            Held(st) = Held(s[c]) \o more /\ Relayed(c, st, targets, more)
    BY <1>6 DEF Looks
  <2>2. Present(c, targets) = {}
    BY <1>6, <2>1 DEF Looks, Raises, Present
  <2>3. Range(Held(st)) = Range(Held(s[c])) \cup Range(more)
    BY <1>1, <2>1, HeldMore
  <2>4. ASSUME NEW f \in Profiles, NEW y \in Statuses
        PROVE  ~LearnsThat(st, f, y) /\ \A x \in Profiles : ~TellsThat(st, x, f, y)
    <3>1. /\ Response(Relay(f, y)) \notin Range(more)
          /\ \A x \in Profiles : Route(x, Relay(f, y)) \notin Range(more)
      BY <2>1, <2>2 DEF Relayed
    <3> QED  BY <2>3, <3>1 DEF Blind, TellsThat, LearnsThat, Holds
  <2> QED  BY <2>4 DEF Blind, st
<1> QED  BY <1>4, <1>5, <1>6 DEF Kind, st

\* Nor does one that raises, and effects that take place show none.
LEMMA PreservesBlind ==
    ASSUME folded, LocalInv, BlindInv, [Next]_vars
    PROVE  BlindInv'
<1>1. CASE UNCHANGED vars
  <2>1. UNCHANGED <<s, k>>
    BY <1>1 DEF vars
  <2> QED  BY <2>1 DEF BlindInv
<1>2. CASE Next
  <2>1. PICK c \in Conn :
            \/ (Kind(c, s'[c]) \/ Falters(c, s'[c])) /\ \E st : Step(c, st)
            \/ \E label \in {"read", "closed"} : Takes(c, label)
            \/ Spares(c) /\ Deed(c)
    BY <1>2, NextKinds
  <2>2. TypesOK /\ \A d \in Conn : Blind(s[d]) /\ \A p \in Profiles : k[d].seen[p] = Unseen
    BY DEF LocalInv, BlindInv
  <2>3. CASE (Kind(c, s'[c]) \/ Falters(c, s'[c])) /\ \E st : Step(c, st)
    <3>1. PICK st : Step(c, st)
      BY <2>3
    <3>2. k' = k /\ \A d \in Conn : d # c => s'[d] = s[d]
      BY <2>2, <3>1, StepFrame DEF Step, Shape
    <3>3. Blind(s'[c])
      <4>1. CASE Kind(c, s'[c])
        BY <2>2, <4>1, FoldedCollects
      <4>2. CASE Falters(c, s'[c])
        BY <2>2, <4>2 DEF Falters, Blind, TellsThat, LearnsThat, Holds
      <4> QED  BY <2>3, <4>1, <4>2
    <3> QED  BY <2>2, <3>2, <3>3 DEF BlindInv
  <2>4. CASE \E label \in {"read", "closed"} : Takes(c, label)
    <3>1. PICK label \in {"read", "closed"} : Takes(c, label)
      BY <2>4
    <3>2. /\ s'[c] \in State /\ s'[c].eff = <<>> /\ s'[c].cur = <<>>
          /\ \A d \in Conn : d # c => s'[d] = s[d]
      BY <3>1, TakesFields
    <3>3. Blind(s'[c])
      BY <3>2, NothingHeld DEF Blind, TellsThat, LearnsThat
    <3>4. \A e \in Range(s[c].eff) : Holds(s[c], e)
      BY LocalFacts, HeldFacts DEF Holds
    <3>5. ASSUME NEW d \in Conn, NEW p \in Profiles
          PROVE  k'[d].seen[p] = Unseen
      <4>1. /\ \A y \in Statuses : Response(Relay(p, y)) \notin Range(s[c].eff)
            /\ \A x \in Profiles, y \in Statuses : Route(x, Relay(p, y)) \notin Range(s[c].eff)
        BY <2>2, <3>4 DEF Blind, TellsThat, LearnsThat
      <4>2. Outcome(c).k[d].seen[p] = k[d].seen[p]
        BY <2>2, <4>1, OutcomeSame
      <4>3. k' = Outcome(c).k
        BY <3>1 DEF Takes, ProcessEffects
      <4> QED  BY <2>2, <4>2, <4>3
    <3> QED  BY <2>2, <3>2, <3>3, <3>5 DEF BlindInv
  <2>5. CASE Spares(c) /\ Deed(c)
    <3>1. \A d \in Conn : k'[d].seen = k[d].seen
      BY <2>5 DEF Spares
    <3>2. PICK st, con : Acts(c, st, con)
      BY <2>5 DEF Deed
    <3>3. /\ s'[c].eff = s[c].eff /\ s'[c].cur = s[c].cur
          /\ \A d \in Conn : d # c => s'[d] = s[d]
      BY <3>2, ActsFrame DEF Acts
    <3>4. Held(s'[c]) = Held(s[c])
      BY <3>3 DEF Held
    <3>5. Blind(s'[c])
      BY <2>2, <3>4 DEF Blind, TellsThat, LearnsThat, Holds
    <3> QED  BY <2>2, <3>1, <3>3, <3>5 DEF BlindInv
  <2> QED  BY <2>1, <2>3, <2>4, <2>5
<1> QED  BY <1>1, <1>2

LEMMA StartsBlind ==
    ASSUME Init
    PROVE  BlindInv
<1>1. /\ LocalInv
      /\ \A c \in Conn : s[c].pc = "new"
      /\ \A c \in Conn, p \in Profiles : k[c].seen[p] = Unseen
  BY StartsRight DEF Init
<1>2. \A c \in Conn : \A e : ~Holds(s[c], e)
  BY <1>1, IdleHoldsNothing DEF Idle
<1> QED  BY <1>1, <1>2 DEF BlindInv, Blind, TellsThat, LearnsThat

(***************************************************************************)
(* Besides the invariant: where names are folded, nobody is told anything. *)
(* Where they are not, what is on its way to a console about a friend is   *)
(* so, or its last word is; and a console nobody is about to tell anything *)
(* of a friend shows what that is.                                         *)
(***************************************************************************)
ShownInv == (folded => BlindInv) /\ (~folded => ViewsInv)

THEOREM ViewsInvariance == Spec => [](IInv /\ RaisedOK /\ CalmInv /\ ShownInv)
<1>1. Init => IInv /\ RaisedOK /\ CalmInv /\ ShownInv
  BY StartsRight, StartsViews, StartsBlind DEF IInv, LocalInv, SharedInv, ShownInv
<1>2. IInv /\ RaisedOK /\ CalmInv /\ ShownInv /\ [Next]_vars
          => IInv' /\ RaisedOK' /\ CalmInv' /\ ShownInv'
  <2> SUFFICES ASSUME IInv, RaisedOK, CalmInv, ShownInv, [Next]_vars
               PROVE  IInv' /\ RaisedOK' /\ CalmInv' /\ ShownInv'
    OBVIOUS
  <2>1. LocalInv /\ SharedInv
    BY DEF IInv, LocalInv, SharedInv
  <2>2. LocalInv' /\ SharedInv' /\ RaisedOK' /\ CalmInv' /\ folded' = folded
    BY <2>1, Preserves, PreservesRaised, PreservesCalm
  <2>3. IInv'
    BY <2>2 DEF IInv, LocalInv, SharedInv
  <2>4. CASE folded
    <3>1. BlindInv'
      BY <2>1, <2>4, PreservesBlind DEF ShownInv
    <3> QED  BY <2>2, <2>3, <2>4, <3>1 DEF ShownInv
  <2>5. CASE ~folded
    <3>1. ViewsInv'
      BY <2>1, <2>5, PreservesViews DEF ShownInv
    <3> QED  BY <2>2, <2>3, <2>5, <3>1 DEF ShownInv
  <2> QED  BY <2>4, <2>5
<1> QED  BY <1>1, <1>2, PTL DEF Spec

(***************************************************************************)
(* Friends in the same game see each other as they are, once nothing is    *)
(* under way: unless one of them logged in or changed state between the    *)
(* moment the other looked at it and the moment that took effect, changed  *)
(* its friends, or had two connections at once.  Where names are folded    *)
(* they never see anything of each other.  For any number of users,        *)
(* connections and commands in a chunk.                                    *)
(***************************************************************************)
THEOREM FriendsAreShown == Spec => []OnlyRacesMislead
<1>1. IInv /\ RaisedOK /\ CalmInv /\ ShownInv => OnlyRacesMislead
  <2> SUFFICES ASSUME IInv, RaisedOK, CalmInv, ShownInv, ~folded,
                      NEW c \in Conn, NEW p \in Profiles,
                      Settled(c), Quiet(c, p), Mutual(c, p), ~Misled(c, p)
               PROVE  Shows(c, p)
    BY DEF OnlyRacesMislead, ShownInv, BlindInv
  <2>0. ViewsInv
    BY DEF ShownInv
  <2>1. LocalInv /\ OnlineOK /\ EachSound /\ LiveOK
    BY <2>0 DEF IInv, LocalInv, CalmInv, ViewsInv, RaisedOK, LiveUnlessRaised, LiveOK
  <2>2. k[c].phase = "in" /\ s[c].pc = "read"
    BY DEF Settled
  <2>3. s[c].profileid # NoProfile
    BY <2>1, <2>2, LocalFacts DEF Fits, EffectsOK
  <2>4. Clear(c, p)
    BY <2>2, <2>3 DEF Clear, Quiet
  <2>5. Views(c, p)
    BY <2>0, <2>4 DEF ViewsInv, ViewsOK
  <2>6. Here(c)
    <3>1. c \notin overlap
      BY DEF Misled
    <3> QED  BY <2>1, <2>2, <3>1 DEF OnlineOK, Here
  <2>7. ~Logging(s[c]) /\ ~Learns(c, p)
    <3>1. \A e : ~Holds(s[c], e)
      BY <2>1, <2>2, IdleHoldsNothing DEF Idle
    <3> QED  BY <3>1 DEF Logging, Learns, LearnsThat
  <2>8. \A d \in Conn : ~Tells(d, s[c].profileid, p)
    <3> SUFFICES ASSUME NEW d \in Conn, Tells(d, s[c].profileid, p)
                 PROVE  FALSE
      OBVIOUS
    <3>1. Plays(d, p)
      BY <2>1, <2>4, ClearFacts
    <3>2. s[d].pc \in Idle
      BY <3>1 DEF Quiet, Idle
    <3>3. \A e : ~Holds(s[d], e)
      BY <2>1, <3>2, IdleHoldsNothing
    <3> QED  BY <3>3 DEF Tells, TellsThat
  <2> QED  BY <2>5, <2>6, <2>7, <2>8 DEF Views, ShowsRight
<1> QED  BY <1>1, ViewsInvariance, PTL
=============================================================================
