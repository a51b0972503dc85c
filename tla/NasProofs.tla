------------------------------ MODULE NasProofs ------------------------------
(***************************************************************************)
(* Proofs about the authentication server: for every set of consoles,      *)
(* threads and tokens, every size of the pool, and however the statements  *)
(* of concurrent requests interleave, tokens lead to those they were given *)
(* to, and the console that shares its userid with nobody has one row.     *)
(***************************************************************************)
EXTENDS Nas, FiniteSetTheorems, SequenceTheorems, WellFoundedInduction, TLAPS

(***************************************************************************)
(* The inductive invariant.                                                *)
(***************************************************************************)

\* What the threads do: one that serves a request, and one that has a token for it.
Busy(t) == req[t] # Idle
Bearer(t) == Busy(t) /\ req[t].token # NoToken

\* Userids are registered below the bound.
UsersOK == users \subseteq FirstUser .. MaxUserid - 1

\* A request has a token from its draw on, and for the userid of its console.
RequestOK(t) ==
    /\ req[t].action = "acctcreate" =>
          /\ req[t].pc \in {"ban", "max", "answer", "refuse"} /\ req[t].token = NoToken
          /\ req[t].pc = "answer" => req[t].userid # NoUser
    /\ req[t].action # "acctcreate" =>
          /\ req[t].pc # "max" /\ req[t].userid # NoUser
          /\ userid[req[t].by] = req[t].userid
          /\ req[t].token # NoToken <=> req[t].pc \in {"find", "insert", "update", "answer"}
RequestsOK == \A t \in Thread : Busy(t) => RequestOK(t)

\* The token of a request is in no row before the request has written it.
WriteOK(t) ==
    /\ req[t].pc \in {"update", "answer"} => RowsOf(req[t].userid) # {}
    /\ \A i \in DOMAIN nas_logins : nas_logins[i].authtoken = req[t].token =>
          nas_logins[i] = RowFor(req[t]) /\ req[t].pc = "answer"
WritesOK == \A t \in Thread : Bearer(t) => WriteOK(t)

\* A console waits for its own request, which is for an account if it has none,
\* and a patient one waits for every request of its own.
WaitersOK ==
    /\ \A c \in Console : waiting[c] # NoThread =>
          /\ Busy(waiting[c]) /\ req[waiting[c]].by = c
          /\ req[waiting[c]].action = "acctcreate" <=> userid[c] = NoUser
    /\ \A t \in Thread : Busy(t) /\ req[t].by \notin Impatient => waiting[req[t].by] = t

\* No token is held twice, and none without a userid.
TokensOK ==
    /\ \A s, t \in Thread : Bearer(s) /\ Bearer(t) /\ req[s].token = req[t].token => s = t
    /\ \A t \in Thread, c \in Console : Bearer(t) => token[c] # req[t].token
    /\ \A c, d \in Console : token[c] = token[d] /\ token[c] # NoToken => c = d
    /\ \A c \in Console : userid[c] = NoUser => token[c] = NoToken

\* A row is for the userid of who wrote it.
OwnersOK == \A i \in DOMAIN nas_logins : userid[nas_logins[i].data.by] = nas_logins[i].userid

\* A patient console that shares its userid with nobody has one row, whose token
\* is its last one, or that of the answer it waits for; it finds what it wrote.
LonerOK(c) ==
    /\ \A i, j \in RowsOf(userid[c]) : i = j
    /\ token[c] # NoToken =>
          token[c] \in Tokens \/ (waiting[c] # NoThread /\ req[waiting[c]].pc = "answer")
    /\ \A t \in Thread : Busy(t) /\ req[t].by = c =>
          /\ req[t].pc = "insert" => RowsOf(userid[c]) = {}
          /\ req[t].pc = "answer" => req[t].token \in Tokens
LonersOK ==
    \A c \in Console \ Impatient : Alone(c) /\ userid[c] # NoUser => LonerOK(c)

IInv ==
    /\ AnsweredUsersHaveRows /\ TokensLeadHome
    /\ UsersOK /\ RequestsOK /\ WritesOK /\ WaitersOK /\ TokensOK /\ OwnersOK /\ LonersOK

----------------------------------------------------------------------------
(***************************************************************************)
(* Lemmas about the data.                                                  *)
(***************************************************************************)

\* A set of numbers with an upper bound has a largest one.
LEMMA LargestOne ==
    ASSUME NEW S, S # {}, NEW n \in Nat, S \subseteq 0 .. n
    PROVE  Max(S) \in S /\ \A x \in S : x <= Max(S)
<1>. DEFINE Above == {m \in Nat : \A x \in S : x <= m}
<1>1. PICK m \in Above : \A k \in Above : <<k, m>> \notin OpToRel(<, Nat)
  <2>1. Above # {} /\ Above \subseteq Nat
    <3>1. n \in Above
      OBVIOUS
    <3> QED BY <3>1
  <2> HIDE DEF Above
  <2> QED BY <2>1, NatLessThanWellFounded, WFMin, Zenon
<1>2. \A k \in Above : m <= k
  <2>1. \A k \in Above : ~(k < m)
    BY <1>1, Zenon DEF OpToRel
  <2> QED BY <2>1
<1>3. m \in S
  <2> SUFFICES ASSUME m \notin S PROVE FALSE
    OBVIOUS
  <2>1. \A x \in S : x < m /\ x \in Nat
    OBVIOUS
  <2>2. PICK x \in S : TRUE
    OBVIOUS
  <2>3. m \in Nat /\ x \in Nat /\ x < m
    BY <2>1
  <2>4. m - 1 \in Nat /\ \A y \in S : y <= m - 1
    BY <2>1, <2>3
  <2>5. m - 1 \in Above
    BY <2>4
  <2> QED BY <1>2, <2>3, <2>5
<1>4. m \in S /\ \A x \in S : m >= x
  BY <1>3
<1> QED BY <1>4 DEF Max

\* A set without two different members has one at most.
LEMMA OneAtMost ==
    ASSUME NEW S, \A x, y \in S : x = y
    PROVE  Cardinality(S) <= 1
<1>1. CASE S = {}
  BY <1>1, FS_EmptySet
<1>2. CASE S # {}
  <2>1. PICK x : S = {x}
    BY <1>2
  <2> QED BY <2>1, FS_Singleton
<1> QED BY <1>1, <1>2

\* A request whose pc is set stays one, and so do the others.
LEMMA GotoEffect ==
    ASSUME TypeOK, NEW t \in Thread, Busy(t), Goto(t, "ban") \/ Goto(t, "max") \/
              Goto(t, "draw") \/ Goto(t, "find") \/ Goto(t, "insert") \/
              Goto(t, "update") \/ Goto(t, "answer") \/ Goto(t, "refuse")
    PROVE  /\ req' \in [Thread -> Request \cup {Idle}]
           /\ \A s \in Thread : /\ Busy(s)' = Busy(s)
                                /\ s # t => req'[s] = req[s]
           /\ req'[t].action = req[t].action /\ req'[t].by = req[t].by
           /\ req'[t].userid = req[t].userid /\ req'[t].token = req[t].token
<1>1. req \in [Thread -> Request \cup {Idle}] /\ req[t] \in Request /\ req[t] # Idle
  BY DEF TypeOK, Busy
<1>2. PICK p : /\ req' = [req EXCEPT ![t].pc = p]
               /\ p \in {"ban", "max", "draw", "find", "insert", "update", "answer", "refuse"}
  BY DEF Goto
<1>3. req'[t] = [req[t] EXCEPT !.pc = p] /\ req'[t] \in Request
  BY <1>1, <1>2 DEF Request
<1>4. req' \in [Thread -> Request \cup {Idle}] /\ \A s \in Thread : s # t => req'[s] = req[s]
  BY <1>1, <1>2, <1>3
<1>5. /\ req'[t].action = req[t].action /\ req'[t].by = req[t].by
      /\ req'[t].userid = req[t].userid /\ req'[t].token = req[t].token
  BY <1>1, <1>3 DEF Request
<1> QED BY <1>1, <1>3, <1>4, <1>5, DistinctAssumption DEF Busy

\* A row is added at the end.
LEMMA InsertEffect ==
    ASSUME TypeOK, NEW r \in Row, nas_logins' = Append(nas_logins, r)
    PROVE  /\ nas_logins' \in Seq(Row)
           /\ \E n : /\ n \notin DOMAIN nas_logins
                     /\ DOMAIN nas_logins' = DOMAIN nas_logins \cup {n}
                     /\ nas_logins'[n] = r
           /\ \A i \in DOMAIN nas_logins : nas_logins'[i] = nas_logins[i]
<1>1. nas_logins \in Seq(Row)
  BY DEF TypeOK
<1>2. /\ DOMAIN nas_logins = 1 .. Len(nas_logins) /\ Len(nas_logins) \in Nat
      /\ DOMAIN nas_logins' = 1 .. Len(nas_logins) + 1
      /\ nas_logins'[Len(nas_logins) + 1] = r
      /\ \A i \in DOMAIN nas_logins : nas_logins'[i] = nas_logins[i]
  BY <1>1
<1>3. nas_logins' \in Seq(Row)
  BY <1>1
<1>4. /\ Len(nas_logins) + 1 \notin DOMAIN nas_logins
      /\ DOMAIN nas_logins' = DOMAIN nas_logins \cup {Len(nas_logins) + 1}
  BY <1>2
<1> QED BY <1>2, <1>3, <1>4

\* Rows are replaced where they are.
LEMMA UpdateEffect ==
    ASSUME TypeOK, NEW r \in Row, NEW u,
           nas_logins' = [i \in DOMAIN nas_logins |->
                             IF i \in RowsOf(u) THEN r ELSE nas_logins[i]]
    PROVE  /\ nas_logins' \in Seq(Row)
           /\ DOMAIN nas_logins' = DOMAIN nas_logins
           /\ \A i \in DOMAIN nas_logins :
                 nas_logins'[i] = IF i \in RowsOf(u) THEN r ELSE nas_logins[i]
<1>1. DOMAIN nas_logins = 1 .. Len(nas_logins) /\ Len(nas_logins) \in Nat
  BY DEF TypeOK
<1>2. \A i \in DOMAIN nas_logins : nas_logins[i] \in Row
  BY DEF TypeOK
<1>. DEFINE e(i) == IF i \in RowsOf(u) THEN r ELSE nas_logins[i]
<1>3. \A i \in 1 .. Len(nas_logins) : e(i) \in Row
  BY <1>1, <1>2
<1>4. [i \in 1 .. Len(nas_logins) |-> e(i)] \in Seq(Row)
  <2> HIDE DEF e
  <2> QED BY <1>1, <1>3, IsASeq
<1> QED BY <1>1, <1>4

\* Rows are rows, and their tokens are tokens.
LEMMA RowTypes ==
    ASSUME TypeOK
    PROVE  /\ \A i \in DOMAIN nas_logins : nas_logins[i] \in Row
           /\ Tokens \subseteq Token /\ NoToken \notin Tokens
<1>1. \A i \in DOMAIN nas_logins : nas_logins[i] \in Row
  BY DEF TypeOK
<1> QED BY <1>1, DistinctAssumption DEF Tokens, Row

----------------------------------------------------------------------------
(***************************************************************************)
(* The steps that move one request on and write nothing: the look-ups.     *)
(***************************************************************************)

\* What such a step does to request t.
MovesOn(t) ==
    /\ Busy(t) /\ UNCHANGED <<users, nas_logins, clients, pool>>
    /\ req' \in [Thread -> Request \cup {Idle}]
    /\ \A s \in Thread : Busy(s)' = Busy(s) /\ (s # t => req'[s] = req[s])
    /\ req'[t].action = req[t].action /\ req'[t].by = req[t].by
    /\ req'[t].token = req[t].token
    /\ \/ /\ req[t].pc = "ban" /\ req'[t].userid = req[t].userid
          /\ \/ req'[t].pc = "refuse"
             \/ req'[t].pc = "max" /\ req[t].action = "acctcreate"
             \/ req'[t].pc = "draw" /\ req[t].action # "acctcreate"
       \/ req[t].pc = "max" /\ req'[t].pc = "answer" /\ req'[t].userid \in UserId
       \/ /\ req[t].pc = "find" /\ req'[t].userid = req[t].userid
          /\ \/ req'[t].pc = "insert" /\ RowsOf(req[t].userid) = {}
             \/ req'[t].pc = "update" /\ RowsOf(req[t].userid) # {}

LEMMA LookUps ==
    ASSUME IInv, NEW t \in Thread, IsBanned(t) \/ GetNextAvailableUserid(t) \/ FindRow(t)
    PROVE  MovesOn(t)
<1>1. TypeOK /\ UsersOK
  BY DEF IInv, AnsweredUsersHaveRows
<1>2. CASE IsBanned(t)
  <2>1. /\ Busy(t) /\ req[t].pc = "ban" /\ UNCHANGED <<users, nas_logins, clients, pool>>
        /\ \/ Goto(t, "refuse")
           \/ Goto(t, "max") /\ req[t].action = "acctcreate"
           \/ Goto(t, "draw") /\ req[t].action # "acctcreate"
    BY <1>2 DEF IsBanned, At, Busy
  <2>2. req[t] \in Request
    BY <1>1, <2>1 DEF TypeOK, Busy
  <2>3. req \in [Thread -> Request \cup {Idle}]
    BY <1>1 DEF TypeOK
  <2>4. req'[t].pc = "refuse" \/ (req'[t].pc = "max" /\ req[t].action = "acctcreate")
           \/ (req'[t].pc = "draw" /\ req[t].action # "acctcreate")
    BY <2>1, <2>2, <2>3 DEF Goto, Request
  <2> QED BY <1>1, <2>1, <2>4, GotoEffect DEF MovesOn
<1>3. CASE FindRow(t)
  <2>1. /\ Busy(t) /\ req[t].pc = "find" /\ UNCHANGED <<users, nas_logins, clients, pool>>
        /\ \/ Goto(t, "insert") /\ RowsOf(req[t].userid) = {}
           \/ Goto(t, "update") /\ RowsOf(req[t].userid) # {}
    BY <1>3 DEF FindRow, At, Busy
  <2>2. req[t] \in Request
    BY <1>1, <2>1 DEF TypeOK, Busy
  <2>3. req \in [Thread -> Request \cup {Idle}]
    BY <1>1 DEF TypeOK
  <2>4. \/ req'[t].pc = "insert" /\ RowsOf(req[t].userid) = {}
        \/ req'[t].pc = "update" /\ RowsOf(req[t].userid) # {}
    BY <2>1, <2>2, <2>3 DEF Goto, Request
  <2> QED BY <1>1, <2>1, <2>4, GotoEffect DEF MovesOn
<1>4. CASE GetNextAvailableUserid(t)
  <2>1. NextAvailable \in UserId
    <3>1. CASE users = {}
      BY <3>1, BoundAssumption DEF NextAvailable, UserId, FirstUser
    <3>2. CASE users # {}
      <4>1. Max(users) \in users
        <5>1. users \subseteq 0 .. MaxUserid /\ MaxUserid \in Nat
          BY <1>1, BoundAssumption DEF UsersOK, FirstUser
        <5> QED BY <3>2, <5>1, LargestOne
      <4>2. \A m \in users : m + 1 \in UserId
        BY <1>1, BoundAssumption DEF UsersOK, UserId, FirstUser
      <4> QED BY <3>2, <4>1, <4>2 DEF NextAvailable
    <3> QED BY <3>1, <3>2
  <2>2. /\ Busy(t) /\ req[t].pc = "max" /\ UNCHANGED <<users, nas_logins, clients, pool>>
        /\ req' = [req EXCEPT ![t].userid = NextAvailable, ![t].pc = "answer"]
        /\ req[t] \in Request
    BY <1>1, <1>4 DEF GetNextAvailableUserid, At, Busy, TypeOK
  <2>3. [req[t] EXCEPT !.userid = NextAvailable, !.pc = "answer"] \in Request
    BY <2>1, <2>2 DEF Request
  <2> QED BY <1>1, <2>1, <2>2, <2>3, DistinctAssumption DEF MovesOn, TypeOK, Request, Busy
<1> QED BY <1>2, <1>3, <1>4

\* Who waits waits for a thread, and a request is of a console.
LEMMA WaitTypes ==
    ASSUME IInv
    PROVE  /\ \A c \in Console : waiting[c] # NoThread => waiting[c] \in Thread
           /\ \A t \in Thread : t # NoThread /\ (Busy(t) => req[t].by \in Console)
BY DistinctAssumption DEF IInv, AnsweredUsersHaveRows, TypeOK, Busy, Request

(***************************************************************************)
(* A look-up preserves the invariant: what it finds stays found until the  *)
(* request writes, except for the rows of users whom others share.         *)
(***************************************************************************)
LEMMA MoveStep ==
    ASSUME IInv, NEW t \in Thread, MovesOn(t)
    PROVE  IInv'
<1>1. /\ UNCHANGED <<users, nas_logins, userid, token, waiting, asked, pool>>
      /\ Busy(t) /\ req[t] \in Request /\ req'[t] \in Request
      /\ \A s \in Thread : Busy(s)' = Busy(s) /\ Bearer(s)' = Bearer(s)
                           /\ (s # t => req'[s] = req[s])
      /\ req'[t].action = req[t].action /\ req'[t].by = req[t].by
      /\ req'[t].token = req[t].token
      /\ \A u : RowsOf(u)' = RowsOf(u)
      /\ Tokens' = Tokens /\ \A c : Alone(c)' = Alone(c)
  BY DEF MovesOn, clients, IInv, AnsweredUsersHaveRows, TypeOK, Busy, Bearer, RowsOf, Tokens,
         Alone
<1>2. TypeOK'
  BY DEF IInv, AnsweredUsersHaveRows, TypeOK, MovesOn, clients
<1>3. AnsweredUsersHaveRows' /\ TokensLeadHome' /\ UsersOK' /\ OwnersOK'
  BY <1>1, <1>2 DEF IInv, AnsweredUsersHaveRows, TokensLeadHome, UsersOK, OwnersOK
<1>4. RequestsOK'
  <2>1. RequestOK(t) /\ (Bearer(t) => WriteOK(t))
    BY <1>1 DEF IInv, RequestsOK, WritesOK
  <2>2. RequestOK(t)'
    BY <1>1, <2>1 DEF RequestOK, MovesOn, UserId, NoUser, FirstUser
  <2> QED BY <1>1, <2>2 DEF IInv, RequestsOK, RequestOK
<1>5. WritesOK'
  <2>1. Bearer(t) => WriteOK(t)'
    BY <1>1 DEF IInv, WritesOK, WriteOK, RowFor, MovesOn, RequestsOK, RequestOK, Bearer
  <2> QED BY <1>1, <2>1 DEF IInv, WritesOK, WriteOK, RowFor
<1>6. WaitersOK'
  BY <1>1, WaitTypes DEF IInv, WaitersOK
<1>7. TokensOK'
  BY <1>1 DEF IInv, TokensOK
<1>8. LonersOK'
  <2> SUFFICES ASSUME NEW c \in Console \ Impatient, Alone(c), userid[c] # NoUser
               PROVE  LonerOK(c)'
    BY <1>1 DEF LonersOK
  <2>1. LonerOK(c)
    BY DEF IInv, LonersOK
  <2>2. ASSUME req[t].by = c
        PROVE  req[t].action # "acctcreate" /\ req[t].userid = userid[c]
    BY <1>1, <2>2, WaitTypes DEF IInv, WaitersOK, RequestsOK, RequestOK
  <2>3. ASSUME req[t].by = c, req'[t].pc = "insert" PROVE RowsOf(userid[c]) = {}
    BY <1>1, <2>2, <2>3 DEF MovesOn
  <2>4. req'[t].pc = "answer" => req[t].by # c
    BY <1>1, <2>2 DEF MovesOn, IInv, RequestsOK, RequestOK
  <2>5. req[t].pc # "answer"
    BY DEF MovesOn
  <2> QED BY <1>1, <2>1, <2>3, <2>4, <2>5, WaitTypes DEF LonerOK
<1> QED BY <1>3, <1>4, <1>5, <1>6, <1>7, <1>8 DEF IInv

----------------------------------------------------------------------------
(***************************************************************************)
(* The steps that draw and write a token.                                  *)
(***************************************************************************)

\* A request that is to draw, find or write is for a token.
LEMMA TokenRequest ==
    ASSUME IInv, NEW t \in Thread, Busy(t),
           req[t].pc \in {"draw", "find", "insert", "update"}
    PROVE  /\ req[t] \in Request /\ req[t].action # "acctcreate" /\ req[t].by \in Console
           /\ req[t].userid = userid[req[t].by] /\ req[t].userid \in UserId
           /\ req[t].pc # "draw" => Bearer(t) /\ req[t].token \in Token
<1>1. RequestOK(t) /\ req[t] \in Request
  BY DEF IInv, RequestsOK, AnsweredUsersHaveRows, TypeOK, Busy
<1> QED BY <1>1 DEF RequestOK, Request, Bearer, UserId

(***************************************************************************)
(* A drawn token is new: nobody holds it, and no row has it.               *)
(***************************************************************************)
LEMMA DrawStep ==
    ASSUME IInv, NEW t \in Thread, DrawToken(t)
    PROVE  IInv'
<1>1. PICK tk \in Candidates :
         req' = [req EXCEPT ![t].token = tk, ![t].pc = "find"]
  BY DEF DrawToken
<1>2. /\ tk \in Token /\ tk # NoToken /\ tk \notin Tokens
      /\ \A c \in Console : token[c] # tk
      /\ \A s \in Thread : Busy(s) => req[s].token # tk
  BY <1>1, DistinctAssumption DEF Candidates, Held, Busy
<1>3. /\ Busy(t) /\ req[t].pc = "draw"
      /\ UNCHANGED <<users, nas_logins, userid, token, waiting, asked, pool>>
  BY DEF DrawToken, At, Busy, clients
<1>4. /\ req[t] \in Request /\ req[t].action # "acctcreate" /\ req[t].by \in Console
      /\ req[t].userid = userid[req[t].by] /\ req[t].userid \in UserId
  BY <1>3, TokenRequest
<1>5. req'[t] \in Request /\ req'[t] = [req[t] EXCEPT !.token = tk, !.pc = "find"]
  BY <1>1, <1>2, <1>4 DEF IInv, AnsweredUsersHaveRows, TypeOK, Request
<1>6. /\ req'[t].action = req[t].action /\ req'[t].by = req[t].by
      /\ req'[t].userid = req[t].userid /\ req'[t].token = tk /\ req'[t].pc = "find"
      /\ Bearer(t)'
      /\ \A s \in Thread : /\ Busy(s)' = Busy(s)
                           /\ s # t => req'[s] = req[s] /\ Bearer(s)' = Bearer(s)
      /\ \A u : RowsOf(u)' = RowsOf(u)
      /\ Tokens' = Tokens /\ \A c : Alone(c)' = Alone(c)
  BY <1>1, <1>2, <1>3, <1>4, <1>5, DistinctAssumption
     DEF Bearer, Busy, Request, RowsOf, Tokens, Alone, IInv, AnsweredUsersHaveRows, TypeOK
<1>7. TypeOK'
  BY <1>1, <1>3, <1>5 DEF IInv, AnsweredUsersHaveRows, TypeOK
<1>8. AnsweredUsersHaveRows' /\ TokensLeadHome' /\ UsersOK' /\ OwnersOK'
  BY <1>3, <1>6, <1>7 DEF IInv, AnsweredUsersHaveRows, TokensLeadHome, UsersOK, OwnersOK
<1>9. RequestsOK'
  <2>1. RequestOK(t)'
    BY <1>2, <1>3, <1>4, <1>6 DEF RequestOK, UserId, NoUser, FirstUser
  <2> QED BY <1>3, <1>6, <2>1 DEF IInv, RequestsOK, RequestOK
<1>10. WritesOK'
  <2>1. WriteOK(t)'
    BY <1>2, <1>3, <1>6 DEF WriteOK, Tokens
  <2> QED BY <1>3, <1>6, <2>1 DEF IInv, WritesOK, WriteOK, RowFor
<1>11. WaitersOK'
  BY <1>3, <1>6, WaitTypes DEF IInv, WaitersOK
<1>12. TokensOK'
  BY <1>2, <1>3, <1>6 DEF IInv, TokensOK, Bearer
<1>13. LonersOK'
  <2> SUFFICES ASSUME NEW c \in Console \ Impatient, Alone(c), userid[c] # NoUser
               PROVE  LonerOK(c)'
    BY <1>3, <1>6 DEF LonersOK
  <2>1. LonerOK(c)
    BY DEF IInv, LonersOK
  <2> QED BY <1>3, <1>6, <2>1, WaitTypes DEF LonerOK
<1> QED BY <1>8, <1>9, <1>10, <1>11, <1>12, <1>13 DEF IInv

(***************************************************************************)
(* What the two writes have in common: request t has written its row r,    *)
(* which replaces any other of its user.                                   *)
(***************************************************************************)
Writes(t) ==
    LET r == RowFor(req[t])
    IN  /\ Busy(t) /\ req[t].pc \in {"insert", "update"} /\ Goto(t, "answer")
        /\ UNCHANGED <<users, clients, pool>>
        /\ nas_logins' \in Seq(Row) /\ DOMAIN nas_logins \subseteq DOMAIN nas_logins'
        /\ \A i \in DOMAIN nas_logins' :
              \/ nas_logins'[i] = r
              \/ i \in DOMAIN nas_logins /\ nas_logins'[i] = nas_logins[i]
                 /\ (nas_logins[i].userid # r.userid \/ req[t].pc = "insert")
        /\ \A i \in DOMAIN nas_logins : nas_logins[i].userid # r.userid =>
              nas_logins'[i] = nas_logins[i]
        /\ \A i \in DOMAIN nas_logins : nas_logins'[i].userid = nas_logins[i].userid
        /\ \E i \in DOMAIN nas_logins' : nas_logins'[i] = r
        /\ req[t].pc = "insert" => \A i, j \in DOMAIN nas_logins' \ DOMAIN nas_logins : i = j
        /\ req[t].pc = "update" => DOMAIN nas_logins' = DOMAIN nas_logins

LEMMA InsertWrites ==
    ASSUME IInv, NEW t \in Thread, InsertRow(t)
    PROVE  Writes(t)
<1>1. /\ Busy(t) /\ req[t].pc = "insert" /\ Goto(t, "answer")
      /\ UNCHANGED <<users, clients, pool>>
      /\ nas_logins' = Append(nas_logins, RowFor(req[t]))
  BY DEF InsertRow, At, Busy
<1>2. RowFor(req[t]) \in Row
  BY <1>1, TokenRequest DEF RowFor, Row, Data
<1>3. PICK n : /\ nas_logins' \in Seq(Row) /\ n \notin DOMAIN nas_logins
               /\ DOMAIN nas_logins' = DOMAIN nas_logins \cup {n}
               /\ nas_logins'[n] = RowFor(req[t])
               /\ \A i \in DOMAIN nas_logins : nas_logins'[i] = nas_logins[i]
  BY <1>1, <1>2, InsertEffect DEF IInv, AnsweredUsersHaveRows
<1> QED BY <1>1, <1>3 DEF Writes

LEMMA UpdateWrites ==
    ASSUME IInv, NEW t \in Thread, UpdateRow(t)
    PROVE  Writes(t)
<1>1. /\ Busy(t) /\ req[t].pc = "update" /\ Goto(t, "answer")
      /\ UNCHANGED <<users, clients, pool>>
      /\ nas_logins' = [i \in DOMAIN nas_logins |->
             IF i \in RowsOf(req[t].userid) THEN RowFor(req[t]) ELSE nas_logins[i]]
  BY DEF UpdateRow, At, Busy
<1>2. RowFor(req[t]) \in Row /\ RowFor(req[t]).userid = req[t].userid
  BY <1>1, TokenRequest DEF RowFor, Row, Data
<1>3. /\ nas_logins' \in Seq(Row) /\ DOMAIN nas_logins' = DOMAIN nas_logins
      /\ \A i \in DOMAIN nas_logins : nas_logins'[i] =
            IF i \in RowsOf(req[t].userid) THEN RowFor(req[t]) ELSE nas_logins[i]
  BY <1>1, <1>2, UpdateEffect DEF IInv, AnsweredUsersHaveRows
<1>4. RowsOf(req[t].userid) # {}
  BY <1>1, TokenRequest DEF IInv, WritesOK, WriteOK
<1>5. \A i : i \in RowsOf(req[t].userid) <=>
         i \in DOMAIN nas_logins /\ nas_logins[i].userid = req[t].userid
  BY DEF RowsOf
<1>6. \E i \in DOMAIN nas_logins' : nas_logins'[i] = RowFor(req[t])
  BY <1>3, <1>4, <1>5
<1> QED BY <1>1, <1>2, <1>3, <1>5, <1>6 DEF Writes

(***************************************************************************)
(* A write preserves the invariant.  The token was in no row, so the rows  *)
(* that have it are the one written; a loner wrote alone among the         *)
(* requests for its userid, so its look-up still holds.                    *)
(***************************************************************************)
LEMMA WriteStep ==
    ASSUME IInv, NEW t \in Thread, Writes(t)
    PROVE  IInv'
<1>1. PICK u, b, k, r : /\ u = req[t].userid /\ b = req[t].by /\ k = req[t].token
                        /\ r = RowFor(req[t])
  OBVIOUS
<1>2. /\ u \in UserId /\ b \in Console /\ k \in Token /\ k # NoToken /\ userid[b] = u
      /\ r.userid = u /\ r.authtoken = k /\ r.data.userid = u /\ r.data.by = b
      /\ Busy(t) /\ Bearer(t) /\ req[t].action # "acctcreate" /\ req[t] \in Request
      /\ req[t].pc \in {"insert", "update"}
  BY <1>1, TokenRequest DEF Writes, RowFor, Bearer
<1>3. k \notin Tokens
  BY <1>1, <1>2 DEF Tokens, IInv, WritesOK, WriteOK
<1>4. /\ UNCHANGED <<users, userid, token, waiting, asked, pool>>
      /\ Goto(t, "answer") /\ nas_logins' \in Seq(Row)
      /\ \A i \in DOMAIN nas_logins' :
            nas_logins'[i] = r \/ (i \in DOMAIN nas_logins /\ nas_logins'[i] = nas_logins[i])
      /\ DOMAIN nas_logins \subseteq DOMAIN nas_logins'
      /\ \A i \in DOMAIN nas_logins :
            /\ nas_logins[i].userid # u => nas_logins'[i] = nas_logins[i]
            /\ nas_logins'[i].userid = nas_logins[i].userid
      /\ \E i \in DOMAIN nas_logins' : nas_logins'[i] = r
  BY <1>1, <1>2 DEF Writes, clients
<1>5. /\ req' \in [Thread -> Request \cup {Idle}]
      /\ req'[t].action = req[t].action /\ req'[t].by = b
      /\ req'[t].userid = u /\ req'[t].token = k /\ req'[t].pc = "answer"
      /\ \A s \in Thread : /\ Busy(s)' = Busy(s) /\ Bearer(s)' = Bearer(s)
                           /\ s # t => req'[s] = req[s]
  <2>1. TypeOK
    BY DEF IInv, AnsweredUsersHaveRows
  <2>2. req'[t].pc = "answer"
    BY <1>2, <1>4, <2>1 DEF Goto, TypeOK, Request
  <2> QED BY <1>1, <1>2, <1>4, <2>1, <2>2, GotoEffect DEF Bearer
<1>6. /\ \A v : v # u => RowsOf(v)' = RowsOf(v)
      /\ RowsOf(u)' # {} /\ \A v : RowsOf(v) # {} => RowsOf(v)' # {}
      /\ \A v : RowsOf(v) = {i \in DOMAIN nas_logins : nas_logins[i].userid = v}
      /\ \A v : RowsOf(v)' = {i \in DOMAIN nas_logins' : nas_logins'[i].userid = v}
  <2>1. /\ \A v : RowsOf(v) = {i \in DOMAIN nas_logins : nas_logins[i].userid = v}
        /\ \A v : RowsOf(v)' = {i \in DOMAIN nas_logins' : nas_logins'[i].userid = v}
    BY DEF RowsOf
  <2>2. ASSUME NEW v, v # u PROVE RowsOf(v)' = RowsOf(v)
    BY <1>2, <1>4, <2>1, <2>2
  <2>3. RowsOf(u)' # {}
    BY <1>2, <1>4, <2>1
  <2> QED BY <2>1, <2>2, <2>3
<1>7. k \in Tokens' /\ \A i \in DOMAIN nas_logins' : nas_logins'[i].authtoken \in Tokens'
  BY <1>2, <1>4 DEF Tokens
<1>8. ASSUME NEW i \in DOMAIN nas_logins', nas_logins'[i] # r
      PROVE  i \in DOMAIN nas_logins /\ nas_logins'[i] = nas_logins[i]
             /\ nas_logins[i].authtoken # k
  BY <1>3, <1>4, <1>8 DEF Tokens
<1>9. TypeOK'
  BY <1>4, <1>5 DEF IInv, AnsweredUsersHaveRows, TypeOK
<1>10. AnsweredUsersHaveRows'
  BY <1>4, <1>6, <1>9 DEF IInv, AnsweredUsersHaveRows
<1>11. TokensLeadHome'
  <2>1. \A c \in Console : token[c] # k
    BY <1>1, <1>2 DEF IInv, TokensOK
  <2> SUFFICES ASSUME NEW i \in DOMAIN nas_logins'
               PROVE  /\ nas_logins'[i].data.userid = nas_logins'[i].userid
                      /\ \A j \in DOMAIN nas_logins' :
                            nas_logins'[j].authtoken = nas_logins'[i].authtoken
                               => nas_logins'[j] = nas_logins'[i]
                      /\ \A c \in Console : token[c] = nas_logins'[i].authtoken =>
                            nas_logins'[i].data.by = c /\ nas_logins'[i].userid = userid[c]
    BY <1>4 DEF TokensLeadHome
  <2>2. CASE nas_logins'[i] = r
    BY <1>2, <1>8, <2>1, <2>2
  <2>3. CASE nas_logins'[i] # r
    BY <1>2, <1>8, <2>3 DEF IInv, TokensLeadHome
  <2> QED BY <2>2, <2>3
<1>12. OwnersOK' /\ UsersOK'
  BY <1>2, <1>4 DEF IInv, OwnersOK, UsersOK
<1>13. RequestsOK'
  <2>1. RequestOK(t)'
    BY <1>1, <1>2, <1>4, <1>5 DEF IInv, RequestsOK, RequestOK
  <2> QED BY <1>4, <1>5, <2>1 DEF IInv, RequestsOK, RequestOK
<1>14. WritesOK'
  <2>1. WriteOK(t)'
    <3>1. RowFor(req'[t]) = r
      BY <1>1, <1>5 DEF RowFor
    <3> QED BY <1>5, <1>6, <1>8, <3>1 DEF WriteOK, RowFor
  <2>2. ASSUME NEW s \in Thread, s # t, Bearer(s) PROVE WriteOK(s)'
    <3>1. req[s].token # k /\ WriteOK(s) /\ req'[s] = req[s]
      BY <1>1, <1>2, <1>5, <2>2 DEF IInv, TokensOK, WritesOK
    <3>2. req[s].pc \in {"update", "answer"} => RowsOf(req[s].userid)' # {}
      <4>1. PICK v : v = req[s].userid
        OBVIOUS
      <4> QED BY <1>5, <1>6, <2>2, <3>1, <4>1 DEF WriteOK, RowsOf
    <3>3. ASSUME NEW i \in DOMAIN nas_logins', nas_logins'[i].authtoken = req[s].token
          PROVE  nas_logins'[i] = RowFor(req[s]) /\ req[s].pc = "answer"
      BY <1>2, <1>8, <3>1, <3>3 DEF WriteOK
    <3> QED BY <3>1, <3>2, <3>3 DEF WriteOK, RowFor, RowsOf
  <2> QED BY <1>5, <2>1, <2>2 DEF WritesOK
<1>15. WaitersOK'
  BY <1>1, <1>4, <1>5, WaitTypes DEF IInv, WaitersOK
<1>16. TokensOK'
  BY <1>1, <1>4, <1>5 DEF IInv, TokensOK
<1>17. LonersOK'
  <2> SUFFICES ASSUME NEW c \in Console \ Impatient, Alone(c), userid[c] # NoUser
               PROVE  LonerOK(c)'
    BY <1>4 DEF LonersOK, Alone
  <2>1. LonerOK(c) /\ \A s \in Thread : Busy(s) /\ req[s].by = c => waiting[c] = s
    BY DEF IInv, LonersOK, WaitersOK
  <2>2. PICK v : v = userid[c] /\ v = userid'[c]
    BY <1>4
  <2>3. CASE b = c
    <3>1. v = u /\ waiting[c] = t /\ \A s \in Thread : Busy(s) /\ req[s].by = c => s = t
      BY <1>1, <1>2, <2>1, <2>2, <2>3
    <3>2. \A i, j \in RowsOf(u)' : i = j
      <4>1. CASE req[t].pc = "insert"
        <5>1. RowsOf(u) = {}
          BY <1>1, <1>2, <2>1, <2>2, <2>3, <3>1, <4>1 DEF LonerOK
        <5>2. \A i \in RowsOf(u)' : i \in DOMAIN nas_logins' \ DOMAIN nas_logins
          BY <1>4, <1>6, <5>1
        <5>3. \A i, j \in DOMAIN nas_logins' \ DOMAIN nas_logins : i = j
          BY <4>1 DEF Writes
        <5> QED BY <5>2, <5>3
      <4>2. CASE req[t].pc = "update"
        <5>1. RowsOf(u)' \subseteq RowsOf(u)
          BY <1>4, <1>6, <4>2 DEF Writes
        <5> QED BY <2>1, <2>2, <3>1, <5>1 DEF LonerOK
      <4> QED BY <1>2, <4>1, <4>2
    <3>3. \A i, j \in RowsOf(userid[c])' : i = j
      BY <1>4, <2>2, <3>1, <3>2 DEF RowsOf
    <3>4. t # NoThread /\ waiting'[c] = t
      BY <1>4, <3>1, WaitTypes
    <3>5. \A s \in Thread : Busy(s)' /\ req'[s].by = c => s = t
      BY <1>5, <3>1
    <3> QED BY <1>5, <1>7, <3>3, <3>4, <3>5 DEF LonerOK
  <2>4. CASE b # c
    <3>1. v # u
      BY <1>2, <2>2, <2>4 DEF Alone
    <3>2. RowsOf(userid[c])' = RowsOf(userid[c])
      BY <1>6, <2>2, <3>1
    <3>3. ASSUME NEW i \in DOMAIN nas_logins, nas_logins[i].userid = v
          PROVE  nas_logins[i].authtoken \in Tokens'
      BY <1>4, <1>7, <3>1, <3>3
    <3>4. token[c] \in Tokens => token[c] \in Tokens'
      <4> SUFFICES ASSUME NEW i \in DOMAIN nas_logins, token[c] = nas_logins[i].authtoken
                   PROVE  token[c] \in Tokens'
        BY DEF Tokens
      <4>1. nas_logins[i].userid = v
        BY <2>2 DEF IInv, TokensLeadHome
      <4> QED BY <3>3, <4>1
    <3>5. waiting[c] # NoThread => waiting[c] \in Thread /\ waiting[c] # t
      BY <1>1, <2>4, WaitTypes DEF IInv, WaitersOK
    <3>6. ASSUME NEW s \in Thread, Busy(s), req[s].by = c, req[s].token \in Tokens
          PROVE  req[s].token \in Tokens'
      <4>1. Bearer(s) /\ WriteOK(s) /\ RequestOK(s)
        BY <3>6, RowTypes DEF Bearer, IInv, WritesOK, RequestsOK, AnsweredUsersHaveRows
      <4>2. req[s].userid = v
        BY <2>2, <3>6, <4>1 DEF RequestOK, Bearer
      <4>3. PICK i \in DOMAIN nas_logins : nas_logins[i].authtoken = req[s].token
        BY <3>6 DEF Tokens
      <4>4. nas_logins[i].userid = v
        BY <4>1, <4>2, <4>3 DEF WriteOK, RowFor
      <4> QED BY <3>3, <4>3, <4>4
    <3> QED BY <1>1, <1>4, <1>5, <2>1, <2>4, <3>2, <3>4, <3>5, <3>6 DEF LonerOK
  <2> QED BY <2>3, <2>4
<1> QED BY <1>10, <1>11, <1>12, <1>13, <1>14, <1>15, <1>16, <1>17 DEF IInv

----------------------------------------------------------------------------
(***************************************************************************)
(* The answer.  A console that is given a userid had none, so it has       *)
(* neither token nor rows; one that is given a token gets that of the row  *)
(* its request has written, if it is still there.                          *)
(***************************************************************************)
LEMMA AnswerStep ==
    ASSUME IInv, NEW t \in Thread, Answer(t)
    PROVE  IInv'
<1>. DEFINE Account == waiting[req[t].by] = t /\ req[t].pc = "answer"
                       /\ req[t].action = "acctcreate"
            Login == waiting[req[t].by] = t /\ req[t].pc = "answer"
                     /\ req[t].action # "acctcreate"
<1>1. TypeOK /\ Busy(t) /\ req[t].pc \in {"answer", "refuse"} /\ req[t] \in Request
  BY DEF Answer, At, Busy, IInv, AnsweredUsersHaveRows, TypeOK
<1>2. PICK c \in Console : c = req[t].by
  BY <1>1 DEF Request
<1>3. /\ UNCHANGED <<users, nas_logins, asked, pool>>
      /\ req' = [req EXCEPT ![t] = Idle]
      /\ waiting' = IF waiting[c] = t THEN [waiting EXCEPT ![c] = NoThread] ELSE waiting
      /\ userid' = IF Account THEN [userid EXCEPT ![c] = req[t].userid] ELSE userid
      /\ token' = IF Login THEN [token EXCEPT ![c] = req[t].token] ELSE token
  BY <1>1, <1>2 DEF Answer, At, Busy
<1>4. /\ ~ Busy(t)'
      /\ \A s \in Thread : s # t =>
            req'[s] = req[s] /\ Busy(s)' = Busy(s) /\ Bearer(s)' = Bearer(s)
      /\ \A u : RowsOf(u)' = RowsOf(u)
      /\ Tokens' = Tokens
      /\ \A s \in Thread : Busy(s)' => s # t /\ Busy(s)
  BY <1>1, <1>3 DEF Busy, Bearer, RowsOf, Tokens, TypeOK
<1>5. /\ \A d \in Console : d # c => waiting'[d] = waiting[d] /\ waiting[d] # t
      /\ \A d \in Console : d # c => userid'[d] = userid[d] /\ token'[d] = token[d]
      /\ waiting[c] = t => waiting'[c] = NoThread
      /\ waiting[c] # t => waiting'[c] = waiting[c]
      /\ c \notin Impatient => waiting[c] = t
      /\ waiting[c] = t => (req[t].action = "acctcreate" <=> userid[c] = NoUser)
  <2>1. \A d \in Console : d # c => waiting[d] # t
    BY <1>2, WaitTypes DEF IInv, WaitersOK
  <2>2. /\ c \notin Impatient => waiting[c] = t
        /\ waiting[c] = t => (req[t].action = "acctcreate" <=> userid[c] = NoUser)
    BY <1>1, <1>2, WaitTypes DEF IInv, WaitersOK
  <2> QED BY <1>1, <1>3, <2>1, <2>2 DEF TypeOK
<1>6. /\ ~ Account => userid' = userid
      /\ ~ Login => token' = token
      /\ Account => userid'[c] = req[t].userid /\ req[t].userid \in UserId
                    /\ req[t].userid # NoUser /\ userid[c] = NoUser /\ token[c] = NoToken
      /\ Login => token'[c] = req[t].token /\ Bearer(t) /\ req[t].token \in Token
                  /\ userid[c] = req[t].userid /\ userid[c] # NoUser /\ ~ Account
      /\ waiting[c] = t /\ req[t].pc = "answer" => Account \/ Login
  <2>1. RequestOK(t)
    BY <1>1 DEF IInv, RequestsOK
  <2>2. userid[c] = NoUser => token[c] = NoToken
    BY DEF IInv, TokensOK
  <2> QED BY <1>1, <1>2, <1>3, <1>5, <2>1, <2>2 DEF TypeOK, RequestOK, Request, Bearer
<1>. HIDE DEF Account, Login
<1>7. /\ req' \in [Thread -> Request \cup {Idle}]
      /\ waiting' \in [Console -> Thread \cup {NoThread}]
      /\ userid' \in [Console -> UserId \cup {NoUser}]
      /\ token' \in [Console -> Token \cup {NoToken}]
  <2>1. req' \in [Thread -> Request \cup {Idle}]
    BY <1>1, <1>3 DEF TypeOK
  <2>2. waiting' \in [Console -> Thread \cup {NoThread}]
    BY <1>1, <1>3 DEF TypeOK
  <2>3. userid' \in [Console -> UserId \cup {NoUser}]
    BY <1>1, <1>3, <1>6 DEF TypeOK
  <2>4. token' \in [Console -> Token \cup {NoToken}]
    BY <1>1, <1>3, <1>6 DEF TypeOK
  <2> QED BY <2>1, <2>2, <2>3, <2>4
<1>8. TypeOK'
  BY <1>1, <1>3, <1>7 DEF TypeOK
<1>9. AnsweredUsersHaveRows'
  <2>1. Login => RowsOf(userid[c]) # {}
    <3>1. ASSUME Login PROVE RowsOf(req[t].userid) # {}
      BY <1>6, <3>1 DEF IInv, WritesOK, WriteOK, Login
    <3> QED BY <1>6, <3>1
  <2> SUFFICES ASSUME NEW d \in Console, token'[d] # NoToken
               PROVE  RowsOf(userid[d])' # {}
    BY <1>8 DEF AnsweredUsersHaveRows
  <2>2. token[d] # NoToken => RowsOf(userid[d]) # {}
    BY DEF IInv, AnsweredUsersHaveRows
  <2>3. userid'[d] = userid[d] /\ RowsOf(userid[d]) # {}
    BY <1>5, <1>6, <2>1, <2>2
  <2> QED BY <1>3, <2>3 DEF RowsOf
<1>10. OwnersOK' /\ UsersOK'
  <2>1. ASSUME NEW i \in DOMAIN nas_logins
        PROVE  userid'[nas_logins[i].data.by] = nas_logins[i].userid
    <3>1. nas_logins[i] \in Row /\ userid[nas_logins[i].data.by] = nas_logins[i].userid
      BY <1>1, RowTypes DEF IInv, OwnersOK
    <3>2. nas_logins[i].data.by \in Console /\ nas_logins[i].userid # NoUser
      BY <3>1 DEF Row, Data, UserId, NoUser, FirstUser
    <3> QED BY <1>5, <1>6, <3>1, <3>2
  <2> QED BY <1>3, <2>1 DEF OwnersOK, UsersOK, IInv
<1>11. TokensLeadHome'
  <2>1. ASSUME NEW i \in DOMAIN nas_logins, NEW d \in Console,
               token'[d] = nas_logins[i].authtoken
        PROVE  nas_logins[i].data.by = d /\ nas_logins[i].userid = userid'[d]
    <3>1. nas_logins[i].authtoken # NoToken
      BY <1>1, RowTypes DEF Tokens
    <3>2. CASE d = c /\ Login
      <4>1. nas_logins[i] = RowFor(req[t])
        BY <1>6, <2>1, <3>2 DEF IInv, WritesOK, WriteOK
      <4> QED BY <1>2, <1>6, <3>2, <4>1 DEF RowFor
    <3>3. CASE ~ (d = c /\ Login)
      <4>1. token[d] = token'[d]
        BY <1>5, <1>6, <3>3
      <4>2. nas_logins[i].data.by = d /\ nas_logins[i].userid = userid[d]
        BY <2>1, <4>1 DEF IInv, TokensLeadHome
      <4>3. userid'[d] = userid[d]
        BY <1>5, <1>6, <2>1, <3>1, <4>1
      <4> QED BY <4>2, <4>3
    <3> QED BY <3>2, <3>3
  <2> QED BY <1>3, <2>1 DEF IInv, TokensLeadHome
<1>12. RequestsOK'
  <2> SUFFICES ASSUME NEW s \in Thread, s # t, Busy(s) PROVE RequestOK(s)'
    BY <1>4 DEF RequestsOK
  <2>1. RequestOK(s) /\ req'[s] = req[s] /\ req[s].by \in Console
    BY <1>4, WaitTypes DEF IInv, RequestsOK
  <2>2. req[s].action # "acctcreate" => userid'[req[s].by] = userid[req[s].by]
    BY <1>5, <1>6, <2>1 DEF RequestOK
  <2>3. req[s].action # "acctcreate" => userid'[req[s].by] = req[s].userid
    BY <2>1, <2>2 DEF RequestOK
  <2>4. CASE req[s].action = "acctcreate"
    BY <2>1, <2>4 DEF RequestOK
  <2>5. CASE req[s].action # "acctcreate"
    <3>1. /\ req[s].pc # "max" /\ req[s].userid # NoUser
          /\ req[s].token # NoToken <=> req[s].pc \in {"find", "insert", "update", "answer"}
      BY <2>1, <2>5 DEF RequestOK
    <3> QED BY <2>1, <2>3, <2>5, <3>1 DEF RequestOK
  <2> QED BY <2>4, <2>5
<1>13. WritesOK'
  <2>1. ASSUME NEW s \in Thread, s # t, Bearer(s) PROVE WriteOK(s)'
    <3>1. WriteOK(s) /\ req'[s] = req[s]
      BY <1>4, <2>1 DEF IInv, WritesOK
    <3> QED BY <1>3, <3>1 DEF WriteOK, RowFor, RowsOf
  <2> QED BY <1>4, <2>1 DEF WritesOK, Bearer
<1>14. WaitersOK'
  <2>1. ASSUME NEW d \in Console, waiting'[d] # NoThread
        PROVE  /\ Busy(waiting[d])' /\ waiting'[d] = waiting[d]
               /\ req'[waiting[d]] = req[waiting[d]] /\ req[waiting[d]].by = d
               /\ req[waiting[d]].action = "acctcreate" <=> userid'[d] = NoUser
    <3>1. waiting'[d] = waiting[d] /\ waiting[d] \in Thread /\ waiting[d] # t
      BY <1>5, <2>1, WaitTypes
    <3>2. /\ Busy(waiting[d]) /\ req[waiting[d]].by = d
          /\ req[waiting[d]].action = "acctcreate" <=> userid[d] = NoUser
      BY <2>1, <3>1 DEF IInv, WaitersOK
    <3>3. userid'[d] = userid[d]
      BY <1>2, <1>5, <1>6, <3>1 DEF Account
    <3>4. req'[waiting[d]] = req[waiting[d]]
      BY <1>4, <3>1
    <3>5. Busy(waiting[d])'
      BY <3>1, <3>2, <3>4 DEF Busy
    <3> QED BY <3>1, <3>2, <3>3, <3>4, <3>5
  <2>2. ASSUME NEW s \in Thread, s # t, Busy(s), req[s].by \notin Impatient
        PROVE  waiting'[req[s].by] = s
    <3>1. waiting[req[s].by] = s /\ req[s].by \in Console
      BY <2>2, WaitTypes DEF IInv, WaitersOK
    <3> QED BY <1>5, <2>2, <3>1
  <2>3. \A d \in Console : waiting'[d] # NoThread =>
          /\ Busy(waiting[d])' /\ req'[waiting'[d]].by = d
          /\ req'[waiting'[d]].action = "acctcreate" <=> userid'[d] = NoUser
    BY <2>1
  <2> QED BY <1>4, <2>2, <2>3 DEF WaitersOK
<1>15. TokensOK'
  <2>1. ASSUME NEW s \in Thread, s # t, Bearer(s), NEW d \in Console
        PROVE  token'[d] # req[s].token
    BY <1>5, <1>6, <2>1 DEF IInv, TokensOK
  <2>2. ASSUME NEW d \in Console, NEW e \in Console, token'[d] = token'[e],
               token'[d] # NoToken
        PROVE  d = e
    BY <1>5, <1>6, <2>2 DEF IInv, TokensOK
  <2>3. ASSUME NEW d \in Console, userid'[d] = NoUser PROVE token'[d] = NoToken
    BY <1>5, <1>6, <2>3 DEF IInv, TokensOK
  <2>4. \A s \in Thread : Bearer(s)' => s # t /\ Bearer(s) /\ req'[s] = req[s]
    BY <1>4 DEF Bearer
  <2> QED BY <2>1, <2>2, <2>3, <2>4 DEF IInv, TokensOK
<1>16. LonersOK'
  <2> SUFFICES ASSUME NEW d \in Console \ Impatient, Alone(d)', userid'[d] # NoUser
               PROVE  LonerOK(d)'
    BY DEF LonersOK
  <2>1. ASSUME NEW s \in Thread, Busy(s)', req'[s].by = d
        PROVE  s # t /\ Busy(s) /\ req'[s] = req[s] /\ waiting[d] = s /\ d # c
    BY <1>4, <1>5, <2>1 DEF IInv, WaitersOK
  <2>2. CASE d = c /\ Account
    <3>1. RowsOf(userid'[c]) = {}
      <4> SUFFICES ASSUME NEW i \in DOMAIN nas_logins, nas_logins[i].userid = userid'[c]
                   PROVE  FALSE
        BY DEF RowsOf
      <4>1. PICK e \in Console : userid[e] = userid'[c]
        BY <1>1, RowTypes DEF IInv, OwnersOK, Row, Data
      <4>2. e # c
        BY <1>6, <2>2, <4>1
      <4> QED BY <1>5, <2>2, <4>1, <4>2 DEF Alone
    <3>2. RowsOf(userid[d])' = {}
      BY <1>3, <2>2, <3>1 DEF RowsOf
    <3>3. token'[d] = NoToken
      BY <1>6, <2>2 DEF Account, Login
    <3> QED BY <2>1, <2>2, <3>2, <3>3 DEF LonerOK
  <2>3. CASE ~ (d = c /\ Account)
    <3>1. userid'[d] = userid[d]
      BY <1>5, <1>6, <2>3
    <3>2. Alone(d)
      <4> SUFFICES ASSUME NEW e \in Console \ {d} PROVE userid[e] # userid[d]
        BY DEF Alone
      <4>1. userid'[e] # userid'[d]
        BY DEF Alone
      <4> QED BY <1>5, <1>6, <3>1, <4>1
    <3>3. LonerOK(d)
      BY <3>1, <3>2 DEF IInv, LonersOK
    <3>4. \A i, j \in RowsOf(userid[d])' : i = j
      BY <1>3, <3>1, <3>3 DEF LonerOK, RowsOf
    <3>5. token'[d] # NoToken => token'[d] \in Tokens \/
             (waiting'[d] # NoThread /\ req'[waiting'[d]].pc = "answer")
      <4>1. CASE d = c /\ Login
        <5>1. req[t].token \in Tokens
          BY <1>1, <1>2, <3>3, <4>1 DEF LonerOK, Login
        <5> QED BY <1>6, <4>1, <5>1
      <4>2. CASE d = c /\ ~ Login
        <5>1. waiting[c] = t /\ req[t].pc # "answer" /\ token'[c] = token[c]
          BY <1>5, <1>6, <2>3, <4>2
        <5> QED BY <3>3, <4>2, <5>1 DEF LonerOK
      <4>3. CASE d # c
        <5>1. /\ token'[d] = token[d] /\ waiting'[d] = waiting[d]
              /\ waiting[d] # NoThread => req'[waiting[d]] = req[waiting[d]]
          BY <1>4, <1>5, <4>3, WaitTypes
        <5> QED BY <3>3, <5>1 DEF LonerOK
      <4> QED BY <4>1, <4>2, <4>3
    <3>6. ASSUME NEW s \in Thread, Busy(s)', req'[s].by = d
          PROVE  /\ req'[s].pc = "insert" => RowsOf(userid[d])' = {}
                 /\ req'[s].pc = "answer" => req'[s].token \in Tokens
      <4>1. /\ req[s].pc = "insert" => RowsOf(userid[d]) = {}
            /\ req[s].pc = "answer" => req[s].token \in Tokens
        BY <2>1, <3>3, <3>6 DEF LonerOK
      <4>2. RowsOf(userid[d])' = RowsOf(userid[d])
        BY <1>3, <3>1 DEF RowsOf
      <4> QED BY <2>1, <3>6, <4>1, <4>2
    <3> QED BY <1>4, <3>4, <3>5, <3>6 DEF LonerOK
  <2> QED BY <2>2, <2>3
<1> QED BY <1>9, <1>10, <1>11, <1>12, <1>13, <1>14, <1>15, <1>16 DEF IInv

----------------------------------------------------------------------------
(***************************************************************************)
(* The consoles, and the profile server.                                   *)
(***************************************************************************)

\* A console that waits for nothing starts a request, which has no token yet.
LEMMA AskStep ==
    ASSUME IInv, NEW c \in Console, NEW t \in Thread,
           NEW action \in {"acctcreate", "login", "svcloc"}, Ask(c, t, action)
    PROVE  IInv'
<1>1. TypeOK /\ t # NoThread /\ waiting[c] = NoThread /\ ~ Busy(t)
  BY WaitTypes DEF IInv, AnsweredUsersHaveRows, Ask, Busy
<1>2. PICK q : q = [action |-> action, by |-> c, userid |-> userid[c], token |-> NoToken,
                    pc |-> IF action = "svcloc" THEN "draw" ELSE "ban"]
  OBVIOUS
<1>3. /\ UNCHANGED <<users, nas_logins, userid, token, pool>>
      /\ asked' = [asked EXCEPT ![c] = @ + 1] /\ asked[c] < MaxRequests[c]
      /\ waiting' = [waiting EXCEPT ![c] = t] /\ req' = [req EXCEPT ![t] = q]
      /\ action = "acctcreate" <=> userid[c] = NoUser
  BY <1>2 DEF Ask
<1>4. q \in Request
  BY <1>1, <1>2 DEF Request, TypeOK
<1>5. /\ req' \in [Thread -> Request \cup {Idle}]
      /\ waiting' \in [Console -> Thread \cup {NoThread}]
      /\ waiting'[c] = t /\ \A d \in Console : d # c => waiting'[d] = waiting[d]
      /\ req'[t] = q /\ Busy(t)' /\ ~ Bearer(t)'
      /\ \A s \in Thread : s # t =>
            req'[s] = req[s] /\ Busy(s)' = Busy(s) /\ Bearer(s)' = Bearer(s)
      /\ \A d \in Console : waiting[d] # NoThread => waiting[d] \in Thread \ {t}
  <2>1. req' \in [Thread -> Request \cup {Idle}] /\ req'[t] = q
        /\ \A s \in Thread : s # t => req'[s] = req[s]
    BY <1>1, <1>3, <1>4 DEF TypeOK
  <2>2. /\ waiting' \in [Console -> Thread \cup {NoThread}]
        /\ waiting'[c] = t /\ \A d \in Console : d # c => waiting'[d] = waiting[d]
    BY <1>1, <1>3 DEF TypeOK
  <2>3. \A d \in Console : waiting[d] # NoThread => waiting[d] \in Thread \ {t}
    BY <1>1, WaitTypes DEF IInv, WaitersOK
  <2>4. Busy(t)' /\ ~ Bearer(t)'
    BY <1>2, <1>4, <2>1, DistinctAssumption DEF Busy, Bearer
  <2>5. \A s \in Thread : s # t => Busy(s)' = Busy(s) /\ Bearer(s)' = Bearer(s)
    BY <2>1 DEF Busy, Bearer
  <2> QED BY <2>1, <2>2, <2>3, <2>4, <2>5
<1>6. TypeOK'
  <2>1. /\ DOMAIN asked = Console /\ \A d \in Console : asked[d] \in 0 .. MaxRequests[d]
        /\ \A d \in Console : MaxRequests[d] \in Nat
    BY <1>1, BoundAssumption DEF TypeOK
  <2>2. asked[c] + 1 \in 0 .. MaxRequests[c]
    BY <1>3, <2>1
  <2>3. /\ DOMAIN asked' = Console /\ asked'[c] = asked[c] + 1
        /\ \A d \in Console : d # c => asked'[d] = asked[d]
    BY <1>3, <2>1
  <2>4. \A d \in Console : asked'[d] \in 0 .. MaxRequests[d]
    BY <2>1, <2>2, <2>3
  <2> QED BY <1>1, <1>3, <1>5, <2>3, <2>4 DEF TypeOK
<1>7. AnsweredUsersHaveRows' /\ TokensLeadHome' /\ UsersOK' /\ OwnersOK'
  BY <1>3, <1>6 DEF IInv, AnsweredUsersHaveRows, TokensLeadHome, UsersOK, OwnersOK, RowsOf
<1>8. RequestsOK'
  <2>1. RequestOK(t)'
    BY <1>2, <1>3, <1>5 DEF RequestOK
  <2>2. ASSUME NEW s \in Thread, s # t, Busy(s) PROVE RequestOK(s)'
    <3>1. RequestOK(s) /\ req'[s] = req[s]
      BY <1>5, <2>2 DEF IInv, RequestsOK
    <3> QED BY <1>3, <3>1 DEF RequestOK
  <2> QED BY <1>5, <2>1, <2>2 DEF RequestsOK
<1>9. WritesOK'
  <2>1. ASSUME NEW s \in Thread, s # t, Bearer(s) PROVE WriteOK(s)'
    <3>1. WriteOK(s) /\ req'[s] = req[s]
      BY <1>5, <2>1 DEF IInv, WritesOK
    <3> QED BY <1>3, <3>1 DEF WriteOK, RowFor, RowsOf
  <2> QED BY <1>5, <2>1 DEF WritesOK
<1>10. WaitersOK'
  <2>1. ASSUME NEW d \in Console, waiting'[d] # NoThread
        PROVE  /\ Busy(waiting[d])' /\ req'[waiting'[d]].by = d
               /\ req'[waiting'[d]].action = "acctcreate" <=> userid'[d] = NoUser
    <3>1. CASE d = c
      BY <1>2, <1>3, <1>5, <3>1 DEF Busy
    <3>2. CASE d # c
      BY <1>3, <1>5, <2>1, <3>2 DEF IInv, WaitersOK, Busy
    <3> QED BY <3>1, <3>2
  <2>2. ASSUME NEW s \in Thread, Busy(s)', req'[s].by \notin Impatient
        PROVE  waiting'[req'[s].by] = s
    <3>1. CASE s = t
      BY <1>2, <1>5, <3>1
    <3>2. CASE s # t
      <4>1. waiting[req[s].by] = s /\ req[s].by \in Console /\ s # NoThread
        BY <1>5, <2>2, <3>2, WaitTypes DEF IInv, WaitersOK
      <4> QED BY <1>1, <1>5, <3>2, <4>1
    <3> QED BY <3>1, <3>2
  <2> QED BY <2>1, <2>2 DEF WaitersOK
<1>11. TokensOK'
  <2>1. \A s \in Thread : Bearer(s)' => s # t /\ Bearer(s) /\ req'[s] = req[s]
    BY <1>5
  <2> QED BY <1>3, <2>1 DEF IInv, TokensOK
<1>12. LonersOK'
  <2> SUFFICES ASSUME NEW d \in Console \ Impatient, Alone(d), userid[d] # NoUser
               PROVE  LonerOK(d)'
    BY <1>3 DEF LonersOK, Alone
  <2>1. LonerOK(d)
    BY DEF IInv, LonersOK
  <2>2. Tokens' = Tokens /\ RowsOf(userid[d])' = RowsOf(userid[d])
    BY <1>3 DEF Tokens, RowsOf
  <2>3. token[d] # NoToken => token[d] \in Tokens \/
           (waiting'[d] # NoThread /\ req'[waiting'[d]].pc = "answer")
    <3>1. CASE d = c
      BY <1>1, <2>1, <3>1 DEF LonerOK
    <3>2. CASE d # c
      BY <1>5, <2>1, <3>2 DEF LonerOK
    <3> QED BY <3>1, <3>2
  <2>4. req'[t].pc # "insert" /\ req'[t].pc # "answer"
    BY <1>2, <1>5
  <2> QED BY <1>3, <1>5, <2>1, <2>2, <2>3, <2>4 DEF LonerOK
<1> QED BY <1>7, <1>8, <1>9, <1>10, <1>11, <1>12 DEF IInv

\* Only an impatient console gives up.
LEMMA GiveUpStep ==
    ASSUME IInv, NEW c \in Console, GiveUp(c)
    PROVE  IInv'
<1>1. TypeOK
  BY DEF IInv, AnsweredUsersHaveRows
<1>2. /\ UNCHANGED <<users, nas_logins, req, userid, token, asked, pool>>
      /\ waiting' = [waiting EXCEPT ![c] = NoThread] /\ c \in Impatient
  BY DEF GiveUp
<1>3. /\ waiting' \in [Console -> Thread \cup {NoThread}] /\ waiting'[c] = NoThread
      /\ \A d \in Console : d # c => waiting'[d] = waiting[d]
  BY <1>1, <1>2 DEF TypeOK
<1>4. /\ \A s : Busy(s)' = Busy(s) /\ Bearer(s)' = Bearer(s)
      /\ Tokens' = Tokens /\ \A u : RowsOf(u)' = RowsOf(u)
  BY <1>2 DEF Busy, Bearer, Tokens, RowsOf
<1>5. TypeOK'
  BY <1>1, <1>2, <1>3 DEF TypeOK
<1>6. /\ AnsweredUsersHaveRows' /\ TokensLeadHome' /\ UsersOK' /\ OwnersOK'
      /\ RequestsOK' /\ TokensOK'
  BY <1>2, <1>4, <1>5 DEF IInv, AnsweredUsersHaveRows, TokensLeadHome, UsersOK, OwnersOK,
     RequestsOK, RequestOK, TokensOK, RowsOf
<1>7. WritesOK'
  <2>1. ASSUME NEW s \in Thread, Bearer(s) PROVE WriteOK(s)'
    BY <1>2, <2>1 DEF IInv, WritesOK, WriteOK, RowFor, RowsOf
  <2> QED BY <1>4, <2>1 DEF WritesOK
<1>8. WaitersOK'
  BY <1>2, <1>3, <1>4, WaitTypes DEF IInv, WaitersOK
<1>9. LonersOK'
  <2> SUFFICES ASSUME NEW d \in Console \ Impatient, Alone(d), userid[d] # NoUser
               PROVE  LonerOK(d)'
    BY <1>2 DEF LonersOK, Alone
  <2>1. LonerOK(d) /\ waiting'[d] = waiting[d]
    BY <1>2, <1>3 DEF IInv, LonersOK
  <2>2. Tokens' = Tokens /\ RowsOf(userid[d])' = RowsOf(userid[d])
    BY <1>2 DEF Tokens, RowsOf
  <2>3. token[d] # NoToken => token[d] \in Tokens \/
           (waiting'[d] # NoThread /\ req[waiting'[d]].pc = "answer")
    BY <2>1 DEF LonerOK
  <2> QED BY <1>2, <1>4, <2>1, <2>2, <2>3 DEF LonerOK
<1> QED BY <1>6, <1>7, <1>8, <1>9 DEF IInv

\* A change of table users alone, or none at all, touches only TypeOK and UsersOK.
LEMMA UsersStep ==
    ASSUME IInv, UNCHANGED <<nas_logins, req, clients, pool>>, TypeOK', UsersOK'
    PROVE  IInv'
<1>1. UNCHANGED <<nas_logins, req, userid, token, waiting, asked, pool>>
  BY DEF clients
<1>2. /\ \A s : Busy(s)' = Busy(s) /\ Bearer(s)' = Bearer(s)
      /\ Tokens' = Tokens /\ \A u : RowsOf(u)' = RowsOf(u)
  BY <1>1 DEF Busy, Bearer, Tokens, RowsOf
<1>3. /\ AnsweredUsersHaveRows' /\ TokensLeadHome' /\ OwnersOK'
      /\ RequestsOK' /\ TokensOK' /\ WaitersOK'
  BY <1>1, <1>2 DEF IInv, AnsweredUsersHaveRows, TokensLeadHome, OwnersOK,
     RequestsOK, RequestOK, TokensOK, RowsOf, WaitersOK, Busy
<1>4. WritesOK'
  <2>1. ASSUME NEW s \in Thread, Bearer(s) PROVE WriteOK(s)'
    BY <1>1, <2>1 DEF IInv, WritesOK, WriteOK, RowFor, RowsOf
  <2> QED BY <1>2, <2>1 DEF WritesOK
<1>5. LonersOK'
  <2> SUFFICES ASSUME NEW d \in Console \ Impatient, Alone(d), userid[d] # NoUser
               PROVE  LonerOK(d)'
    BY <1>1 DEF LonersOK, Alone
  <2> QED BY <1>1, <1>2 DEF LonerOK, Busy, RowsOf, IInv, LonersOK
<1> QED BY <1>3, <1>4, <1>5 DEF IInv

\* Only a console with a token, and hence a userid, is registered.
LEMMA CreateStep ==
    ASSUME IInv, NEW c \in Console, CreateUser(c)
    PROVE  IInv'
<1>1. TypeOK /\ UsersOK /\ token[c] \in Tokens /\ userid[c] < MaxUserid
      /\ users' = users \cup {userid[c]} /\ UNCHANGED <<nas_logins, req, clients, pool>>
  BY DEF IInv, AnsweredUsersHaveRows, CreateUser
<1>2. userid[c] \in UserId
  BY <1>1, RowTypes DEF IInv, TokensOK, TypeOK
<1>3. userid[c] \in FirstUser .. MaxUserid - 1
  BY <1>1, <1>2, BoundAssumption DEF UserId, FirstUser
<1>4. UsersOK'
  BY <1>1, <1>3 DEF UsersOK
<1>5. TypeOK'
  BY <1>1, <1>2 DEF TypeOK, clients
<1> QED BY <1>1, <1>4, <1>5, UsersStep

----------------------------------------------------------------------------
(***************************************************************************)
(* The theorems.                                                           *)
(***************************************************************************)

LEMMA InitIInv == Init => IInv
<1> SUFFICES ASSUME Init PROVE IInv
  OBVIOUS
<1>1. /\ users = {} /\ nas_logins = << >> /\ DOMAIN nas_logins = {}
      /\ nas_logins \in Seq(Row)
      /\ \A t \in Thread : ~ Busy(t) /\ ~ Bearer(t)
      /\ \A c \in Console : token[c] = NoToken /\ waiting[c] = NoThread
  BY DEF Init, Busy, Bearer
<1>2. TypeOK
  <2>1. userid \in [Console -> UserId \cup {NoUser}]
    BY ConsoleAssumption DEF Init, UserId
  <2>2. DOMAIN asked = Console /\ \A c \in Console : asked[c] \in 0 .. MaxRequests[c]
    BY BoundAssumption DEF Init
  <2> QED BY <1>1, <2>1, <2>2 DEF Init, TypeOK
<1>3. \A u : RowsOf(u) = {}
  BY <1>1 DEF RowsOf
<1>4. LonersOK
  BY <1>1, <1>3 DEF LonersOK, LonerOK
<1> QED BY <1>1, <1>2, <1>4 DEF IInv, AnsweredUsersHaveRows, TokensLeadHome, UsersOK,
     RequestsOK, WritesOK, WaitersOK, TokensOK, OwnersOK

(***************************************************************************)
(* Every state of the server satisfies the invariant: one step per         *)
(* statement of a request, and per act of a console.                       *)
(***************************************************************************)
THEOREM Invariance == Spec => []IInv
<1>1. IInv /\ [Next]_vars => IInv'
  <2> SUFFICES ASSUME IInv, [Next]_vars PROVE IInv'
    OBVIOUS
  <2>1. ASSUME NEW t \in Thread, Serve(t) PROVE IInv'
    <3>1. CASE IsBanned(t) \/ GetNextAvailableUserid(t) \/ FindRow(t)
      BY <3>1, LookUps, MoveStep
    <3>2. CASE DrawToken(t)
      BY <3>2, DrawStep
    <3>3. CASE InsertRow(t)
      BY <3>3, InsertWrites, WriteStep
    <3>4. CASE UpdateRow(t)
      BY <3>4, UpdateWrites, WriteStep
    <3>5. CASE Answer(t)
      BY <3>5, AnswerStep
    <3> QED BY <2>1, <3>1, <3>2, <3>3, <3>4, <3>5 DEF Serve
  <2>2. ASSUME NEW c \in Console, CreateUser(c) \/ GiveUp(c) PROVE IInv'
    BY <2>2, CreateStep, GiveUpStep
  <2>3. ASSUME NEW c \in Console, NEW t \in Thread,
               NEW action \in {"acctcreate", "login", "svcloc"}, Ask(c, t, action)
        PROVE  IInv'
    BY <2>3, AskStep
  <2>4. CASE UNCHANGED vars
    <3>1. UNCHANGED <<nas_logins, req, clients, pool>> /\ TypeOK' /\ UsersOK'
      BY <2>4 DEF vars, clients, IInv, AnsweredUsersHaveRows, TypeOK, UsersOK
    <3> QED BY <3>1, UsersStep
  <2> QED BY <2>1, <2>2, <2>3, <2>4 DEF Next
<1> QED BY <1>1, InitIInv, PTL DEF Spec

(***************************************************************************)
(* Everything has its type, and the user of a console that was answered a  *)
(* token has a row in nas_logins.                                          *)
(***************************************************************************)
THEOREM UsersKeepRows == Spec => []AnsweredUsersHaveRows
<1>1. IInv => AnsweredUsersHaveRows
  BY DEF IInv
<1> QED BY <1>1, Invariance, PTL

(***************************************************************************)
(* get_nas_login finds by a token the data of the console it was given to, *)
(* and of nobody else.                                                     *)
(***************************************************************************)
THEOREM TokensAreTheirOwn == Spec => []TokensLeadHome
<1>1. IInv => TokensLeadHome
  BY DEF IInv
<1> QED BY <1>1, Invariance, PTL

(***************************************************************************)
(* The last token of a patient console that shares its userid with nobody  *)
(* is in nas_logins when its request is over.                              *)
(***************************************************************************)
THEOREM LonersLogIn == Spec => []LastTokenResolves
<1>1. IInv => LastTokenResolves
  <2> SUFFICES ASSUME IInv, NEW c \in Console \ Impatient, Alone(c),
                      waiting[c] = NoThread, token[c] # NoToken
               PROVE  token[c] \in Tokens
    BY DEF LastTokenResolves, IInv, AnsweredUsersHaveRows
  <2>1. userid[c] # NoUser
    BY DEF IInv, TokensOK
  <2> QED BY <2>1 DEF IInv, LonersOK, LonerOK
<1> QED BY <1>1, Invariance, PTL

(***************************************************************************)
(* generate_authtoken never gives a second row to a userid whose requests  *)
(* come one after the other.                                               *)
(***************************************************************************)
THEOREM LonersHaveOneRow == Spec => []OneRowPerLoner
<1>1. IInv => OneRowPerLoner
  <2> SUFFICES ASSUME IInv, NEW c \in Console \ Impatient, userid[c] # NoUser, Alone(c)
               PROVE  Cardinality(RowsOf(userid[c])) <= 1
    BY DEF OneRowPerLoner
  <2>1. \A i, j \in RowsOf(userid[c]) : i = j
    BY DEF IInv, LonersOK, LonerOK
  <2> QED BY <2>1, OneAtMost
<1> QED BY <1>1, Invariance, PTL
=============================================================================
