------------------------------- MODULE Filters -------------------------------
(***************************************************************************)
(* The search of gamespy_backend_server.py: find_servers takes a filter    *)
(* that a game wrote in a dialect of SQL, makes a Python expression of it  *)
(* for each server in turn, with the server's data in place of the names   *)
(* of fields, and evaluates that.                                          *)
(*                                                                         *)
(* A token is its text and what get_token says of it.  FIELD is any word,  *)
(* "and" and "or" included, NUMBER whatever begins with a digit, UNKNOWN   *)
(* an empty text, and a character that get_token does not know is NONE.    *)
(***************************************************************************)
EXTENDS Naturals, SequencesExt

CONSTANTS NumberOf,  \* the texts that int() accepts -> their numbers
          RankOf,    \* texts -> their places in the order of texts
          LowerCase  \* the texts that lower() changes -> what they become

ASSUME RankAssumption == IsInjective(RankOf) /\ Range(RankOf) \subseteq Nat

Token(type, text) == [type |-> type, text |-> text]

IsNumeral(text) == text \in DOMAIN NumberOf
Lower(text) == IF text \in DOMAIN LowerCase THEN LowerCase[text] ELSE text

----------------------------------------------------------------------------
(* translate_expression. *)

Connective(t) == t.type = "FIELD" /\ t.text \in {"and", "or", "LIKE"}
Paren(t) == t.type = "TOKEN" /\ t.text \in {"(", ")"}

\* get_token takes no character off at one it does not know, and the loop of
\* translate_expression never ends.
Hangs(filter) == \E i \in DOMAIN filter : filter[i].type = "NONE"

\* The positions of the words that may be fields of a server.
Variables(filter) == {i \in DOMAIN filter : filter[i].type = "FIELD"}

----------------------------------------------------------------------------
(* The data of a server for the fields of a filter. *)

\* Mutant: the scan stops at any operator, its own among them.
DecidingFirst(filter, idx) ==
    LET Decides(j) == filter[j].type \in {"STRING", "NUMBER", "TOKEN"}
        js == {j \in idx + 1 .. Len(filter) : Decides(j)}
    IN  IF js = {} THEN 0 ELSE CHOOSE j \in js : \A i \in js : j <= i

\* The token right of variable idx that settles the type of a number: the first
\* literal, or operator that is not the variable's own.  0 is none.
Deciding(filter, idx) ==
    LET Decides(j) ==
            \/ filter[j].type \in {"STRING", "NUMBER"}
            \/ filter[j].type = "TOKEN" /\ ~Paren(filter[j]) /\ j # idx + 1
        js == {j \in idx + 1 .. Len(filter) : Decides(j)}
    IN  IF js = {} THEN 0 ELSE CHOOSE j \in js : \A i \in js : j <= i

\* What stands in the expression for variable idx, of value t: a word becomes
\* a string literal, and a number what it is compared with, when it says.
Substituted(filter, idx, t) ==
    LET j == Deciding(filter, idx)
    IN  CASE t.type = "FIELD" -> Token("STRING", t.text)
          [] t.type = "NUMBER" /\ j # 0 /\ filter[j].type = "STRING" ->
                Token("STRING", t.text)
          [] t.type = "NUMBER" /\ j # 0 /\ filter[j].type # "STRING" ->
                IF IsNumeral(t.text) THEN t ELSE Token("ERROR", t.text)
          [] OTHER -> t

\* Values take the place of the fields from left to right, but the scan to the
\* right meets only fields that have none yet.
Expression(filter, data) ==
    [i \in DOMAIN filter |->
        IF i \in Variables(filter) /\ filter[i].text \in DOMAIN data
        THEN Substituted(filter, i, data[filter[i].text])
        ELSE filter[i]]

\* A number with other characters in it, or a field without a value, stops the
\* search: int() or ast.parse raises.
Raises(expr) ==
    \E i \in DOMAIN expr :
        \/ expr[i].type \in {"ERROR", "UNKNOWN"}
        \/ expr[i].type = "NUMBER" /\ ~IsNumeral(expr[i].text)

\* validate_ast lets no name stand but that of LIKE.
Valid(expr) ==
    \A i \in DOMAIN expr : expr[i].type = "FIELD" => Connective(expr[i])

----------------------------------------------------------------------------
(* eval. *)

Depth(expr, i) ==
    Cardinality({j \in 1 .. i - 1 : expr[j] = Token("TOKEN", "(")})
    - Cardinality({j \in 1 .. i - 1 : expr[j] = Token("TOKEN", ")")})

\* The first place of a connective outside all parentheses, or 0.
Split(expr, word) ==
    LET is == {i \in DOMAIN expr :
                  expr[i] = Token("FIELD", word) /\ Depth(expr, i) = 0}
    IN  IF is = {} THEN 0 ELSE CHOOSE i \in is : \A j \in is : i <= j

\* Where a literal stands among the numbers, or among the texts.
Order(t) == IF t.type = "NUMBER" THEN NumberOf[t.text] ELSE RankOf[t.text]

YesIf(holds) == IF holds THEN "yes" ELSE "no"

\* A comparison of two literals.  A text and a number are not equal, and Python
\* raises when it is to order them; it orders two numbers, and two texts.
Compare(a, op, b) ==
    LET alike == a.type = b.type
        same == alike /\ Order(a) = Order(b)
    IN  CASE op = "LIKE" -> YesIf(Lower(a.text) = Lower(b.text))
          [] op = "=" -> YesIf(same)
          [] op = "!=" -> YesIf(~same)
          [] op \in {"<", ">"} /\ ~alike -> "raise"
          [] op = "<" /\ alike -> YesIf(Order(a) < Order(b))
          [] op = ">" /\ alike -> YesIf(Order(b) < Order(a))

\* "and" binds tighter than "or", and both stop at what decides them.  value[i, j]
\* is that of the tokens from the i-th to the j-th.
Eval(expr) ==
    LET value[i \in 1 .. Len(expr) + 1, j \in 0 .. Len(expr)] ==
            LET part == SubSeq(expr, i, j)
                or == Split(part, "or")
                and == Split(part, "and")
                Left(at) == value[i, i + at - 2]
                Right(at) == value[i + at, j]
            IN  CASE or # 0 -> IF Left(or) = "no" THEN Right(or) ELSE Left(or)
                  [] or = 0 /\ and # 0 -> IF Left(and) = "yes" THEN Right(and) ELSE Left(and)
                  [] or = 0 /\ and = 0 ->
                        IF Paren(expr[i]) THEN value[i + 1, j - 1]
                        ELSE Compare(expr[i], expr[i + 1].text, expr[i + 2])
    IN  value[1, Len(expr)]

\* What the search makes of one server.
Verdict(filter, data) ==
    LET expr == Expression(filter, data)
    IN  CASE filter = <<>> -> "yes"
          [] filter # <<>> /\ Raises(expr) -> "raise"
          [] filter # <<>> /\ ~Raises(expr) /\ ~Valid(expr) -> "no"
          [] OTHER -> Eval(expr)

\* The search goes through the servers in the order of the list.  It ends when
\* max are found (0 is no limit), and, without an answer, when a server raises.
FindServers(servers, verdict, max) ==
    LET after[i \in 0 .. Len(servers)] ==
            IF i = 0 THEN [found |-> <<>>, raised |-> FALSE]
            ELSE LET r == after[i - 1]
                     ended == r.raised \/ (max # 0 /\ Len(r.found) = max)
                 IN  CASE ~ended /\ verdict[servers[i]] = "yes" ->
                             [r EXCEPT !.found = Append(@, servers[i])]
                       [] ~ended /\ verdict[servers[i]] = "raise" -> [r EXCEPT !.raised = TRUE]
                       [] OTHER -> r
    IN  after[Len(servers)]
=============================================================================
