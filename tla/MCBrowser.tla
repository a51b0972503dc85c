------------------------------ MODULE MCBrowser ------------------------------
(* Small instances of the server browser, and of the hosts it lists, for TLC. *)
EXTENDS Matchmaking, TLC

CONSTANTS c1, c2, k1, ip1, ip2

Word(w) == Token("FIELD", w)
Text(w) == Token("STRING", w)
Num(n) == Token("NUMBER", n)

Numerals == "3" :> 3 @@ "4" :> 4 @@ "5" :> 5 @@ "40" :> 40 @@ "102" :> 102
Sorted == <<"102", "3", "4", "40", "5", "5x", "EU", "eu", "vs">>
Ranks == [w \in ToSet(Sorted) |-> CHOOSE i \in DOMAIN Sorted : Sorted[i] = w]
Capitals == "EU" :> "eu"

Listing(ip, port, local, console, id, data) ==
    [ip |-> ip, port |-> port, localport |-> local, console |-> console,
     session |-> id, data |-> data]

\* Two Wiis of one household, a DS whose ev is no number, and a Wii that has not
\* said where it is.
Wii1 == Listing(ip1, 1, 9, 1, 11,
                "ver" :> Num("3") @@ "ev" :> Num("40") @@ "rk" :> Word("vs")
                @@ "zone" :> Word("EU") @@ "pid" :> Num("5"))
Wii2 == Listing(ip1, 2, 9, 1, 12,
                "ver" :> Num("3") @@ "ev" :> Num("5") @@ "rk" :> Num("102")
                @@ "zone" :> Word("eu") @@ "pid" :> Num("4"))
DS == Listing(ip2, 0, 8, 0, 13, "ver" :> Num("5") @@ "ev" :> Num("5x") @@ "pid" :> Num("5"))

Nowhere == Listing(NoIp, 3, 7, 1, 14,
                 "ver" :> Num("3") @@ "ev" :> Num("5") @@ "rk" :> Num("102") @@ "pid" :> Num("5"))

Listings == {Wii1, Wii2, DS, Nowhere}

Cmp(l, op, r) == [left |-> l, op |-> op, right |-> r]
Tok(c) == LET Op == IF c.op = "LIKE" THEN Word("LIKE") ELSE Token("TOKEN", c.op)
          IN  <<c.left, Op, c.right>>
And == <<Word("and")>>
Or == <<Word("or")>>
Paren1(s) == <<Token("TOKEN", "(")>> \o s \o <<Token("TOKEN", ")")>>

\* The comparisons of the filters, as games write them.
Ver == Cmp(Word("ver"), "=", Num("3"))
Pid == Cmp(Word("pid"), "!=", Word("ver"))
Rank == Cmp(Word("rk"), "=", Text("102"))
Zone == Cmp(Word("zone"), "LIKE", Text("eu"))
Above == Cmp(Word("ev"), ">", Num("5"))
Versus == Cmp(Text("vs"), "=", Word("rk"))
Later == Cmp(Word("ev"), ">", Text("40"))
Before == Cmp(Word("zone"), "<", Text("eu"))
Reversed == Cmp(Text("102"), "=", Word("rk"))

Query(filter, clauses, max) ==
    [cmd |-> "list", filter |-> filter, clauses |-> clauses, max |-> max,
     fields |-> TRUE, nolist |-> FALSE]

Queries ==
    {Query(Tok(Ver) \o And \o Tok(Pid) \o And \o Paren1(Tok(Rank)), {{Ver, Pid, Rank}}, 0),
     Query(Tok(Ver) \o And \o Paren1(Tok(Versus) \o Or \o Tok(Above)),
           {{Ver, Versus}, {Ver, Above}}, 1),
     Query(Tok(Zone) \o Or \o Tok(Ver) \o And \o Tok(Versus), {{Zone}, {Ver, Versus}}, 0),
     Query(Tok(Pid), {{Pid}}, 1),
     Query(Tok(Later), {{Later}}, 0),
     Query(Tok(Before) \o And \o Tok(Pid), {{Before, Pid}}, 0),
     Query(Tok(Reversed) \o And \o Tok(Ver), {{Reversed, Ver}}, 0),
     Query(<<>>, {}, 1)}

\* A request for one's own address, and a filter with a character that no
\* token begins with.
Odd ==
    {[Query(<<>>, {}, 0) EXCEPT !.fields = FALSE],
     Query(<<Word("ver"), Token("NONE", "+")>>, {}, 0)}

To(ip, port) == [ip |-> ip, port |-> port]
Message(to, body) == [cmd |-> "message", to |-> to, body |-> body]
Introductions ==
    {Message(To(ip2, 0), [kind |-> "hello", own |-> To(ip1, 1)]),
     Message(To(ip1, 2), [kind |-> "hello", own |-> To(ip1, 0)]),
     Message(To(ip1, 1), [kind |-> "natneg", cookie |-> k1]),
     Message(To(ip1, 1), [kind |-> "other"])}

Joining == Message(To(ip1, 2), [kind |-> "natneg", cookie |-> k1])

\* One search, or one message, and two messages.
Few == c1 :> 1 @@ c2 :> 2
Full == {{Wii1, Wii2, DS}, {Wii1, Wii2}, {Wii2, Nowhere}}

Packets == c1 :> Queries \union Odd \union {[cmd |-> "keepalive"], Joining} @@ c2 :> Introductions

----------------------------------------------------------------------------
(* How a record gets its address: the heartbeats of a Wii, with a name that *)
(* says so and with one that does not.                                      *)

Little == "127.0.0.1, little-endian"
Big == "127.0.0.1, big-endian"

Told(ip, game) == <<<<"localport", "9">>, <<"publicip", ip>>, <<"gamename", game>>>>
Player == <<"dwc_pid", "5">>
HostBeats ==
    {Told("0", "tabwii"), Told("0", "tabwii") \o <<Player>>,
     Told("0", "tab") \o <<Player, <<"numplayers", "">>, <<"maxplayers", "4">>>>,
     Told(Big, "tab") \o <<Player>>,
     Told("0", "tabwii") \o <<Player, <<"hostname", "">>>>,
     Told("0", "tabwii") \o <<Player, <<"hostname", "Zo\\eb">>>>,
     <<<<"localport", "9">>, Player>>,
     Told("0", "tabwii") \o <<<<"statechanged", "2">>>>,
     <<>>}

Garbled == {"Zo\\eb"}
OfWii == "tabwii" :> 1
AsNumber == 0 :> Little @@ 1 :> Big

----------------------------------------------------------------------------
(***************************************************************************)
(* The two sides share no state, and a behaviour here is one of either:    *)
(* Init chooses which.                                                     *)
(***************************************************************************)
VARIABLE side

SidesInit ==
    /\ side \in {"host", "browser"}
    /\ MatchInit
    /\ side = "host" => listed = {Wii1, Wii2}

SidesNext ==
    /\ \/ side = "host" /\ H!Next /\ UNCHANGED vars
       \/ side = "browser" /\ Next /\ UNCHANGED heartbeats
    /\ UNCHANGED side

SidesSpec == SidesInit /\ [][SidesNext]_<<vars, side, heartbeats>>
=============================================================================
