------------------------------ MODULE Heartbeats ------------------------------
(***************************************************************************)
(* What a host's heartbeat says, on its way into the list of servers: the  *)
(* filter of the DPI proxy, dpi_proxy/dpi_filter_qr.c, the parser and the  *)
(* session of services/gamespy_qr_server.py, and the record that is        *)
(* listed, whose address other games are given.                            *)
(*                                                                         *)
(* Module ServerList has the same exchange with the times and failures of  *)
(* Redis and with a version number for the data.  Here the data counts,    *)
(* and a refresh is one step.  One host is enough: sessions share nothing. *)
(*                                                                         *)
(* A host's public ip is in its record as a number, and a number has the   *)
(* byte order of a console: 0 is the DS, little-endian, and 1 the Wii.     *)
(***************************************************************************)
EXTENDS Naturals, SequencesExt

CONSTANTS Nul,         \* the separator of strings
          Unprintable, \* words with a character that is not printable
          Kind,        \* what the host is, 0 or 1
          NameKind,    \* names of games that end with their console -> console
          Number,      \* console -> the host's ip as a number in that order
          Beats,       \* the heartbeats: sequences of <<key, value>>
          MaxBeats,    \* bound: heartbeats that are sent
          TextPackets  \* does the first byte of a packet compare as text?

\* What the constants are.  Keys and values are no separators; and what the host
\* says of its console and of its ip is so.
ConstantsOK ==
    /\ Kind \in {0, 1} /\ MaxBeats \in Nat
    /\ Nul # "" /\ Nul \notin Unprintable
    /\ \A beat \in Beats :
          /\ beat = [i \in 1 .. Len(beat) |-> <<beat[i][1], beat[i][2]>>] /\ Len(beat) \in Nat
          /\ \A i \in 1 .. Len(beat) : Nul \notin {beat[i][1], beat[i][2]}
          /\ \A kv \in ToSet(beat) :
                /\ kv[1] = "gamename" /\ kv[2] \in DOMAIN NameKind => NameKind[kv[2]] = Kind
                /\ kv[1] = "publicip" => kv[2] \in {"0", Number[Kind]}

VARIABLES net,       \* datagrams of the host on their way
          asked,     \* the challenges that the host was sent
          closed,    \* has it sent its closing heartbeat?
          session,   \* its session at QR; one that is not there is a new one
          record,    \* its record in Redis, in a set
          beats      \* heartbeats so far, for the bound

vars == <<net, asked, closed, session, record, beats>>

\* known and told are whether QR has looked for the console, and has found it.
NewSession ==
    [known |-> FALSE, console |-> 0, key |-> "", sent |-> FALSE, challenge |-> 0,
     kept |-> {}, named |-> FALSE, told |-> FALSE]

Init ==
    /\ net = {} /\ asked = {} /\ closed = FALSE
    /\ session = NewSession /\ record = {}
    /\ beats = 0

----------------------------------------------------------------------------
(* The host (external). *)

Word(w) == IF w = "" THEN <<>> ELSE <<w>>
Text(beat) ==
    FlattenSeq([i \in DOMAIN beat |->
        Word(beat[i][1]) \o <<Nul>> \o Word(beat[i][2]) \o <<Nul>>])

\* What the fields of a heartbeat say; of a repeated key, the last.
Meant(beat) ==
    [k \in {kv[1] : kv \in ToSet(beat)} |->
        beat[Max({i \in DOMAIN beat : beat[i][1] = k})][2]]

Says(data, key, value) == key \in DOMAIN data /\ data[key] = value

Send(beat) ==
    /\ beats < MaxBeats /\ ~closed
    /\ net' = net \union {[opcode |-> 3, beat |-> beat, challenge |-> 0]}
    /\ closed' = Says(Meant(beat), "statechanged", "2")
    /\ beats' = beats + 1
    /\ UNCHANGED <<asked, session, record>>

AnswerChallenge(n) ==
    /\ n \in asked /\ ~closed
    /\ net' = net \union {[opcode |-> 1, beat |-> <<>>, challenge |-> n]}
    /\ asked' = asked \ {n}
    /\ UNCHANGED <<closed, session, record, beats>>

----------------------------------------------------------------------------
(* The proxy. *)

\* inspect_qr, for datagrams that hold a session id: of the payload of a
\* heartbeat every character is printable, white space or NUL, and one is NUL.
InspectQr(opcode, payload) ==
    /\ opcode <= 9
    /\ opcode = 3 /\ payload # <<>> =>
           Contains(payload, Nul) /\ ToSet(payload) \intersect Unprintable = {}

----------------------------------------------------------------------------
(* The parser. *)

\* split: a separator ends one string and begins the next.
Strings(text) ==
    LET split[i \in 0 .. Len(text)] ==
            IF i = 0 THEN <<"">>
            ELSE LET begun == split[i - 1]
                 IN  IF text[i] = Nul THEN Append(begun, "")
                     ELSE [begun EXCEPT ![Len(begun)] = text[i]]
    IN  split[Len(text)]

\* Mutant: the strings are not stripped of the last separator.
StrippedNot(text) == text

\* rstrip takes off every separator at the end.
Stripped(text) == SubSeq(text, 1, Max({0} \union {i \in DOMAIN text : text[i] # Nul}))

\* An odd number of strings makes the index of the last value raise.
ParseRaises(text) == Len(Strings(Stripped(text))) % 2 = 1

Parsed(text) ==
    LET d == Strings(Stripped(text))
        At(k) == {i \in DOMAIN d : i % 2 = 1 /\ d[i] = k}
    IN  [k \in {d[i] : i \in {j \in DOMAIN d : j % 2 = 1}} |-> d[Max(At(k)) + 1]]

----------------------------------------------------------------------------
(* The QR server. *)

\* The console of a session is looked for once, when it first tells a player:
\* in the name of the game, and else in the profile, which may not be there.
LooksForConsole(k) == ~session.known /\ "dwc_pid" \in DOMAIN k

InName(k) == "gamename" \in DOMAIN k /\ k["gamename"] \in DOMAIN NameKind

\* The session after a heartbeat; found is whether the profile tells.
Noted(k, found) ==
    LET looks == LooksForConsole(k)
        told == looks /\ (InName(k) \/ found)
    IN  [session EXCEPT
            !.key = IF "gamename" \in DOMAIN k THEN k["gamename"] ELSE @,
            !.known = @ \/ looks, !.told = @ \/ told,
            !.console = CASE looks /\ InName(k) -> NameKind[k["gamename"]]
                          [] told /\ ~InName(k) -> Kind
                          [] OTHER -> @]

\* Mutant: the number is little-endian for every console.
AddressedLittle(k, console) ==
    [x \in DOMAIN k |-> IF x = "publicip" /\ k[x] = "0" THEN Number[0] ELSE k[x]]

\* A host that does not know its public ip says 0, and QR puts in the address
\* of the datagram, in the byte order of the console as far as it is known.
Addressed(k, console) ==
    [x \in DOMAIN k |-> IF x = "publicip" /\ k[x] = "0" THEN Number[console] ELSE k[x]]

\* update_server_list of session s with a heartbeat as it was noted.  Without
\* the name of the game it raises.
UpdateServerList(s, noted) ==
    LET k == noted.data
    IN  CASE "gamename" \notin DOMAIN k -> session' = s /\ UNCHANGED record
          [] "gamename" \in DOMAIN k /\ Says(k, "statechanged", "2") ->
                session' = NewSession /\ record' = {}
          [] OTHER ->
                /\ session' = [s EXCEPT !.named = TRUE]
                /\ record' = {[data |-> k, console |-> s.console, told |-> s.told,
                               early |-> noted.early, own |-> noted.own]}

Drop(d) ==
    /\ ~InspectQr(d.opcode, Text(d.beat))
    /\ UNCHANGED <<asked, session, record>>

\* The packet has made a session, which is as good as none.
FailToParse(d) ==
    /\ InspectQr(d.opcode, Text(d.beat)) /\ TextPackets /\ d.opcode = 3
    /\ ParseRaises(Text(d.beat))
    /\ UNCHANGED <<asked, session, record>>

\* A random challenge is none that is under way, nor the last one.
Fresh ==
    Min((1 .. MaxBeats + 2) \ (asked \union {d.challenge : d \in net}
                                  \union {session.challenge}))

HandleHeartbeat(d, found) ==
    LET k == Parsed(Text(d.beat))
        s == Noted(k, found)
        noted == [data |-> Addressed(k, s.console), early |-> ~s.told,
                  own |-> ~Says(k, "publicip", "0")]
    IN  /\ InspectQr(d.opcode, Text(d.beat)) /\ TextPackets /\ d.opcode = 3
        /\ ~ParseRaises(Text(d.beat))
        /\ IF s.sent THEN UpdateServerList(s, noted) /\ UNCHANGED asked
           ELSE /\ session' = [s EXCEPT !.challenge = Fresh, !.sent = TRUE, !.kept = {noted}]
                /\ asked' = asked \union {Fresh}
                /\ UNCHANGED record

\* The answer is right if it is to the challenge that was sent last, and QR
\* has the key of the game.
HandleAnswer(d) ==
    LET right == d.challenge = session.challenge /\ session.key # ""
    IN  /\ TextPackets /\ d.opcode = 1
        /\ IF right
           THEN IF session.kept = {} THEN UNCHANGED <<session, record>>
                ELSE \E noted \in session.kept : UpdateServerList(session, noted)
           ELSE /\ session' = [session EXCEPT !.sent = FALSE]
                /\ record' = IF session.named THEN {} ELSE record
        /\ UNCHANGED asked

Receive(d) ==
    /\ d \in net /\ net' = net \ {d}
    /\ \/ Drop(d) \/ FailToParse(d) \/ HandleAnswer(d)
       \/ \E found \in BOOLEAN : HandleHeartbeat(d, found)
    /\ UNCHANGED <<closed, beats>>

Next ==
    \/ \E beat \in Beats : Send(beat)
    \/ \E n \in asked : AnswerChallenge(n)
    \/ \E d \in net : Receive(d)

Spec == Init /\ [][Next]_vars

----------------------------------------------------------------------------
(* Properties. *)

(***************************************************************************)
(* What a host says is what QR reads, whichever of its values are empty:   *)
(* the filter drops only what is not printable, although it knows nothing  *)
(* of fields, and the parser fails only for a heartbeat that says nothing  *)
(* or ends with an empty value, which loses its place with the separators. *)
(***************************************************************************)
OnlyEmptyEndsAreLost ==
    \A d \in {e \in net : e.opcode = 3} :
        LET text == Text(d.beat)
            whole == d.beat # <<>> /\ Last(d.beat)[2] # ""
            plain == \A kv \in ToSet(d.beat) : {kv[1], kv[2]} \intersect Unprintable = {}
        IN  /\ plain => InspectQr(d.opcode, text)
            /\ plain /\ whole => ~ParseRaises(text) /\ Parsed(text) = Meant(d.beat)
            /\ ParseRaises(text) => ~whole

(***************************************************************************)
(* The number in a record, read in the byte order of the record's console  *)
(* as the server browser reads it, is the address of the host, and a       *)
(* console that was found is the right one, through all orders of          *)
(* heartbeats, challenges and answers.  There are two exceptions: the      *)
(* heartbeat was noted before its console was found, and listed after, by  *)
(* the answer to its challenge; or the host told its ip itself, and no     *)
(* console was found for it.                                               *)
(***************************************************************************)
OnlyUnknownConsolesMislead ==
    \A r \in record :
        /\ r.told => r.console = Kind
        /\ "publicip" \in DOMAIN r.data /\ r.data["publicip"] # Number[r.console] =>
              \/ r.early /\ r.told /\ ~r.own
              \/ r.own /\ ~r.told
=============================================================================
