------------------------------- MODULE Framing -------------------------------
(***************************************************************************)
(* The text messages of GameSpy, gamespy/gs_query.py, in the streams of    *)
(* the profile server and of the player search server: a message is        *)
(* \command\value\key\value...\final\, and TCP cuts and joins messages     *)
(* where it likes.  What parse_gamespy_message leaves is put before what   *)
(* comes next.                                                             *)
(*                                                                         *)
(* A text is a sequence of backslashes and words.  A message is the        *)
(* sequence of its fields, <<key, value>>, the command first, and "" is    *)
(* the empty value.                                                        *)
(***************************************************************************)
EXTENDS Naturals, SequencesExt

CONSTANTS Sep,     \* the backslash
          Streams  \* what may be sent over a connection: sequences of messages

VARIABLES mixes,   \* do bytes and text mix?
          server,  \* whose connection it is: "profile" or "search"
          stream,  \* the text that has not come yet
          left,    \* remaining_message, or leftover
          \* History:
          said,    \* the messages that are sent
          out,     \* those that were handed on
          failed   \* has rawDataReceived, or on_data_received, raised?

vars == <<mixes, server, stream, left, said, out, failed>>

----------------------------------------------------------------------------
(* create_gamespy_message_from_list. *)

Word(w) == IF w = "" THEN <<>> ELSE <<w>>
Field(kv) == <<Sep, kv[1], Sep>> \o Word(kv[2])
Final == <<Sep, "final", Sep>>

Create(m) == FlattenSeq([i \in DOMAIN m |-> Field(m[i])]) \o Final

----------------------------------------------------------------------------
(* parse_gamespy_message. *)

\* str.index: where the first backslash is, if there is one.
FirstSep(text) == Min({i \in DOMAIN text : text[i] = Sep})
HasSep(text) == Contains(text, Sep)
Joined(ws) == IF ws = <<>> THEN "" ELSE Head(ws)

\* Mutant: it does not look for the end of a message before it begins.
MoreEager(text) == text # <<>> /\ Head(text) = Sep

\* Is there another message to parse?
More(text) ==
    /\ text # <<>> /\ Head(text) = Sep
    /\ \E i \in 1 .. Len(text) - 2 : SubSeq(text, i, i + 2) = Final

\* The fields of a message, up to "final" or to what is no field: what was
\* read, what is behind it, and whether an index was not found.
RECURSIVE Fields(_, _)
Fields(text, fields) ==
    IF text = <<>> \/ Head(text) # Sep THEN [fields |-> fields, rest |-> text, raised |-> FALSE]
    ELSE IF ~HasSep(Tail(text)) THEN [fields |-> fields, rest |-> text, raised |-> TRUE]
    ELSE LET end == FirstSep(Tail(text))
             key == Joined(SubSeq(Tail(text), 1, end - 1))
             rest == SubSeq(Tail(text), end + 1, Len(text) - 1)
             value == IF HasSep(rest) THEN SubSeq(rest, 1, FirstSep(rest) - 1) ELSE rest
             behind == IF HasSep(rest) THEN SubSeq(rest, FirstSep(rest), Len(rest)) ELSE rest
         IN  IF key = "final" THEN [fields |-> fields, rest |-> rest, raised |-> FALSE]
             ELSE Fields(behind, Append(fields, <<key, Joined(value)>>))

RECURSIVE Parse(_, _)
Parse(text, stack) ==
    IF ~More(text) THEN [stack |-> stack, rest |-> text, raised |-> FALSE]
    ELSE LET one == Fields(text, <<>>)
         IN  IF one.raised THEN [stack |-> <<>>, rest |-> text, raised |-> TRUE]
             ELSE Parse(one.rest, Append(stack, one.fields))

----------------------------------------------------------------------------
(* The streams. *)

Init ==
    /\ mixes \in BOOLEAN /\ server \in {"profile", "search"}
    /\ said \in Streams
    /\ stream = FlattenSeq([i \in DOMAIN said |-> Create(said[i])])
    /\ left = <<>> /\ out = <<>> /\ failed = FALSE

\* on_data_received of the profile server drops a text that does not begin with
\* a backslash, to the end of the message that it is in.
Stabilized(text) ==
    LET ends == {i \in 3 .. Len(text) : SubSeq(text, i - 2, i) = Final}
    IN  IF text = <<>> \/ Head(text) = Sep THEN text
        ELSE IF ends = {} THEN <<>> ELSE SubSeq(text, Min(ends) + 1, Len(text))

\* The profile server decodes what comes; the search server adds it to a text.
Decodes == server = "profile" \/ mixes

\* rawDataReceived: when it raises, what came is lost, and left stays.
Data(n) ==
    LET all == left \o SubSeq(stream, 1, n)
        parsed == Parse(IF server = "profile" THEN Stabilized(all) ELSE all, <<>>)
    IN  /\ n \in 1 .. Len(stream)
        /\ stream' = SubSeq(stream, n + 1, Len(stream))
        /\ IF ~Decodes \/ parsed.raised THEN failed' = TRUE /\ UNCHANGED <<left, out>>
           ELSE left' = parsed.rest /\ out' = out \o parsed.stack /\ UNCHANGED failed
        /\ UNCHANGED <<mixes, server, said>>

Next == \E n \in 1 .. Len(stream) : Data(n)

Spec == Init /\ [][Next]_vars

----------------------------------------------------------------------------
(* Properties. *)

(***************************************************************************)
(* What was created is what is parsed, wherever TCP cuts the stream: each  *)
(* message is handed on once, in order and with its fields, as soon as its *)
(* last piece has come, and no index is looked for that is not there.      *)
(* (No word may be "final", which only ends messages.)  The search server  *)
(* of Python 3 hands on nothing, and keeps nothing.                        *)
(***************************************************************************)
CutAnywhere ==
    IF ~Decodes THEN out = <<>> /\ left = <<>>
    ELSE /\ ~failed /\ ~More(left)
         /\ out \o Parse(left \o stream, <<>>).stack = said
         /\ stream = <<>> => left = <<>>
=============================================================================
