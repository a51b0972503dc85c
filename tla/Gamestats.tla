------------------------------ MODULE Gamestats ------------------------------
(***************************************************************************)
(* The game statistics server, services/gamespy_gamestats_server.py: games *)
(* keep the persistent data of a player with it, as keys with values.      *)
(*                                                                         *)
(* TCP brings a connection's messages in chunks.  Each message is          *)
(* encrypted for itself and ends with \final\ in the clear; it is three    *)
(* units of the stream here, its body and the two halves of that marker.   *)
(* A Twisted reactor runs rawDataReceived to its end, and _call blocks it  *)
(* while PostgreSQL answers, so what one chunk causes is a step.           *)
(*                                                                         *)
(* The data of a row is text, \key\value\key\value, and is the sequence of *)
(* its words here.                                                         *)
(*                                                                         *)
(* The code was written for Python 2, where bytes are text (mixes).  In    *)
(* Python 3, which the repository runs (Dockerfile), the server loses      *)
(* every chunk, and no message is handled.                                 *)
(***************************************************************************)
EXTENDS Naturals, SequencesExt

CONSTANTS Conn,         \* TCP connections
          Profile,      \* profile ids
          Nobody,       \* no profile id
          Index,        \* what distinguishes the rows of a profile: dindex, ptype
          Key,          \* the keys of the data
          Message,      \* connection -> what its game may send, after authp
          Login,        \* connection -> its authp messages
          MaxSent,      \* bound: connection -> how many messages it sends
          MaxPending,   \* bound: connection -> units that are not handled
          MaxFailures   \* bound: failures of PostgreSQL

Row == Profile \X Index

Blank == "" \* the empty word

\* What the constants are.  Every key of what is saved is a name, and has a value.
ConstantsOK ==
    /\ MaxFailures \in Nat /\ MaxPending \in [Conn -> Nat] /\ DOMAIN Message = Conn
    /\ \A c \in Conn : \A m \in Login[c] : m.profile \in Profile \union {Nobody}
    /\ \A c \in Conn : \A m \in Message[c] : m.cmd = "setpd" =>
          /\ m.row \in Row /\ m.words \in Seq(ToSet(m.words)) /\ Len(m.words) % 2 = 0
          /\ \A i \in 1 .. Len(m.words) : i % 2 = 1 => m.words[i] # Blank

\* The words that games save.
Word == UNION {ToSet(m.words) : m \in {w \in UNION Range(Message) : w.cmd = "setpd"}}

VARIABLES mixes,      \* do bytes and text mix?
          wire,       \* connection -> the units on their way
          remaining,  \* connection -> remaining_message, from the last chunks
          profileid,  \* connection -> self.profileid, or Nobody
          ticket,     \* profile -> the ticket of its row in sessions, of the
                      \* "login" at the profile server, or "gone" with the row
          stored,     \* rows of gamestat_profile -> the words of their data
          failures,   \* failures of PostgreSQL so far, for the bound
          \* History:
          sent,       \* connection -> how many messages it sent
          handled,    \* connection -> how many of them were handled
          odd,        \* connections with a chunk that cut a marker or held two
          raised,     \* connections with a chunk for which rawDataReceived raised
          acked,      \* rows -> key -> the value that was last reported saved
          hollow,     \* rows that were given an empty value
          failed      \* rows that PostgreSQL failed to read or write

history == <<sent, handled, odd, raised, acked, hollow, failed>>
vars == <<mixes, wire, remaining, profileid, ticket, stored, failures, history>>

Init ==
    /\ mixes \in BOOLEAN
    /\ wire = [c \in Conn |-> <<>>] /\ remaining = [c \in Conn |-> <<>>]
    /\ profileid = [c \in Conn |-> Nobody]
    /\ ticket = [p \in Profile |-> "login"]
    /\ stored = <<>> /\ failures = 0
    /\ sent = [c \in Conn |-> 0] /\ handled = [c \in Conn |-> 0]
    /\ odd = {} /\ raised = {}
    /\ acked = [r \in Row |-> [k \in Key |-> Blank]]
    /\ hollow = {} /\ failed = {}

----------------------------------------------------------------------------
(* The stream. *)

\* Message m, the n-th of its connection.
Units(m, n) == [i \in 1 .. 3 |-> <<m, i, n>>]

\* A game (external): it logs in first, and then saves and reads.
Send(c, m) ==
    /\ m \in (IF sent[c] = 0 THEN Login[c] ELSE Message[c])
    /\ sent[c] < MaxSent[c] /\ Len(wire[c] \o remaining[c]) + 3 <= MaxPending[c]
    /\ wire' = [wire EXCEPT ![c] = @ \o Units(m, sent[c] + 1)]
    /\ sent' = [sent EXCEPT ![c] = @ + 1]
    /\ UNCHANGED <<mixes, remaining, profileid, ticket, stored, failures,
                   handled, odd, raised, acked, hollow, failed>>

\* Where whole markers are in some units, and whether one is cut.
Markers(us) == {i \in 1 .. Len(us) - 1 : us[i][2] = 2}
CutMarker(us) == us # <<>> /\ (us[1][2] = 3 \/ Last(us)[2] = 2)

\* Only a marker in this chunk makes the server look at what has come so far.
Complete(c, n) == Markers(SubSeq(wire[c], 1, n)) # {}

Chunk(c, n) ==
    LET chunk == SubSeq(wire[c], 1, n)
    IN  /\ n \in 1 .. Len(wire[c])
        /\ wire' = [wire EXCEPT ![c] = SubSeq(@, n + 1, Len(@))]
        /\ odd' = IF (\E i, j \in Markers(chunk) : i # j) \/ CutMarker(chunk)
                  THEN odd \union {c} ELSE odd

\* Mutant: the rest of what has come is dropped with the message.
AfterMessageDropped(all) == <<>>

\* crypt decrypts up to the first marker, so that parse_gamespy_message finds
\* one message, and returns all behind it for the next chunk.
AfterMessage(all) == SubSeq(all, 4, Len(all))

\* rawDataReceived, with n units, when it waits for more.
Wait(c, n) ==
    /\ mixes /\ Chunk(c, n) /\ ~Complete(c, n)
    /\ remaining' = [remaining EXCEPT ![c] = @ \o SubSeq(wire[c], 1, n)]
    /\ UNCHANGED <<mixes, profileid, ticket, stored, failures,
                   sent, handled, raised, acked, hollow, failed>>

\* rawDataReceived, with n units, in Python 3: it adds bytes to a text, and the
\* exception loses the chunk.
Raise(c, n) ==
    /\ ~mixes /\ Chunk(c, n)
    /\ raised' = raised \union {c}
    /\ UNCHANGED <<mixes, remaining, profileid, ticket, stored, failures,
                   sent, handled, acked, hollow, failed>>

\* rawDataReceived, with n units, when it hands message m to its handler.
Handle(c, n, m) ==
    LET all == remaining[c] \o SubSeq(wire[c], 1, n)
    IN  /\ mixes /\ Chunk(c, n) /\ Complete(c, n)
        /\ m = Head(all)[1]
        /\ remaining' = [remaining EXCEPT ![c] = AfterMessage(all)]
        /\ handled' = [handled EXCEPT ![c] = @ + 1]
        /\ UNCHANGED <<mixes, sent, raised>>

\* An exception ends the handler, and rawDataReceived catches it.
Fail == failures < MaxFailures /\ failures' = failures + 1

----------------------------------------------------------------------------
(* The handlers. *)

\* auth, ka, newgame, updgame and unknown commands change nothing here.
Other(c, n) ==
    /\ \E m \in Message[c] : m.cmd = "other" /\ Handle(c, n, m)
    /\ UNCHANGED <<profileid, ticket, stored, failures, acked, hollow, failed>>

\* perform_authp.  create_session takes the row of the player in sessions, with
\* the login ticket that the profile server gave, for one without a ticket.
Authp(c, n) ==
    \E m \in Login[c] :
        /\ Handle(c, n, m)
        /\ \/ m.profile = Nobody /\ UNCHANGED <<profileid, ticket, failures>>
           \/ /\ m.profile # Nobody
              /\ profileid' = [profileid EXCEPT ![c] = m.profile]
              /\ ticket' = [ticket EXCEPT ![m.profile] = Blank]
              /\ UNCHANGED failures
           \/ /\ m.profile # Nobody /\ Fail
              /\ ticket' \in {ticket, [ticket EXCEPT ![m.profile] = "gone"]}
              /\ UNCHANGED profileid
        /\ UNCHANGED <<stored, acked, hollow, failed>>

\* The words of a text without the backslashes at its end: a value at the end
\* that is empty has gone with its backslash, and its key is without a value.
Stripped(ws) == SubSeq(ws, 1, Max({0} \union {i \in DOMAIN ws : ws[i] # Blank}))

\* zip(ws[0::2], ws[1::2]): a key that is left without a value is dropped.  Of a
\* key that is repeated, a dict has the last value.
Keys(ws) == [i \in 1 .. Len(ws) \div 2 |-> ws[2 * i - 1]]
Place(ws, k) == 2 * Max({i \in DOMAIN Keys(ws) : Keys(ws)[i] = k})
Value(ws, k) == ws[Place(ws, k)]

\* dict[k] = v: a key that is there keeps its place, and a new one is the last.
Put(ws, k, v) ==
    IF Contains(Keys(ws), k) THEN [ws EXCEPT ![Place(ws, k)] = v] ELSE ws \o <<k, v>>

\* The loop that puts the pairs of ws into a dict, whose words are start.
Updated(start, ws) ==
    LET dict[i \in 0 .. Len(ws) \div 2] ==
            IF i = 0 THEN start ELSE Put(dict[i - 1], ws[2 * i - 1], ws[2 * i])
    IN  dict[Len(ws) \div 2]

\* Mutant: the row wins over what is saved.
MergeOld(old, new) == Stripped(Updated(Updated(<<>>, new), old))

\* The row with new values, its keys in their order, new ones at the end.
Merge(old, new) == Stripped(Updated(Updated(<<>>, old), new))

\* The data of row r after a save; a save without data clears the row.
Saved(r, ws) ==
    LET new == Stripped(ws)
    IN  IF r \in DOMAIN stored /\ new # <<>> THEN Merge(stored[r], new) ELSE new

\* What a save reports as saved: its values, but for an empty one at its end.
Report(r, ws) ==
    [acked EXCEPT ![r] = [k \in Key |->
        CASE ws = <<>> -> Blank
          [] ws # <<>> /\ Contains(Keys(Stripped(ws)), k) -> Value(Stripped(ws), k)
          [] OTHER -> @[k]]]

\* perform_setpd.  Without a login self.profileid is missing, and the handler
\* raises; else it answers first, and then a row of its own is read and written.
SetPd(c, n) ==
    \E m \in Message[c] :
        LET mine == m.row[1] = profileid[c]
        IN  /\ m.cmd = "setpd" /\ Handle(c, n, m)
            /\ acked' = IF mine THEN Report(m.row, m.words) ELSE acked
            /\ hollow' = IF mine /\ Blank \in ToSet(m.words) THEN hollow \union {m.row} ELSE hollow
            /\ \/ ~mine /\ UNCHANGED <<stored, failures, failed>>
               \/ /\ mine
                  /\ stored' = [r \in DOMAIN stored \union {m.row} |->
                                   IF r = m.row THEN Saved(r, m.words) ELSE stored[r]]
                  /\ UNCHANGED <<failures, failed>>
               \/ mine /\ Fail /\ failed' = failed \union {m.row} /\ UNCHANGED stored
            /\ UNCHANGED <<profileid, ticket>>

\* What a read of a row answers under a key.  A row without data shows none,
\* and one with a key that has no value makes parse_gamespy_message raise.
Readable(r) == r \in DOMAIN stored => Len(stored[r]) % 2 = 0
Shown(r, k) ==
    IF r \in DOMAIN stored /\ Contains(Keys(stored[r]), k) THEN Value(stored[r], k) ELSE Blank

\* perform_getpd, of the row of any player: it answers what Shown says.
GetPd(c, n) ==
    \E m \in Message[c] :
        /\ m.cmd = "getpd" /\ Handle(c, n, m)
        /\ UNCHANGED failures \/ Fail
        /\ UNCHANGED <<profileid, ticket, stored, acked, hollow, failed>>

Receive(c, n) ==
    \/ Wait(c, n) \/ Raise(c, n)
    \/ Other(c, n) \/ Authp(c, n) \/ SetPd(c, n) \/ GetPd(c, n)

Next ==
    \E c \in Conn :
        \/ \E m \in Login[c] \union Message[c] : Send(c, m)
        \/ \E n \in 1 .. Len(wire[c]) : Receive(c, n)

Spec == Init /\ [][Next]_vars

----------------------------------------------------------------------------
(* Properties. *)

TypeOK ==
    /\ \A c \in Conn :
          /\ profileid[c] \in Profile \union {Nobody}
          /\ Len(wire[c] \o remaining[c]) <= MaxPending[c]
    /\ \A p \in Profile : ticket[p] \in {"login", "gone", Blank}
    /\ DOMAIN stored \subseteq Row
    /\ \A r \in DOMAIN stored : ToSet(stored[r]) # {Blank}
    /\ failures \in 0 .. MaxFailures
    /\ mixes \in BOOLEAN
    /\ odd \subseteq Conn /\ raised \subseteq Conn /\ hollow \subseteq Row /\ failed \subseteq Row
    /\ acked \in [Row -> [Key -> Word \union {Blank}]]

\* What a connection has sent and the server has not handled.
Coming(c) == remaining[c] \o wire[c]

(***************************************************************************)
(* No message is lost, repeated or overtaken, however TCP cuts the stream, *)
(* unless rawDataReceived raised for a chunk of the connection; it does so *)
(* only where bytes and text do not mix, and has handled nothing then.     *)
(* A whole message waits for the next one to come only after a chunk that  *)
(* cut the marker of a message, or that brought two messages.              *)
(***************************************************************************)
OnlySplitsLag ==
    /\ TypeOK
    /\ \A c \in raised : ~mixes /\ handled[c] = 0 /\ remaining[c] = <<>>
    /\ \A c \in Conn \ raised :
          /\ Len(Coming(c)) = 3 * (sent[c] - handled[c])
          /\ \A i \in DOMAIN Coming(c) :
                /\ Coming(c)[i][2] = ((i - 1) % 3) + 1
                /\ Coming(c)[i][3] = handled[c] + ((i - 1) \div 3) + 1
          /\ c \notin odd => \A i \in DOMAIN remaining[c] : remaining[c][i][2] # 3

(***************************************************************************)
(* Whatever several games save and read in whatever order, a read shows    *)
(* under each key the value last reported saved under it by its owner, or  *)
(* none, and nobody else's; unless PostgreSQL failed after the report.     *)
(* And only a row that was given an empty value can be unreadable.         *)
(***************************************************************************)
ReadsAreCurrent ==
    \A r \in Row \ failed :
        /\ ~Readable(r) => r \in hollow
        /\ Readable(r) => \A k \in Key : Shown(r, k) = acked[r][k]
=============================================================================
