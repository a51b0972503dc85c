# Project Sovereign in TLA+

TLA+ specifications of the game servers in this repository: models of the
services that keep state, instances of them that TLC checks, and proofs that
TLAPS checks. Every definition is translated from the code under `src/`.
`PROJECT.json` maps each definition to the lines it stands for, lists the runs,
the mutants that show each property can fail, the hazards of the code, and the
theorems.

## 1. The system and its parts

Consoles (Nintendo DS and Wii, not part of the repository) find each other with
the help of some fifteen servers. Most are Python; a C proxy stands before the
two UDP servers. PostgreSQL keeps accounts, tokens, friends, messages and game
data; Redis keeps the list of game servers.

| component | state | operations | talks to | what is hard |
|---|---|---|---|---|
| NAT negotiation `gamespy/natneg_protocol.py`, `services/gamespy_natneg_server.py` | `session_list` (session, client, entry), `natneg_preinit_session`, in memory | INIT, CONNECT_ACK, PREINIT, stateless requests | consoles by UDP through the proxy; Redis for advertised ports | lost, repeated and late datagrams; three clients in one session; rebinding NATs |
| DPI proxy `dpi_proxy/dpi_proxy.c` | the backend's address, looked up once | forward, return | consoles, NAT negotiation, QR | restarts and moves of the backend; two kinds of peer on one socket |
| DPI filters `dpi_filter_*.c` | none | accept or drop a datagram | proxy | the filter does not know the fields that the parser behind it reads |
| NAS `services/nas_server.py` | tables `nas_logins`, `users`, `banned` | acctcreate, login, svcloc, /pr | consoles by HTTP; the profile server reads its tokens | threads whose statements interleave on one event loop and one pool |
| Profile server `gamespy/profile_protocol.py`, `services/gamespy_profile_server.py` | registry `pid_map` in memory; tables `users`, `buddies`, `sessions`, `pending_messages` | login, logout, status, bm, addbuddy, delbuddy, authadd, getprofile, updatepro, ka | consoles by TCP, each other through the registry | coroutines that interleave at every statement; effects applied late; connections replaced or lost at any point |
| PostgreSQL layer `gamespy/pg_database.py`, `pg_database_sync.py` | the tables | one statement or a few per call | NAS, profile, gamestats, Sake, admin | calls of several statements without a transaction |
| Server registry `services/gamespy_backend_server.py`, `gamespy/redis_cache.py` | Redis keys with 60 and 300 second lives | list, refresh, delete, find | QR writes; browser, NAT negotiation and statistics read | a refresh deletes before it sets; readers between |
| Query and reporting (QR) `services/gamespy_qr_server.py` | sessions with challenge and heartbeat | challenge, heartbeat, keepalive, client message | consoles by UDP through the proxy; registry | late or repeated challenge answers and heartbeats; sessions that never end |
| Server browser `services/gamespy_server_browser_server.py` | per connection: buffer, byte order, own server | list request with a filter, message forwarding | registry, QR's socket, NAT negotiation through Redis | packets cut or joined by TCP; types in a filter; whose records a cookie gets |
| Gamestats `services/gamespy_gamestats_server.py` | per connection: rest of a stream, profile; tables `gamestat_profile`, `sessions` | auth, authp, getpd, setpd | consoles by TCP; PostgreSQL | messages cut anywhere; read, merge and write of data that two connections share |
| Message framing `gamespy/gs_query.py` | rest of a message | parse, build | profile, gamestats, search | messages cut anywhere |
| Sake storage `services/storage_server.py` | record tables, files, their types | start, create, update, get, upload, download | consoles by HTTP | row, path and file, record and size, column and type are written apart |
| Player search, admin, registration, patcher, downloads, DNS, statistics page | little or none | forms, queries, files | browsers and consoles | the statistics page shows a cached list |
| Legacy SQLite layer | table `sessions`, which nobody fills | lookup of a login ticket | Sake | - |
| Dashboard, tools, manifests | - | - | - | not in the path of any server |

What makes each correct, in a sentence each:

- NAT negotiation: whoever is told of an address is told of a place of another
  client of its own session; clients that are registered are introduced; both
  sides of a PREINIT match are told.
- Proxy: it is transparent, so that the servers may reason as if it were not there.
- NAS: a token leads to the user it was made for, and the last one answered works.
- Profile server: the registry agrees with who is connected; messages arrive or
  are kept; friends see each other as they are; tables hold what belongs to the
  living.
- Registry and QR: a list holds servers that are alive, and all that are, up to
  the lives of the keys.
- Browser: an answer is what the filter means; a message goes where the game said,
  and a cookie holds the records of those who named it.
- Gamestats and Sake: what was written last is read; a record that names a file has
  one, and its size.
- Framing: what is parsed does not depend on how TCP cut it.

## 2. Modules

| module | what it is |
|---|---|
| `Rendezvous` | abstract specification of matchmaking: clients are present, introduced, settled; no datagrams |
| `NatNeg` | NAT negotiation, its consoles and the UDP network between them; implements `Rendezvous` |
| `NatNegProofs` | theorems about `NatNeg` |
| `Preinit` | the PREINIT exchange |
| `NatNegServer` | `NatNeg` and `Preinit` together: the whole NAT-negotiation server |
| `NatNegServerProofs` | theorems about `NatNegServer` and `Preinit` |
| `NatNegEdge` | proxy, adapter and NAT negotiation together, with restarts; implements `NatNeg` between restarts |
| `NatNegEdgeProofs` | theorems about `NatNegEdge`, on those of `NatNegProofs` |
| `Nas` | account creation, login and service tokens, one SQL statement a step |
| `NasProofs` | theorems about `Nas` |
| `Profile` | the profile server, one SQL statement and the code after it a step |
| `ProfileProofs` | theorems about `Profile` |
| `ServerList` | QR, the list of servers in Redis and the statistics page, one command to Redis a step |
| `ServerListProofs` | theorems about `ServerList` |
| `Heartbeats` | what a heartbeat says, through the filter of the proxy, the parser and the session of QR, to the address in the record |
| `Filters` | what a search makes of a filter and of the data of a server |
| `Browser` | the server browser, one round of its loop over packets a step; uses `Filters` |
| `Matchmaking` | `Browser` and `Heartbeats` together: the two sides of the list of servers |
| `MatchmakingProofs` | theorems about `Browser` and `Heartbeats` |
| `Gamestats` | the game statistics server, one chunk of a stream a step |
| `Framing` | text messages of GameSpy in streams that TCP cuts |
| `Sake` | the storage server, one SQL statement or file operation a step |
| `PlayerData` | `Sake` and `Gamestats` together: the services that keep data of players |
| `PlayerDataProofs` | theorems about `Sake` and `Gamestats` |
| `MCNatNeg`, `MCNatNegEdge`, `MCNas`, `MCProfile`, `MCServerList` | values of the constants for TLC |
| `MCNatNegServer` | `NatNegServer` for TLC |
| `MCBrowser` | `Matchmaking` for TLC |
| `MCPlayerData` | `PlayerData` and `Framing` for TLC |

Three of the MC modules put components side by side that share no state. Their Init
chooses one of them (`play`, `service`, `side`) for the whole behaviour, and the others stay
as they began: the states are the sum of those of the parts, not the product.
`Matchmaking` and `PlayerData` bring the constants and assumptions of two such parts
together and give the properties of the one that is an INSTANCE a name; the theorems are
about the specification of each part.

Definitions called `...` with a verb of a mistake (`OnlyFirstPeer`,
`CleanseSessionsNot`) and marked *Mutant* are wrong variants of the definition
after them. No specification uses them. Putting one in place of the original
must break the property that `PROJECT.json` names beside it.

### NatNeg

asyncio calls `datagram_received` for one datagram at a time, and no handler
awaits, so a handler is one action: `HandleInit` (`_handle_init`: answer, entry,
and a pair of CONNECTs for each peer that has not acknowledged),
`HandleTerseInit` (an INIT that ends before the local address: the INITACK is
appended, then the parser raises, and the answer is sent all the same), and
`HandleConnectAck`. `session_list` is the dictionary of dictionaries, `net` the
datagrams in flight. A datagram stays in `net` when it is delivered, which
allows repetition and reordering; `Lose` takes it out. `Resolve` is the lookup of
an advertised port in Redis: any record with the public address, or nothing,
because a record may have expired and every exception becomes None. At this
commit no such record is ever written (`TextPackets` below), so `Advertised` is empty in
production. `introduced` is a history variable. The stateless requests are left
out. The entry's `serveraddr` is never read stale and `gameid` decides only the
lookup, so neither is state.

### Preinit

`HandleNoSession`, `HandleFirst` and `HandleSecond` are the branches of
`_handle_preinit`. The PREINIT of a console in `Repeated` stays in flight after
it is handled; that of another is handled once. `NatNegServer` puts the two exchanges
into one server, as `handle_packet` does, which chooses a handler by the opcode.

### NatNegEdge

`ProxyForward` and `ProxyReturn` are the two branches of
`handle_incoming_packet`, which tells them apart by the source address alone.
`DatagramReceived` is the adapter: unwrap, let the logic of `NatNeg` handle the
datagram, wrap each answer with a header for its console. `Restart` empties the
memory of the server and may move it; the proxy keeps the address it resolved.
Datagrams of earlier lives stay in flight. `InspectNatneg` is the filter of the
proxy: it passes what consoles send, which has the magic and an opcode up to 0x10,
and would drop a datagram that a server has wrapped, which begins with the magic of
the wrapping. The assumptions of `NatNeg` on its constants are repeated here
(`NatNegAssumption`), since an INSTANCE does not bring them along.

### Nas

Requests run in threads, their statements as coroutines of one loop, each
statement a transaction of its own. A step is one statement. `generate_authtoken`
keeps its connection from its search for the row to its write (`Holding`);
other statements take one for themselves. The pool is one variable, chosen at the
start, because with one connection the two statements cannot interleave and with
two they can. A random token does not repeat one that somebody holds, but may
repeat an old one: this is what the loop over candidates is for. `CreateUser` is
what a login at the profile server does to table `users`. In `svcloc`,
`post["svc"]` is bytes and matches neither branch, so that every request takes
the last one, which makes a token without asking for bans.

### Profile

All connections share one event loop. A coroutine runs from one await on the
database to the next without interruption, and so does a step: one statement,
the code after it. Variable `loop` names the connection that has not yet awaited.
`s[c]` is the protocol object and its program counter. Effects are collected in
`s[c].eff` and take place in `EndOfChunk`, after all commands of the chunk and
their statements, as `run()` does with what `on_data_received` returns. `pid_map`
is the registry. A console (external) logs in first, waits for the answer, says
nothing after its logout, and leaves at any time; the server sees it at its next
read. A user has one console, which connects again only after it left, but the
server may still hold the old connection: `overlap` records both. `raced` records the
pairs one of which looks at its friends, at a login or for a status, while what the other
has seen of it is still waiting to take effect.

PostgreSQL returns `buddyprofileid`, and `b['buddyProfileId']` raises for whoever
has a friend. `folded` says whether the database does that, as PostgreSQL does, or
keeps the names as they are written; it is chosen at the start, and every property is
about both. `raised` is history: the connections a handler or the teardown of which raised (`Fail`).
They drop the commands after the one that raised, and stay in the registry with their session, and this
is what the properties except: whoever did *not* raise must still be right beside
them, and where names are folded nobody is shown anything of a friend
(`OnlyRacesMislead`).

One flaw hides everything else and is a constant: `Awaits` is FALSE in the code, since
`run()` calls `on_data_received` without `await` and fails on the coroutine, so that
no command is handled. The run `profile_await` has it so; the others set it to TRUE, to
check what is left of the server then.

Left out: getprofile, ka and updatepro, which touch nothing of the model; the
"success" messages of type 100; sdkrevision 11, whose list is empty because
`add_buddy` stores status 0; `enabled`, which is always 1. `buddies` is a set:
repeated rows relay a status repeatedly.

### ServerList

QR handles a datagram to its end, but a refresh is a DEL (`UpdateServerList`) and
a SET (`Upsert`), and `pending` is what lies between. `sessions` is the dictionary
of QR; a session that is not there and a new one are the same, because every packet
makes one first. `ChallengeHeartbeat` and `ListHeartbeat` are the two ends of the
heartbeat branch: what decides is whether a challenge *was sent*, not whether it
was answered. An answer (`PassChallenge`) lists the heartbeat that was kept, each
time it comes. `Restart` empties the memory of QR and leaves Redis alone. The
statistics page stands for every reader; the others keep no copy. Its SCAN may have
seen any keys, its MGET finds what is still there. `heard`, `age`, `struck` and
`late` are history. The console (external) has a session number for each life, so
it never comes back under the old one.

`TextPackets` is FALSE in the code: the first byte of a packet is a number, and the
handlers compare it with one-character strings, so that no command matches and the
list stays empty: the run `server_list_bytes` has it so. `server_list` sets it to TRUE, as
the handlers evidently mean, and checks what is left of the protocol then.

Left out: `disconnected`, which is never set; keepalives and availability checks,
which change a time stamp that nobody reads; the console type and the in-game name,
which travel with the data. One tick is a minute, the life of a key and of the page.

### Heartbeats

The same exchange as `ServerList`, with the data in the place of times, failures and
versions; a refresh is one step, Redis does not fail, and there is one host, since sessions
share nothing. A heartbeat is a sequence of keys and values, and a datagram the text of
it: `InspectQr` is the filter of the proxy, `Stripped`, `Strings` (what `split` leaves after
each word, a recursive function) and `Parsed` the parser, where an odd number of strings raises (`ParseRaises`). `Noted` is the session
after a heartbeat: the console is looked for once, when a player is named first, in the
name of the game and else in the profile, which may not be there (`found`). `Addressed`
puts the address of the datagram in the place of a public ip of 0, as a number whose
byte order is that of the console; a console that is not known counts as a DS, so the
instance has a Wii. `early`, `own` and `told` are history. A datagram is handled once, in
any order. Left out: the name in the game, the replacement of a public port by the port
of the datagram, availability probes.

### Filters

`find_servers` writes a Python expression for each server: `Expression` puts its data
in the place of the names, `Substituted` decides whether a number is compared as a
number or as a text by looking to the right of it (`Deciding`), `Raises` and `Valid`
are the ways in which a server or the whole search is given up, and `FindServers` is
the loop with its limit, a recursive function over its rounds. A filter is a sequence of tokens with the types that
`get_token` gives them; characters are not modelled. How Python evaluates the
expression (`Eval`, a recursive function over the parts of it, and `Compare`) is external: it
orders two numbers, and two texts (`RankOf`), and raises when it is to order a number and a
text. A `+`, which `get_token` does not know,
makes the loop of `translate_expression` endless: `Hangs`. Not in the operators: `>=`,
`<=` and `&`, which are further comparisons.

### Browser

Twisted calls `rawDataReceived` with a chunk (`Receive`), and its loop takes one packet
after another off the buffer: `ListRequest`, `SendMessage` and `KeepAlive` are one
round each, `LeaveLoop` is the return. `busy` is the connection whose loop it is;
nothing else runs in this process meanwhile, while `Relist` and `ForgetCookie`, which
are other processes and Redis, do. A packet is three units, so that TCP may cut the
length as well as the body. `SendMessage` has three cases: a message that says where
its sender is (`Hello`), after which the record of the sender is kept; one that names
a cookie (`Natneg`), for which the records of target and sender are appended under the
cookie; any other. `FindInCache` is the lookup by address in the byte order of the
last server found, then in the other. Of the records it finds the code takes the first
in the order of a scan, so any of them may be it, and the message is lost if that one has another
port (`Missed`). `TextPackets` is as in `ServerList`: FALSE in
the code, where the third byte is a number and every packet raises, TRUE in the run.

A record without a public ip (`NoIp`; a host need not say one) cannot be shown: the
answer raises when its turn comes (`Unplaced`), and so does every lookup by address
that scans past it (`ScanRaises`). In the code a record may also be without a port, with
the same effect.

`nat` is what NAT negotiation reads in `Resolve`, where `NatNeg` allows any record or
none; `listed` is what `ServerList` keeps, without its times, so any server may come
or go.

### Gamestats

A message is its body and the two halves of `\final\`. `rawDataReceived` looks for a
marker in the new chunk alone, `crypt` decrypts up to the first marker, and what is
behind it waits for the next chunk: `Wait` when there is no marker in the chunk,
`Handle` with a handler otherwise. So a marker that is cut, or a second message in a
chunk, leaves a whole message waiting until more comes; `odd` records this. `SetPd`
answers, then reads, merges and writes; `_call` blocks the reactor, so nothing comes
between, but PostgreSQL may fail (`Fail`). Data is the sequence of its words: an empty
value at the end is stripped with its backslash, and leaves a key without a value;
such a row raises when it is read (`Readable`). The dict that `perform_setpd` makes of a
row and of what is saved is a sequence of words as well, to which `Put` adds a pair:
`Updated` is the loop, as a recursive function over its rounds, and `Merge` the text that
is written. A save without words clears the row.
`create_session` in `Authp` takes over the row that the profile server wrote, whose
ticket is gone then; of the ticket it counts only whether it is the one of the login, none
(`Blank`), or gone with its row.

In Python 3 bytes are added to a string, which raises: the chunk is lost (`Raise`) and
nothing is handled. `mixes` says whether bytes and text mix, as in Python 2 for which
the server was written, or not; it is chosen at the start, and the properties are about both. Left out: the dictionary `sessions`,
which nobody reads; data after a NUL; the removal of a backslash from a text with an
odd number of them, since it never finds one.

### Framing

`Create` writes a message, `Parse` reads as many as there are and returns the rest,
`Data` is the handler of the profile server, which drops a broken beginning
(`Stabilized`), or of the player search server, which does not. The profile server
decodes what comes; the player search server adds it to a string, which raises in
Python 3 (`Decodes`, with `mixes` as in `Gamestats`), so that it keeps and hands on nothing. A word is one
symbol, so TCP cuts between words and backslashes; no word is "final".

### Sake

Requests are handled one after the other, but each is several statements and file
operations, and `Abort` (a failure) or `Crash` (the process ends, the operating system
does not) may follow each. `boot` walks through the columns of
`create_or_alter_table_if_not_exists`, `AddColumn` and `AddType` by turns; a column
that exists is skipped whether or not it has its type. `doing` is the program of the
request that is left. A record and its file's size are two statements, and the second
does not ask whose record it is. The owner comes from the legacy database (`Owner`),
which knows no ticket of today, so that everybody is -1; the run has tickets that are
known as well. An upload over the limit changes nothing and is not an action. Where bytes
and text do not mix (`mixes` FALSE, as in Python 3), every request that would write
raises before its first statement: a record request when it looks for `<!DOCTYPE` in the bytes it
has read (`Accepts`), an upload when it gives `parse_multipart` a boundary that is
text. So in those behaviours nothing is written but columns and types.

## 3. Runs

Sizes are distinct states. A run that may stop says `CHECK_DEADLOCK FALSE`.

| run | instance | shows | size |
|---|---|---|---|
| `natneg_server` | three plays. Clients A, B, C of one session, T with a truncated INIT; INITACKs may be lost. A, B, B after rebinding, D and T of another session, a server record in Redis. PREINIT: three consoles of one session (two repeated), a pair in another, one of session 0 | `ConnectAuthentic`, `ConnectedWasIntroduced`, `NobodyForgotten`, `InitAckMeansRegistered`, `ImplementsRendezvous`, `MatchedInPairs`, `WaiterOnlyLeavesMatched`, `PartnersMeet` | 29,364 |
| `natneg_connect_lost` | A and B, any datagram may be lost | **violated**: `BothMeet` | |
| `nas` | a new console, three requests; a banned one that gives up, two; pool of 1 or 2 | `TokensLeadHome`, `LastTokenResolves`, `OneRowPerLoner`, `EveryRequestEnds` | 45,087 |
| `nas_accounts` | two new consoles | **violated**: `DistinctUserids` | |
| `edge` | A, B and T behind the proxy, one restart at either address | `ImplementsNatNeg`, `ToldOnlyPeers`, `SomeoneMeets` | 8,255 |
| `profile_reconnect` | user A twice, user B once; friends with folded names or not, or A unknown; A may change state or make friends | `LonersAreOnline`, `RegistryIsLive`, `OnlyLogoutsLeaveSessions`, `OnlyOverlapsDuplicate`, `OnlyRacesMislead` | 881,660 |
| `profile_commands` | users A and B, three commands in all, alone or two in a chunk; strangers with folded names or not, or friends with folded names; bad token, bad proof | `NothingMisrouted`, `MailIsKept`, `BuddiesAreCurrent`, `LoginsAreAnswered` | 284,657 |
| `profile_await` | the same with `Awaits` FALSE | **violated**: `LoginsAreAnswered` | |
| `server_list` | a host with two versions of its data, which closes or vanishes; repetition, or a restart of QR | `ClosedStaysClosed`, `ListedWasHeard`, `PageIsRecent`, `TheDeadLeave`, `HostsGetListed`, `OnlyRefreshesHide` | 166,250 |
| `server_list_bytes` | the same with `TextPackets` FALSE | **violated**: `HostsGetListed` | |
| `browser` | browser: two Wiis of one household, a DS and a Wii without an address, one of which comes or goes; eight filters, one that hangs, two messages from a second connection. Host: a Wii that sends three heartbeats of nine | `AnswersMatchQuery`, `PartiesAreNamed`, `OnlyErrorsDelay`, `OnlyEmptyEndsAreLost`, `OnlyUnknownConsolesMislead` | 301,796 |
| `player_data` | bytes and text mix, or not; gamestats: two connections, of the same or of two players or without login, one failure; framing: streams of two and three messages on either server, cut anywhere; Sake: two uploads of three sizes, two records, two tickets, two faults | `OnlySplitsLag`, `ReadsAreCurrent`, `CutAnywhere`, `UploadsAreKept`, `OnlyFaultsPart` | 400,146 |

Many of the properties are of the form *only*: the code does go wrong, and the
property says where this is confined. `OnlyRacesMislead` allows a stale view only
(where names are not folded) for pairs of which one logged in or changed state between the moment the other looked at
it and the moment that took effect (a login looks at its friends one statement before it
is registered, and a command in a chunk of several before the statements of the rest), and
for users that changed their friends or had two connections at once; `OnlyOverlapsDuplicate` allows two sessions
of a profile, or two profiles of a user, only to connections that were open at
once; `MatchedInPairs` allows a match of a console with itself only where a
datagram was repeated; `LastTokenResolves` and `OneRowPerLoner` are about
consoles that wait for their answers; `NothingMisrouted` excepts messages that
came in a chunk of several commands, whose routing waits for the statements of
the rest; `ClosedStaysClosed` speaks of the first late heartbeat and not of the
second, which lists a closed server again without any answer to the challenge;
`OnlyRefreshesHide` allows a server that is listed and alive to be missing only between
the DEL and the SET of its own refresh (one that a restart of QR cuts in two there counts as
taken off);
`ListedWasHeard` sets aside restarts, and `HostsGetListed` restarts and repetition, after
which an old answer may fail a new challenge; `OnlyErrorsDelay` and `OnlySplitsLag` allow a
message that has arrived to wait only after an exception, and after an odd cut, and the latter allows a lost
one only where bytes and text do not mix;
`AnswersMatchQuery` allows a wrong answer only about servers of which find_servers may
take a value for another type (`Misread`: a number named on the right, in a filter with a quoted literal
that does not stand on the right of a comparison);
`OnlyEmptyEndsAreLost` gives up heartbeats that say nothing or end in an empty value;
`OnlyUnknownConsolesMislead` allows a wrong address in the list only where the console
was found after the heartbeat was noted, or was never found while the host gave its ip
itself; `ReadsAreCurrent` allows an unreadable row only after an empty value; `OnlyFaultsPart`
sets aside records whose size another owner's request has written. Without these conditions the properties fail, and the comment above
each says how.

### Why the bounds are enough

- Three clients are the fewest at which a peer can have met another before a
  third arrives, which is what `NobodyForgotten` is about; two sessions the fewest
  that could be confused. `net` is a set, so repetition is unbounded.
- One restart leaves datagrams of two lives in flight, and with two addresses it
  separates a server that came back from one that moved.
- Two threads are the fewest whose statements interleave, and a pool of one is
  the smallest that makes a thread wait while another holds a connection over two
  statements. The bound on requests (`MaxRequests`) lets a console create an
  account and log in twice. Userids stop at `MaxUserid`, beyond the three that
  can be registered.
- Two connections of one user are the fewest that overlap. A third (a second
  reconnection) acts on the registry as the second does. A friend beside them
  is needed for views. `MaxProfile` bounds profile ids: one for each user and
  one that a race adds. A console says each command at most once, `MaxCommands` (three) in
  all, `MaxBatch` (two) in a chunk: an exchange of two commands, or of two in one
  chunk, beside one of the other user. Friends with folded names raise in their login, so they need no more.

- One host: QR keeps hosts apart by their session numbers, and the only thing that
  they share is its loop, whose handlers wait for nobody. The proofs are for any
  number of hosts. Two versions of the data are the fewest of which one is old, and
  two challenges the fewest of which one is stale. A restart is explored where the
  network does not repeat (guard of `Restart`); without restarts it repeats at will.

- Browser (`Lists`, `MaxPackets`, `MaxChanges`): a hello and then a cookie are the
  fewest messages that put a sender under a cookie, and a third, from another
  connection, is the fewest by which two connections mix. One change of the list falls
  before, between or after them. The servers are the fewest with which an address, a
  byte order or a port alone is ambiguous, and the filters have each kind of operand
  on each side of what decides its type, under `and`, `or` and parentheses.
- Heartbeats (`MaxBeats`): with two, the first is kept and the second tells the console
  before the answer lists the first; a third comes after the listing. The beats have the
  name of the game or not, a name that tells the console or not, an ip of the host or 0,
  an empty value inside or at the end, a character that the filter drops, and the end.
- Gamestats (`MaxSent`, `MaxPending`, `MaxFailures`): a login and three saves are the
  fewest of which one is merged into a merge; six units are two messages, cut anywhere
  and joined. Connections that log in as the same player are the case in which two
  streams write one row.
- Sake (`MaxFiles`, `MaxRecords`, `MaxFaults`): two files, of which one may be left by
  a fault, and a second fault for the restart after it.

### Fairness

- `NatNeg` and `NatNegEdge`: event loops serve every datagram that reaches their
  socket; a link that may lose a datagram does not lose every copy for ever
  (strong fairness), and consoles ask again until they know a peer. Nothing is
  assumed of restarts.
- `Preinit`: every console sends, and every datagram is handled (weak fairness for
  each; in `MCNatNegServer` this is part of `PlaysSpec`). A repetition is never promised.
- `Nas`: a thread runs on; one that waits for a connection gets it in turn, since
  the pool of asyncpg queues its waiters (strong fairness for each thread).
- `ServerList`: time passes, a refresh is finished, a host that is up keeps sending
  heartbeats, and of those that are sent again and again not all are lost (strong
  fairness). Nothing is assumed of answers to challenges.
- `Profile`: the event loop resumes each coroutine whose statement is done (weak
  fairness for each connection). Consoles promise nothing.
- `Browser`, `Heartbeats`, `Gamestats`, `Framing`, `Sake`: none. What could be asked of them in time
  is that whatever has arrived is handled, and that is stated without it: when the
  reactor is back, or the stream is at its end, nothing handleable is left over
  (`OnlyErrorsDelay`, `OnlySplitsLag`, `CutAnywhere`).

## 4. Disagreements between code and documents

- `natneg_connect_lost`: a peer that acknowledged its CONNECT is skipped when its
  partner asks again, so a partner whose own CONNECT was lost is never told.
- `nas_accounts`: acctcreate reads the largest userid and reserves nothing.
- `profile_await`: the missing await.
- `server_list_bytes`: QR compares the first byte of a packet with a one-character string, so no
  heartbeat is recognised and no host is listed. What the browser, NAT negotiation and
  the statistics page find in Redis is then nothing, whatever hosts send.

These are runs that TLC finds violated. In the others the property says what the code does, so it
passes, and a document says something else:

- `WaiterOnlyLeavesMatched` (`natneg_server`): `docs/servers/gamespy_natneg.md` has matches
  without a companion expire after 30 seconds. The code has no such clock: a console
  waits in a session until another PREINIT of it comes, and a stranger who uses the
  session a day later is matched with it.
- `OnlyRacesMislead` (`profile_reconnect`): `docs/servers/gamespy_profile.md` has friends see
  each other's state. Where names are folded, as PostgreSQL does, whoever has a
  friend raises first, and nobody sees anything.
- `OnlyRefreshesHide` (`server_list`): the docstring of `update_server_list` has a refresh
  evict atomically; it deletes and sets in two commands, and a reader in between misses the server. That
  takes a heartbeat that was recognised, so with `TextPackets` FALSE it is never reached.
- `OnlySplitsLag` and `CutAnywhere` (`player_data`): game statistics and player search
  add bytes to a string and lose every chunk, though their documents describe what they answer.
- `Sake`, in the same run, with `mixes` FALSE: no record and no file is ever written, though
  `docs/servers/gamespy_sake.md` has both stored. No property claims otherwise.

Their lines are in `PROJECT.json`.

## 5. Proofs

`NatNegProofs` proves, for all sessions, clients, addresses, consoles, server
records and losses that satisfy the three assumptions of `NatNeg` (ports are
positive numbers, two consoles of a session never share an address, records are
addresses):

- `TypeCorrect`, `ConnectsAreAuthentic`, `ConnectedOnlyIfIntroduced`,
  `NobodyIsForgotten`, `AckedConsolesAreRegistered`: the safety invariants of the
  runs;
- `PairsAreIntroduced`: where no session has a third client, any two registered
  clients were introduced to each other, with no exception;
- `Refinement`: `Spec => R!Spec`, the server implements `Rendezvous`.

The argument. None of the invariants is inductive alone. That an entry is
connected only after its client was introduced needs that every acknowledgement
in flight comes from an introduced client (`AcksIntroduced`), which needs that
every CONNECT in flight was sent to one (`ConnectAuthentic`), which in turn needs
that entries and INITs in flight are those of consoles (`EntriesReal`,
`InitsReal`), and that introductions are mutual and among registered clients
(`IntroducedRegistered`). `IInv` is their conjunction. The proof has one lemma for
each conjunct and action that can disturb it; the rest is frame reasoning. The
refinement is proved action by action: an INIT that finds open peers is a step of
`Rendezvous` in which they meet, one that finds none is an arrival or a stutter,
an acknowledgement settles a client that is introduced by `IInv`, and everything
else stutters. What the server does on an INIT is stated once, in lemmas about
`OpenPeers`, `Refreshed` and `Target`.

`ServerListProofs` proves, for all hosts, data, challenges and lives of keys and
page, and any number of restarts:

- `TypeCorrect`, and with it that a key under refresh is absent;
- `ClosedServersStayClosed`: `ClosedStaysClosed`, a closed server is not listed by
  one late heartbeat, by answers, repetitions or restarts;
- `ListedWereHeard`: `ListedWasHeard`, no data comes back that is older than the last
  heartbeat and the one that the challenge was sent for;
- `PageShowsRecent`: `PageIsRecent`, the age of what the statistics page shows;
- `RefreshesAloneHide`: `OnlyRefreshesHide`, nothing but a refresh hides a server that is there.

The argument. `ClosedStaysClosed` is not inductive: a refresh that is under way
could list the server, or an answer to the challenge that the first late heartbeat
causes. `ClosedIsQuiet` says that there is none, which holds because nobody answers
that challenge, since whoever closes is down (`ClosersAreDown`), and because the
challenge is a new one. `IInv` is the conjunction of the three with `TypeOK`; a
lemma for each part goes through the actions. `ListedWasHeard` needs `HeardInv`: a
refresh under way carries the same data as the key will, a listed session has its
challenge sent, and whoever was asked with a challenge that is not the current one is
down. `PageIsRecent` needs `AgeInv`: the age of a key and the life it has left add
up to one life at most, and for the page to one life more.

`NatNegServerProofs` proves of `NatNegServer`, for any consoles, sessions, addresses,
losses and repetitions:

- `ExchangesAreIndependent`: every behaviour of the server is one of `NatNeg` and one
  of `Preinit`, so that `NatNegProofs` holds of it;
- `MatchesComeInPairs` and `WaitersLeaveMatched`: `MatchedInPairs` and
  `WaiterOnlyLeavesMatched`.

The argument. That a console is matched with itself only after a repetition needs
that whoever waits has no further PREINIT in flight unless it may repeat
(`WaitersOnce`), and that a PREINIT in flight is that of a console that has sent it
(`PreinitsReal`). Assumed is `P!ConstantsOK`: no two consoles share an address, and
nobody is at the address that stands for nobody.

`NatNegEdgeProofs` proves, for any addresses of the server and any number of restarts:

- `ProxyIsTransparent`: `ImplementsNatNeg`, every step but a restart is one of
  `NatNeg`, or only moves a datagram;
- `StrangersAreNeverTold`: `ToldOnlyPeers`, over any restarts;
- `UntilTheFirstRestart`: `ConnectAuthentic`, `ConnectedWasIntroduced` and
  `NobodyForgotten` of `NatNeg`, as long as there was none.

The argument. The network of `NatNeg` is what `Unwrap` makes of the datagrams before
and behind the proxy. The adapter takes off what it puts on (`UnwrapAck`,
`UnwrapConnect`), and the proxy changes neither (`UnwrapMoved`); so a handler of the
server is the handler of `NatNeg`, and forwarding is a stutter. After a restart this
is not enough, since datagrams of the earlier life meet an empty memory: the invariant
of `NatNeg` that introductions are among registered clients is lost. What survives is
that entries, INITs, CONNECTs and what consoles were told name real places (`Real`,
`MetReal`), which the lemmas of `NatNegProofs` show to be inductive without the rest,
and which an emptied memory satisfies. They are taken from there by INSTANCE.

`NasProofs` proves, for any consoles, threads, tokens, pool sizes and bounds on requests:

- `TokensAreTheirOwn`: `TokensLeadHome`;
- `UsersKeepRows`: `AnsweredUsersHaveRows`, that a user that was answered has a row, and no
  run asks, since a single thread decides it;
- `LonersLogIn` and `LonersHaveOneRow`: `LastTokenResolves` and `OneRowPerLoner`.

The argument. Each is about rows, and what a thread has found or drawn decides about
them, so `IInv` says what a thread knows at each of its statements: that its token
was in no row before it wrote it and in its own row afterwards (`WritesOK`), that no two
threads or consoles hold one token (`TokensOK`), that a console waits for its own
request (`WaitersOK`), that a row is of the userid of its writer (`OwnersOK`), and, for
a console that waits for its answers and shares its userid with nobody, that there is
one row at most and the request that found none is the only one (`LonersOK`). There is
one lemma for the steps that read, one for the draw, one for the two writes, one for
the answer, and one for each act of a console. Assumed are what the constants are
(`ConsoleAssumption`, `BoundAssumption`) and that no token is the absence of one
(`DistinctAssumption`); accounts with one userid, impatient consoles and bans are allowed.

`PlayerDataProofs` proves of `Sake`, for any columns, tickets, contents and number of
files, records and faults:

- `FilesAreKept`: `UploadsAreKept`, with the types;
- `FaultsAlonePart`: `OnlyFaultsPart`.

The argument. What a game was told must survive the uploads of others and the faults in
them. `ToldOK` says that every id that was told has its path and its file, and
`DoingOK` that what is left of a request is either the rest of an upload, all whose
earlier steps are done and whose id no game was told, or the statement for the size of
a record. So no step touches what was told (`Kept`), and the sizes of the records that
are right stay so (`RecordsOK`). Whether bytes and text mix decides which requests begin
at all, and nothing of what follows. A fault forgets the rest of the request and notes its
record as parted. `ColumnsOK` follows the start through the columns in the same way.
Assumed is that `Column` is a sequence and the number of faults a number.

It proves of `Gamestats`, for any players, rows, keys and messages, any cuts of the streams
and any failures of PostgreSQL:

- `DataInvariance`: the rows of the table, and what is reported of them;
- `ReadsShowReports`: `ReadsAreCurrent`;
- `NoMessageIsLost`: `OnlySplitsLag`, with the types.

All three are of both values of `mixes`: where bytes and text do not mix, a chunk goes with the exception that it
causes (`raised`), and what is proved is that then nothing was handled or kept.

The argument. A row is what many saves made of it, so `DataOK` says what a read of it
shows (`AckedOK`), and for this that its words have a name for each key, and that a row
that was given no empty value has a value for each (`RowsOK`). The step is about text: a save
puts pairs into a dict one after another, writes the dict, and strips it. `Put` keeps
a dict a dict, and changes what it shows under one key (`PutOK`); so by induction over the
rounds `Updated` shows under each key the last value for it, and else what was there
(`UpdatedOK`); `Stripped` loses one thing at most, an empty value at the end, which no read
tells from none (`StrippedOf`); and `Merge` is these three (`MergeOK`). For the streams,
`StreamsOK` says of every connection that what is kept and what is on its way, one after the
other, are the units of whole messages in their order, beginning after the last one that was
handled (`InOrder`), and that what is kept holds no end of a message unless a chunk was
odd (`NoEnd`). A chunk without a marker moves the border, one with a marker takes
three units off the front, and what stays behind has no end, because a chunk
that is not odd has one marker, and whole. Assumed is `ConstantsOK`: what a game
saves has a name for each key and a value for each.

`MatchmakingProofs` proves of `Browser`, for any servers, addresses, cookies, filters and
packets, any cuts of the streams, and any changes of the list:

- `PartiesAreAlwaysNamed`: `PartiesAreNamed`;
- `OnlyErrorsEverDelay`: `OnlyErrorsDelay`, with the types;
- `AnswersAlwaysFollowVerdicts`: an answered search names each once, and up to the maximum,
  the servers for which its filter, as it was translated, is true;
- `NamesTakeTypes`: in any filter, a name with a literal to its right gets the type of that
  literal;

and of `Heartbeats`, for any heartbeats of any length:

- `OnlyEmptyEndsAreEverLost`: `OnlyEmptyEndsAreLost`;
- `OnlyUnknownConsolesEverMislead`: `OnlyUnknownConsolesMislead`.

The argument. That a cookie holds the records of those who were named needs that the record
a connection keeps of itself is one at an address it told (`OwnOK`). That only exceptions
delay needs a count: no unit of a packet comes from nowhere, and without an exception
none goes (`UnitsOK`). Each kind of packet has a lemma that it is one round of
the loop (`Handles`), so that types and units are shown once for all. The search is a
loop with a limit: by induction over its rounds `FindServers` finds, each once, the first
servers whose verdict is yes, up to the limit, and raises at the first that raises
(`FindServersFinds`), and an answer keeps what it was made of. What a verdict *means* is not proved: the clauses of a
packet say what its game means by the tokens of the filter, and the constants leave both
free. `NamesTakeTypes` is the part of it that is about any filter; that the expression of
each filter of the run is true of the servers that its clauses mean, is `AnswersMatchQuery`, which TLC checks,
with the servers it leaves out (`Misread`). For the heartbeats, `HostInv` says of a session and
of a record what the console of each is worth (`Ordered`). The parser is followed by
induction over the pairs of a heartbeat: its text splits into the words of its pairs and one
empty string (`TextOfBeat`), what `rstrip` takes off is that string, unless the heartbeat
says nothing or ends with an empty value (`StrippedStrings`), and the last value of a key is
what `Parsed` has (`WholeBeatsAreRead`). Assumed are `PacketAssumption` and `BoundAssumption` of `Browser` and
`ConstantsOK` of `Heartbeats` (words are not the separator; what a host says of
itself is so).

`ProfileProofs` proves, for any number of connections, users and profiles, any tables to
start from, any commands and any chunks:

- `LonersStayOnline`: `LonersAreOnline`;
- `DuplicatesOverlap`: `OnlyOverlapsDuplicate`;
- `LoneMailIsRouted`: `NothingMisrouted`;
- `BuddiesStayCurrent`: `BuddiesAreCurrent`;
- `RegistryStaysLive`: `RegistryIsLive`, with the types;
- `LogoutsLeaveSessions`: `OnlyLogoutsLeaveSessions`;
- `MailStays`: `MailIsKept`;
- `FriendsAreShown`: `OnlyRacesMislead`.

All are of both values of `Awaits` and of names that are folded and those that are not. A
handler that raises drops the commands after it, and a teardown that raises leaves its
connection in the registry and its session in the table; so what is proved of registry,
sessions and mail is of the connections that did not raise, beside any that did. Assumed are `ConnAssumption`,
`TablesAssumption` (ids are those of a SERIAL primary key, a user has one row at the start)
and `BoundAssumption`.

The argument. A step of `Next` is one of three kinds. `Step(c, st)`: the coroutine of `c`
goes on to `st`; the tables change as it says, and nobody's console or place in the
registry does. `Takes(c, label)`: the effects of `c` take place. `Deed(c)`: a console
connects, speaks or leaves. Each of the 22 actions of `Server` and the four of a console
has a lemma that it is one of them, and each kind one lemma for each of the three parts of
the invariant, so that no part is ever proved action by action.

- `LocalInv` is what is true of a connection alone. `Fits` says how far it has come: when
  the rest of a chunk, collected effects or those of a login under way can be there at
  all (`FlowOK`), whether it is known by a name (`NameOK`), what its effects will do to the
  registry in the end (`EffectsOK`: while a login is under way the *last* of them that
  moves anybody registers it, and a teardown registers nobody and ends in its own
  removal), and what was said and is still to be handled (`ChunkOK`). `PlaysOK` says
  that whatever a connection holds or will do is about profiles of its own user.
- `SharedInv` is what connections share. Two open connections of one user are in
  `overlap` (`OverlapOK`), so that for anybody outside it no effect of another connection
  names its profile: this is why loners stay registered (`OnlineOK`), why a second
  session or row needs an overlap (`SessionsOK`, `RowsOK`, which look at the connection
  between its two statements), and why the copy of the list of friends is the table
  (`BuddiesOK`). `RoutedOK`: as long as a lone message waits for its dispatch, its target
  stays registered, since no other coroutine runs (`LoopOK`).
- `CalmInv` is the rest, and except for `raised` what it says is what raising undoes. Whoever is registered for a profile is open, and has its name or
  will take it out (`LiveUnlessRaised`); whoever has a session has a key, and its name unless it
  logged out or raised (`EndedOK`). `RaisedOK` says that without folded names nobody raises, so that
  the excuse is empty there. Of `Step`s there are two kinds, then: a raise (`Raises`,
  `Falters`), which drops what it has and marks its connection, and the rest.
- Where names are folded, `BlindInv` says that no connection holds anything to tell or learn of a
  friend (`Blind`): what would collect it raises (`FoldedCollects`), and a newcomer to friendship
  as well, since the list is read before the relay. `ShownInv` has this for folded names and
  `ViewsInv` for others.
- `ViewsInv` is what `FriendsAreShown` needs. A view is made of what others tell and what
  one learns, both of which wait among effects, so a step of a coroutine is split once more
  (`Kind`): it adds nothing that counts (`Goes`), is admitted to a login (`Enters`), or looks
  at its friends (`Looks`). `Sound` says of what one connection holds that it speaks for its
  own profile, learns something of everybody it tells something, and moves nobody
  but at a login and when it goes offline; `FreshOK` and `HereOK` say who is registered. For
  a pair that nothing excuses (`Clear`), `Views` says: what is learnt is so (`LearnsRight`);
  whoever logs in for the friend will tell, and not both log in (`MeetsNewcomers`); the
  *last* thing one is told is the status of whoever tells it (`IsToldRight`); and if
  nothing is under way, the console shows what is so, or during a login the friend is
  not there (`ShowsRight`). What makes it inductive is `raced`: whoever looks while the other
  waits with what it learnt leaves a mark (`CrossedNot`), so that for a clear pair only one
  side is ever under way (`LearnersWait`).

What the effects do is a recursive function over their sequence (`Outcome`), like the loops of
the search, of the parser and of the dict above. tlapm cannot
instantiate the theorems of its library that justify recursion and induction, but it can do
without: a set of naturals that is not empty has a least element, which is `WFMin` with
`NatLessThanWellFounded` (`LeastNat`); hence induction up to a bound for a *set* of
indices (`Upwards`); hence the function exists (`OutcomeIsLast`; `Iterates` in the other modules, which say
these lemmas again), and what is true of
each effect (`ApplyDoes`) is carried through all of them: consoles hear and forget nothing
(`OutcomeConsoles`), every message arrives or is lost (`OutcomeMail`), and the last effect
that names a profile decides about it (`OutcomeRegistry`). A console shows of a profile what
it showed before, if no effect tells it of that (`OutcomeSame`), and else the last (`OutcomeLast`).

The proof corrected the model. `raced` once noted only logins that crossed, and TLC agreed
in its instances. But a command that awaits holds what earlier commands of its chunk have
collected: in the chunk of a status and a message that must be saved, the status of a
friend is read before the statement and shown after it, and the friend may change in
between; `Looking` names these. And a user that is its own friend is told its old
status after its new one, which `Mutual` leaves out. `StatusOf` replaces a status that was
read where the code has already assigned the new one.

Model-checked only: liveness, since the prover does not reason about fairness;
`CutAnywhere`, since `Fields` and `Parse` of `Framing` are RECURSIVE operators, which are
out of the prover's reach, and a stream of words has no end to an induction that the
prover could take; and `AnswersMatchQuery`, see above.

## 6. What is not modelled, and why

- Bytes and strings. The code was written for Python 2, and several handlers take the bytes
  that arrive for text. Where this stops a server altogether, the model has both what
  the code does and what it evidently means, with the server behind it:
  `TextPackets` (a constant) for QR (`ServerList`, `Heartbeats`) and the browser, which
  compare a number with one-character strings; `mixes` (a variable, chosen at the start) for
  game statistics (`services/gamespy_gamestats_server.py` line 146), player search
  (`services/gamespy_player_search_server.py` line 86) and Sake storage (`services/storage_server.py` lines
  358, 583 and 631). `svcloc` compares bytes with strings as well; `Nas` has it
  as it is. `Awaits` and `folded` of `Profile` are flaws of other kinds.
- Of the registry, the lookup by local address, which `NatNeg` takes as a choice.
- Of the browser, the encryption of an answer and its layout, which loses no server;
  who is found, and in what byte order, is modelled.
- Of Sake, the searches and their filters (`parse_filter`), which only read; tables
  whose name is not in lower case, for which PostgreSQL and the code disagree and
  every request raises.
- `gamestats` opens a pool of connections to PostgreSQL for each console and closes
  none; the pools are not state of the model, and PostgreSQL's limit is not known to it.
- `session_list` of NAT negotiation and the table of QR only grow. The models have the
  growth and no limit.
- `create_user` passes a string for a BYTEA column, which asyncpg refuses, so that
  the first login of a user fails. `Nas` and `Profile` model the insertion that
  the code means. With it and the profile server as they are, `users` stays empty
  and acctcreate answers 0000000000002 to everybody.
- There is no keepalive time-out: a console that disappears without closing stays
  registered, and messages written to it are lost. `MailIsKept` names these.
- Messages that waited are not deleted when they are sent, and come again at the
  next login; one that is saved while its target logs in waits until then. The
  model does the same; no property claims otherwise.
- A blocking `recvfrom` in the proxy after `select` may block on a datagram the
  kernel drops; this is the kernel's, not the code's, to decide.
- Of the DPI filters, the check of an availability probe, and what they do with
  datagrams that no console sends.
- Search, patcher, downloads, DNS, metrics: no state across requests.
- Administration and registration: the admin page is written for Python 2 (`file`,
  `base64.encodestring`) and lets nobody in; registration inserts a row that only the
  admin page reads. `Nas` takes any ban that somebody may have put into the table.
- Legacy SQLite: used by Sake alone, and by pages that only read.

## 7. Plan

Order of work, most important first. Done: 1 to 8.

1. `NatNeg`, `Rendezvous`, `Preinit`; runs; proof of the invariant and of the refinement.
2. `Nas`: statements of concurrent requests.
3. `NatNegEdge`: composition with the proxy; refinement of `NatNeg` between restarts.
4. `Profile`: registry, effects, tables, reconnection.
5. `ServerList`: QR, its sessions and challenges, the list in Redis and a reader;
   proof that closed servers stay closed.
6. `Filters` and `Browser`; `Framing`; `Heartbeats`.
7. `Gamestats` (streams; read, merge, write) and `Sake` (row, path and file).
8. Proofs about `ServerList` (`ListedWasHeard`, `PageIsRecent`), `Preinit`, `NatNegEdge`,
   `Nas`, `Sake`, `Profile`, `Gamestats`, `Browser` and `Heartbeats`.
9. What remains small: the searches of Sake, and the forms of the admin page once they
   can be reached.
