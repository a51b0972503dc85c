-------------------------------- MODULE Sake --------------------------------
(***************************************************************************)
(* The storage server, services/storage_server.py: games upload files, get *)
(* ids for them, and name the ids in records of a table, which has the     *)
(* size of the file beside its id (g2050_box, of WarioWare DIY).           *)
(*                                                                         *)
(* serve_forever takes one request after the other, but a request is       *)
(* several statements, and none is part of a transaction: each is a step,  *)
(* and a failure of PostgreSQL or of the disk may end the request after    *)
(* any of them, as a crash may end the server.  A statement that was       *)
(* executed, or a file that was written, survives.                         *)
(*                                                                         *)
(* The code was written for Python 2, where bytes are text.  In Python 3,  *)
(* which the repository runs (Dockerfile), they do not mix, and the        *)
(* handlers that write raise before they have written anything: there,     *)
(* with mixes FALSE, no request changes any of this state.                 *)
(***************************************************************************)
EXTENDS Naturals, SequencesExt

CONSTANTS Column,     \* the columns of the table, in their order
          FileColumn, \* the one for the id of a file
          Ticket,     \* the login tickets of the games
          Sessions,   \* the sets of rows of sessions in the legacy database:
                      \* ticket -> profile
          File,       \* contents that are uploaded
          SizeOf,     \* content -> size; that of a new file is 0
          MaxSize,    \* 65536, in the unit of SizeOf
          MaxFiles,   \* bound: uploads
          MaxRecords, \* bound: records
          MaxFaults   \* bound: crashes, and failures of a statement

ASSUME ColumnAssumption == Column \in Seq(ToSet(Column))
ASSUME FaultAssumption == MaxFaults \in Nat

VARIABLES mixes,    \* do bytes and text mix?
          sessions, \* the rows of sessions in the legacy database
          boot,     \* the column that start looks at, and whether it was just added
          columns,  \* the columns that the table has
          typed,    \* the columns in typedata
          paths,    \* the rows of filepaths, by file id: does it have its path?
          files,    \* the files: id -> content
          records,  \* the records, by record id: owner, file, size
          doing,    \* what is left of the request, in a sequence: a step, its
                    \* file id or record, and its file
          faults,   \* crashes and failures so far, for the bound
          \* History:
          told,     \* the ids that games were told for their files
          parted    \* records and columns whose two statements were parted

database == <<columns, typed, paths, records>>
history == <<told, parted>>
vars == <<mixes, sessions, boot, database, files, doing, faults, history>>

Init ==
    /\ mixes \in BOOLEAN /\ sessions \in Sessions
    /\ boot = [at |-> 1, added |-> FALSE]
    /\ columns = {} /\ typed = {}
    /\ paths = <<>> /\ files = <<>> /\ records = <<>>
    /\ doing = <<>> /\ faults = 0
    /\ told = {} /\ parted = {}

----------------------------------------------------------------------------
(* The start: create_or_alter_table_if_not_exists. *)

Up == boot.at = Len(Column) + 1

\* CREATE TABLE with the first column, or ALTER TABLE, unless it is there.
AddColumn ==
    /\ ~Up /\ ~boot.added
    /\ IF Column[boot.at] \in columns
       THEN boot' = [boot EXCEPT !.at = @ + 1] /\ UNCHANGED columns
       ELSE boot' = [boot EXCEPT !.added = TRUE] /\ columns' = columns \union {Column[boot.at]}
    /\ UNCHANGED <<mixes, sessions, typed, paths, records, files, doing, faults, history>>

AddType ==
    /\ ~Up /\ boot.added
    /\ typed' = typed \union {Column[boot.at]}
    /\ boot' = [at |-> boot.at + 1, added |-> FALSE]
    /\ UNCHANGED <<mixes, sessions, columns, paths, records, files, doing, faults, history>>

\* The server answers requests, and answers none now.
Free == Up /\ doing = <<>>

----------------------------------------------------------------------------
(* The file server. *)

\* Mutant: the game is told before its file is written.
UploadStepsEager == <<"path", "reply", "open", "write">>

\* The steps of an upload after the row is inserted.
UploadSteps == <<"path", "open", "write", "reply">>

\* An upload that is not too big gets the next id, with RETURNING.  With a
\* boundary that is text, and not bytes, cgi.parse_multipart raises.
Upload(f) ==
    LET next == Len(paths) + 1
    IN  /\ mixes /\ Free /\ next <= MaxFiles /\ SizeOf[f] <= MaxSize
        /\ paths' = Append(paths, FALSE)
        /\ doing' = [i \in DOMAIN UploadSteps |->
                        [step |-> UploadSteps[i], id |-> next, file |-> f]]
        /\ UNCHANGED <<mixes, sessions, boot, columns, typed, records, files, faults, history>>

Now(step) == doing # <<>> /\ Head(doing).step = step
id == Head(doing).id
file == Head(doing).file

UpdatePath ==
    /\ Now("path")
    /\ paths' = [paths EXCEPT ![id] = TRUE] /\ doing' = Tail(doing)
    /\ UNCHANGED <<mixes, sessions, boot, columns, typed, records, files, faults, history>>

\* open, with "wb", makes an empty file, or empties the one that is there.
Opened(i) == [j \in DOMAIN files \union {i} |-> IF j = i THEN "empty" ELSE files[j]]

\* And write fills it.
WriteFile ==
    /\ \/ Now("open") /\ files' = Opened(id)
       \/ Now("write") /\ files' = [files EXCEPT ![id] = file]
    /\ doing' = Tail(doing)
    /\ UNCHANGED <<mixes, sessions, boot, database, faults, history>>

\* The id is in the headers, which end_headers sends.  (The write of an empty
\* text behind them raises unless bytes and text mix; then no upload comes here.)
ReplyUpload ==
    /\ Now("reply")
    /\ told' = told \union {<<id, file>>} /\ doing' = Tail(doing)
    /\ UNCHANGED <<mixes, sessions, boot, database, files, faults, parted>>

\* What a download of an id brings: the file under its path, or nothing.
Download(i) ==
    IF i \in DOMAIN paths /\ paths[i] /\ i \in DOMAIN files THEN files[i] ELSE "nothing"

----------------------------------------------------------------------------
(* The records. *)

\* get_profileid_from_loginticket asks the legacy database, and is -1 for a
\* ticket that is not there.
Owner(t) == IF t \in DOMAIN sessions THEN sessions[t] ELSE "-1"

\* A record names no file, 0, or one that a game was told.
Nameable == {0} \union {pair[1] : pair \in told}

\* A column without a type in typedata makes the request raise before it writes.
Typed == FileColumn \in typed

\* The sizes of the files are not known to PostgreSQL: after a record comes a
\* statement for its size, in whatever record has that recordid.
SizeStep(r, f) == <<[step |-> "size", id |-> r, file |-> f]>>

\* What both do first, do_POST: it looks for a text in the bytes that came, and
\* raises unless they mix; and it raises for a column without a type.
Accepts(f) == mixes /\ Free /\ Typed /\ f \in Nameable

CreateRecord(t, f) ==
    LET r == Len(records) + 1
    IN  /\ Accepts(f) /\ r <= MaxRecords
        /\ records' = Append(records, [owner |-> Owner(t), file |-> f, size |-> 0])
        /\ doing' = SizeStep(r, f)
        /\ UNCHANGED <<mixes, sessions, boot, columns, typed, paths, files, faults, history>>

\* Another owner's record is not updated, but its size is.
UpdateRecord(t, r, f) ==
    /\ Accepts(f)
    /\ IF records[r].owner = Owner(t)
       THEN records' = [records EXCEPT ![r].file = f] /\ UNCHANGED parted
       ELSE parted' = parted \union {<<"record", r>>} /\ UNCHANGED records
    /\ doing' = SizeStep(r, f)
    /\ UNCHANGED <<mixes, sessions, boot, columns, typed, paths, files, faults, told>>

\* Mutant: a record that no longer names a file keeps its size.
FileSizeKept(r, f) == IF f = 0 THEN records[r].size ELSE SizeOf[Download(f)]

\* The size for record r, now that it names file f: 0 is "a delete command".
FileSize(r, f) == IF f = 0 THEN 0 ELSE SizeOf[Download(f)]

UpdateSize ==
    /\ Now("size")
    /\ records' = [records EXCEPT ![id].size = FileSize(id, file)]
    /\ parted' = IF records[id].file = file THEN parted \ {<<"record", id>>} ELSE parted
    /\ doing' = Tail(doing)
    /\ UNCHANGED <<mixes, sessions, boot, columns, typed, paths, files, faults, told>>

----------------------------------------------------------------------------
(* Faults. *)

\* What the next statement of the request, or of the start, belonged to.
Parts == (IF Now("size") THEN {<<"record", id>>} ELSE {})
         \union (IF boot.added THEN {<<"column", Column[boot.at]>>} ELSE {})

\* A statement fails, and the handler raises: the game gets no answer.
Abort ==
    /\ doing # <<>> /\ faults < MaxFaults
    /\ faults' = faults + 1 /\ doing' = <<>> /\ parted' = parted \union Parts
    /\ UNCHANGED <<mixes, sessions, boot, database, files, told>>

\* The server ends, or a statement of its start fails, and it is started again.
Crash ==
    /\ faults < MaxFaults
    /\ faults' = faults + 1 /\ doing' = <<>> /\ parted' = parted \union Parts
    /\ boot' = [at |-> 1, added |-> FALSE]
    /\ UNCHANGED <<mixes, sessions, database, files, told>>

Next ==
    \/ AddColumn \/ AddType
    \/ \E f \in File : Upload(f)
    \/ UpdatePath \/ WriteFile \/ ReplyUpload
    \/ \E t \in Ticket, f \in Nameable :
          CreateRecord(t, f) \/ \E r \in DOMAIN records : UpdateRecord(t, r, f)
    \/ UpdateSize
    \/ Abort \/ Crash

Spec == Init /\ [][Next]_vars

----------------------------------------------------------------------------
(* Properties. *)

TypeOK ==
    /\ boot.at \in 1 .. Len(Column) + 1 /\ boot.added \in BOOLEAN
    /\ typed \subseteq columns /\ columns \subseteq ToSet(Column)
    /\ paths \in Seq(BOOLEAN) /\ DOMAIN files \subseteq DOMAIN paths
    /\ \A r \in DOMAIN records : records[r].file \in Nameable
    /\ doing # <<>> => Up
    /\ faults \in 0 .. MaxFaults

(***************************************************************************)
(* A game that was told an id for its file can download the file under it  *)
(* from then on, and nobody is told the same id for another file, whatever *)
(* crashes and failures leave of the uploads before and after.             *)
(***************************************************************************)
UploadsAreKept ==
    /\ TypeOK
    /\ \A pair \in told : Download(pair[1]) = pair[2]

(***************************************************************************)
(* What is written in two statements stays together: when the server is    *)
(* free, the size in a record is that of the file it names and a column    *)
(* has its type, unless a fault fell between the two, or, for a size, a    *)
(* game has updated the record of another owner.                           *)
(***************************************************************************)
OnlyFaultsPart ==
    /\ Free => \A r \in DOMAIN records : <<"record", r>> \notin parted =>
          LET f == records[r].file
          IN  records[r].size = IF f = 0 THEN 0 ELSE SizeOf[Download(f)]
    /\ Up => \A col \in ToSet(Column) :
          <<"column", col>> \in parted \/ col \in columns \intersect typed
=============================================================================
