--------------------------- MODULE PlayerDataProofs ---------------------------
(***************************************************************************)
(* Proofs about the two services that keep data of players.                *)
(*                                                                         *)
(* The storage server: for every table, all contents and any number of     *)
(* files, records and faults, what a game was told of its file stays true, *)
(* and only faults part what is written in two statements.                 *)
(*                                                                         *)
(* The game statistics server: for all players, rows and messages, and     *)
(* however TCP splits the streams, a read shows what a save last reported, *)
(* and no message is lost, repeated or overtaken.  That rests on what the  *)
(* operators on streams and on the words of a row do.                      *)
(***************************************************************************)
EXTENDS PlayerData, SequenceTheorems, FiniteSetTheorems, WellFoundedInduction, TLAPS

(***************************************************************************)
(* The inductive invariant of the storage server.                          *)
(***************************************************************************)

\* What is left of the upload of f under i from its k-th step on.
Left(k, i, f) ==
    [j \in 1 .. 5 - k |-> [step |-> UploadSteps[j + k - 1], id |-> i, file |-> f]]

\* What has been done for an upload whose k-th step is next; no game knows its id.
UploadOK(k, i, f) ==
    /\ i \in 1 .. Len(paths)
    /\ k >= 2 => paths[i]
    /\ k >= 3 => i \in DOMAIN files
    /\ k >= 4 => files[i] = f
    /\ \A pair \in told : pair[1] # i

Uploading == \E k \in 1 .. 4, i \in Nat, f \in File : doing = Left(k, i, f) /\ UploadOK(k, i, f)

\* The size of record r is to be written, for the file that it names now,
\* unless the record is another owner's.
SizeOK(r, f) ==
    /\ r \in 1 .. Len(records) /\ f \in Nameable
    /\ <<"record", r>> \in parted \/ records[r].file = f

Sizing == \E r \in Nat, f \in Nat : doing = SizeStep(r, f) /\ SizeOK(r, f)

DoingOK == doing = <<>> \/ Uploading \/ Sizing

\* What games were told is so.
ToldOK ==
    \A pair \in told :
        /\ pair = <<pair[1], pair[2]>> /\ pair[1] \in 1 .. Len(paths)
        /\ paths[pair[1]] /\ pair[1] \in DOMAIN files /\ files[pair[1]] = pair[2]

\* A record is one, and has the size of its file but while that is written.
Sized(r) == records[r].size = IF records[r].file = 0 THEN 0 ELSE SizeOf[Download(records[r].file)]
RecordOK(r) ==
    /\ records[r] = [owner |-> records[r].owner, file |-> records[r].file, size |-> records[r].size]
    /\ <<"record", r>> \in parted \/ Sized(r) \/ (Now("size") /\ id = r)
RecordsOK ==
    /\ records \in Seq(Range(records))
    /\ \A r \in 1 .. Len(records) : RecordOK(r)

\* The start has seen the columns before the one it looks at, and a column has
\* no type only while the start adds it.
ColumnsOK ==
    /\ boot = [at |-> boot.at, added |-> boot.added]
    /\ boot.added => ~Up /\ Column[boot.at] \in columns
    /\ \A i \in 1 .. boot.at - 1 : Column[i] \in columns
    /\ \A col \in columns :
          \/ col \in typed \/ <<"column", col>> \in parted
          \/ boot.added /\ col = Column[boot.at]

IInv == TypeOK /\ DoingOK /\ ToldOK /\ RecordsOK /\ ColumnsOK

----------------------------------------------------------------------------
(* Lemmas. *)

\* The rest of a sequence, as a function.
LEMMA RestOf ==
    ASSUME NEW S, NEW s \in Seq(S), s # <<>>
    PROVE  Tail(s) = [j \in 1 .. Len(s) - 1 |-> s[j + 1]]
<1> DEFINE t == Tail(s)
<1>1. t \in Seq(S) /\ Len(t) = Len(s) - 1 /\ \A j \in 1 .. Len(t) : t[j] = s[j + 1]
  BY HeadTailProperties
<1> HIDE DEF t
<1>2. t = [j \in 1 .. Len(t) |-> t[j]]
  BY <1>1
<1>3. t = [j \in 1 .. Len(s) - 1 |-> s[j + 1]]
  BY <1>1, <1>2
<1> QED
  BY <1>3 DEF t

\* What is left of an upload has a first step, and a rest.
LEMMA UploadShape ==
    ASSUME NEW k \in 1 .. 4, NEW i, NEW f
    PROVE  /\ Left(k, i, f) # <<>>
           /\ Head(Left(k, i, f)) = [step |-> UploadSteps[k], id |-> i, file |-> f]
           /\ Tail(Left(k, i, f)) = IF k = 4 THEN <<>> ELSE Left(k + 1, i, f)
<1> DEFINE s == Left(k, i, f)
<1>1. s \in Seq({[step |-> UploadSteps[j], id |-> i, file |-> f] : j \in 1 .. 4})
  <2>1. \A j \in 1 .. 5 - k : j + k - 1 \in 1 .. 4
    OBVIOUS
  <2>2. 5 - k \in Nat
    OBVIOUS
  <2> QED
    BY <2>1, <2>2 DEF Left
<1>2. Len(s) = 5 - k /\ DOMAIN s = 1 .. 5 - k
  BY <1>1 DEF Left
<1>3. s # <<>> /\ Head(s) = s[1]
  BY <1>1, <1>2
<1>4. Tail(s) = [j \in 1 .. 4 - k |-> s[j + 1]]
  <2>1. Tail(s) = [j \in 1 .. Len(s) - 1 |-> s[j + 1]]
    BY <1>1, <1>3, RestOf
  <2>2. Len(s) - 1 = 4 - k
    BY <1>2
  <2> QED
    BY <2>1, <2>2
<1>5. s[1] = [step |-> UploadSteps[k], id |-> i, file |-> f]
  BY DEF Left
<1>6. CASE k = 4
  BY <1>3, <1>4, <1>5, <1>6
<1>7. CASE k # 4
  <2>1. \A j \in 1 .. 4 - k : s[j + 1] = [step |-> UploadSteps[j + (k + 1) - 1], id |-> i, file |-> f]
    BY DEF Left
  <2>2. 5 - (k + 1) = 4 - k
    OBVIOUS
  <2>3. Tail(s) = Left(k + 1, i, f)
    BY <1>4, <2>1, <2>2 DEF Left
  <2> QED
    BY <1>3, <1>5, <1>7, <2>3
<1> QED
  BY <1>6, <1>7

\* The steps of an upload, by their numbers.
LEMMA UploadNames ==
    ASSUME NEW k \in 1 .. 4
    PROVE  /\ UploadSteps[k] = "path" <=> k = 1
           /\ UploadSteps[k] = "open" <=> k = 2
           /\ UploadSteps[k] = "write" <=> k = 3
           /\ UploadSteps[k] = "reply" <=> k = 4
           /\ UploadSteps[k] # "size"
BY DEF UploadSteps

\* A new upload has all its steps before it.
LEMMA UploadStart ==
    ASSUME NEW i, NEW f
    PROVE  [j \in DOMAIN UploadSteps |-> [step |-> UploadSteps[j], id |-> i, file |-> f]]
           = Left(1, i, f)
<1>1. DOMAIN UploadSteps = 1 .. 4
  BY DEF UploadSteps
<1>2. \A j \in 1 .. 4 : j + 1 - 1 = j
  OBVIOUS
<1> QED
  BY <1>1, <1>2 DEF Left

\* After a record comes one step.
LEMMA SizeShape ==
    ASSUME NEW r, NEW f
    PROVE  /\ SizeStep(r, f) # <<>>
           /\ Head(SizeStep(r, f)) = [step |-> "size", id |-> r, file |-> f]
           /\ Tail(SizeStep(r, f)) = <<>>
BY DEF SizeStep

\* No step of an upload writes a size.
LEMMA UploadNotSize ==
    ASSUME NEW k \in 1 .. 4, NEW i, NEW f, doing = Left(k, i, f)
    PROVE  ~Now("size")
BY UploadShape, UploadNames DEF Now

\* What the server does now is a step of an upload, or writes a size.
LEMMA NowUploading ==
    ASSUME DoingOK, NEW k \in 1 .. 4, Now(UploadSteps[k])
    PROVE  \E i \in Nat, f \in File :
              /\ doing = Left(k, i, f) /\ UploadOK(k, i, f)
              /\ id = i /\ file = f
              /\ Tail(doing) = IF k = 4 THEN <<>> ELSE Left(k + 1, i, f)
<1>1. doing # <<>> /\ Head(doing).step = UploadSteps[k]
  BY DEF Now
<1>2. ~Sizing
  BY <1>1, SizeShape, UploadNames DEF Sizing
<1>3. PICK l \in 1 .. 4, i \in Nat, f \in File : doing = Left(l, i, f) /\ UploadOK(l, i, f)
  BY <1>1, <1>2 DEF DoingOK, Uploading
<1>4. Head(doing) = [step |-> UploadSteps[l], id |-> i, file |-> f]
  BY <1>3, UploadShape
<1>5. UploadSteps[l] = UploadSteps[k]
  BY <1>1, <1>4
<1>6. l = k
  BY <1>5 DEF UploadSteps
<1> QED
  BY <1>3, <1>4, <1>6, UploadShape DEF id, file

LEMMA NowSizing ==
    ASSUME DoingOK, Now("size")
    PROVE  /\ id \in Nat /\ file \in Nat /\ SizeOK(id, file) /\ Tail(doing) = <<>>
           /\ doing = SizeStep(id, file)
<1>1. doing # <<>> /\ Head(doing).step = "size"
  BY DEF Now
<1>2. ~Uploading
  BY UploadNotSize DEF Uploading
<1>3. PICK r \in Nat, f \in Nat : doing = SizeStep(r, f) /\ SizeOK(r, f)
  BY <1>1, <1>2 DEF DoingOK, Sizing
<1>4. id = r /\ file = f
  BY <1>3, SizeShape DEF id, file
<1> QED
  BY <1>3, <1>4, SizeShape

\* What a record may name has been uploaded.
LEMMA NameableIsTold ==
    ASSUME ToldOK, NEW f \in Nameable
    PROVE  /\ f \in Nat
           /\ f # 0 => /\ f \in 1 .. Len(paths) /\ paths[f] /\ f \in DOMAIN files
                       /\ \E pair \in told : f = pair[1]
<1>1. CASE f = 0
  BY <1>1
<1>2. CASE f # 0
  <2>1. PICK pair \in told : f = pair[1]
    BY <1>2 DEF Nameable
  <2>2. f \in 1 .. Len(paths) /\ paths[f] /\ f \in DOMAIN files
    BY <2>1 DEF ToldOK
  <2> QED
    BY <2>1, <2>2
<1> QED
  BY <1>1, <1>2

\* A sequence with a new element, or another, is one of its own elements.
LEMMA AppendOfRange ==
    ASSUME NEW s, s \in Seq(Range(s)), NEW e
    PROVE  /\ Append(s, e) \in Seq(Range(Append(s, e)))
           /\ Len(Append(s, e)) = Len(s) + 1 /\ Append(s, e)[Len(s) + 1] = e
           /\ \A j \in 1 .. Len(s) : Append(s, e)[j] = s[j]
<1>1. s \in Seq(Range(s) \union {e})
  BY DEF Range
<1>2. /\ Append(s, e) \in Seq(Range(s) \union {e})
      /\ Len(Append(s, e)) = Len(s) + 1 /\ Append(s, e)[Len(s) + 1] = e
      /\ \A j \in 1 .. Len(s) : Append(s, e)[j] = s[j]
  BY <1>1, AppendProperties
<1>3. Append(s, e) \in Seq(Range(Append(s, e)))
  BY <1>2, SeqOfRange
<1> QED
  BY <1>2, <1>3

LEMMA ExceptOfRange ==
    ASSUME NEW s, s \in Seq(Range(s)), NEW j \in 1 .. Len(s), NEW e
    PROVE  /\ [s EXCEPT ![j] = e] \in Seq(Range([s EXCEPT ![j] = e]))
           /\ Len([s EXCEPT ![j] = e]) = Len(s)
<1>1. s \in Seq(Range(s) \union {e})
  BY DEF Range
<1>2. [s EXCEPT ![j] = e] \in Seq(Range(s) \union {e}) /\ Len([s EXCEPT ![j] = e]) = Len(s)
  BY <1>1
<1> QED
  BY <1>2, SeqOfRange

\* What a step must leave: the path and the file of every id that a game was told.
Kept ==
    \A pair \in told :
        /\ pair[1] \in 1 .. Len(paths') /\ paths'[pair[1]]
        /\ pair[1] \in DOMAIN files' /\ files'[pair[1]] = files[pair[1]]

\* Then what was told stays so, and a download brings what it brought.
LEMMA ToldKept ==
    ASSUME ToldOK, Kept, told' = told
    PROVE  ToldOK'
BY DEF ToldOK, Kept

LEMMA DownloadKept ==
    ASSUME TypeOK, TypeOK', ToldOK, Kept, NEW f \in Nameable, f # 0
    PROVE  Download(f)' = Download(f)
<1>1. PICK pair \in told : f = pair[1]
  BY NameableIsTold
<1>2. f \in DOMAIN paths /\ paths[f] /\ f \in DOMAIN files /\ Download(f) = files[f]
  BY NameableIsTold DEF Download, TypeOK
<1>3. f \in DOMAIN paths' /\ paths'[f] /\ f \in DOMAIN files' /\ files'[f] = files[f]
  BY <1>1 DEF Kept, TypeOK
<1> QED
  BY <1>2, <1>3 DEF Download

LEMMA SizedKept ==
    ASSUME TypeOK, TypeOK', ToldOK, Kept, NEW r \in DOMAIN records, records'[r] = records[r],
           Sized(r)
    PROVE  Sized(r)'
<1> DEFINE f == records[r].file
<1>1. f \in Nameable
  BY DEF TypeOK
<1>2. CASE f = 0
  BY <1>2 DEF Sized
<1>3. CASE f # 0
  <2>1. PICK g : g = f
    OBVIOUS
  <2>2. Download(g)' = Download(g)
    BY <1>1, <1>3, <2>1, DownloadKept
  <2>3. Sized(r)' <=> records'[r].size = IF g = 0 THEN 0 ELSE SizeOf[Download(g)']
    BY <2>1 DEF Sized
  <2>4. Sized(r) <=> records[r].size = IF g = 0 THEN 0 ELSE SizeOf[Download(g)]
    BY <2>1 DEF Sized
  <2> QED
    BY <2>2, <2>3, <2>4
<1> QED
  BY <1>2, <1>3

\* A step that leaves the records, and is not the one that writes a size, leaves
\* them right, and what the start has done when it leaves that.
LEMMA RecordsKept ==
    ASSUME TypeOK, TypeOK', ToldOK, RecordsOK, Kept, ~Now("size"), UNCHANGED records,
           parted \subseteq parted'
    PROVE  RecordsOK'
<1>1. ASSUME NEW r \in 1 .. Len(records)
      PROVE  RecordOK(r)'
  <2>1. RecordOK(r) /\ r \in DOMAIN records
    BY DEF RecordsOK
  <2>2. CASE <<"record", r>> \in parted
    BY <2>1, <2>2 DEF RecordOK
  <2>3. CASE Sized(r)
    <3>1. Sized(r)'
      BY <2>1, <2>3, SizedKept
    <3> QED
      BY <2>1, <3>1 DEF RecordOK
  <2> QED
    BY <2>1, <2>2, <2>3 DEF RecordOK
<1> QED
  BY <1>1 DEF RecordsOK

LEMMA ColumnsKept ==
    ASSUME ColumnsOK, UNCHANGED <<boot, columns, typed>>,
           \A col : <<"column", col>> \in parted => <<"column", col>> \in parted'
    PROVE  ColumnsOK'
BY DEF ColumnsOK, Up

----------------------------------------------------------------------------
(* The steps. *)

\* The start: the server answers nobody, and what it keeps for games stays.
LEMMA StartStep ==
    ASSUME IInv, AddColumn \/ AddType
    PROVE  IInv'
<1> USE ColumnAssumption
<1>1. doing = <<>> /\ ~Now("size") /\ ~Up
  BY DEF IInv, TypeOK, AddColumn, AddType, Now
<1>2. boot.at \in 1 .. Len(Column) /\ Column[boot.at] \in ToSet(Column) /\ Len(Column) \in Nat
  BY <1>1 DEF IInv, TypeOK, Up, ToSet
<1>3. UNCHANGED <<paths, records, files, doing, faults, told, parted>>
  BY DEF AddColumn, AddType, history
<1>4. TypeOK'
  <2>1. Nameable' = Nameable
    BY <1>3 DEF Nameable
  <2>2. /\ boot'.at \in 1 .. Len(Column) + 1 /\ boot'.added \in BOOLEAN
        /\ typed' \subseteq columns' /\ columns' \subseteq ToSet(Column)
    <3>1. CASE AddColumn /\ Column[boot.at] \in columns
      <4>1. boot' = [at |-> boot.at + 1, added |-> boot.added]
        BY <3>1 DEF IInv, ColumnsOK, AddColumn
      <4> QED
        BY <1>1, <1>2, <3>1, <4>1 DEF IInv, TypeOK, AddColumn
    <3>2. CASE AddColumn /\ Column[boot.at] \notin columns
      <4>1. boot' = [at |-> boot.at, added |-> TRUE]
        BY <3>2 DEF IInv, ColumnsOK, AddColumn
      <4> QED
        BY <1>1, <1>2, <3>2, <4>1 DEF IInv, TypeOK, AddColumn
    <3>3. CASE AddType
      BY <1>1, <1>2, <3>3 DEF IInv, TypeOK, ColumnsOK, AddType
    <3> QED
      BY <3>1, <3>2, <3>3
  <2> QED
    BY <1>1, <1>3, <2>1, <2>2 DEF IInv, TypeOK
<1>5. DoingOK'
  BY <1>1, <1>3 DEF DoingOK
<1>6. Kept
  BY <1>3 DEF IInv, ToldOK, Kept
<1>7. ToldOK' /\ RecordsOK'
  BY <1>1, <1>3, <1>4, <1>6, ToldKept, RecordsKept DEF IInv
<1>8. ColumnsOK'
  <2>1. CASE AddColumn /\ Column[boot.at] \in columns
    BY <1>1, <1>2, <1>3, <2>1 DEF IInv, TypeOK, ColumnsOK, AddColumn, Up
  <2>2. CASE AddColumn /\ Column[boot.at] \notin columns
    BY <1>1, <1>2, <1>3, <2>2 DEF IInv, TypeOK, ColumnsOK, AddColumn, Up
  <2>3. CASE AddType
    BY <1>1, <1>2, <1>3, <2>3 DEF IInv, TypeOK, ColumnsOK, AddType, Up
  <2> QED
    BY <2>1, <2>2, <2>3
<1> QED
  BY <1>4, <1>5, <1>7, <1>8 DEF IInv

\* A new file gets an id that no game was told.
LEMMA UploadStep ==
    ASSUME IInv, NEW f \in File, Upload(f)
    PROVE  IInv'
<1>0. PICK next \in Nat : next = Len(paths) + 1
  BY DEF IInv, TypeOK
<1>1. /\ Up /\ doing = <<>> /\ ~Now("size") /\ paths' = Append(paths, FALSE)
      /\ UNCHANGED <<boot, columns, typed, records, files, faults, told, parted>>
  BY DEF Upload, Free, Now, history
<1>2. doing' = Left(1, next, f)
  BY <1>0, UploadStart DEF Upload
<1>3. /\ paths' \in Seq(BOOLEAN) /\ Len(paths') = next
      /\ \A i \in 1 .. Len(paths) : paths'[i] = paths[i]
  BY <1>0, <1>1, AppendProperties DEF IInv, TypeOK
<1>4. TypeOK'
  <2>1. DOMAIN paths = 1 .. Len(paths) /\ DOMAIN paths' = 1 .. next /\ Len(paths) \in Nat
    BY <1>0, <1>3 DEF IInv, TypeOK
  <2>2. Nameable' = Nameable /\ Up'
    BY <1>1 DEF Nameable, Up
  <2> QED
    BY <1>0, <1>1, <1>3, <2>1, <2>2 DEF IInv, TypeOK
<1>5. Kept
  BY <1>0, <1>1, <1>3 DEF IInv, ToldOK, Kept
<1>6. ToldOK' /\ RecordsOK' /\ ColumnsOK'
  BY <1>1, <1>4, <1>5, ToldKept, RecordsKept, ColumnsKept DEF IInv
<1>7. UploadOK(1, next, f)'
  <2>1. \A pair \in told : pair[1] # next
    BY <1>0 DEF IInv, ToldOK
  <2> QED
    BY <1>1, <1>3, <2>1 DEF UploadOK
<1>8. DoingOK'
  <2>1. Uploading'
    <3>1. 1 \in 1 .. 4 /\ next \in Nat /\ f \in File
      BY <1>0
    <3> QED
      BY <1>2, <1>7, <3>1, Zenon DEF Uploading
  <2> QED
    BY <2>1 DEF DoingOK
<1> QED
  BY <1>4, <1>6, <1>8 DEF IInv

\* The steps of an upload change what is under its id, which no game was told.
LEMMA UpdatePathStep ==
    ASSUME IInv, UpdatePath
    PROVE  IInv'
<1>1. /\ Now(UploadSteps[1]) /\ paths' = [paths EXCEPT ![id] = TRUE] /\ doing' = Tail(doing)
      /\ UNCHANGED <<boot, columns, typed, records, files, faults, told, parted>>
  BY UploadNames DEF UpdatePath, history
<1>2. PICK i \in Nat, f \in File :
        /\ doing = Left(1, i, f) /\ UploadOK(1, i, f) /\ id = i /\ Tail(doing) = Left(2, i, f)
  BY <1>1, NowUploading DEF IInv
<1>3. ~Now("size")
  BY <1>2, UploadNotSize
<1>4. /\ paths' \in Seq(BOOLEAN) /\ Len(paths') = Len(paths) /\ i \in 1 .. Len(paths)
      /\ paths'[i] = TRUE /\ \A j \in 1 .. Len(paths) : j # i => paths'[j] = paths[j]
  BY <1>1, <1>2 DEF IInv, TypeOK, UploadOK
<1>5. TypeOK'
  <2>1. DOMAIN paths' = DOMAIN paths
    BY <1>1
  <2>2. Nameable' = Nameable /\ Up /\ Up'
    BY <1>1 DEF Nameable, Up, IInv, TypeOK, Now
  <2> QED
    BY <1>1, <1>4, <2>1, <2>2 DEF IInv, TypeOK
<1>6. Kept
  BY <1>1, <1>2, <1>4 DEF IInv, ToldOK, Kept, UploadOK
<1>7. ToldOK' /\ RecordsOK' /\ ColumnsOK'
  BY <1>1, <1>3, <1>5, <1>6, ToldKept, RecordsKept, ColumnsKept DEF IInv
<1>8. DoingOK'
  <2>1. UploadOK(2, i, f)'
    BY <1>1, <1>2, <1>4 DEF UploadOK
  <2> QED
    BY <1>1, <1>2, <2>1 DEF DoingOK, Uploading
<1> QED
  BY <1>5, <1>7, <1>8 DEF IInv

LEMMA WriteFileStep ==
    ASSUME IInv, WriteFile
    PROVE  IInv'
<1>1. /\ doing' = Tail(doing) /\ doing # <<>>
      /\ UNCHANGED <<boot, columns, typed, paths, records, faults, told, parted>>
  BY DEF WriteFile, Now, database, history
<1>2. PICK k \in 2 .. 3, i \in Nat, f \in File :
        /\ doing = Left(k, i, f) /\ UploadOK(k, i, f) /\ Tail(doing) = Left(k + 1, i, f)
        /\ files' = IF k = 2 THEN Opened(i) ELSE [files EXCEPT ![i] = f]
  <2>1. CASE Now("open") /\ files' = Opened(id)
    <3>1. Now(UploadSteps[2])
      BY <2>1, UploadNames
    <3>2. PICK i \in Nat, f \in File :
            /\ doing = Left(2, i, f) /\ UploadOK(2, i, f)
            /\ id = i /\ Tail(doing) = Left(2 + 1, i, f)
      BY <3>1, NowUploading DEF IInv
    <3>3. files' = Opened(i)
      BY <2>1, <3>2
    <3> QED
      BY <3>2, <3>3
  <2>2. CASE Now("write") /\ files' = [files EXCEPT ![id] = file]
    <3>1. Now(UploadSteps[3])
      BY <2>2, UploadNames
    <3>2. PICK i \in Nat, f \in File :
            /\ doing = Left(3, i, f) /\ UploadOK(3, i, f)
            /\ id = i /\ file = f /\ Tail(doing) = Left(3 + 1, i, f)
      BY <3>1, NowUploading DEF IInv
    <3>3. files' = [files EXCEPT ![i] = f]
      BY <2>2, <3>2
    <3>4. files' = IF 3 = 2 THEN Opened(i) ELSE [files EXCEPT ![i] = f]
      BY <3>3
    <3> WITNESS 3 \in 2 .. 3, i \in Nat, f \in File
    <3> QED
      BY <3>2, <3>4
  <2> QED
    BY <2>1, <2>2 DEF WriteFile
<1>3. ~Now("size")
  BY <1>2, UploadNotSize
<1>4. /\ DOMAIN files' = DOMAIN files \union {i} /\ i \in 1 .. Len(paths)
      /\ k = 3 => files'[i] = f
      /\ \A j \in DOMAIN files : j # i => files'[j] = files[j]
  BY <1>2 DEF UploadOK, Opened
<1>5. TypeOK'
  <2>1. Nameable' = Nameable /\ Up /\ Up'
    BY <1>1 DEF Nameable, Up, IInv, TypeOK
  <2>2. i \in DOMAIN paths
    BY <1>4 DEF IInv, TypeOK
  <2> QED
    BY <1>1, <1>4, <2>1, <2>2 DEF IInv, TypeOK
<1>6. Kept
  BY <1>1, <1>2, <1>4 DEF IInv, ToldOK, Kept, UploadOK
<1>7. ToldOK' /\ RecordsOK' /\ ColumnsOK'
  BY <1>1, <1>3, <1>5, <1>6, ToldKept, RecordsKept, ColumnsKept DEF IInv
<1>8. DoingOK'
  <2>1. PICK l \in 3 .. 4 : l = k + 1
    OBVIOUS
  <2>2. UploadOK(l, i, f)'
    BY <1>1, <1>2, <1>4, <2>1 DEF UploadOK
  <2>3. doing' = Left(l, i, f)
    BY <1>1, <1>2, <2>1
  <2> QED
    BY <2>2, <2>3 DEF DoingOK, Uploading
<1> QED
  BY <1>5, <1>7, <1>8 DEF IInv

\* A game is told when all is done.
LEMMA ReplyUploadStep ==
    ASSUME IInv, ReplyUpload
    PROVE  IInv'
<1>1. /\ Now(UploadSteps[4]) /\ doing' = Tail(doing) /\ told' = told \union {<<id, file>>}
      /\ UNCHANGED <<boot, columns, typed, paths, records, files, faults, parted>>
  BY UploadNames DEF ReplyUpload, database
<1>2. PICK i \in Nat, f \in File :
        /\ doing = Left(4, i, f) /\ UploadOK(4, i, f)
        /\ id = i /\ file = f /\ Tail(doing) = <<>>
  BY <1>1, NowUploading DEF IInv
<1>3. ~Now("size")
  BY <1>2, UploadNotSize
<1>4. DoingOK' /\ doing' = <<>>
  BY <1>1, <1>2 DEF DoingOK
<1>5. TypeOK'
  <2>1. Nameable \subseteq Nameable'
    BY <1>1 DEF Nameable
  <2> QED
    BY <1>1, <1>4, <2>1 DEF IInv, TypeOK
<1>6. Kept
  BY <1>1 DEF IInv, ToldOK, Kept
<1>7. RecordsOK' /\ ColumnsOK'
  BY <1>1, <1>3, <1>5, <1>6, RecordsKept, ColumnsKept DEF IInv
<1>8. ToldOK'
  <2>1. ASSUME NEW pair \in told
        PROVE  /\ pair = <<pair[1], pair[2]>> /\ pair[1] \in 1 .. Len(paths)
               /\ paths[pair[1]] /\ pair[1] \in DOMAIN files /\ files[pair[1]] = pair[2]
    BY DEF IInv, ToldOK
  <2>2. i \in 1 .. Len(paths) /\ paths[i] /\ i \in DOMAIN files /\ files[i] = f
    BY <1>2 DEF UploadOK
  <2>3. told' = told \union {<<i, f>>}
    BY <1>1, <1>2
  <2> QED
    BY <1>1, <2>1, <2>2, <2>3 DEF ToldOK
<1> QED
  BY <1>4, <1>5, <1>7, <1>8 DEF IInv

\* The steps for records leave the files.
LEMMA FilesStay ==
    ASSUME IInv, UNCHANGED <<boot, columns, typed, paths, files, told>>,
           \A col : <<"column", col>> \in parted => <<"column", col>> \in parted'
    PROVE  /\ Kept /\ ToldOK' /\ ColumnsOK'
           /\ Nameable' = Nameable /\ Up' = Up
<1>1. Kept
  BY DEF IInv, ToldOK, Kept
<1>2. ToldOK' /\ ColumnsOK'
  BY <1>1, ToldKept, ColumnsKept DEF IInv
<1> QED
  BY <1>1, <1>2 DEF Nameable, Up

\* A new record, or one that names another file, waits for its size.
LEMMA CreateRecordStep ==
    ASSUME IInv, NEW t \in Ticket, NEW f \in Nameable, CreateRecord(t, f)
    PROVE  IInv'
<1>0. PICK r \in Nat : r = Len(records) + 1
  BY DEF IInv, RecordsOK
<1>1. /\ Up /\ doing = <<>> /\ ~Now("size") /\ doing' = SizeStep(r, f)
      /\ records' = Append(records, [owner |-> Owner(t), file |-> f, size |-> 0])
      /\ UNCHANGED <<boot, columns, typed, paths, files, faults, told, parted>>
  BY <1>0 DEF Accepts, CreateRecord, Free, Now, history
<1>2. /\ records' \in Seq(Range(records')) /\ Len(records') = r
      /\ records'[r] = [owner |-> Owner(t), file |-> f, size |-> 0]
      /\ \A j \in 1 .. Len(records) : records'[j] = records[j]
      /\ Len(records) \in Nat /\ DOMAIN records = 1 .. Len(records) /\ DOMAIN records' = 1 .. r
  <2>1. /\ records' \in Seq(Range(records')) /\ Len(records') = r
        /\ records'[r] = [owner |-> Owner(t), file |-> f, size |-> 0]
        /\ \A j \in 1 .. Len(records) : records'[j] = records[j]
    BY <1>0, <1>1, AppendOfRange DEF IInv, RecordsOK
  <2> QED
    BY <2>1 DEF IInv, RecordsOK
<1>3. Kept /\ ToldOK' /\ ColumnsOK' /\ Nameable' = Nameable /\ Up' = Up
  BY <1>1, FilesStay
<1>4. TypeOK'
  BY <1>0, <1>1, <1>2, <1>3 DEF IInv, TypeOK
<1>5. DoingOK'
  <2>1. SizeOK(r, f)' /\ f \in Nat
    BY <1>0, <1>2, <1>3, NameableIsTold DEF SizeOK, IInv
  <2> QED
    BY <1>1, <2>1 DEF DoingOK, Sizing
<1>6. ASSUME NEW j \in 1 .. r
      PROVE  RecordOK(j)'
  <2>1. CASE j = r
    <3>1. Now("size")' /\ id' = r
      BY <1>1, SizeShape DEF Now, id
    <3> QED
      BY <1>2, <2>1, <3>1 DEF RecordOK
  <2>2. CASE j # r
    <3>1. j \in DOMAIN records /\ records'[j] = records[j] /\ RecordOK(j)
      BY <1>0, <1>2, <2>2 DEF IInv, RecordsOK
    <3>2. Sized(j) => Sized(j)'
      BY <1>3, <1>4, <3>1, SizedKept DEF IInv
    <3> QED
      BY <1>1, <3>1, <3>2 DEF RecordOK
  <2> QED
    BY <2>1, <2>2
<1>7. RecordsOK'
  BY <1>2, <1>6 DEF RecordsOK
<1> QED
  BY <1>3, <1>4, <1>5, <1>7 DEF IInv

LEMMA UpdateRecordStep ==
    ASSUME IInv, NEW t \in Ticket, NEW f \in Nameable, NEW r \in DOMAIN records,
           UpdateRecord(t, r, f)
    PROVE  IInv'
<1>1. /\ Up /\ doing = <<>> /\ ~Now("size") /\ doing' = SizeStep(r, f)
      /\ \/ records' = [records EXCEPT ![r].file = f] /\ UNCHANGED parted
         \/ parted' = parted \union {<<"record", r>>} /\ UNCHANGED records
      /\ UNCHANGED <<boot, columns, typed, paths, files, faults, told>>
  BY DEF Accepts, UpdateRecord, Free, Now
<1>2. Len(records) \in Nat /\ DOMAIN records = 1 .. Len(records) /\ RecordOK(r)
  BY DEF IInv, RecordsOK
<1>3. /\ records' \in Seq(Range(records')) /\ Len(records') = Len(records)
      /\ \A j \in 1 .. Len(records) : j # r => records'[j] = records[j]
      /\ records'[r] = [owner |-> records'[r].owner, file |-> records'[r].file,
                        size |-> records'[r].size]
      /\ records'[r].file = f \/ (<<"record", r>> \in parted' /\ records'[r] = records[r])
  <2>1. CASE records' = [records EXCEPT ![r].file = f]
    <3>1. PICK e : e = [records[r] EXCEPT !.file = f]
      OBVIOUS
    <3>2. e = [owner |-> records[r].owner, file |-> f, size |-> records[r].size]
      BY <1>2, <3>1 DEF RecordOK
    <3>3. records' = [records EXCEPT ![r] = e]
      BY <2>1, <3>1
    <3>4. records' \in Seq(Range(records')) /\ Len(records') = Len(records)
      BY <1>2, <3>3, ExceptOfRange DEF IInv, RecordsOK
    <3> QED
      BY <1>2, <3>2, <3>3, <3>4
  <2>2. CASE parted' = parted \union {<<"record", r>>} /\ UNCHANGED records
    BY <1>2, <2>2 DEF IInv, RecordsOK, RecordOK
  <2> QED
    BY <1>1, <2>1, <2>2
<1>4. parted \subseteq parted' /\ \A col : <<"column", col>> \in parted => <<"column", col>> \in parted'
  BY <1>1
<1>5. Kept /\ ToldOK' /\ ColumnsOK' /\ Nameable' = Nameable /\ Up' = Up
  BY <1>1, <1>4, FilesStay
<1>6. TypeOK'
  <2>1. DOMAIN records' = DOMAIN records
    BY <1>2, <1>3
  <2>2. \A j \in DOMAIN records : records'[j].file \in Nameable
    BY <1>2, <1>3 DEF IInv, TypeOK
  <2> QED
    BY <1>1, <1>5, <2>1, <2>2 DEF IInv, TypeOK
<1>7. DoingOK'
  <2>1. SizeOK(r, f)' /\ f \in Nat /\ r \in Nat
    BY <1>2, <1>3, <1>5, NameableIsTold DEF SizeOK, IInv
  <2> QED
    BY <1>1, <2>1 DEF DoingOK, Sizing
<1>8. ASSUME NEW j \in 1 .. Len(records)
      PROVE  RecordOK(j)'
  <2>1. CASE j = r
    <3>1. Now("size")' /\ id' = r
      BY <1>1, SizeShape DEF Now, id
    <3> QED
      BY <1>3, <2>1, <3>1 DEF RecordOK
  <2>2. CASE j # r
    <3>1. j \in DOMAIN records /\ records'[j] = records[j] /\ RecordOK(j)
      BY <1>2, <1>3, <2>2 DEF IInv, RecordsOK
    <3>2. Sized(j) => Sized(j)'
      BY <1>5, <1>6, <3>1, SizedKept DEF IInv
    <3> QED
      BY <1>1, <1>4, <3>1, <3>2 DEF RecordOK
  <2> QED
    BY <2>1, <2>2
<1>9. RecordsOK'
  BY <1>3, <1>8 DEF RecordsOK
<1> QED
  BY <1>5, <1>6, <1>7, <1>9 DEF IInv

\* The size is written for the file that the record names, or for one that it
\* does not: then it is another owner's, and stays parted.
LEMMA UpdateSizeStep ==
    ASSUME IInv, UpdateSize
    PROVE  IInv'
<1>1. PICK r \in Nat, f \in Nat : r = id /\ f = file /\ SizeOK(r, f)
  BY NowSizing DEF IInv, UpdateSize
<1>2. /\ Now("size") /\ doing' = <<>> /\ doing # <<>>
      /\ records' = [records EXCEPT ![r].size = FileSize(r, f)]
      /\ parted' = IF records[r].file = f THEN parted \ {<<"record", r>>} ELSE parted
      /\ UNCHANGED <<boot, columns, typed, paths, files, faults, told>>
  BY <1>1, NowSizing DEF IInv, UpdateSize, Now
<1>3. Len(records) \in Nat /\ DOMAIN records = 1 .. Len(records) /\ r \in DOMAIN records /\ RecordOK(r)
  BY <1>1 DEF IInv, RecordsOK, SizeOK
<1>4. PICK e : e = [owner |-> records[r].owner, file |-> records[r].file, size |-> FileSize(r, f)]
  OBVIOUS
<1>5. /\ records' = [records EXCEPT ![r] = e] /\ records' \in Seq(Range(records'))
      /\ Len(records') = Len(records) /\ DOMAIN records' = DOMAIN records /\ records'[r] = e
      /\ \A j \in 1 .. Len(records) : j # r => records'[j] = records[j]
  <2>1. e = [records[r] EXCEPT !.size = FileSize(r, f)]
    BY <1>3, <1>4 DEF RecordOK
  <2>2. records' = [records EXCEPT ![r] = e]
    BY <1>2, <2>1
  <2>3. records' \in Seq(Range(records')) /\ Len(records') = Len(records)
    BY <1>3, <2>2, ExceptOfRange DEF IInv, RecordsOK
  <2> QED
    BY <1>3, <2>2, <2>3
<1>6. \A col : <<"column", col>> \in parted => <<"column", col>> \in parted'
  BY <1>2
<1>7. Kept /\ ToldOK' /\ ColumnsOK' /\ Nameable' = Nameable /\ Up' = Up
  BY <1>2, <1>6, FilesStay
<1>8. TypeOK'
  <2>1. \A j \in DOMAIN records : records'[j].file = records[j].file
    BY <1>3, <1>4, <1>5
  <2> QED
    BY <1>2, <1>5, <1>7, <2>1 DEF IInv, TypeOK
<1>9. DoingOK'
  BY <1>2 DEF DoingOK
<1>10. ASSUME NEW j \in 1 .. Len(records)
       PROVE  RecordOK(j)'
  <2>1. CASE j = r /\ records[r].file = f
    <3>1. Download(f)' = Download(f) \/ f = 0
      BY <1>1, <1>7, <1>8, DownloadKept DEF IInv, SizeOK
    <3>2. records'[r].file = f /\ records'[r].size = IF f = 0 THEN 0 ELSE SizeOf[Download(f)]
      BY <1>4, <1>5, <2>1 DEF FileSize
    <3>3. Sized(r)'
      BY <3>1, <3>2 DEF Sized
    <3> QED
      BY <1>4, <1>5, <2>1, <3>3 DEF RecordOK
  <2>2. CASE j = r /\ records[r].file # f
    BY <1>1, <1>2, <1>4, <1>5, <2>2 DEF RecordOK, SizeOK
  <2>3. CASE j # r
    <3>1. j \in DOMAIN records /\ records'[j] = records[j] /\ RecordOK(j)
      BY <1>3, <1>5, <2>3 DEF IInv, RecordsOK
    <3>2. Sized(j) => Sized(j)'
      BY <1>7, <1>8, <3>1, SizedKept DEF IInv
    <3>3. <<"record", j>> \in parted => <<"record", j>> \in parted'
      BY <1>2, <2>3
    <3> QED
      BY <1>1, <2>3, <3>1, <3>2, <3>3 DEF RecordOK
  <2> QED
    BY <2>1, <2>2, <2>3
<1>11. RecordsOK'
  BY <1>5, <1>10 DEF RecordsOK
<1> QED
  BY <1>7, <1>8, <1>9, <1>11 DEF IInv

\* The records after a fault: what the next statement belonged to is parted.
LEMMA FaultRecords ==
    ASSUME TypeOK, TypeOK', ToldOK, RecordsOK, Kept, UNCHANGED records,
           parted' = parted \union Parts
    PROVE  RecordsOK'
<1>1. ASSUME NEW r \in 1 .. Len(records)
      PROVE  RecordOK(r)'
  <2>1. RecordOK(r) /\ r \in DOMAIN records
    BY DEF RecordsOK
  <2>2. Sized(r) => Sized(r)'
    BY <2>1, SizedKept
  <2>3. Now("size") /\ id = r => <<"record", r>> \in parted'
    BY DEF Parts
  <2> QED
    BY <2>1, <2>2, <2>3 DEF RecordOK
<1> QED
  BY <1>1 DEF RecordsOK

\* A fault ends the request, or the server, and parts what was half written.
LEMMA FaultStep ==
    ASSUME IInv, Abort \/ Crash
    PROVE  IInv'
<1> USE ColumnAssumption, FaultAssumption
<1>1. /\ doing' = <<>> /\ faults < MaxFaults /\ faults' = faults + 1
      /\ parted' = parted \union Parts
      /\ UNCHANGED <<columns, typed, paths, files, records, told>>
  BY DEF Abort, Crash, database
<1>2. CASE UNCHANGED boot
  <2>1. Kept /\ ToldOK' /\ ColumnsOK' /\ Nameable' = Nameable /\ Up' = Up
    BY <1>1, <1>2, FilesStay
  <2> QED
    BY <1>1, <1>2, <2>1, FaultRecords DEF IInv, TypeOK, DoingOK
<1>3. CASE boot' = [at |-> 1, added |-> FALSE]
  <2>1. Kept /\ ToldOK'
    BY <1>1, ToldKept DEF IInv, ToldOK, Kept
  <2>2. TypeOK' /\ DoingOK'
    <3>1. Nameable' = Nameable
      BY <1>1 DEF Nameable
    <3>2. boot'.at \in 1 .. Len(Column) + 1 /\ boot'.added \in BOOLEAN
      BY <1>3
    <3> QED
      BY <1>1, <3>1, <3>2 DEF IInv, TypeOK, DoingOK
  <2>3. ColumnsOK'
    BY <1>1, <1>3 DEF IInv, ColumnsOK, Parts
  <2> QED
    BY <1>1, <2>1, <2>2, <2>3, FaultRecords DEF IInv
<1> QED
  BY <1>2, <1>3 DEF Abort, Crash

(***************************************************************************)
(* Every reachable state satisfies the inductive invariant.                *)
(***************************************************************************)
THEOREM Invariance == Spec => []IInv
<1>1. Init => IInv
  <2> SUFFICES ASSUME Init PROVE IInv
    OBVIOUS
  <2>1. TypeOK /\ DoingOK /\ ToldOK
    BY ColumnAssumption, FaultAssumption DEF Init, TypeOK, DoingOK, ToldOK
  <2>2. RecordsOK
    BY DEF Init, RecordsOK
  <2>3. ColumnsOK
    BY DEF Init, ColumnsOK
  <2> QED
    BY <2>1, <2>2, <2>3 DEF IInv
<1>2. IInv /\ [Next]_vars => IInv'
  <2> SUFFICES ASSUME IInv, [Next]_vars
               PROVE  IInv'
    OBVIOUS
  <2>1. CASE AddColumn \/ AddType
    BY <2>1, StartStep
  <2>2. ASSUME NEW f \in File, Upload(f)
        PROVE  IInv'
    BY <2>2, UploadStep
  <2>3. CASE UpdatePath
    BY <2>3, UpdatePathStep
  <2>4. CASE WriteFile
    BY <2>4, WriteFileStep
  <2>5. CASE ReplyUpload
    BY <2>5, ReplyUploadStep
  <2>6. ASSUME NEW t \in Ticket, NEW f \in Nameable, CreateRecord(t, f)
        PROVE  IInv'
    BY <2>6, CreateRecordStep
  <2>7. ASSUME NEW t \in Ticket, NEW f \in Nameable, NEW r \in DOMAIN records,
               UpdateRecord(t, r, f)
        PROVE  IInv'
    BY <2>7, UpdateRecordStep
  <2>8. CASE UpdateSize
    BY <2>8, UpdateSizeStep
  <2>9. CASE Abort \/ Crash
    BY <2>9, FaultStep
  <2>10. CASE UNCHANGED vars
    <3>1. UNCHANGED <<boot, columns, typed, paths, files, records, doing, faults, told, parted>>
      BY <2>10 DEF vars, database, history
    <3>2. Kept /\ ToldOK' /\ ColumnsOK' /\ Nameable' = Nameable /\ Up' = Up
      BY <3>1, FilesStay
    <3>3. TypeOK'
      BY <3>1, <3>2 DEF IInv, TypeOK
    <3>4. DoingOK'
      BY <3>1, <3>2 DEF IInv, DoingOK, Uploading, UploadOK, Sizing, SizeOK
    <3>5. RecordsOK'
      BY <3>1 DEF IInv, RecordsOK, RecordOK, Sized, Now, id, Download
    <3> QED
      BY <3>2, <3>3, <3>4, <3>5 DEF IInv
  <2> QED
    BY <2>1, <2>2, <2>3, <2>4, <2>5, <2>6, <2>7, <2>8, <2>9, <2>10 DEF Next
<1> QED
  BY <1>1, <1>2, PTL DEF Spec

(***************************************************************************)
(* Whatever fails, and wherever the server ends and starts again, a game   *)
(* that was told an id for its file can download that file under it.       *)
(***************************************************************************)
THEOREM FilesAreKept == Spec => []UploadsAreKept
<1>1. IInv => UploadsAreKept
  <2> SUFFICES ASSUME IInv, NEW pair \in told
               PROVE  Download(pair[1]) = pair[2]
    BY DEF IInv, UploadsAreKept
  <2>1. /\ pair[1] \in DOMAIN paths /\ paths[pair[1]]
        /\ pair[1] \in DOMAIN files /\ files[pair[1]] = pair[2]
    BY DEF IInv, ToldOK, TypeOK
  <2> QED
    BY <2>1 DEF Download
<1> QED
  BY <1>1, Invariance, PTL

(***************************************************************************)
(* What is written in two statements, a record and the size of its file or *)
(* a column and its type, is parted only by a fault between the two, or by *)
(* a game that updates the record of another owner.                        *)
(***************************************************************************)
THEOREM FaultsAlonePart == Spec => []OnlyFaultsPart
<1>1. IInv => OnlyFaultsPart
  <2> SUFFICES ASSUME IInv
               PROVE  OnlyFaultsPart
    OBVIOUS
  <2>1. ASSUME Free, NEW r \in DOMAIN records, <<"record", r>> \notin parted
        PROVE  Sized(r)
    <3>1. RecordOK(r) /\ ~Now("size")
      BY <2>1 DEF IInv, RecordsOK, Free, Now
    <3> QED
      BY <2>1, <3>1 DEF RecordOK
  <2>2. ASSUME Up, NEW col \in ToSet(Column)
        PROVE  <<"column", col>> \in parted \/ col \in columns \intersect typed
    <3>1. PICK i \in 1 .. Len(Column) : col = Column[i]
      BY ColumnAssumption DEF ToSet
    <3>2. col \in columns
      BY <2>2, <3>1, ColumnAssumption DEF IInv, ColumnsOK, Up
    <3> QED
      BY <2>2, <3>2 DEF IInv, ColumnsOK
  <2> QED
    BY <2>1, <2>2 DEF OnlyFaultsPart, Sized
<1> QED
  BY <1>1, Invariance, PTL

----------------------------------------------------------------------------
(***************************************************************************)
(* The game statistics server.  In order are the units of whole messages,  *)
(* the first of which follows the message with number first.               *)
(***************************************************************************)
InOrder(s, first) ==
    \A i \in 1 .. Len(s) : s[i][2] = ((i - 1) % 3) + 1 /\ s[i][3] = first + ((i - 1) \div 3) + 1

\* The units of the message with number k.
MessageUnits(u, k) == Len(u) = 3 /\ \A i \in 1 .. 3 : u[i][2] = i /\ u[i][3] = k

LEMMA MessageInOrder ==
    ASSUME NEW S, NEW s \in Seq(S), NEW k \in Nat, Len(s) = 3 * k, NEW first \in Nat, InOrder(s, first),
           NEW u \in Seq(S), MessageUnits(u, first + k + 1)
    PROVE  s \o u \in Seq(S) /\ Len(s \o u) = 3 * (k + 1) /\ InOrder(s \o u, first)
<1> DEFINE t == s \o u
<1>0. Len(u) = 3 /\ \A i \in 1 .. 3 : u[i][2] = i /\ u[i][3] = first + k + 1
  BY DEF MessageUnits
<1>1. /\ t \in Seq(S) /\ Len(t) = 3 * k + 3
      /\ \A i \in 1 .. Len(t) : t[i] = IF i <= 3 * k THEN s[i] ELSE u[i - 3 * k]
  <2>1. /\ t \in Seq(S) /\ Len(t) = Len(s) + Len(u)
        /\ \A i \in 1 .. Len(s) + Len(u) : t[i] = IF i <= Len(s) THEN s[i] ELSE u[i - Len(s)]
    BY ConcatProperties
  <2> HIDE DEF t
  <2> QED  BY <1>0, <2>1
<1> HIDE DEF t
<1>2. ASSUME NEW i \in 1 .. Len(t)
      PROVE  t[i][2] = ((i - 1) % 3) + 1 /\ t[i][3] = first + ((i - 1) \div 3) + 1
  <2>1. CASE i <= 3 * k
    BY <1>1, <2>1 DEF InOrder
  <2>2. CASE i > 3 * k
    <3> DEFINE j == i - 3 * k
    <3>1. j \in 1 .. 3 /\ i = 3 * k + j
      <4>1. i \in Nat /\ i <= 3 * k + 3 /\ 3 * k \in Nat
        BY <1>1
      <4> QED  BY <2>2, <4>1
    <3>2. ((i - 1) % 3) + 1 = j /\ (i - 1) \div 3 = k
      <4>1. j = 1 \/ j = 2 \/ j = 3
        BY <3>1
      <4>2. i \in Int
        BY <3>1
      <4> HIDE DEF j
      <4>3. CASE j = 1
        BY <3>1, <4>2, <4>3
      <4>4. CASE j = 2
        BY <3>1, <4>2, <4>4
      <4>5. CASE j = 3
        BY <3>1, <4>2, <4>5
      <4> QED  BY <4>1, <4>3, <4>4, <4>5
    <3>3. t[i] = u[j]
      BY <1>1, <2>2
    <3> HIDE DEF j
    <3> QED  BY <1>0, <3>1, <3>2, <3>3
  <2> QED  BY <1>1, <2>1, <2>2
<1>3. InOrder(t, first)
  BY <1>2 DEF InOrder
<1> QED  BY <1>1, <1>3 DEF t

LEMMA RestInOrder ==
    ASSUME NEW S, NEW s \in Seq(S), NEW first \in Nat, InOrder(s, first), Len(s) >= 3
    PROVE  /\ SubSeq(s, 4, Len(s)) \in Seq(S)
           /\ Len(SubSeq(s, 4, Len(s))) = Len(s) - 3
           /\ InOrder(SubSeq(s, 4, Len(s)), first + 1)
<1> DEFINE n == Len(s)
           t == SubSeq(s, 4, n)
<1>1. n \in Nat /\ n >= 3 /\ \A i \in 1 .. n : s[i] \in S
  BY LenProperties, ElementOfSeq
<1>2. t \in Seq(S) /\ Len(t) = n - 3 /\ \A i \in 1 .. n - 3 : t[i] = s[i + 3]
  <2> HIDE DEF n
  <2>1. \A i \in 4 .. n : s[i] \in S
    BY <1>1
  <2>2. /\ t \in Seq(S) /\ Len(t) = IF 4 <= n THEN n - 4 + 1 ELSE 0
        /\ \A i \in 1 .. n - 4 + 1 : t[i] = s[4 + i - 1]
    BY <1>1, <2>1, SubSeqProperties
  <2> HIDE DEF t
  <2>3. n - 4 + 1 = n - 3 /\ \A i \in 1 .. n - 3 : 4 + i - 1 = i + 3
    BY <1>1
  <2> QED  BY <1>1, <2>2, <2>3
<1> HIDE DEF t
<1>3. ASSUME NEW i \in 1 .. Len(t)
      PROVE  t[i][2] = ((i - 1) % 3) + 1 /\ t[i][3] = first + 1 + ((i - 1) \div 3) + 1
  <2>1. i + 3 \in 1 .. n /\ i \in 1 .. n - 3
    BY <1>1, <1>2
  <2>2. s[i + 3][2] = ((i + 3 - 1) % 3) + 1 /\ s[i + 3][3] = first + ((i + 3 - 1) \div 3) + 1
    BY <2>1 DEF InOrder, n
  <2>3. (i + 3 - 1) % 3 = (i - 1) % 3 /\ (i + 3 - 1) \div 3 = (i - 1) \div 3 + 1
    BY <2>1
  <2>4. (i - 1) \div 3 \in Int
    BY <2>1
  <2> QED  BY <1>2, <2>1, <2>2, <2>3, <2>4
<1>4. InOrder(t, first + 1)
  BY <1>3 DEF InOrder
<1> QED  BY <1>2, <1>4 DEF t

(***************************************************************************)
(* A chunk: what has come, r, what comes, a, and the rest, b.              *)
(***************************************************************************)
ChunkOf(S, r, w, n) ==
    LET a == SubSeq(w, 1, n)
        b == SubSeq(w, n + 1, Len(w))
    IN  /\ a \in Seq(S) /\ b \in Seq(S) /\ Len(a) = n /\ Len(b) = Len(w) - n
        /\ (r \o a) \o b = r \o w
        /\ Len(r \o a) >= 3 =>
              /\ SubSeq(r \o a, 4, Len(r \o a)) \in Seq(S)
              /\ SubSeq(r \o a, 4, Len(r \o a)) \o b = SubSeq(r \o w, 4, Len(r \o w))

LEMMA ChunkParts ==
    ASSUME NEW S, NEW r \in Seq(S), NEW w \in Seq(S), NEW n \in 1 .. Len(w)
    PROVE  ChunkOf(S, r, w, n)
<1> DEFINE L == Len(r)
           N == Len(w)
           a == SubSeq(w, 1, n)
           b == SubSeq(w, n + 1, N)
           all == r \o a
           s == r \o w
<1>1. L \in Nat /\ N \in Nat /\ n \in 1 .. N /\ \A i \in 1 .. N : w[i] \in S
  BY LenProperties, ElementOfSeq
<1> HIDE DEF N
<1>2. a \in Seq(S) /\ Len(a) = n /\ \A i \in 1 .. n : a[i] = w[i]
  <2>1. \A i \in 1 .. n : w[i] \in S
    BY <1>1
  <2>2. /\ a \in Seq(S) /\ Len(a) = IF 1 <= n THEN n - 1 + 1 ELSE 0
        /\ \A i \in 1 .. n - 1 + 1 : a[i] = w[1 + i - 1]
    BY <1>1, <2>1, SubSeqProperties
  <2> HIDE DEF a
  <2>3. n - 1 + 1 = n /\ \A i \in 1 .. n : 1 + i - 1 = i
    BY <1>1
  <2> QED  BY <1>1, <2>2, <2>3
<1>3. b \in Seq(S) /\ Len(b) = N - n /\ \A i \in 1 .. N - n : b[i] = w[n + i]
  <2>1. \A i \in n + 1 .. N : w[i] \in S
    BY <1>1
  <2>2. /\ b \in Seq(S) /\ Len(b) = IF n + 1 <= N THEN N - (n + 1) + 1 ELSE 0
        /\ \A i \in 1 .. N - (n + 1) + 1 : b[i] = w[n + 1 + i - 1]
    BY <1>1, <2>1, SubSeqProperties
  <2> HIDE DEF b
  <2>3. N - (n + 1) + 1 = N - n /\ \A i \in 1 .. N - n : n + 1 + i - 1 = n + i
    BY <1>1
  <2> QED  BY <1>1, <2>2, <2>3
<1> HIDE DEF a, b
<1>4. /\ all \in Seq(S) /\ Len(all) = L + n
      /\ \A i \in 1 .. L + n : all[i] = IF i <= L THEN r[i] ELSE a[i - L]
  BY <1>2, ConcatProperties
<1>5. /\ s \in Seq(S) /\ Len(s) = L + N
      /\ \A i \in 1 .. L + N : s[i] = IF i <= L THEN r[i] ELSE w[i - L]
  BY ConcatProperties DEF N
<1> HIDE DEF all, s, L
<1>6. ASSUME NEW m \in {1, 4}, m <= L + n + 1
      PROVE  LET x == SubSeq(all, m, L + n)
             IN  x \in Seq(S) /\ x \o b = SubSeq(s, m, L + N)
  <2> DEFINE x == SubSeq(all, m, L + n)
             y == SubSeq(s, m, L + N)
             z == x \o b
             k == m - 1
  <2>0. k \in {0, 3} /\ k <= L + n /\ m = k + 1
    BY <1>1, <1>6
  <2>1. x \in Seq(S) /\ Len(x) = L + n - k /\ \A i \in 1 .. L + n - k : x[i] = all[k + i]
    <3>1. \A i \in m .. L + n : all[i] \in S
      BY <1>1, <1>4, <1>6, ElementOfSeq
    <3>2. /\ x \in Seq(S) /\ Len(x) = IF m <= L + n THEN L + n - m + 1 ELSE 0
          /\ \A i \in 1 .. L + n - m + 1 : x[i] = all[m + i - 1]
      BY <1>1, <3>1, SubSeqProperties
    <3> HIDE DEF x, k
    <3>3. L + n - m + 1 = L + n - k /\ \A i \in 1 .. L + n - k : m + i - 1 = k + i
      BY <1>1, <2>0
    <3> QED  BY <1>1, <2>0, <3>2, <3>3
  <2>2. y \in Seq(S) /\ Len(y) = L + N - k /\ \A i \in 1 .. L + N - k : y[i] = s[k + i]
    <3>1. \A i \in m .. L + N : s[i] \in S
      BY <1>1, <1>5, <1>6, ElementOfSeq
    <3>2. /\ y \in Seq(S) /\ Len(y) = IF m <= L + N THEN L + N - m + 1 ELSE 0
          /\ \A i \in 1 .. L + N - m + 1 : y[i] = s[m + i - 1]
      BY <1>1, <3>1, SubSeqProperties
    <3> HIDE DEF y, k
    <3>3. L + N - m + 1 = L + N - k /\ \A i \in 1 .. L + N - k : m + i - 1 = k + i
      BY <1>1, <2>0
    <3> QED  BY <1>1, <2>0, <3>2, <3>3
  <2> HIDE DEF x, y, k
  <2>3. /\ z \in Seq(S) /\ Len(z) = L + N - k
        /\ \A i \in 1 .. L + N - k : z[i] = IF i <= L + n - k THEN x[i] ELSE b[i - (L + n - k)]
    <3>1. /\ z \in Seq(S) /\ Len(z) = Len(x) + Len(b)
          /\ \A i \in 1 .. Len(x) + Len(b) : z[i] = IF i <= Len(x) THEN x[i] ELSE b[i - Len(x)]
      BY <1>3, <2>1, ConcatProperties
    <3>2. Len(x) + Len(b) = L + N - k
      BY <1>1, <1>3, <2>0, <2>1
    <3> HIDE DEF z
    <3> QED  BY <2>1, <3>1, <3>2
  <2> HIDE DEF z
  <2>4. ASSUME NEW i \in 1 .. L + N - k
        PROVE  z[i] = y[i]
    <3>1. CASE i <= L + n - k
      <4>1. z[i] = all[k + i] /\ k + i \in 1 .. L + n /\ k + i \in 1 .. L + N
        BY <1>1, <2>0, <2>1, <2>3, <3>1
      <4>2. all[k + i] = s[k + i]
        <5>1. CASE k + i <= L
          BY <1>4, <1>5, <4>1, <5>1
        <5>2. CASE k + i > L
          <6>1. all[k + i] = a[k + i - L] /\ s[k + i] = w[k + i - L] /\ k + i - L \in 1 .. n
            BY <1>1, <1>4, <1>5, <2>0, <4>1, <5>2
          <6> QED  BY <1>2, <6>1
        <5> QED  BY <1>1, <2>0, <4>1, <5>1, <5>2
      <4> QED  BY <2>2, <4>1, <4>2
    <3>2. CASE i > L + n - k
      <4> DEFINE j == i - (L + n - k)
      <4>1. z[i] = b[j] /\ j \in 1 .. N - n
        BY <1>1, <2>0, <2>3, <3>2
      <4>2. b[j] = w[n + j] /\ k + i = L + n + j
        BY <1>1, <1>3, <2>0, <4>1
      <4>3. y[i] = s[k + i] /\ k + i \in 1 .. L + N /\ ~(k + i <= L) /\ k + i - L = n + j
        BY <1>1, <2>0, <2>2, <4>1, <4>2
      <4> HIDE DEF j
      <4>5. s[k + i] = w[k + i - L]
        <5> DEFINE q == k + i
        <5>1. q \in 1 .. L + N /\ ~(q <= L)
          BY <4>3
        <5> HIDE DEF q
        <5>2. s[q] = w[q - L]
          BY <1>5, <5>1
        <5>3. q - L = k + i - L
          BY <1>1, <2>0 DEF q
        <5> QED  BY <5>2, <5>3 DEF q
      <4>4. s[k + i] = w[n + j]
        BY <4>3, <4>5
      <4> QED  BY <4>1, <4>2, <4>3, <4>4
    <3>3. i <= L + n - k \/ i > L + n - k
      BY <1>1, <2>0
    <3> QED  BY <3>1, <3>2, <3>3
  <2>5. z = y
    BY <2>2, <2>3, <2>4, SeqEqual
  <2> QED  BY <2>1, <2>5 DEF x, y, z
<1>7. SubSeq(all, 1, L + n) = all /\ SubSeq(s, 1, L + N) = s
  BY <1>4, <1>5, SubSeqFull
<1>8. all \o b = s
  <2>1. 1 \in {1, 4} /\ 1 <= L + n + 1
    BY <1>1
  <2> QED  BY <1>6, <1>7, <2>1
<1>9. L + n >= 3 => /\ SubSeq(all, 4, L + n) \in Seq(S)
                    /\ SubSeq(all, 4, L + n) \o b = SubSeq(s, 4, L + N)
  <2>1. L + n >= 3 => 4 \in {1, 4} /\ 4 <= L + n + 1
    BY <1>1
  <2> QED  BY <1>6, <2>1
<1> QED  BY <1>2, <1>3, <1>4, <1>5, <1>8, <1>9 DEF ChunkOf, a, b, all, s, N

\* Of the units that have come after a chunk: they are the first that were to come.
LEMMA ChunkUnits ==
    ASSUME NEW S, NEW r \in Seq(S), NEW w \in Seq(S), NEW n \in 1 .. Len(w), NEW first \in Nat,
           InOrder(r \o w, first)
    PROVE  LET a == SubSeq(w, 1, n)
               all == r \o a
           IN  /\ a \in Seq(S) /\ Len(a) = n /\ all \in Seq(S) /\ Len(all) = Len(r) + n
               /\ InOrder(all, first)
               /\ \A i \in 1 .. Len(r) : r[i] = all[i]
               /\ \A j \in 1 .. n : a[j] = all[Len(r) + j]
<1> DEFINE L == Len(r)
           a == SubSeq(w, 1, n)
           b == SubSeq(w, n + 1, Len(w))
           all == r \o a
           s == r \o w
<1>1. L \in Nat /\ n \in Nat /\ n >= 1
  BY LenProperties
<1>2. a \in Seq(S) /\ b \in Seq(S) /\ Len(a) = n /\ all \o b = s
  <2>1. /\ SubSeq(w, 1, n) \in Seq(S) /\ SubSeq(w, n + 1, Len(w)) \in Seq(S)
        /\ Len(SubSeq(w, 1, n)) = n
        /\ (r \o SubSeq(w, 1, n)) \o SubSeq(w, n + 1, Len(w)) = r \o w
    <3>1. ChunkOf(S, r, w, n)
      BY ChunkParts
    <3> QED  BY <3>1 DEF ChunkOf
  <2> QED  BY <2>1
<1> HIDE DEF a, b
<1>3. /\ all \in Seq(S) /\ Len(all) = L + n
      /\ \A i \in 1 .. L + n : all[i] = IF i <= L THEN r[i] ELSE a[i - L]
  BY <1>2, ConcatProperties
<1> HIDE DEF all, s
<1>4. /\ Len(s) = L + n + Len(b) /\ Len(b) \in Nat
      /\ \A i \in 1 .. L + n + Len(b) : s[i] = IF i <= L + n THEN all[i] ELSE b[i - (L + n)]
  <2>1. Len(b) \in Nat
    BY <1>2, LenProperties
  <2>2. /\ Len(all \o b) = Len(all) + Len(b)
        /\ \A i \in 1 .. Len(all) + Len(b) :
              (all \o b)[i] = IF i <= Len(all) THEN all[i] ELSE b[i - Len(all)]
    <3>1. all \in Seq(S) /\ b \in Seq(S)
      BY <1>2, <1>3
    <3> QED  BY <3>1, ConcatProperties
  <2> DEFINE M == L + n
  <2>3. Len(all) = M
    BY <1>3
  <2>4. L + n + Len(b) = M + Len(b)
    OBVIOUS
  <2> HIDE DEF M
  <2>5. /\ Len(s) = M + Len(b)
        /\ \A i \in 1 .. M + Len(b) : s[i] = IF i <= M THEN all[i] ELSE b[i - M]
    BY <1>2, <2>2, <2>3
  <2> QED  BY <2>1, <2>4, <2>5 DEF M
<1> HIDE DEF L
<1>5. \A i \in 1 .. L + n : i \in 1 .. Len(s) /\ all[i] = s[i]
  BY <1>1, <1>4
<1>6. InOrder(all, first)
  BY <1>3, <1>5 DEF InOrder, s
<1>7. \A i \in 1 .. L : r[i] = all[i]
  BY <1>1, <1>3
<1>8. ASSUME NEW j \in 1 .. n
      PROVE  a[j] = all[L + j]
  <2> DEFINE q == L + j
  <2>1. q \in 1 .. L + n /\ ~(q <= L) /\ q - L = j
    BY <1>1
  <2> HIDE DEF q
  <2>2. all[q] = a[q - L]
    BY <1>3, <2>1
  <2> QED  BY <2>1, <2>2 DEF q
<1> QED  BY <1>2, <1>3, <1>6, <1>7, <1>8 DEF a, all, L

(***************************************************************************)
(* No end of a message waits for the next chunk, while no chunk cuts a     *)
(* marker or brings two: neither when a chunk is only kept, nor when a     *)
(* message is handled.                                                     *)
(***************************************************************************)
NoEnd(s) == \A i \in 1 .. Len(s) : s[i][2] # 3

LEMMA KeptHasNoEnd ==
    ASSUME NEW S, NEW r \in Seq(S), NEW w \in Seq(S), NEW n \in 1 .. Len(w), NEW first \in Nat,
           InOrder(r \o w, first), NoEnd(r),
           G!Markers(SubSeq(w, 1, n)) = {}, ~G!CutMarker(SubSeq(w, 1, n))
    PROVE  NoEnd(r \o SubSeq(w, 1, n))
<1> DEFINE L == Len(r)
           a == SubSeq(w, 1, n)
           all == r \o a
<1>1. /\ a \in Seq(S) /\ Len(a) = n /\ Len(all) = L + n /\ InOrder(all, first)
      /\ \A i \in 1 .. L : r[i] = all[i]
      /\ \A j \in 1 .. n : a[j] = all[L + j]
  BY ChunkUnits
<1>2. L \in Nat /\ n \in Nat /\ n >= 1
  BY LenProperties
<1>3. /\ \A j \in 1 .. n - 1 : a[j][2] # 2
      /\ a[1][2] # 3
  <2> HIDE DEF a
  <2>1. G!Markers(a) = {} /\ ~G!CutMarker(a)
    BY DEF a
  <2>2. a # <<>>
    BY <1>1, <1>2, EmptySeq
  <2> QED  BY <1>1, <2>1, <2>2, Zenon DEF G!Markers, G!CutMarker
<1> HIDE DEF a, all
<1>4. ASSUME NEW i \in 1 .. L + n, all[i][2] = 3
      PROVE  FALSE
  <2>1. CASE i <= L
    <3>1. i \in 1 .. L
      BY <1>2, <2>1
    <3>2. r[i] = all[i] /\ r[i][2] # 3
      BY <1>1, <3>1 DEF NoEnd, L
    <3> QED  BY <1>4, <3>2
  <2> HIDE DEF L
  <2>2. CASE i = L + 1
    <3>1. 1 \in 1 .. n
      BY <1>2
    <3> QED  BY <1>1, <1>3, <1>4, <2>2, <3>1
  <2>3. CASE i > L + 1
    <3> DEFINE j == i - 1 - L
    <3>1. j \in 1 .. n - 1 /\ j \in 1 .. n /\ L + j = i - 1 /\ i - 1 \in 1 .. L + n
      BY <1>2, <2>3
    <3>2. all[i][2] = ((i - 1) % 3) + 1 /\ all[i - 1][2] = ((i - 1 - 1) % 3) + 1
      BY <1>1, <3>1 DEF InOrder
    <3>3. all[i - 1][2] = 2
      <4>1. (i - 1) % 3 = 2
        <5>1. (i - 1) % 3 \in Int
          BY <1>2, <2>3
        <5>2. ((i - 1) % 3) + 1 = 3
          BY <1>4, <3>2
        <5> HIDE DEF a
        <5> QED  BY <5>1, <5>2
      <4>2. (i - 1 - 1) % 3 = 1
        BY <1>2, <2>3, <4>1
      <4> QED  BY <3>2, <4>2
    <3> HIDE DEF j
    <3> QED  BY <1>1, <1>3, <3>1, <3>3
  <2> QED  BY <1>2, <2>1, <2>2, <2>3
<1> QED  BY <1>1, <1>4 DEF NoEnd, a, all

LEMMA HandledHasNoEnd ==
    ASSUME NEW S, NEW r \in Seq(S), NEW w \in Seq(S), NEW n \in 1 .. Len(w), NEW first \in Nat,
           InOrder(r \o w, first), G!Markers(SubSeq(w, 1, n)) # {}
    PROVE  LET all == r \o SubSeq(w, 1, n)
           IN  /\ Len(all) >= 3
               /\ NoEnd(r) /\ ~(\E i, j \in G!Markers(SubSeq(w, 1, n)) : i # j) /\ ~G!CutMarker(SubSeq(w, 1, n)) =>
                     NoEnd(SubSeq(all, 4, Len(all)))
<1> DEFINE L == Len(r)
           a == SubSeq(w, 1, n)
           all == r \o a
<1>1. /\ a \in Seq(S) /\ Len(a) = n /\ Len(all) = L + n /\ InOrder(all, first) /\ all \in Seq(S)
      /\ \A i \in 1 .. L : r[i] = all[i]
      /\ \A j \in 1 .. n : a[j] = all[L + j]
  BY ChunkUnits
<1>2. L \in Nat /\ n \in Nat /\ n >= 1
  BY LenProperties
<1>3. PICK k \in 1 .. n - 1 : a[k][2] = 2
  <2> HIDE DEF a
  <2>1. G!Markers(a) # {}
    BY DEF a
  <2> QED  BY <1>1, <2>1 DEF G!Markers
<1>4. \A i \in 1 .. L + n : all[i][2] = ((i - 1) % 3) + 1
  BY <1>1 DEF InOrder
<1>5. L + n >= 3
  <2>1. k \in 1 .. n /\ L + k \in 1 .. L + n
    BY <1>2
  <2>2. all[L + k][2] = 2
    BY <1>1, <1>3, <2>1
  <2>3. ((L + k - 1) % 3) + 1 = 2
    BY <1>4, <2>1, <2>2
  <2>4. L + k # 1
    BY <2>3
  <2> HIDE DEF L
  <2> QED  BY <1>2, <2>4
<1>6. ASSUME NoEnd(r), ~(\E i, j \in G!Markers(a) : i # j), ~G!CutMarker(a)
      PROVE  NoEnd(SubSeq(all, 4, Len(all)))
  <2>1. a # <<>> /\ a[1][2] # 3 /\ \A i, j \in 1 .. n - 1 : a[i][2] = 2 /\ a[j][2] = 2 => i = j
    <3> HIDE DEF a
    <3>1. a # <<>>
      BY <1>1, <1>2, EmptySeq
    <3> QED  BY <1>1, <1>6, <3>1, Zenon DEF G!Markers, G!CutMarker
  <2> HIDE DEF a, all
  <2>2. \A i \in 1 .. L : all[i][2] # 3
    BY <1>1, <1>6 DEF NoEnd
  <2> HIDE DEF L
  <2>3. L < 3
    <3>1. ASSUME 3 \in 1 .. L
          PROVE  FALSE
      <4>1. all[3][2] = ((3 - 1) % 3) + 1 /\ ((3 - 1) % 3) + 1 = 3
        BY <1>2, <1>4, <3>1
      <4> QED  BY <2>2, <3>1, <4>1
    <3> QED  BY <1>2, <3>1
  <2>4. L # 2
    <3> SUFFICES ASSUME L = 2 PROVE FALSE
      OBVIOUS
    <3>1. all[3][2] = ((3 - 1) % 3) + 1 /\ ((3 - 1) % 3) + 1 = 3 /\ 1 \in 1 .. n /\ L + 1 = 3
      BY <1>2, <1>4, <1>5
    <3> QED  BY <1>1, <2>1, <3>1
  <2>5. L + n < 6
    <3> SUFFICES ASSUME L + n >= 6 PROVE FALSE
      BY <1>2
    <3> DEFINE x == 2 - L
               y == 5 - L
    <3>1. x \in 1 .. n - 1 /\ y \in 1 .. n - 1 /\ x # y /\ L + x = 2 /\ L + y = 5
          /\ x \in 1 .. n /\ y \in 1 .. n
      BY <1>2, <2>3, <2>4
    <3>2. all[2][2] = ((2 - 1) % 3) + 1 /\ all[5][2] = ((5 - 1) % 3) + 1
      <4>1. 2 \in 1 .. L + n /\ 5 \in 1 .. L + n
        BY <1>2
      <4> QED  BY <1>4, <4>1
    <3>3. ((2 - 1) % 3) + 1 = 2 /\ ((5 - 1) % 3) + 1 = 2
      OBVIOUS
    <3> HIDE DEF x, y
    <3>4. a[x][2] = 2 /\ a[y][2] = 2
      BY <1>1, <3>1, <3>2, <3>3
    <3> QED  BY <2>1, <3>1, <3>4
  <2> DEFINE t == SubSeq(all, 4, Len(all))
  <2>6. InOrder(t, first + 1) /\ Len(t) = L + n - 3
    <3>1. Len(all) = L + n
      BY <1>1
    <3>2. /\ InOrder(SubSeq(all, 4, Len(all)), first + 1)
          /\ Len(SubSeq(all, 4, Len(all))) = Len(all) - 3
      BY <1>1, <1>5, RestInOrder
    <3> HIDE DEF t
    <3>3. InOrder(t, first + 1) /\ Len(t) = Len(all) - 3
      BY <3>2 DEF t
    <3> QED  BY <1>2, <3>1, <3>3
  <2> HIDE DEF t
  <2>7. ASSUME NEW i \in 1 .. Len(t)
        PROVE  t[i][2] # 3
    <3>1. i = 1 \/ i = 2
      BY <1>2, <1>5, <2>5, <2>6
    <3>2. t[i][2] = ((i - 1) % 3) + 1
      BY <2>6 DEF InOrder
    <3>3. ((1 - 1) % 3) + 1 = 1 /\ ((2 - 1) % 3) + 1 = 2
      OBVIOUS
    <3> QED  BY <3>1, <3>2, <3>3
  <2> QED  BY <2>7 DEF NoEnd, t
<1> QED  BY <1>1, <1>5, <1>6

----------------------------------------------------------------------------
(***************************************************************************)
(* A set of naturals that is not empty has a least element.                *)
(***************************************************************************)
LEMMA LeastNat ==
    ASSUME NEW T \in SUBSET Nat, T # {}
    PROVE  \E n \in T : \A m \in T : n <= m
<1> DEFINE R == {ss \in Nat \X Nat : ss[1] < ss[2]}
<1>1. IsWellFoundedOn(R, Nat)
  BY NatLessThanWellFounded DEF OpToRel
<1>2. PICK n \in T : \A m \in T : <<m, n>> \notin R
  <2> HIDE DEF R
  <2> QED  BY <1>1, WFMin
<1>3. \A m \in T : ~(m < n)
  BY <1>2
<1> QED  BY <1>3

(***************************************************************************)
(* Induction from 0 up to n, with a set for what is to be shown.           *)
(***************************************************************************)
LEMMA Upwards ==
    ASSUME NEW n \in Nat, NEW T,
           0 \in T,
           \A i \in 1 .. n : i - 1 \in T => i \in T
    PROVE  \A i \in 0 .. n : i \in T
<1> SUFFICES ASSUME NEW j \in 0 .. n, j \notin T
             PROVE  FALSE
  OBVIOUS
<1> DEFINE Gaps == {i \in 0 .. n : i \notin T}
<1>1. Gaps \in SUBSET Nat /\ Gaps # {}
  OBVIOUS
<1>2. PICK i \in Gaps : \A m \in Gaps : i <= m
  <2> HIDE DEF Gaps
  <2> QED  BY <1>1, LeastNat
<1>3. i \in 1 .. n
  BY <1>2
<1>4. i - 1 \in T
  BY <1>2, <1>3
<1> QED  BY <1>2, <1>3, <1>4

(***************************************************************************)
(* A loop of n rounds has a sequence of states: from start on, each is     *)
(* what step makes of the round and of the state before it.                *)
(***************************************************************************)
Iteration(g, n, S, start, step) ==
    /\ g \in [0 .. n -> S] /\ g[0] = start
    /\ \A i \in 1 .. n : g[i] = step[<<i, g[i - 1]>>]

LEMMA Iterates ==
    ASSUME NEW n \in Nat, NEW S, NEW start \in S, NEW step \in [(1 .. n) \X S -> S]
    PROVE  \E g : Iteration(g, n, S, start, step)
<1> DEFINE Upto(m, g) == g[0] = start /\ \A i \in 1 .. m : g[i] = step[<<i, g[i - 1]>>]
           T == {m \in 0 .. n : \E g \in [0 .. m -> S] : Upto(m, g)}
<1>1. 0 \in T
  <2> DEFINE g == [i \in 0 .. 0 |-> start]
  <2>1. g \in [0 .. 0 -> S] /\ Upto(0, g)
    OBVIOUS
  <2> HIDE DEF Upto, g
  <2> QED  BY <2>1
<1>2. ASSUME NEW i \in 1 .. n, i - 1 \in T
      PROVE  i \in T
  <2>1. PICK g \in [0 .. i - 1 -> S] : Upto(i - 1, g)
    BY <1>2
  <2> DEFINE h == [j \in 0 .. i |-> IF j = i THEN step[<<i, g[i - 1]>>] ELSE g[j]]
  <2>2. step[<<i, g[i - 1]>>] \in S
    <3>1. g[i - 1] \in S
      BY <2>1
    <3>2. <<i, g[i - 1]>> \in (1 .. n) \X S
      BY <3>1
    <3> QED  BY <3>2
  <2>3. h \in [0 .. i -> S]
    BY <2>1, <2>2
  <2>4. \A j \in 0 .. i - 1 : h[j] = g[j]
    OBVIOUS
  <2>9. h[i] = step[<<i, g[i - 1]>>] /\ i - 1 \in 0 .. i - 1
    OBVIOUS
  <2>6. h[i] = step[<<i, h[i - 1]>>]
    <3> HIDE DEF h
    <3> QED  BY <2>4, <2>9
  <2>7. ASSUME NEW j \in 1 .. i - 1
        PROVE  h[j] = step[<<j, h[j - 1]>>]
    <3>1. j \in 0 .. i - 1 /\ j - 1 \in 0 .. i - 1
      OBVIOUS
    <3> QED  BY <2>1, <2>4, <3>1
  <2>8. h[0] = start
    BY <2>1, <2>4
  <2> HIDE DEF h
  <2>5. Upto(i, h)
    BY <2>6, <2>7, <2>8
  <2> HIDE DEF Upto
  <2> QED  BY <2>3, <2>5
<1>3. n \in T
  <2> HIDE DEF T
  <2>1. \A i \in 0 .. n : i \in T
    BY <1>1, <1>2, Upwards
  <2> QED  BY <2>1
<1> QED  BY <1>3 DEF Iteration

(***************************************************************************)
(* A bounded set of naturals that is not empty has a greatest element,     *)
(* which Max is.                                                           *)
(***************************************************************************)
LEMMA MaxNat ==
    ASSUME NEW n \in Nat, NEW T \in SUBSET (0 .. n), T # {}
    PROVE  G!Max(T) \in T /\ \A m \in T : m <= G!Max(T)
<1> DEFINE R == {n - m : m \in T}
<1>1. R \in SUBSET Nat /\ R # {}
  <2>1. \A m \in T : n - m \in Nat
    OBVIOUS
  <2>2. PICK m \in T : TRUE
    OBVIOUS
  <2>3. n - m \in R
    OBVIOUS
  <2>4. R \subseteq Nat
    BY <2>1
  <2> QED  BY <2>3, <2>4
<1>2. PICK r \in R : \A q \in R : r <= q
  <2> HIDE DEF R
  <2> QED  BY <1>1, LeastNat
<1>3. PICK k \in T : r = n - k
  BY <1>2
<1>4. \A m \in T : n - m \in R /\ m \in Int /\ k \in Int
  OBVIOUS
<1>5. \A m \in T : k >= m
  BY <1>2, <1>3, <1>4
<1>6. G!Max(T) \in T /\ \A m \in T : G!Max(T) >= m
  BY <1>3, <1>5 DEF G!Max
<1> QED  BY <1>6

----------------------------------------------------------------------------
(***************************************************************************)
(* The words of a row.  A text of m whole pairs has a key at every odd     *)
(* place, and maybe one more that is without a value.                      *)
(***************************************************************************)
HalfOf(ws, m) == m \in Nat /\ (Len(ws) = 2 * m \/ Len(ws) = 2 * m + 1)

\* The last pair with key k is the i-th.
At(ws, m, k, i) ==
    /\ i \in 1 .. m /\ ws[2 * i - 1] = k
    /\ \A j \in 1 .. m : ws[2 * j - 1] = k => j <= i

Has(ws, m, k) == \E i \in 1 .. m : ws[2 * i - 1] = k

\* What is read under a key.
Look(ws, k) == IF G!Contains(G!Keys(ws), k) THEN G!Value(ws, k) ELSE G!Blank

LEMMA HalfExists ==
    ASSUME NEW S, NEW ws \in Seq(S)
    PROVE  \E m \in Nat : HalfOf(ws, m)
<1> DEFINE n == Len(ws)
<1>1. n \in Nat
  BY LenProperties
<1> HIDE DEF n
<1>2. n \div 2 \in Nat /\ (n = 2 * (n \div 2) \/ n = 2 * (n \div 2) + 1)
  BY <1>1
<1> QED  BY <1>2 DEF HalfOf, n

LEMMA KeysAre ==
    ASSUME NEW ws, NEW m, HalfOf(ws, m)
    PROVE  /\ DOMAIN G!Keys(ws) = 1 .. m /\ Len(G!Keys(ws)) = m
           /\ \A i \in 1 .. m : G!Keys(ws)[i] = ws[2 * i - 1]
<1> DEFINE n == Len(ws)
           K == [i \in 1 .. m |-> ws[2 * i - 1]]
<1>1. m \in Nat /\ n \div 2 = m
  <2>1. m \in Nat /\ (n = 2 * m \/ n = 2 * m + 1)
    BY DEF HalfOf
  <2> HIDE DEF n
  <2> QED  BY <2>1
<1>2. G!Keys(ws) = K
  <2>1. G!Keys(ws) = [i \in 1 .. n \div 2 |-> ws[2 * i - 1]]
    BY DEF G!Keys
  <2> HIDE DEF n
  <2> QED  BY <1>1, <2>1
<1>3. DOMAIN K = 1 .. m /\ \A i \in 1 .. m : K[i] = ws[2 * i - 1]
  OBVIOUS
<1>4. Len(K) = m
  <2> DEFINE R == {ws[2 * i - 1] : i \in 1 .. m}
  <2>1. K \in Seq(R)
    <3>1. K \in [1 .. m -> R]
      OBVIOUS
    <3> HIDE DEF K, R
    <3> QED  BY <1>1, <3>1, SeqDef
  <2> HIDE DEF K, R
  <2> QED  BY <1>1, <1>3, <2>1, LenProperties
<1> QED  BY <1>2, <1>3, <1>4

LEMMA LookIs ==
    ASSUME NEW ws, NEW m, HalfOf(ws, m), NEW k
    PROVE  /\ G!Contains(G!Keys(ws), k) <=> Has(ws, m, k)
           /\ Has(ws, m, k) => \E i : At(ws, m, k, i) /\ G!Place(ws, k) = 2 * i
           /\ \A i : At(ws, m, k, i) => Has(ws, m, k) /\ Look(ws, k) = ws[2 * i]
           /\ ~Has(ws, m, k) => Look(ws, k) = G!Blank
<1> DEFINE P == {i \in 1 .. m : ws[2 * i - 1] = k}
           a == G!Max(P)
<1>1. /\ DOMAIN G!Keys(ws) = 1 .. m /\ Len(G!Keys(ws)) = m /\ m \in Nat
      /\ \A i \in 1 .. m : G!Keys(ws)[i] = ws[2 * i - 1]
  BY KeysAre DEF HalfOf
<1>2. G!Contains(G!Keys(ws), k) <=> Has(ws, m, k)
  BY <1>1 DEF G!Contains, Has
<1>3. G!Place(ws, k) = 2 * a
  <2>1. {i \in DOMAIN G!Keys(ws) : G!Keys(ws)[i] = k} = P
    BY <1>1
  <2> HIDE DEF P
  <2> QED  BY <2>1 DEF G!Place
<1>4. Has(ws, m, k) => At(ws, m, k, a)
  <2> SUFFICES ASSUME Has(ws, m, k) PROVE At(ws, m, k, a)
    OBVIOUS
  <2>1. a \in P /\ \A i \in P : i <= a
    <3>1. P \in SUBSET (0 .. m) /\ P # {}
      <4>1. PICK i \in 1 .. m : ws[2 * i - 1] = k
        BY DEF Has
      <4>2. i \in P
        BY <4>1
      <4>3. P \in SUBSET (0 .. m)
        BY <1>1
      <4> HIDE DEF P
      <4> QED  BY <4>2, <4>3
    <3> HIDE DEF P
    <3> QED  BY <1>1, <3>1, MaxNat
  <2> HIDE DEF a
  <2> QED  BY <2>1 DEF At
<1>5. \A i, j : At(ws, m, k, i) /\ At(ws, m, k, j) => i = j
  BY <1>1 DEF At
<1>6. ASSUME NEW i, At(ws, m, k, i)
      PROVE  Has(ws, m, k) /\ Look(ws, k) = ws[2 * i]
  <2>1. Has(ws, m, k)
    BY <1>6 DEF At, Has
  <2>2. a = i
    <3> HIDE DEF a
    <3> QED  BY <1>4, <1>5, <1>6, <2>1
  <2> HIDE DEF a
  <2> QED  BY <1>2, <1>3, <2>1, <2>2 DEF Look, G!Value
<1>7. ~Has(ws, m, k) => Look(ws, k) = G!Blank
  BY <1>2 DEF Look
<1> HIDE DEF a
<1> QED  BY <1>2, <1>3, <1>4, <1>6, <1>7

\* There is a last pair of every key that is there.
LEMMA AtExists ==
    ASSUME NEW ws, NEW m, HalfOf(ws, m), NEW k, Has(ws, m, k)
    PROVE  \E i : At(ws, m, k, i)
BY LookIs

(***************************************************************************)
(* A dict is the text of whole pairs with different keys.                  *)
(***************************************************************************)
Dict(D, W, m) ==
    /\ D \in Seq(W) /\ m \in Nat /\ Len(D) = 2 * m
    /\ \A i \in 1 .. m : D[2 * i - 1] # G!Blank
    /\ \A i, j \in 1 .. m : D[2 * i - 1] = D[2 * j - 1] => i = j

PutOK(D, W, k, v, D1) ==
    /\ \E m \in Nat : Dict(D1, W, m)
    /\ \A x : Look(D1, x) = IF x = k THEN v ELSE Look(D, x)

LEMMA PutDoes ==
    ASSUME NEW W, NEW m \in Nat, NEW D, Dict(D, W, m), NEW k \in W, NEW v \in W, k # G!Blank
    PROVE  PutOK(D, W, k, v, G!Put(D, k, v))
<1> DEFINE D1 == G!Put(D, k, v)
<1>1. D \in Seq(W) /\ Len(D) = 2 * m /\ HalfOf(D, m)
  BY DEF Dict, HalfOf
<1>2. CASE Has(D, m, k)
  <2>1. PICK a : At(D, m, k, a) /\ G!Place(D, k) = 2 * a
    BY <1>1, <1>2, LookIs
  <2>2. a \in 1 .. m /\ D[2 * a - 1] = k
    BY <2>1 DEF At
  <2>3. D1 = [D EXCEPT ![2 * a] = v]
    BY <1>1, <1>2, <2>1, LookIs DEF G!Put
  <2>4. DOMAIN D = 1 .. 2 * m /\ D \in [1 .. 2 * m -> W]
    BY <1>1, LenProperties
  <2> HIDE DEF D1
  <2>5. D1 \in [1 .. 2 * m -> W] /\ \A i \in 1 .. 2 * m : D1[i] = IF i = 2 * a THEN v ELSE D[i]
    BY <2>3, <2>4
  <2>6. D1 \in Seq(W) /\ Len(D1) = 2 * m
    <3> DEFINE n == 2 * m
    <3>1. n \in Nat /\ D1 \in [1 .. n -> W]
      BY <2>5
    <3> HIDE DEF n
    <3>2. D1 \in Seq(W)
      BY <3>1, SeqDef
    <3>3. Len(D1) = n
      BY <3>1, <3>2, LenProperties
    <3> QED  BY <3>2, <3>3 DEF n
  <2>7. \A i \in 1 .. m : D1[2 * i - 1] = D[2 * i - 1] /\ D1[2 * i] = IF i = a THEN v ELSE D[2 * i]
    <3> TAKE i \in 1 .. m
    <3>1. 2 * i - 1 \in 1 .. 2 * m /\ 2 * i \in 1 .. 2 * m /\ 2 * i - 1 # 2 * a
      BY <2>2
    <3>2. 2 * i = 2 * a <=> i = a
      BY <2>2
    <3> QED  BY <2>5, <3>1, <3>2
  <2>8. Dict(D1, W, m) /\ HalfOf(D1, m)
    BY <2>6, <2>7 DEF Dict, HalfOf
  <2>9. ASSUME NEW x
        PROVE  Look(D1, x) = IF x = k THEN v ELSE Look(D, x)
    <3>1. CASE ~Has(D, m, x)
      <4>1. ~Has(D1, m, x) /\ x # k
        BY <1>2, <2>7, <3>1 DEF Has
      <4> QED  BY <1>1, <2>8, <3>1, <4>1, LookIs
    <3>2. CASE Has(D, m, x)
      <4>1. PICK i : At(D, m, x, i)
        BY <1>1, <3>2, AtExists
      <4>2. At(D1, m, x, i) /\ i \in 1 .. m
        BY <2>7, <4>1 DEF At
      <4>3. Look(D1, x) = D1[2 * i] /\ Look(D, x) = D[2 * i]
        BY <1>1, <2>8, <4>1, <4>2, LookIs
      <4>4. i = a <=> x = k
        BY <2>2, <4>1 DEF At, Dict
      <4> QED  BY <2>7, <4>2, <4>3, <4>4
    <3> QED  BY <3>1, <3>2
  <2> QED  BY <2>8, <2>9 DEF PutOK, D1
<1>3. CASE ~Has(D, m, k)
  <2> DEFINE kv == <<k, v>>
  <2>1. D1 = D \o kv
    BY <1>1, <1>3, LookIs DEF G!Put
  <2>2. kv \in Seq(W) /\ Len(kv) = 2 /\ kv[1] = k /\ kv[2] = v
    OBVIOUS
  <2> HIDE DEF kv, D1
  <2>3. /\ D1 \in Seq(W) /\ Len(D1) = 2 * m + 2
        /\ \A i \in 1 .. 2 * m + 2 : D1[i] = IF i <= 2 * m THEN D[i] ELSE kv[i - 2 * m]
    <3>1. /\ D \o kv \in Seq(W) /\ Len(D \o kv) = Len(D) + Len(kv)
          /\ \A i \in 1 .. Len(D) + Len(kv) :
                (D \o kv)[i] = IF i <= Len(D) THEN D[i] ELSE kv[i - Len(D)]
      BY <1>1, <2>2, ConcatProperties
    <3> QED  BY <1>1, <2>1, <2>2, <3>1
  <2>4. \A i \in 1 .. m : D1[2 * i - 1] = D[2 * i - 1] /\ D1[2 * i] = D[2 * i]
    <3> TAKE i \in 1 .. m
    <3>1. /\ 2 * i - 1 \in 1 .. 2 * m + 2 /\ 2 * i \in 1 .. 2 * m + 2
          /\ 2 * i - 1 <= 2 * m /\ 2 * i <= 2 * m
      OBVIOUS
    <3> QED  BY <2>3, <3>1
  <2>5. D1[2 * (m + 1) - 1] = k /\ D1[2 * (m + 1)] = v
    <3> DEFINE p == 2 * (m + 1) - 1
               q == 2 * (m + 1)
    <3>1. /\ p \in 1 .. 2 * m + 2 /\ ~(p <= 2 * m) /\ p - 2 * m = 1
          /\ q \in 1 .. 2 * m + 2 /\ ~(q <= 2 * m) /\ q - 2 * m = 2
      OBVIOUS
    <3> HIDE DEF p, q
    <3>2. D1[p] = kv[p - 2 * m] /\ D1[q] = kv[q - 2 * m]
      BY <2>3, <3>1
    <3>3. D1[p] = k /\ D1[q] = v
      BY <2>2, <3>1, <3>2
    <3> QED  BY <3>3 DEF p, q
  <2>6. \A i \in 1 .. m + 1 : i \in 1 .. m \/ i = m + 1
    OBVIOUS
  <2>7. Len(D1) = 2 * (m + 1) /\ m + 1 \in Nat
    BY <2>3
  <2>8. Dict(D1, W, m + 1)
    <3>1. \A i \in 1 .. m + 1 : D1[2 * i - 1] # G!Blank
      BY <2>4, <2>5, <2>6 DEF Dict
    <3>2. ASSUME NEW i \in 1 .. m + 1, NEW j \in 1 .. m + 1, D1[2 * i - 1] = D1[2 * j - 1]
          PROVE  i = j
      BY <1>3, <2>4, <2>5, <2>6, <3>2 DEF Dict, Has
    <3> QED  BY <2>3, <2>7, <3>1, <3>2 DEF Dict
  <2>9. HalfOf(D1, m + 1)
    BY <2>7 DEF HalfOf
  <2>10. ASSUME NEW x
         PROVE  Look(D1, x) = IF x = k THEN v ELSE Look(D, x)
    <3>1. CASE x = k
      <4>1. At(D1, m + 1, x, m + 1)
        <5>1. \A j \in 1 .. m + 1 : j <= m + 1
          OBVIOUS
        <5>2. m + 1 \in 1 .. m + 1
          OBVIOUS
        <5> QED  BY <2>5, <3>1, <5>1, <5>2 DEF At
      <4>2. Look(D1, x) = D1[2 * (m + 1)]
        BY <2>9, <4>1, LookIs
      <4> QED  BY <2>5, <3>1, <4>2
    <3>2. CASE x # k /\ ~Has(D, m, x)
      <4>1. ~Has(D1, m + 1, x)
        BY <2>4, <2>5, <2>6, <3>2 DEF Has
      <4> QED  BY <1>1, <2>9, <3>2, <4>1, LookIs
    <3>3. CASE x # k /\ Has(D, m, x)
      <4>1. PICK i : At(D, m, x, i)
        BY <1>1, <3>3, AtExists
      <4>2. i \in 1 .. m /\ i \in 1 .. m + 1
        BY <4>1 DEF At
      <4>3. At(D1, m + 1, x, i)
        BY <2>4, <2>5, <2>6, <3>3, <4>1, <4>2 DEF At
      <4>4. Look(D1, x) = D1[2 * i] /\ Look(D, x) = D[2 * i]
        BY <1>1, <2>9, <4>1, <4>3, LookIs
      <4> QED  BY <2>4, <3>3, <4>2, <4>4
    <3> QED  BY <3>1, <3>2, <3>3
  <2> QED  BY <2>7, <2>8, <2>10 DEF PutOK, D1
<1> QED  BY <1>2, <1>3

(***************************************************************************)
(* The loop that puts pairs into a dict ends, and then the dict has the    *)
(* last of the values under each of their keys, and its own under others.  *)
(***************************************************************************)
Rounds(g, ws, n) == \A i \in 1 .. n : g[i] = G!Put(g[i - 1], ws[2 * i - 1], ws[2 * i])

LEMMA UpdatedLoop ==
    ASSUME NEW S, NEW start \in S, NEW ws, NEW n \in Nat, HalfOf(ws, n),
           \A D \in S : \A i \in 1 .. n : G!Put(D, ws[2 * i - 1], ws[2 * i]) \in S
    PROVE  \E g \in [0 .. n -> S] :
              g[0] = start /\ Rounds(g, ws, n) /\ G!Updated(start, ws) = g[n]
<1> DEFINE Loop(f) == [i \in 0 .. n |->
                          IF i = 0 THEN start ELSE G!Put(f[i - 1], ws[2 * i - 1], ws[2 * i])]
           after == CHOOSE f : f = Loop(f)
           step == [ir \in (1 .. n) \X S |-> G!Put(ir[2], ws[2 * ir[1] - 1], ws[2 * ir[1]])]
<1>1. step \in [(1 .. n) \X S -> S]
  OBVIOUS
<1>2. PICK g : Iteration(g, n, S, start, step)
  <2> HIDE DEF step
  <2> QED  BY <1>1, Iterates
<1>3. g \in [0 .. n -> S] /\ g[0] = start
  BY <1>2 DEF Iteration
<1>4. \A i \in 1 .. n : g[i] = G!Put(g[i - 1], ws[2 * i - 1], ws[2 * i])
  <2> TAKE i \in 1 .. n
  <2>1. g[i - 1] \in S
    BY <1>3
  <2> QED  BY <1>2, <2>1 DEF Iteration
<1>5. g = Loop(g)
  BY <1>3, <1>4
<1>6. after = Loop(after)
  <2> HIDE DEF Loop
  <2> QED  BY <1>5
<1>7. \A i \in 0 .. n : after[i] = g[i]
  <2> HIDE DEF after
  <2> DEFINE T == {i \in 0 .. n : after[i] = g[i]}
  <2>1. /\ after[0] = start
        /\ \A i \in 1 .. n : after[i] = G!Put(after[i - 1], ws[2 * i - 1], ws[2 * i])
    BY <1>6
  <2>2. 0 \in T /\ \A i \in 1 .. n : i - 1 \in T => i \in T
    BY <1>3, <1>4, <2>1
  <2>3. \A i \in 0 .. n : i \in T
    <3> HIDE DEF T
    <3> QED  BY <2>2, Upwards
  <2> QED  BY <2>3
<1>8. Len(ws) \div 2 = n
  <2> DEFINE k == Len(ws)
  <2>1. k = 2 * n \/ k = 2 * n + 1
    BY DEF HalfOf
  <2> HIDE DEF k
  <2>2. k \div 2 = n
    BY <2>1
  <2> QED  BY <2>2 DEF k
<1>9. G!Updated(start, ws) = after[n]
  BY <1>8, Zenon DEF G!Updated
<1> QED  BY <1>3, <1>4, <1>7, <1>9 DEF Rounds

Dicts(W) == {D \in Seq(W) : \E m \in Nat : Dict(D, W, m)}

\* Whatever has been put, every key is a name.
NamedKeys(ws) == \A i \in Nat : i >= 1 /\ 2 * i - 1 <= Len(ws) => ws[2 * i - 1] # G!Blank

UpdatedOK(D, W, start, ws, n) ==
    /\ D \in Dicts(W)
    /\ \A x : Look(D, x) = IF Has(ws, n, x) THEN Look(ws, x) ELSE Look(start, x)

LEMMA UpdatedDoes ==
    ASSUME NEW W, NEW start \in Dicts(W), NEW ws \in Seq(W), NamedKeys(ws),
           NEW n \in Nat, HalfOf(ws, n)
    PROVE  UpdatedOK(G!Updated(start, ws), W, start, ws, n)
<1>1. \A i \in 1 .. n : /\ 2 * i - 1 \in 1 .. Len(ws) /\ 2 * i \in 1 .. Len(ws)
                        /\ ws[2 * i - 1] \in W \ {G!Blank} /\ ws[2 * i] \in W
  <2> TAKE i \in 1 .. n
  <2>1. i \in Nat /\ i >= 1 /\ 2 * i - 1 \in 1 .. Len(ws) /\ 2 * i \in 1 .. Len(ws)
    <3> DEFINE k == Len(ws)
    <3>1. k = 2 * n \/ k = 2 * n + 1
      BY DEF HalfOf
    <3> HIDE DEF k
    <3>2. i \in Nat /\ i >= 1 /\ 2 * i - 1 \in 1 .. k /\ 2 * i \in 1 .. k
      BY <3>1
    <3> QED  BY <3>2 DEF k
  <2>2. 2 * i - 1 <= Len(ws)
    <3>1. Len(ws) \in Int
      BY LenProperties
    <3> QED  BY <2>1, <3>1
  <2> QED  BY <2>1, <2>2, ElementOfSeq DEF NamedKeys
<1>2. \A D \in Dicts(W) : \A i \in 1 .. n :
          PutOK(D, W, ws[2 * i - 1], ws[2 * i], G!Put(D, ws[2 * i - 1], ws[2 * i]))
  BY <1>1, PutDoes DEF Dicts
<1>3. \A D \in Dicts(W) : \A i \in 1 .. n : G!Put(D, ws[2 * i - 1], ws[2 * i]) \in Dicts(W)
  <2> TAKE D \in Dicts(W)
  <2> TAKE i \in 1 .. n
  <2> DEFINE D1 == G!Put(D, ws[2 * i - 1], ws[2 * i])
  <2>1. PICK m \in Nat : Dict(D1, W, m)
    BY <1>2 DEF PutOK
  <2> HIDE DEF D1
  <2>2. D1 \in Seq(W)
    BY <2>1 DEF Dict
  <2> QED  BY <2>1, <2>2 DEF Dicts, D1
<1>4. PICK g \in [0 .. n -> Dicts(W)] :
          g[0] = start /\ Rounds(g, ws, n) /\ G!Updated(start, ws) = g[n]
  BY <1>3, UpdatedLoop
<1> DEFINE T == {j \in 0 .. n : \A x :
                    /\ ~Has(ws, j, x) => Look(g[j], x) = Look(start, x)
                    /\ \A i : At(ws, j, x, i) => Look(g[j], x) = ws[2 * i]}
<1>5. 0 \in T
  BY <1>4 DEF At
<1>6. ASSUME NEW j \in 1 .. n, j - 1 \in T
      PROVE  j \in T
  <2>1. PutOK(g[j - 1], W, ws[2 * j - 1], ws[2 * j], g[j])
    <3>1. g[j - 1] \in Dicts(W) /\ g[j] = G!Put(g[j - 1], ws[2 * j - 1], ws[2 * j])
      BY <1>4 DEF Rounds
    <3> QED  BY <1>2, <3>1
  <2>2. \A i \in 1 .. j : i \in 1 .. j - 1 \/ i = j
    OBVIOUS
  <2>3. \A i \in 1 .. j - 1 : i \in 1 .. j
    OBVIOUS
  <2>4. ASSUME NEW x, ~Has(ws, j, x)
        PROVE  Look(g[j], x) = Look(start, x)
    <3>1. x # ws[2 * j - 1] /\ ~Has(ws, j - 1, x)
      BY <2>3, <2>4 DEF Has
    <3> QED  BY <1>6, <2>1, <3>1 DEF PutOK
  <2>5. ASSUME NEW x, NEW i, At(ws, j, x, i)
        PROVE  Look(g[j], x) = ws[2 * i]
    <3>1. CASE x = ws[2 * j - 1]
      <4>1. i = j
        BY <2>5, <3>1 DEF At
      <4> QED  BY <2>1, <3>1, <4>1 DEF PutOK
    <3>2. CASE x # ws[2 * j - 1]
      <4>1. At(ws, j - 1, x, i)
        BY <2>2, <2>3, <2>5, <3>2 DEF At
      <4> QED  BY <1>6, <2>1, <3>2, <4>1 DEF PutOK
    <3> QED  BY <3>1, <3>2
  <2> QED  BY <2>4, <2>5
<1>7. n \in T
  <2> HIDE DEF T
  <2>1. \A i \in 0 .. n : i \in T
    BY <1>5, <1>6, Upwards
  <2> QED  BY <2>1
<1>8. \A x : Look(g[n], x) = IF Has(ws, n, x) THEN Look(ws, x) ELSE Look(start, x)
  <2> TAKE x
  <2>1. CASE Has(ws, n, x)
    <3>1. PICK i : At(ws, n, x, i)
      BY <2>1, AtExists
    <3> QED  BY <1>7, <2>1, <3>1, LookIs
  <2>2. CASE ~Has(ws, n, x)
    BY <1>7, <2>2
  <2> QED  BY <2>1, <2>2
<1>9. g[n] \in Dicts(W)
  BY <1>4
<1> QED  BY <1>4, <1>8, <1>9 DEF UpdatedOK

(***************************************************************************)
(* What is left of a text without the empty words at its end: at most the  *)
(* last value is lost, when it is empty, and reads show it as before.      *)
(***************************************************************************)
StrippedOf(ws, W, s) ==
    /\ s \in Seq(W) /\ Len(s) <= Len(ws)
    /\ \A i \in 1 .. Len(s) : s[i] = ws[i]
    /\ \A i \in 1 .. Len(ws) : i > Len(s) => ws[i] = G!Blank

LEMMA StrippedIs ==
    ASSUME NEW W, NEW ws \in Seq(W)
    PROVE  StrippedOf(ws, W, G!Stripped(ws))
<1> DEFINE n == Len(ws)
           T == {0} \union {i \in DOMAIN ws : ws[i] # G!Blank}
           a == G!Max(T)
           s == SubSeq(ws, 1, a)
<1>1. n \in Nat /\ DOMAIN ws = 1 .. n /\ \A i \in 1 .. n : ws[i] \in W
  BY LenProperties, ElementOfSeq
<1>2. a \in T /\ \A i \in T : i <= a
  <2>1. T \in SUBSET (0 .. n) /\ 0 \in T
    <3> HIDE DEF n
    <3> QED  BY <1>1
  <2> HIDE DEF T, n
  <2> QED  BY <1>1, <2>1, MaxNat
<1>3. a \in 0 .. n /\ \A i \in 1 .. n : i > a => ws[i] = G!Blank
  <2>1. a \in 0 .. n
    <3> HIDE DEF a, n
    <3> QED  BY <1>1, <1>2
  <2>2. \A i \in 1 .. n : ws[i] # G!Blank => i \in T
    BY <1>1
  <2> HIDE DEF T, a, n
  <2> QED  BY <1>1, <1>2, <2>1, <2>2
<1> HIDE DEF T, a, n
<1>4. s \in Seq(W) /\ Len(s) = a /\ \A i \in 1 .. a : s[i] = ws[i]
  <2>1. \A i \in 1 .. a : ws[i] \in W
    BY <1>1, <1>3
  <2>2. /\ s \in Seq(W) /\ Len(s) = IF 1 <= a THEN a - 1 + 1 ELSE 0
        /\ \A i \in 1 .. a - 1 + 1 : s[i] = ws[1 + i - 1]
    BY <1>1, <1>3, <2>1, SubSeqProperties
  <2> HIDE DEF s
  <2>3. a - 1 + 1 = a /\ (1 <= a \/ a = 0) /\ \A i \in 1 .. a : 1 + i - 1 = i
    BY <1>1, <1>3
  <2> QED  BY <1>1, <1>3, <2>2, <2>3
<1>5. G!Stripped(ws) = s
  BY DEF G!Stripped, s, a, T
<1> HIDE DEF s
<1>6. StrippedOf(ws, W, s)
  BY <1>1, <1>3, <1>4 DEF StrippedOf, n
<1> QED  BY <1>5, <1>6

LEMMA StrippedKeeps ==
    ASSUME NEW W, NEW ws \in Seq(W), NamedKeys(ws), NEW s, StrippedOf(ws, W, s)
    PROVE  /\ NamedKeys(s)
           /\ s = ws \/ \E m \in Nat : /\ m >= 1 /\ Len(ws) = 2 * m /\ Len(s) = 2 * (m - 1) + 1
                                       /\ ws[2 * m] = G!Blank
           /\ G!Blank \notin W => s = ws
           /\ s = <<>> => ws = <<>>
<1> DEFINE n == Len(ws)
           a == Len(s)
<1>1. n \in Nat /\ a \in Nat /\ s \in Seq(W) /\ a <= n
  BY LenProperties DEF StrippedOf
<1> HIDE DEF n, a
<1>2. \A i \in 1 .. a : s[i] = ws[i]
  BY DEF StrippedOf, a
<1>3. \A i \in 1 .. n : i > a => ws[i] = G!Blank
  BY DEF StrippedOf, a, n
<1>4. \A i \in 1 .. n : ws[i] \in W
  BY ElementOfSeq DEF n
<1>5. \A i \in Nat : i >= 1 /\ 2 * i - 1 <= n => ws[2 * i - 1] # G!Blank
  BY DEF NamedKeys, n
<1>6. NamedKeys(s)
  <2> SUFFICES ASSUME NEW i \in Nat, i >= 1, 2 * i - 1 <= a
               PROVE  s[2 * i - 1] # G!Blank
    BY DEF NamedKeys, a
  <2>1. 2 * i - 1 \in 1 .. a /\ 2 * i - 1 <= n
    BY <1>1
  <2> QED  BY <1>2, <1>5, <2>1
<1>7. a = n => s = ws
  BY <1>1, <1>2, SeqEqual DEF a, n
<1>8. ASSUME NEW m \in Nat, n = 2 * m + 1
      PROVE  a = n
  <2>1. m + 1 \in Nat /\ m + 1 >= 1 /\ 2 * (m + 1) - 1 = n /\ n \in 1 .. n
    BY <1>8
  <2>2. ws[n] # G!Blank
    <3>1. 2 * (m + 1) - 1 <= n
      BY <2>1, <1>1
    <3>2. ws[2 * (m + 1) - 1] # G!Blank
      BY <1>5, <2>1, <3>1
    <3> QED  BY <2>1, <3>2
  <2> QED  BY <1>1, <1>3, <2>1, <2>2
<1>9. ASSUME NEW m \in Nat, n = 2 * m, a # n
      PROVE  m >= 1 /\ a = 2 * (m - 1) + 1 /\ ws[2 * m] = G!Blank
  <2>1. m >= 1 /\ 2 * m - 1 \in 1 .. n /\ 2 * m \in 1 .. n /\ 2 * m - 1 <= n /\ 2 * m > a
    BY <1>1, <1>9
  <2>2. ws[2 * m - 1] # G!Blank
    BY <1>5, <2>1
  <2>3. ~(2 * m - 1 > a)
    BY <1>3, <2>1, <2>2
  <2> QED  BY <1>1, <1>3, <1>9, <2>1, <2>3
<1>10. \E m \in Nat : n = 2 * m \/ n = 2 * m + 1
  <2>1. n \div 2 \in Nat /\ (n = 2 * (n \div 2) \/ n = 2 * (n \div 2) + 1)
    BY <1>1
  <2> QED  BY <2>1
<1>11. a = n \/ \E m \in Nat : m >= 1 /\ n = 2 * m /\ a = 2 * (m - 1) + 1 /\ ws[2 * m] = G!Blank
  BY <1>8, <1>9, <1>10
<1>12. G!Blank \notin W => a = n
  <2> SUFFICES ASSUME a # n PROVE G!Blank \in W
    OBVIOUS
  <2>1. n \in 1 .. n /\ n > a
    BY <1>1
  <2> QED  BY <1>3, <1>4, <2>1
<1>13. s = <<>> => ws = <<>>
  <2> SUFFICES ASSUME s = <<>> PROVE ws = <<>>
    OBVIOUS
  <2>1. a = 0
    BY DEF a
  <2>2. \A m \in Nat : m >= 1 => 0 # 2 * (m - 1) + 1
    OBVIOUS
  <2>3. n = 0
    BY <1>11, <2>1, <2>2
  <2> QED  BY <2>3, EmptySeq DEF n
<1> QED  BY <1>6, <1>7, <1>11, <1>12, <1>13 DEF a, n

LEMMA StrippedLooks ==
    ASSUME NEW W, NEW D \in Dicts(W), NEW s, StrippedOf(D, W, s)
    PROVE  /\ s \in Seq(W) /\ NamedKeys(s)
           /\ \A x : Look(s, x) = Look(D, x)
           /\ G!Blank \notin W => \E m \in Nat : Len(s) = 2 * m
<1>1. PICK m \in Nat : Dict(D, W, m)
  BY DEF Dicts
<1>2. D \in Seq(W) /\ Len(D) = 2 * m /\ HalfOf(D, m)
  BY <1>1 DEF Dict, HalfOf
<1>3. NamedKeys(D)
  <2> SUFFICES ASSUME NEW i \in Nat, i >= 1, 2 * i - 1 <= Len(D)
               PROVE  D[2 * i - 1] # G!Blank
    BY DEF NamedKeys
  <2>1. i \in 1 .. m
    BY <1>2
  <2> QED  BY <1>1, <2>1 DEF Dict
<1>4. CASE s = D
  BY <1>2, <1>3, <1>4
<1>5. CASE s # D
  <2>1. NamedKeys(s) /\ s \in Seq(W) /\ G!Blank \in W
    BY <1>2, <1>3, <1>5, StrippedKeeps DEF StrippedOf
  <2>2. PICK k \in Nat : k >= 1 /\ Len(D) = 2 * k /\ Len(s) = 2 * (k - 1) + 1 /\ D[2 * k] = G!Blank
    BY <1>2, <1>3, <1>5, StrippedKeeps
  <2>3. k = m
    BY <1>2, <2>2
  <2>4. HalfOf(s, m - 1) /\ m - 1 \in Nat /\ m \in 1 .. m
    BY <2>2, <2>3 DEF HalfOf
  <2>5. \A i \in 1 .. m - 1 : s[2 * i - 1] = D[2 * i - 1] /\ s[2 * i] = D[2 * i]
    <3> TAKE i \in 1 .. m - 1
    <3>1. 2 * i - 1 \in 1 .. 2 * (m - 1) + 1 /\ 2 * i \in 1 .. 2 * (m - 1) + 1
      OBVIOUS
    <3>2. 2 * i - 1 \in 1 .. Len(s) /\ 2 * i \in 1 .. Len(s)
      BY <2>2, <2>3, <3>1
    <3> QED  BY <3>2 DEF StrippedOf
  <2>6. \A i \in 1 .. m : i \in 1 .. m - 1 \/ i = m
    OBVIOUS
  <2>7. \A i \in 1 .. m - 1 : i \in 1 .. m /\ i # m
    OBVIOUS
  <2>8. ASSUME NEW x
        PROVE  Look(s, x) = Look(D, x)
    <3>1. CASE x = D[2 * m - 1]
      <4>1. At(D, m, x, m)
        <5>1. \A j \in 1 .. m : j <= m
          OBVIOUS
        <5> QED  BY <2>4, <3>1, <5>1 DEF At
      <4>2. ~Has(s, m - 1, x)
        BY <1>1, <2>4, <2>5, <2>7, <3>1 DEF Has, Dict
      <4> QED  BY <1>2, <2>2, <2>3, <2>4, <4>1, <4>2, LookIs
    <3>2. CASE x # D[2 * m - 1] /\ ~Has(D, m, x)
      <4>1. ~Has(s, m - 1, x)
        BY <2>5, <2>7, <3>2 DEF Has
      <4> QED  BY <1>2, <2>4, <3>2, <4>1, LookIs
    <3>3. CASE x # D[2 * m - 1] /\ Has(D, m, x)
      <4>1. PICK i : At(D, m, x, i)
        BY <1>2, <3>3, AtExists
      <4>2. i \in 1 .. m - 1
        BY <2>6, <3>3, <4>1 DEF At
      <4>3. At(s, m - 1, x, i)
        BY <2>5, <2>7, <4>1, <4>2 DEF At
      <4>4. Look(s, x) = s[2 * i] /\ Look(D, x) = D[2 * i]
        BY <1>2, <2>4, <4>1, <4>3, LookIs
      <4> QED  BY <2>5, <4>2, <4>4
    <3> QED  BY <3>1, <3>2, <3>3
  <2> QED  BY <2>1, <2>8
<1> QED  BY <1>4, <1>5

(***************************************************************************)
(* A row that is merged with new values reads as they do, and as before    *)
(* where they have no value.                                               *)
(***************************************************************************)
MergeOK(s, W, old, new, n) ==
    /\ s \in Seq(W) /\ NamedKeys(s)
    /\ \A x : Look(s, x) = IF Has(new, n, x) THEN Look(new, x) ELSE Look(old, x)
    /\ G!Blank \notin W => \E m \in Nat : Len(s) = 2 * m

LEMMA MergeDoes ==
    ASSUME NEW W, NEW old \in Seq(W), NamedKeys(old), NEW new \in Seq(W), NamedKeys(new),
           NEW n \in Nat, HalfOf(new, n)
    PROVE  MergeOK(G!Merge(old, new), W, old, new, n)
<1> DEFINE D1 == G!Updated(<<>>, old)
           D2 == G!Updated(D1, new)
<1>1. PICK m \in Nat : HalfOf(old, m)
  BY HalfExists
<1>2. <<>> \in Dicts(W) /\ \A x : Look(<<>>, x) = G!Blank
  <2>1. <<>> \in Seq(W) /\ Dict(<<>>, W, 0)
    BY DEF Dict
  <2>2. HalfOf(<<>>, 0) /\ \A x : ~Has(<<>>, 0, x)
    BY DEF HalfOf, Has
  <2> QED  BY <2>1, <2>2, LookIs DEF Dicts
<1>3. UpdatedOK(D1, W, <<>>, old, m)
  BY <1>1, <1>2, UpdatedDoes
<1>4. D1 \in Dicts(W) /\ \A x : Look(D1, x) = Look(old, x)
  BY <1>1, <1>2, <1>3, LookIs DEF UpdatedOK
<1> HIDE DEF D1
<1>5. UpdatedOK(D2, W, D1, new, n)
  BY <1>4, UpdatedDoes
<1> HIDE DEF D2
<1>6. D2 \in Dicts(W) /\ D2 \in Seq(W)
  BY <1>5 DEF UpdatedOK, Dicts
<1>7. StrippedOf(D2, W, G!Stripped(D2))
  BY <1>6, StrippedIs
<1>8. G!Merge(old, new) = G!Stripped(D2)
  BY DEF G!Merge, D2, D1
<1> QED  BY <1>4, <1>5, <1>6, <1>7, <1>8, StrippedLooks DEF MergeOK, UpdatedOK

----------------------------------------------------------------------------
(***************************************************************************)
(* The streams.  What is kept of a connection, r, what is on its way, w,   *)
(* and the numbers of the messages that were sent and handled.             *)
(***************************************************************************)
Flows(r, w, s, h, split, max) ==
    /\ \E k \in Nat : s = h + k /\ Len(r \o w) = 3 * k
    /\ InOrder(r \o w, h)
    /\ Len(w \o r) <= max
    /\ ~split => NoEnd(r)

LEMMA ConcatRegroups ==
    ASSUME NEW S, NEW a \in Seq(S), NEW b \in Seq(S), NEW c \in Seq(S)
    PROVE  a \o (b \o c) = (a \o b) \o c
BY ConcatAssociative

MoreUnits(S, r, w, u, k, h) ==
    /\ w \o u \in Seq(S)
    /\ Len(r \o (w \o u)) = 3 * (k + 1) /\ InOrder(r \o (w \o u), h)
    /\ Len((w \o u) \o r) = Len(w \o r) + 3

LEMMA UnitsAdded ==
    ASSUME NEW S, NEW r \in Seq(S), NEW w \in Seq(S), NEW u \in Seq(S), NEW k \in Nat, NEW h \in Nat,
           Len(r \o w) = 3 * k, InOrder(r \o w, h), MessageUnits(u, h + k + 1)
    PROVE  MoreUnits(S, r, w, u, k, h)
<1> DEFINE t == r \o w
           v == w \o u
<1>1. t \in Seq(S) /\ v \in Seq(S) /\ r \o v = t \o u
  BY ConcatRegroups, ConcatProperties
<1>2. Len(u) = 3 /\ \A i \in 1 .. 3 : u[i][2] = i /\ u[i][3] = h + k + 1
  BY DEF MessageUnits
<1>3. Len(t) = 3 * k /\ InOrder(t, h)
  OBVIOUS
<1>4. Len(v \o r) = Len(w \o r) + 3
  <2>1. Len(w) \in Nat /\ Len(r) \in Nat
    BY LenProperties
  <2>2. Len(v) = Len(w) + Len(u) /\ Len(w \o r) = Len(w) + Len(r)
    BY ConcatProperties
  <2> HIDE DEF v
  <2>3. Len(v \o r) = Len(v) + Len(r)
    BY <1>1, ConcatProperties
  <2> QED  BY <1>2, <2>1, <2>2, <2>3
<1> HIDE DEF t, v
<1>5. Len(t \o u) = 3 * (k + 1) /\ InOrder(t \o u, h)
  BY <1>1, <1>3, MessageInOrder
<1>6. w \o u = v
  BY DEF v
<1> QED  BY <1>1, <1>4, <1>5, <1>6 DEF MoreUnits

LEMMA SentFlows ==
    ASSUME NEW S, NEW r \in Seq(S), NEW w \in Seq(S), NEW s \in Nat, NEW h \in Nat,
           NEW max \in Nat, NEW split \in BOOLEAN, Flows(r, w, s, h, split, max),
           NEW u \in Seq(S), MessageUnits(u, s + 1), Len(w \o r) + 3 <= max
    PROVE  w \o u \in Seq(S) /\ Flows(r, w \o u, s + 1, h, split, max)
<1>1. PICK k \in Nat : s = h + k /\ Len(r \o w) = 3 * k
  BY DEF Flows
<1>2. MoreUnits(S, r, w, u, k, h)
  <2>1. MessageUnits(u, h + k + 1) /\ InOrder(r \o w, h)
    BY <1>1 DEF Flows
  <2> QED  BY <1>1, <2>1, UnitsAdded
<1>3. s + 1 = h + (k + 1) /\ k + 1 \in Nat
  BY <1>1
<1> QED  BY <1>2, <1>3 DEF MoreUnits, Flows

\* Lengths do not depend on the order.
LEMMA LenSwap ==
    ASSUME NEW S, NEW r \in Seq(S), NEW w \in Seq(S)
    PROVE  Len(w \o r) = Len(r \o w) /\ Len(r \o w) \in Nat /\ r \o w \in Seq(S)
<1>1. Len(w \o r) = Len(w) + Len(r) /\ Len(r \o w) = Len(r) + Len(w) /\ r \o w \in Seq(S)
  BY ConcatProperties
<1>2. Len(w) \in Nat /\ Len(r) \in Nat
  BY LenProperties
<1> QED  BY <1>1, <1>2

Flowing(S, r, w, s, h, split, max) ==
    r \in Seq(S) /\ w \in Seq(S) /\ Flows(r, w, s, h, split, max)

LEMMA KeptFlows ==
    ASSUME NEW S, NEW r \in Seq(S), NEW w \in Seq(S), NEW s \in Nat, NEW h \in Nat,
           NEW max \in Nat, NEW split \in BOOLEAN, Flows(r, w, s, h, split, max),
           NEW n \in 1 .. Len(w), NEW later \in BOOLEAN,
           G!Markers(SubSeq(w, 1, n)) = {},
           ~later => ~split /\ ~G!CutMarker(SubSeq(w, 1, n))
    PROVE  Flowing(S, r \o SubSeq(w, 1, n), SubSeq(w, n + 1, Len(w)), s, h, later, max)
<1> DEFINE a == SubSeq(w, 1, n)
           all == r \o a
           rest == SubSeq(w, n + 1, Len(w))
<1>1. a \in Seq(S) /\ rest \in Seq(S) /\ all \o rest = r \o w
  <2>1. ChunkOf(S, r, w, n)
    BY ChunkParts
  <2> QED  BY <2>1 DEF ChunkOf
<1>2. ~later => NoEnd(all)
  BY KeptHasNoEnd DEF Flows
<1> HIDE DEF a, rest
<1>3. all \in Seq(S)
  BY <1>1, ConcatProperties
<1> HIDE DEF all
<1>4. Len(rest \o all) = Len(w \o r)
  BY <1>1, <1>3, LenSwap
<1>5. Flows(all, rest, s, h, later, max)
  BY <1>1, <1>2, <1>4 DEF Flows
<1> QED  BY <1>1, <1>3, <1>5 DEF all, rest, a, Flowing

LEMMA HandledFlows ==
    ASSUME NEW S, NEW r \in Seq(S), NEW w \in Seq(S), NEW s \in Nat, NEW h \in Nat,
           NEW max \in Nat, NEW split \in BOOLEAN, Flows(r, w, s, h, split, max),
           NEW n \in 1 .. Len(w), NEW later \in BOOLEAN,
           G!Markers(SubSeq(w, 1, n)) # {},
           ~later => /\ ~split /\ ~G!CutMarker(SubSeq(w, 1, n))
                     /\ ~(\E i, j \in G!Markers(SubSeq(w, 1, n)) : i # j)
    PROVE  Flowing(S, G!AfterMessage(r \o SubSeq(w, 1, n)), SubSeq(w, n + 1, Len(w)),
                   s, h + 1, later, max)
<1> DEFINE a == SubSeq(w, 1, n)
           all == r \o a
           left == SubSeq(all, 4, Len(all))
           rest == SubSeq(w, n + 1, Len(w))
           t == r \o w
           after == SubSeq(t, 4, Len(t))
<1>1. Len(all) >= 3 /\ (~later => NoEnd(left))
  BY HandledHasNoEnd DEF Flows
<1>2. left \in Seq(S) /\ rest \in Seq(S) /\ left \o rest = after
  <2>1. ChunkOf(S, r, w, n)
    BY ChunkParts
  <2> QED  BY <1>1, <2>1 DEF ChunkOf
<1>3. PICK k \in Nat : s = h + k /\ Len(t) = 3 * k
  BY DEF Flows
<1>4. Len(t) >= 3
  <2>1. a \in Seq(S) /\ rest \in Seq(S) /\ all \o rest = t
    <3>1. ChunkOf(S, r, w, n)
      BY ChunkParts
    <3> QED  BY <3>1 DEF ChunkOf
  <2> HIDE DEF a, rest, t
  <2>2. all \in Seq(S)
    BY <2>1, ConcatProperties
  <2> HIDE DEF all
  <2>3. Len(t) = Len(all) + Len(rest) /\ Len(rest) \in Nat /\ Len(all) \in Nat
    BY <2>1, <2>2, ConcatProperties, LenProperties
  <2> QED  BY <1>1, <2>3
<1>5. t \in Seq(S) /\ Len(w \o r) = Len(t) /\ InOrder(t, h) /\ Len(w \o r) <= max
  BY LenSwap DEF Flows
<1>6. left = G!AfterMessage(r \o SubSeq(w, 1, n))
  BY DEF G!AfterMessage
<1> HIDE DEF left, rest, t
<1>7. Len(after) = Len(t) - 3 /\ InOrder(after, h + 1)
  BY <1>4, <1>5, RestInOrder
<1> HIDE DEF after
<1>8. Len(rest \o left) = Len(left \o rest)
  BY <1>2, LenSwap
<1>9. s = h + 1 + (k - 1) /\ k - 1 \in Nat /\ Len(after) = 3 * (k - 1) /\ Len(after) <= max
  <2>1. k >= 1
    BY <1>3, <1>4
  <2> QED  BY <1>3, <1>5, <1>7, <2>1
<1>10. Flows(left, rest, s, h + 1, later, max)
  BY <1>1, <1>2, <1>7, <1>8, <1>9 DEF Flows
<1> QED  BY <1>2, <1>6, <1>10 DEF rest, Flowing

----------------------------------------------------------------------------
(***************************************************************************)
(* The data.  A row is text of words that were sent, with a name for every *)
(* key; one that was given no empty value has a value for every key.       *)
(***************************************************************************)
Valued(s) == s \in Seq(G!Word \ {G!Blank}) /\ \E k \in Nat : Len(s) = 2 * k

LoginsOK ==
    /\ profileid \in [Conn -> Profile \union {Nobody}]
    /\ ticket \in [Profile -> {"login", "gone", G!Blank}]
    /\ failures \in 0 .. MaxFailures

RowsOK ==
    /\ DOMAIN stored \subseteq G!Row /\ hollow \subseteq G!Row
    /\ \A r \in DOMAIN stored : /\ stored[r] \in Seq(G!Word) /\ NamedKeys(stored[r])
                                /\ r \notin hollow => Valued(stored[r])

\* Of a row that PostgreSQL did not fail, a read shows what was reported saved.
AckedOK ==
    /\ failed \subseteq G!Row
    /\ acked \in [G!Row -> [Key -> G!Word \union {G!Blank}]]
    /\ \A r \in G!Row \ failed : \A k \in Key : G!Shown(r, k) = acked[r][k]

DataOK == LoginsOK /\ RowsOK /\ AckedOK

LEMMA SeqOfMore ==
    ASSUME NEW S, NEW W, S \subseteq W, NEW s \in Seq(S)
    PROVE  s \in Seq(W)
<1> DEFINE n == Len(s)
<1>1. n \in Nat /\ s \in [1 .. n -> S]
  BY LenProperties
<1> HIDE DEF n
<1>2. s \in [1 .. n -> W]
  BY <1>1
<1> QED  BY <1>1, <1>2, SeqDef

\* What games save.
SaveOK(m) ==
    /\ m.row \in G!Row /\ m.words \in Seq(G!Word) /\ NamedKeys(m.words)
    /\ \E k \in Nat : Len(m.words) = 2 * k
    /\ G!Blank \notin G!ToSet(m.words) => Valued(m.words)

LEMMA SavesAreOK ==
    ASSUME NEW c \in Conn, NEW m \in Message[c], m.cmd = "setpd"
    PROVE  SaveOK(m)
<1> DEFINE S == G!ToSet(m.words)
           n == Len(m.words)
<1>1. /\ m.row \in G!Row /\ m.words \in Seq(S) /\ n % 2 = 0
      /\ \A i \in 1 .. n : i % 2 = 1 => m.words[i] # G!Blank
  BY GamestatsAssumption DEF G!ConstantsOK
<1>2. S \subseteq G!Word
  <2>1. Message[c] \in G!Range(Message)
    BY GamestatsAssumption DEF G!ConstantsOK, G!Range
  <2>2. m \in UNION G!Range(Message)
    BY <2>1
  <2> QED  BY <2>2 DEF G!Word
<1> HIDE DEF S
<1>3. m.words \in Seq(G!Word)
  BY <1>1, <1>2, SeqOfMore
<1>4. n \in Nat
  BY <1>1, LenProperties
<1> HIDE DEF n
<1>5. \E k \in Nat : n = 2 * k
  <2>1. n \div 2 \in Nat /\ n = 2 * (n \div 2)
    BY <1>1, <1>4
  <2> QED  BY <2>1
<1>6. NamedKeys(m.words)
  <2> SUFFICES ASSUME NEW i \in Nat, i >= 1, 2 * i - 1 <= n
               PROVE  m.words[2 * i - 1] # G!Blank
    BY DEF NamedKeys, n
  <2> DEFINE j == 2 * i - 1
  <2>1. j \in 1 .. n /\ j % 2 = 1
    BY <1>4
  <2> HIDE DEF j
  <2>2. m.words[j] # G!Blank
    BY <1>1, <2>1
  <2> QED  BY <2>2 DEF j
<1>7. G!Blank \notin S => m.words \in Seq(G!Word \ {G!Blank})
  <2> SUFFICES ASSUME G!Blank \notin S PROVE m.words \in Seq(G!Word \ {G!Blank})
    OBVIOUS
  <2>1. S \subseteq G!Word \ {G!Blank}
    BY <1>2
  <2> QED  BY <1>1, <2>1, SeqOfMore
<1> QED  BY <1>1, <1>3, <1>5, <1>6, <1>7 DEF SaveOK, Valued, n, S

LEMMA LookType ==
    ASSUME NEW W, NEW ws \in Seq(W), NEW x
    PROVE  /\ Look(ws, x) \in W \union {G!Blank}
           /\ G!Contains(G!Keys(ws), x) => G!Value(ws, x) \in W
<1>1. PICK m \in Nat : HalfOf(ws, m)
  BY HalfExists
<1>2. CASE ~Has(ws, m, x)
  BY <1>1, <1>2, LookIs
<1>3. CASE Has(ws, m, x)
  <2>1. PICK i : At(ws, m, x, i)
    BY <1>1, <1>3, AtExists
  <2>2. Look(ws, x) = ws[2 * i] /\ i \in 1 .. m /\ G!Contains(G!Keys(ws), x)
    <3>1. Look(ws, x) = ws[2 * i]
      BY <1>1, <2>1, LookIs
    <3>2. G!Contains(G!Keys(ws), x)
      BY <1>1, <1>3, LookIs
    <3> QED  BY <2>1, <3>1, <3>2 DEF At
  <2>3. 2 * i \in 1 .. Len(ws)
    <3> DEFINE n == Len(ws)
    <3>1. n = 2 * m \/ n = 2 * m + 1
      BY <1>1 DEF HalfOf
    <3> HIDE DEF n
    <3>2. 2 * i \in 1 .. n
      BY <2>2, <3>1
    <3> QED  BY <3>2 DEF n
  <2>4. ws[2 * i] \in W
    BY <2>3, ElementOfSeq
  <2> QED  BY <2>2, <2>4 DEF Look
<1> QED  BY <1>2, <1>3

(***************************************************************************)
(* A row after a save.                                                     *)
(***************************************************************************)
SavedOK(s, r, ws) ==
    /\ s \in Seq(G!Word) /\ NamedKeys(s)
    /\ r \notin hollow /\ Valued(ws) => Valued(s)
    /\ \A k : Look(s, k) =
                 CASE ws = <<>> -> G!Blank
                   [] ws # <<>> /\ G!Contains(G!Keys(G!Stripped(ws)), k) -> G!Value(G!Stripped(ws), k)
                   [] OTHER -> IF r \in DOMAIN stored THEN Look(stored[r], k) ELSE G!Blank

LEMMA SavedDoes ==
    ASSUME RowsOK, NEW r \in G!Row, NEW ws \in Seq(G!Word), NamedKeys(ws)
    PROVE  SavedOK(G!Saved(r, ws), r, ws)
<1> DEFINE new == G!Stripped(ws)
           old == stored[r]
<1>1. StrippedOf(ws, G!Word, new)
  BY StrippedIs
<1>2. Valued(ws) => Valued(new)
  <2> SUFFICES ASSUME Valued(ws) PROVE Valued(new)
    OBVIOUS
  <2>1. ws \in Seq(G!Word \ {G!Blank})
    BY DEF Valued
  <2>2. StrippedOf(ws, G!Word \ {G!Blank}, new)
    BY <2>1, StrippedIs
  <2> HIDE DEF new
  <2>3. new = ws
    BY <2>1, <2>2, StrippedKeeps
  <2> QED  BY <2>3
<1>3. G!Saved(r, ws) = IF r \in DOMAIN stored /\ new # <<>> THEN G!Merge(old, new) ELSE new
  BY DEF G!Saved
<1> HIDE DEF new
<1>4. new \in Seq(G!Word) /\ NamedKeys(new) /\ (new = <<>> <=> ws = <<>>)
  <2>1. NamedKeys(new) /\ (new = <<>> => ws = <<>>)
    BY <1>1, StrippedKeeps
  <2>2. ws = <<>> => new = <<>>
    <3> SUFFICES ASSUME ws = <<>> PROVE new = <<>>
      OBVIOUS
    <3>1. Len(ws) = 0
      OBVIOUS
    <3>2. new \in Seq(G!Word) /\ Len(new) \in Nat /\ Len(new) <= Len(ws)
      BY <1>1, LenProperties DEF StrippedOf
    <3>3. Len(new) = 0
      BY <3>1, <3>2
    <3> QED  BY <3>2, <3>3, EmptySeq
  <2> QED  BY <1>1, <2>1, <2>2 DEF StrippedOf
<1>5. PICK n \in Nat : HalfOf(new, n)
  BY <1>4, HalfExists
<1>6. \A k : /\ Look(new, k) = IF G!Contains(G!Keys(new), k) THEN G!Value(new, k) ELSE G!Blank
             /\ G!Contains(G!Keys(new), k) <=> Has(new, n, k)
  BY <1>5, LookIs DEF Look
<1>7. CASE r \in DOMAIN stored /\ new # <<>>
  <2>1. old \in Seq(G!Word) /\ NamedKeys(old) /\ (r \notin hollow => Valued(old))
    BY <1>7 DEF RowsOK
  <2>2. MergeOK(G!Merge(old, new), G!Word, old, new, n)
    BY <1>4, <1>5, <2>1, MergeDoes
  <2>3. r \notin hollow /\ Valued(ws) => Valued(G!Merge(old, new))
    <3> SUFFICES ASSUME r \notin hollow, Valued(ws) PROVE Valued(G!Merge(old, new))
      OBVIOUS
    <3> DEFINE W == G!Word \ {G!Blank}
    <3>1. old \in Seq(W) /\ new \in Seq(W) /\ G!Blank \notin W
      BY <1>2, <2>1 DEF Valued
    <3> HIDE DEF W
    <3>2. MergeOK(G!Merge(old, new), W, old, new, n)
      BY <1>4, <1>5, <2>1, <3>1, MergeDoes
    <3> QED  BY <3>1, <3>2 DEF MergeOK, Valued, W
  <2>4. \A k : Look(G!Merge(old, new), k) =
                  IF G!Contains(G!Keys(new), k) THEN G!Value(new, k) ELSE Look(old, k)
    BY <1>6, <2>2 DEF MergeOK
  <2>5. G!Saved(r, ws) = G!Merge(old, new) /\ ws # <<>>
    BY <1>3, <1>4, <1>7
  <2> QED  BY <1>7, <2>2, <2>3, <2>4, <2>5 DEF SavedOK, MergeOK, new
<1>8. CASE ~(r \in DOMAIN stored /\ new # <<>>)
  <2>1. G!Saved(r, ws) = new
    BY <1>3, <1>8
  <2>2. ws = <<>> => \A k : Look(new, k) = G!Blank
    <3> SUFFICES ASSUME ws = <<>>, NEW k PROVE Look(new, k) = G!Blank
      OBVIOUS
    <3>1. new = <<>>
      BY <1>4
    <3>2. HalfOf(<<>>, 0) /\ ~Has(<<>>, 0, k)
      BY DEF HalfOf, Has
    <3> QED  BY <3>1, <3>2, LookIs
  <2>3. ws # <<>> => r \notin DOMAIN stored
    BY <1>4, <1>8
  <2>4. SavedOK(new, r, ws)
    BY <1>2, <1>4, <1>6, <2>2, <2>3 DEF SavedOK, new
  <2> QED  BY <2>1, <2>4
<1> QED  BY <1>7, <1>8

----------------------------------------------------------------------------
(***************************************************************************)
(* The steps, for the data.                                                *)
(***************************************************************************)
LEMMA ShownIs ==
    ASSUME NEW r, NEW k
    PROVE  G!Shown(r, k) = IF r \in DOMAIN stored THEN Look(stored[r], k) ELSE G!Blank
BY DEF G!Shown, Look

LEMMA DataStart == ASSUME G!Init PROVE DataOK
<1> USE DEF G!Init
<1>1. LoginsOK
  BY GamestatsAssumption DEF LoginsOK, G!ConstantsOK
<1>2. DOMAIN stored = {}
  OBVIOUS
<1>3. RowsOK
  BY <1>2 DEF RowsOK
<1>4. AckedOK
  <2>1. acked \in [G!Row -> [Key -> G!Word \union {G!Blank}]]
    OBVIOUS
  <2>2. \A r \in G!Row : \A k \in Key : G!Shown(r, k) = acked[r][k]
    BY <1>2, ShownIs
  <2> QED  BY <2>1, <2>2 DEF AckedOK
<1> QED  BY <1>1, <1>3, <1>4 DEF DataOK

\* A step that leaves the rows and the reports alone.
LEMMA RowsKept ==
    ASSUME DataOK, LoginsOK', UNCHANGED <<stored, acked, hollow, failed>>
    PROVE  DataOK'
<1>1. RowsOK' /\ AckedOK'
  BY DEF DataOK, RowsOK, AckedOK, G!Shown
<1> QED  BY <1>1 DEF DataOK

LEMMA SendData ==
    ASSUME DataOK, NEW c \in Conn, NEW m, G!Send(c, m)
    PROVE  DataOK'
<1>1. UNCHANGED <<profileid, ticket, failures, stored, acked, hollow, failed>>
  BY DEF G!Send
<1> QED  BY <1>1, RowsKept DEF DataOK, LoginsOK

LEMMA WaitData ==
    ASSUME DataOK, NEW c \in Conn, NEW n, G!Wait(c, n)
    PROVE  DataOK'
<1>1. UNCHANGED <<profileid, ticket, failures, stored, acked, hollow, failed>>
  BY DEF G!Wait
<1> QED  BY <1>1, RowsKept DEF DataOK, LoginsOK

LEMMA RaiseData ==
    ASSUME DataOK, NEW c \in Conn, NEW n, G!Raise(c, n)
    PROVE  DataOK'
<1>1. UNCHANGED <<profileid, ticket, failures, stored, acked, hollow, failed>>
  BY DEF G!Raise
<1> QED  BY <1>1, RowsKept DEF DataOK, LoginsOK

LEMMA OtherData ==
    ASSUME DataOK, NEW c \in Conn, NEW n, G!Other(c, n)
    PROVE  DataOK'
<1>1. UNCHANGED <<profileid, ticket, failures, stored, acked, hollow, failed>>
  BY DEF G!Other
<1> QED  BY <1>1, RowsKept DEF DataOK, LoginsOK

LEMMA FailCounts ==
    ASSUME failures \in 0 .. MaxFailures, G!Fail
    PROVE  failures' \in 0 .. MaxFailures
BY GamestatsAssumption DEF G!Fail, G!ConstantsOK

LEMMA GetPdData ==
    ASSUME DataOK, NEW c \in Conn, NEW n, G!GetPd(c, n)
    PROVE  DataOK'
<1>1. /\ UNCHANGED <<profileid, ticket, stored, acked, hollow, failed>>
      /\ failures' = failures \/ G!Fail
  BY DEF G!GetPd
<1>2. LoginsOK'
  BY <1>1, FailCounts DEF DataOK, LoginsOK
<1> QED  BY <1>1, <1>2, RowsKept

LEMMA AuthpData ==
    ASSUME DataOK, NEW c \in Conn, NEW n, G!Authp(c, n)
    PROVE  DataOK'
<1>1. UNCHANGED <<stored, acked, hollow, failed>>
  BY DEF G!Authp
<1>2. PICK m \in Login[c] :
        \/ m.profile = Nobody /\ UNCHANGED <<profileid, ticket, failures>>
        \/ /\ m.profile # Nobody
           /\ profileid' = [profileid EXCEPT ![c] = m.profile]
           /\ ticket' = [ticket EXCEPT ![m.profile] = G!Blank]
           /\ UNCHANGED failures
        \/ /\ m.profile # Nobody /\ G!Fail
           /\ ticket' \in {ticket, [ticket EXCEPT ![m.profile] = "gone"]}
           /\ UNCHANGED profileid
  BY DEF G!Authp
<1>3. m.profile \in Profile \union {Nobody}
  BY GamestatsAssumption DEF G!ConstantsOK
<1>4. LoginsOK
  BY DEF DataOK
<1>5. LoginsOK'
  <2>1. CASE m.profile = Nobody /\ UNCHANGED <<profileid, ticket, failures>>
    BY <1>4, <2>1 DEF LoginsOK
  <2>2. CASE /\ m.profile # Nobody
             /\ profileid' = [profileid EXCEPT ![c] = m.profile]
             /\ ticket' = [ticket EXCEPT ![m.profile] = G!Blank]
             /\ UNCHANGED failures
    BY <1>3, <1>4, <2>2 DEF LoginsOK
  <2>3. CASE /\ m.profile # Nobody /\ G!Fail
             /\ ticket' \in {ticket, [ticket EXCEPT ![m.profile] = "gone"]}
             /\ UNCHANGED profileid
    BY <1>3, <1>4, <2>3, FailCounts DEF LoginsOK
  <2> QED  BY <1>2, <2>1, <2>2, <2>3
<1> QED  BY <1>1, <1>5, RowsKept

(***************************************************************************)
(* A save answers before it reads and writes, and what it reports is what  *)
(* the row shows then, unless PostgreSQL fails.                            *)
(***************************************************************************)
LEMMA ReportTypes ==
    ASSUME AckedOK, NEW r \in G!Row, NEW ws \in Seq(G!Word)
    PROVE  /\ G!Report(r, ws) \in [G!Row -> [Key -> G!Word \union {G!Blank}]]
           /\ \A q \in G!Row \ {r} : G!Report(r, ws)[q] = acked[q]
           /\ \A k \in Key : G!Report(r, ws)[r][k] =
                 CASE ws = <<>> -> G!Blank
                   [] ws # <<>> /\ G!Contains(G!Keys(G!Stripped(ws)), k) -> G!Value(G!Stripped(ws), k)
                   [] OTHER -> acked[r][k]
<1> DEFINE new == G!Stripped(ws)
           row == [k \in Key |->
                    CASE ws = <<>> -> G!Blank
                      [] ws # <<>> /\ G!Contains(G!Keys(new), k) -> G!Value(new, k)
                      [] OTHER -> acked[r][k]]
<1>1. new \in Seq(G!Word)
  BY StrippedIs DEF StrippedOf
<1>2. acked \in [G!Row -> [Key -> G!Word \union {G!Blank}]]
  BY DEF AckedOK
<1>3. G!Report(r, ws) = [acked EXCEPT ![r] = row]
  BY DEF G!Report
<1> HIDE DEF new
<1>4. row \in [Key -> G!Word \union {G!Blank}]
  BY <1>1, <1>2, LookType
<1>5. \A k \in Key : row[k] =
                 CASE ws = <<>> -> G!Blank
                   [] ws # <<>> /\ G!Contains(G!Keys(new), k) -> G!Value(new, k)
                   [] OTHER -> acked[r][k]
  OBVIOUS
<1> HIDE DEF row
<1>6. /\ G!Report(r, ws) \in [G!Row -> [Key -> G!Word \union {G!Blank}]]
      /\ \A q \in G!Row \ {r} : G!Report(r, ws)[q] = acked[q]
      /\ G!Report(r, ws)[r] = row
  BY <1>2, <1>3, <1>4
<1> QED  BY <1>5, <1>6 DEF new

LEMMA SetPdData ==
    ASSUME DataOK, NEW c \in Conn, NEW n, G!SetPd(c, n)
    PROVE  DataOK'
<1>1. PICK m \in Message[c] :
        LET mine == m.row[1] = profileid[c]
        IN  /\ m.cmd = "setpd"
            /\ acked' = IF mine THEN G!Report(m.row, m.words) ELSE acked
            /\ hollow' = IF mine /\ G!Blank \in G!ToSet(m.words) THEN hollow \union {m.row} ELSE hollow
            /\ \/ ~mine /\ UNCHANGED <<stored, failures, failed>>
               \/ /\ mine
                  /\ stored' = [r \in DOMAIN stored \union {m.row} |->
                                   IF r = m.row THEN G!Saved(r, m.words) ELSE stored[r]]
                  /\ UNCHANGED <<failures, failed>>
               \/ mine /\ G!Fail /\ failed' = failed \union {m.row} /\ UNCHANGED stored
            /\ UNCHANGED <<profileid, ticket>>
  BY DEF G!SetPd
<1> DEFINE mine == m.row[1] = profileid[c]
           row == m.row
           ws == m.words
<1>2. /\ row \in G!Row /\ ws \in Seq(G!Word) /\ NamedKeys(ws)
      /\ G!Blank \notin G!ToSet(ws) => Valued(ws)
  BY <1>1, SavesAreOK DEF SaveOK
<1>3. LoginsOK /\ RowsOK /\ AckedOK
  BY DEF DataOK
<1>4. LoginsOK'
  BY <1>1, <1>3, FailCounts DEF LoginsOK
<1>5. CASE ~mine
  <2>1. UNCHANGED <<stored, acked, hollow, failed>>
    BY <1>1, <1>5
  <2> QED  BY <1>4, <2>1, RowsKept
<1> HIDE DEF mine, row, ws
<1>6. mine => /\ acked' = G!Report(row, ws)
              /\ hollow' = IF G!Blank \in G!ToSet(ws) THEN hollow \union {row} ELSE hollow
              /\ \/ stored' = [r \in DOMAIN stored \union {row} |->
                                  IF r = row THEN G!Saved(r, ws) ELSE stored[r]] /\ failed' = failed
                 \/ failed' = failed \union {row} /\ stored' = stored
  BY <1>1 DEF mine, row, ws
<1>7. /\ G!Report(row, ws) \in [G!Row -> [Key -> G!Word \union {G!Blank}]]
      /\ \A q \in G!Row \ {row} : G!Report(row, ws)[q] = acked[q]
  BY <1>2, <1>3, ReportTypes
<1>8. \A r : r \notin hollow' => r \notin hollow
  BY <1>1 DEF mine, row, ws
<1>9. CASE mine /\ failed' = failed \union {row} /\ stored' = stored
  <2>1. RowsOK'
    <3>1. hollow' \subseteq G!Row
      BY <1>2, <1>3, <1>6, <1>9 DEF RowsOK
    <3> QED  BY <1>3, <1>8, <1>9, <3>1 DEF RowsOK, Valued
  <2>2. AckedOK'
    <3>1. ASSUME NEW r \in G!Row \ failed', NEW k \in Key
          PROVE  G!Shown(r, k)' = acked'[r][k]
      <4>1. r \in G!Row \ failed /\ r \in G!Row \ {row}
        BY <1>9
      <4>2. G!Shown(r, k)' = G!Shown(r, k)
        BY <1>9 DEF G!Shown
      <4> QED  BY <1>3, <1>6, <1>7, <1>9, <4>1, <4>2 DEF AckedOK
    <3>2. failed' \subseteq G!Row /\ acked' \in [G!Row -> [Key -> G!Word \union {G!Blank}]]
      BY <1>2, <1>3, <1>6, <1>7, <1>9 DEF AckedOK
    <3> QED  BY <3>1, <3>2 DEF AckedOK
  <2> QED  BY <1>4, <2>1, <2>2 DEF DataOK
<1>10. CASE /\ mine /\ failed' = failed
            /\ stored' = [r \in DOMAIN stored \union {row} |->
                             IF r = row THEN G!Saved(r, ws) ELSE stored[r]]
  <2> DEFINE new == G!Saved(row, ws)
  <2>1. SavedOK(new, row, ws)
    BY <1>2, <1>3, SavedDoes
  <2> HIDE DEF new
  <2>2. /\ DOMAIN stored' = DOMAIN stored \union {row} /\ stored'[row] = new
        /\ \A r \in DOMAIN stored \ {row} : stored'[r] = stored[r]
    BY <1>10 DEF new
  <2>3. RowsOK'
    <3>1. hollow' \subseteq G!Row /\ DOMAIN stored' \subseteq G!Row
      BY <1>2, <1>3, <1>6, <1>10, <2>2 DEF RowsOK
    <3>2. row \notin hollow' => Valued(new)
      BY <1>2, <1>6, <1>8, <1>10, <2>1 DEF SavedOK
    <3>3. ASSUME NEW r \in DOMAIN stored'
          PROVE  /\ stored'[r] \in Seq(G!Word) /\ NamedKeys(stored'[r])
                 /\ r \notin hollow' => Valued(stored'[r])
      <4>1. CASE r = row
        BY <2>1, <2>2, <3>2, <4>1 DEF SavedOK
      <4>2. CASE r # row
        BY <1>3, <1>8, <2>2, <4>2 DEF RowsOK
      <4> QED  BY <4>1, <4>2
    <3> QED  BY <3>1, <3>3 DEF RowsOK, Valued, NamedKeys
  <2>4. AckedOK'
    <3>1. ASSUME NEW r \in G!Row \ failed', NEW k \in Key
          PROVE  G!Shown(r, k)' = acked'[r][k]
      <4>1. r \in G!Row \ failed /\ G!Shown(r, k) = acked[r][k]
        BY <1>3, <1>10 DEF AckedOK
      <4>2. CASE r # row
        <5>1. G!Shown(r, k)' = G!Shown(r, k)
          BY <2>2, <4>2 DEF G!Shown
        <5> QED  BY <1>6, <1>7, <1>10, <4>1, <4>2, <5>1
      <4>3. CASE r = row
        <5>1. G!Shown(r, k)' = Look(new, k)
          BY <2>2, <4>3 DEF G!Shown, Look
        <5>2. acked'[r][k] =
                 CASE ws = <<>> -> G!Blank
                   [] ws # <<>> /\ G!Contains(G!Keys(G!Stripped(ws)), k) -> G!Value(G!Stripped(ws), k)
                   [] OTHER -> G!Shown(r, k)
          BY <1>2, <1>3, <1>6, <1>10, <4>1, <4>3, ReportTypes
        <5>3. G!Shown(r, k) = IF row \in DOMAIN stored THEN Look(stored[row], k) ELSE G!Blank
          BY <4>3, ShownIs
        <5> QED  BY <2>1, <5>1, <5>2, <5>3 DEF SavedOK
      <4> QED  BY <4>2, <4>3
    <3>2. failed' \subseteq G!Row /\ acked' \in [G!Row -> [Key -> G!Word \union {G!Blank}]]
      BY <1>3, <1>6, <1>7, <1>10 DEF AckedOK
    <3> QED  BY <3>1, <3>2 DEF AckedOK
  <2> QED  BY <1>4, <2>3, <2>4 DEF DataOK
<1> QED  BY <1>5, <1>6, <1>9, <1>10

LEMMA DataStep == ASSUME DataOK, [G!Next]_(G!vars) PROVE DataOK'
<1>1. CASE UNCHANGED G!vars
  <2>1. UNCHANGED <<profileid, ticket, failures, stored, acked, hollow, failed>>
    BY <1>1 DEF G!vars, G!history
  <2> QED  BY <2>1, RowsKept DEF DataOK, LoginsOK
<1>2. CASE G!Next
  <2>1. PICK c \in Conn : \/ \E m \in Login[c] \union Message[c] : G!Send(c, m)
                          \/ \E n \in 1 .. Len(wire[c]) : G!Receive(c, n)
    BY <1>2 DEF G!Next
  <2> QED  BY <2>1, SendData, WaitData, RaiseData, OtherData, AuthpData, SetPdData, GetPdData DEF G!Receive
<1> QED  BY <1>1, <1>2

(***************************************************************************)
(* The data of players is right always, however TCP brings what is saved.  *)
(***************************************************************************)
THEOREM DataInvariance == G!Spec => []DataOK
<1>1. G!Init => DataOK
  BY DataStart
<1>2. DataOK /\ [G!Next]_(G!vars) => DataOK'
  BY DataStep
<1> QED  BY <1>1, <1>2, PTL DEF G!Spec

(***************************************************************************)
(* For any players, games and rows, any messages, any split of a stream    *)
(* and any number of saves: what perform_getpd reads is what perform_setpd *)
(* last reported saved, unless PostgreSQL failed, and a row can be         *)
(* unreadable only after an empty value.                                   *)
(***************************************************************************)
THEOREM ReadsShowReports == G!Spec => []ReadsAreCurrent
<1>1. DataOK => ReadsAreCurrent
  <2> SUFFICES ASSUME DataOK, NEW r \in G!Row \ failed
               PROVE  /\ ~G!Readable(r) => r \in hollow
                      /\ G!Readable(r) => \A k \in Key : G!Shown(r, k) = acked[r][k]
    BY DEF ReadsAreCurrent, G!ReadsAreCurrent
  <2>1. ~G!Readable(r) => r \in hollow
    <3> SUFFICES ASSUME r \in DOMAIN stored, r \notin hollow PROVE Len(stored[r]) % 2 = 0
      BY DEF G!Readable
    <3> DEFINE n == Len(stored[r])
    <3>1. PICK k \in Nat : n = 2 * k
      BY DEF DataOK, RowsOK, Valued
    <3> HIDE DEF n
    <3>2. n % 2 = 0
      BY <3>1
    <3> QED  BY <3>2 DEF n
  <2> QED  BY <2>1 DEF DataOK, AckedOK
<1> QED  BY <1>1, DataInvariance, PTL

----------------------------------------------------------------------------
(***************************************************************************)
(* The steps, for the streams.                                             *)
(***************************************************************************)
Unit == (UNION {Login[c] \union Message[c] : c \in Conn}) \X (1 .. 3) \X Nat

\* Where bytes and text do not mix nothing is kept and nothing is handled.
Deaf(r, w, h, max) == r = <<>> /\ h = 0 /\ Len(w \o r) <= max

StreamsOK ==
    /\ wire \in [Conn -> Seq(Unit)] /\ remaining \in [Conn -> Seq(Unit)]
    /\ sent \in [Conn -> Nat] /\ handled \in [Conn -> Nat]
    /\ odd \subseteq Conn /\ raised \subseteq Conn /\ mixes \in BOOLEAN
    /\ \A c \in Conn : mixes \/ Deaf(remaining[c], wire[c], handled[c], MaxPending[c])
    /\ \A c \in Conn : mixes => c \notin raised
    /\ \A c \in Conn \ raised :
          Flows(remaining[c], wire[c], sent[c], handled[c], c \in odd, MaxPending[c])

LEMMA StreamsStart == ASSUME G!Init PROVE StreamsOK
<1>1. <<>> \in Seq(Unit) /\ <<>> \o <<>> = <<>> /\ Len(<<>>) = 0
  BY ConcatEmptySeq
<1>2. ASSUME NEW c \in Conn
      PROVE  /\ Flows(remaining[c], wire[c], sent[c], handled[c], c \in odd, MaxPending[c])
             /\ Deaf(remaining[c], wire[c], handled[c], MaxPending[c])
  <2>1. \A split \in BOOLEAN : Flows(<<>>, <<>>, 0, 0, split, MaxPending[c])
    <3>1. \E k \in Nat : 0 = 0 + k /\ Len(<<>> \o <<>>) = 3 * k
      BY <1>1
    <3>2. MaxPending[c] \in Nat
      BY GamestatsAssumption DEF G!ConstantsOK
    <3> QED  BY <1>1, <3>1, <3>2 DEF Flows, InOrder, NoEnd
  <2>3. Deaf(<<>>, <<>>, 0, MaxPending[c])
    <3> DEFINE max == MaxPending[c]
    <3>1. max \in Nat
      BY GamestatsAssumption DEF G!ConstantsOK
    <3> HIDE DEF max
    <3>2. Len(<<>> \o <<>>) <= max
      BY <1>1, <3>1
    <3> QED  BY <3>2 DEF Deaf, max
  <2>2. /\ remaining[c] = <<>> /\ wire[c] = <<>> /\ sent[c] = 0 /\ handled[c] = 0
        /\ (c \in odd) \in BOOLEAN
    BY DEF G!Init
  <2> QED  BY <2>1, <2>2, <2>3, Zenon
<1> QED  BY <1>1, <1>2 DEF StreamsOK, G!Init

LEMMA StreamOfOne ==
    ASSUME StreamsOK, NEW c \in Conn,
           NEW r \in Seq(Unit), NEW w \in Seq(Unit), NEW s \in Nat, NEW h \in Nat,
           wire' = [wire EXCEPT ![c] = w], remaining' = [remaining EXCEPT ![c] = r],
           sent' = [sent EXCEPT ![c] = s], handled' = [handled EXCEPT ![c] = h],
           odd' = odd \/ odd' = odd \union {c}, raised' = raised, mixes' = mixes,
           mixes \/ Deaf(r, w, h, MaxPending[c]),
           c \notin raised => Flows(r, w, s, h, c \in odd', MaxPending[c])
    PROVE  StreamsOK'
<1>1. /\ wire' \in [Conn -> Seq(Unit)] /\ remaining' \in [Conn -> Seq(Unit)]
      /\ sent' \in [Conn -> Nat] /\ handled' \in [Conn -> Nat]
      /\ odd' \subseteq Conn /\ raised' \subseteq Conn /\ mixes' \in BOOLEAN
  BY DEF StreamsOK
<1>2. ASSUME NEW d \in Conn
      PROVE  /\ mixes' \/ Deaf(remaining'[d], wire'[d], handled'[d], MaxPending[d])
             /\ mixes' => d \notin raised'
             /\ d \notin raised' =>
                   Flows(remaining'[d], wire'[d], sent'[d], handled'[d], d \in odd', MaxPending[d])
  <2>1. CASE d = c
    <3>1. remaining'[d] = r /\ wire'[d] = w /\ sent'[d] = s /\ handled'[d] = h
      BY <2>1 DEF StreamsOK
    <3>2. mixes => d \notin raised
      BY DEF StreamsOK
    <3> QED  BY <2>1, <3>1, <3>2
  <2>2. CASE d # c
    <3>1. /\ remaining'[d] = remaining[d] /\ wire'[d] = wire[d]
          /\ sent'[d] = sent[d] /\ handled'[d] = handled[d] /\ (d \in odd' <=> d \in odd)
      BY <2>2 DEF StreamsOK
    <3>2. /\ mixes \/ Deaf(remaining[d], wire[d], handled[d], MaxPending[d])
          /\ mixes => d \notin raised
          /\ d \notin raised =>
                Flows(remaining[d], wire[d], sent[d], handled[d], d \in odd, MaxPending[d])
      BY DEF StreamsOK
    <3> QED  BY <3>1, <3>2 DEF Flows
  <2> QED  BY <2>1, <2>2
<1> QED  BY <1>1, <1>2 DEF StreamsOK

\* A chunk, and whether its connection is odd then.
LEMMA ChunkIs ==
    ASSUME NEW c \in Conn, NEW n, G!Chunk(c, n)
    PROVE  /\ n \in 1 .. Len(wire[c])
           /\ wire' = [wire EXCEPT ![c] = SubSeq(wire[c], n + 1, Len(wire[c]))]
           /\ odd' = odd \/ odd' = odd \union {c}
           /\ c \notin odd' => /\ c \notin odd /\ ~G!CutMarker(SubSeq(wire[c], 1, n))
                               /\ ~(\E i, j \in G!Markers(SubSeq(wire[c], 1, n)) : i # j)
BY DEF G!Chunk

\* A chunk that is lost.
LEMMA RaiseStreams ==
    ASSUME StreamsOK, NEW c \in Conn, NEW n, G!Raise(c, n)
    PROVE  StreamsOK'
<1> DEFINE rest == SubSeq(wire[c], n + 1, Len(wire[c]))
<1>1. /\ n \in 1 .. Len(wire[c]) /\ wire' = [wire EXCEPT ![c] = rest]
      /\ odd' = odd \/ odd' = odd \union {c}
  BY ChunkIs DEF G!Raise
<1>2. /\ ~mixes /\ mixes' = mixes /\ raised' = raised \union {c}
      /\ remaining' = remaining /\ sent' = sent /\ handled' = handled
  BY DEF G!Raise
<1>3. wire \in [Conn -> Seq(Unit)] /\ wire[c] \in Seq(Unit)
  BY DEF StreamsOK
<1>4. rest \in Seq(Unit) /\ Len(rest) <= Len(wire[c]) /\ rest \o <<>> = rest /\ wire[c] \o <<>> = wire[c]
  BY <1>1, <1>3, SubSeqProperties, ConcatEmptySeq, LenProperties
<1>5. MaxPending[c] \in Nat /\ Len(wire[c]) \in Nat /\ Len(rest) \in Nat
  BY <1>3, <1>4, GamestatsAssumption, LenProperties DEF G!ConstantsOK
<1>6. Deaf(remaining[c], wire[c], handled[c], MaxPending[c])
  BY <1>2 DEF StreamsOK
<1> HIDE DEF rest
<1>7. Deaf(remaining[c], rest, handled[c], MaxPending[c])
  BY <1>4, <1>5, <1>6 DEF Deaf
<1>8. /\ wire' \in [Conn -> Seq(Unit)] /\ remaining' \in [Conn -> Seq(Unit)]
      /\ sent' \in [Conn -> Nat] /\ handled' \in [Conn -> Nat]
      /\ odd' \subseteq Conn /\ raised' \subseteq Conn /\ mixes' \in BOOLEAN
  BY <1>1, <1>2, <1>3, <1>4 DEF StreamsOK
<1>9. ASSUME NEW d \in Conn
      PROVE  /\ Deaf(remaining'[d], wire'[d], handled'[d], MaxPending[d])
             /\ d \notin raised' =>
                   Flows(remaining'[d], wire'[d], sent'[d], handled'[d], d \in odd', MaxPending[d])
  <2>1. CASE d = c
    <3>1. wire'[d] = rest /\ d \in raised'
      BY <1>1, <1>2, <1>3, <2>1
    <3> QED  BY <1>2, <1>7, <2>1, <3>1
  <2>2. CASE d # c
    <3>1. /\ wire'[d] = wire[d] /\ (d \in odd' <=> d \in odd)
          /\ (d \in raised' <=> d \in raised)
      BY <1>1, <1>2, <1>3, <2>2
    <3>2. /\ Deaf(remaining[d], wire[d], handled[d], MaxPending[d])
          /\ d \notin raised =>
                Flows(remaining[d], wire[d], sent[d], handled[d], d \in odd, MaxPending[d])
      BY <1>2 DEF StreamsOK
    <3> QED  BY <1>2, <3>1, <3>2 DEF Flows
  <2> QED  BY <2>1, <2>2
<1> QED  BY <1>2, <1>8, <1>9 DEF StreamsOK

LEMMA SendStreams ==
    ASSUME StreamsOK, NEW c \in Conn, NEW m \in Login[c] \union Message[c], G!Send(c, m)
    PROVE  StreamsOK'
<1> DEFINE u == G!Units(m, sent[c] + 1)
           r == remaining[c]
           w == wire[c]
<1>1. /\ r \in Seq(Unit) /\ w \in Seq(Unit) /\ sent[c] \in Nat /\ handled[c] \in Nat
      /\ MaxPending[c] \in Nat
      /\ c \notin raised => Flows(r, w, sent[c], handled[c], c \in odd, MaxPending[c])
      /\ mixes \/ Deaf(r, w, handled[c], MaxPending[c])
  BY GamestatsAssumption DEF StreamsOK, G!ConstantsOK
<1>2. u \in Seq(Unit) /\ MessageUnits(u, sent[c] + 1)
  <2> DEFINE k == sent[c] + 1
  <2>1. k \in Nat
    BY <1>1
  <2> HIDE DEF k
  <2>2. \A i \in 1 .. 3 : <<m, i, k>> \in Unit
    BY <2>1 DEF Unit
  <2> DEFINE v == [i \in 1 .. 3 |-> <<m, i, k>>]
  <2>3. v \in [1 .. 3 -> Unit] /\ \A i \in 1 .. 3 : v[i] = <<m, i, k>>
    BY <2>2
  <2>4. u = v
    BY DEF G!Units, k
  <2> HIDE DEF v, u
  <2>5. v \in Seq(Unit) /\ Len(v) = 3
    <3> DEFINE n == 3
    <3>1. n \in Nat /\ v \in [1 .. n -> Unit]
      BY <2>3
    <3> HIDE DEF n
    <3>2. v \in Seq(Unit)
      BY <3>1, SeqDef
    <3>3. Len(v) = n
      BY <3>1, <3>2, LenProperties
    <3> QED  BY <3>2, <3>3 DEF n
  <2>6. \A i \in 1 .. 3 : v[i][2] = i /\ v[i][3] = k
    BY <2>3
  <2> QED  BY <2>4, <2>5, <2>6 DEF MessageUnits, k
<1>3. /\ wire' = [wire EXCEPT ![c] = w \o u] /\ sent' = [sent EXCEPT ![c] = sent[c] + 1]
      /\ remaining' = remaining /\ handled' = handled /\ odd' = odd
      /\ raised' = raised /\ mixes' = mixes
      /\ Len(w \o r) + 3 <= MaxPending[c]
  BY DEF G!Send
<1> HIDE DEF u, r, w
<1>4. (c \in odd) \in BOOLEAN
  OBVIOUS
<1>8. w \o u \in Seq(Unit)
  BY <1>1, <1>2, ConcatProperties
<1>9. mixes \/ Deaf(r, w \o u, handled[c], MaxPending[c])
  <2> SUFFICES ASSUME ~mixes PROVE Deaf(r, w \o u, handled[c], MaxPending[c])
    OBVIOUS
  <2>1. r = <<>> /\ handled[c] = 0
    BY <1>1 DEF Deaf
  <2>2. w \o <<>> = w
    BY <1>1, ConcatEmptySeq
  <2>3. (w \o u) \o <<>> = w \o u
    BY <1>8, ConcatEmptySeq
  <2>4. Len(w \o u) = Len(w) + 3
    <3>1. Len(u) = 3 /\ u \in Seq(Unit)
      BY <1>2 DEF MessageUnits
    <3>2. Len(w \o u) = Len(w) + Len(u)
      BY <1>1, <3>1, ConcatProperties
    <3> QED  BY <3>1, <3>2
  <2> DEFINE wu == w \o u
  <2>5. Len(w) + 3 <= MaxPending[c] /\ wu \o r = wu /\ Len(wu) = Len(w) + 3
    BY <1>3, <2>1, <2>2, <2>3, <2>4
  <2> HIDE DEF wu
  <2>6. Deaf(r, wu, handled[c], MaxPending[c])
    BY <2>1, <2>5 DEF Deaf
  <2> QED  BY <2>6 DEF wu
<1>5. ASSUME c \notin raised
      PROVE  Flows(r, w \o u, sent[c] + 1, handled[c], c \in odd, MaxPending[c])
  <2> DEFINE s == sent[c]
             h == handled[c]
             max == MaxPending[c]
             split == c \in odd
  <2>1. /\ s \in Nat /\ h \in Nat /\ max \in Nat /\ split \in BOOLEAN
        /\ Flows(r, w, s, h, split, max) /\ MessageUnits(u, s + 1) /\ Len(w \o r) + 3 <= max
    BY <1>1, <1>2, <1>3, <1>4, <1>5
  <2> HIDE DEF s, h, max, split
  <2>2. w \o u \in Seq(Unit) /\ Flows(r, w \o u, s + 1, h, split, max)
    BY <1>1, <1>2, <2>1, SentFlows
  <2> QED  BY <2>2 DEF s, h, max, split
<1>6. remaining' = [remaining EXCEPT ![c] = r] /\ handled' = [handled EXCEPT ![c] = handled[c]]
  BY <1>3 DEF StreamsOK, r
<1>7. /\ sent[c] + 1 \in Nat
      /\ c \notin raised => Flows(r, w \o u, sent[c] + 1, handled[c], c \in odd', MaxPending[c])
  BY <1>1, <1>3, <1>5
<1> QED  BY <1>1, <1>3, <1>6, <1>7, <1>8, <1>9, StreamOfOne

LEMMA WaitStreams ==
    ASSUME StreamsOK, NEW c \in Conn, NEW n, G!Wait(c, n)
    PROVE  StreamsOK'
<1> DEFINE r == remaining[c]
           w == wire[c]
           all == r \o SubSeq(w, 1, n)
           rest == SubSeq(w, n + 1, Len(w))
           max == MaxPending[c]
<1>6. mixes /\ c \notin raised /\ raised' = raised /\ mixes' = mixes
  BY DEF StreamsOK, G!Wait
<1>1. /\ r \in Seq(Unit) /\ w \in Seq(Unit) /\ sent[c] \in Nat /\ handled[c] \in Nat
      /\ max \in Nat /\ Flows(r, w, sent[c], handled[c], c \in odd, max)
  BY <1>6, GamestatsAssumption DEF StreamsOK, G!ConstantsOK
<1>2. /\ n \in 1 .. Len(w) /\ wire' = [wire EXCEPT ![c] = rest]
      /\ odd' = odd \/ odd' = odd \union {c}
      /\ c \notin odd' => c \notin odd /\ ~G!CutMarker(SubSeq(w, 1, n))
  BY ChunkIs DEF G!Wait
<1>3. /\ G!Markers(SubSeq(w, 1, n)) = {} /\ remaining' = [remaining EXCEPT ![c] = all]
      /\ sent' = sent /\ handled' = handled
  BY DEF G!Wait, G!Complete
<1> HIDE DEF r, w, max
<1>4. all \in Seq(Unit) /\ rest \in Seq(Unit) /\ Flows(all, rest, sent[c], handled[c], c \in odd', max)
  <2> DEFINE split == c \in odd
             later == c \in odd'
             s == sent[c]
             h == handled[c]
  <2>1. split \in BOOLEAN /\ later \in BOOLEAN /\ s \in Nat /\ h \in Nat
    BY <1>1
  <2>2. /\ Flows(r, w, s, h, split, max)
        /\ ~later => ~split /\ ~G!CutMarker(SubSeq(w, 1, n))
    BY <1>1, <1>2
  <2> HIDE DEF split, later, s, h
  <2>3. Flowing(Unit, all, rest, s, h, later, max)
    BY <1>1, <1>2, <1>3, <2>1, <2>2, KeptFlows
  <2> QED  BY <2>3 DEF later, s, h, Flowing
<1> HIDE DEF all, rest
<1>5. sent' = [sent EXCEPT ![c] = sent[c]] /\ handled' = [handled EXCEPT ![c] = handled[c]]
  BY <1>3 DEF StreamsOK
<1> QED  BY <1>1, <1>2, <1>3, <1>4, <1>5, <1>6, StreamOfOne DEF max

LEMMA HandleStreams ==
    ASSUME StreamsOK, NEW c \in Conn, NEW n, NEW m, G!Handle(c, n, m)
    PROVE  StreamsOK'
<1> DEFINE r == remaining[c]
           w == wire[c]
           all == G!AfterMessage(r \o SubSeq(w, 1, n))
           rest == SubSeq(w, n + 1, Len(w))
           max == MaxPending[c]
<1>6. mixes /\ c \notin raised /\ raised' = raised /\ mixes' = mixes
  BY DEF StreamsOK, G!Handle
<1>1. /\ r \in Seq(Unit) /\ w \in Seq(Unit) /\ sent[c] \in Nat /\ handled[c] \in Nat
      /\ max \in Nat /\ Flows(r, w, sent[c], handled[c], c \in odd, max)
  BY <1>6, GamestatsAssumption DEF StreamsOK, G!ConstantsOK
<1>2. /\ n \in 1 .. Len(w) /\ wire' = [wire EXCEPT ![c] = rest]
      /\ odd' = odd \/ odd' = odd \union {c}
      /\ c \notin odd' => /\ c \notin odd /\ ~G!CutMarker(SubSeq(w, 1, n))
                          /\ ~(\E i, j \in G!Markers(SubSeq(w, 1, n)) : i # j)
  BY ChunkIs DEF G!Handle
<1>3. /\ G!Markers(SubSeq(w, 1, n)) # {} /\ remaining' = [remaining EXCEPT ![c] = all]
      /\ sent' = sent /\ handled' = [handled EXCEPT ![c] = handled[c] + 1]
  BY DEF G!Handle, G!Complete
<1> HIDE DEF r, w, max
<1>4. /\ all \in Seq(Unit) /\ rest \in Seq(Unit)
      /\ Flows(all, rest, sent[c], handled[c] + 1, c \in odd', max)
  <2> DEFINE split == c \in odd
             later == c \in odd'
             s == sent[c]
             h == handled[c]
  <2>1. split \in BOOLEAN /\ later \in BOOLEAN /\ s \in Nat /\ h \in Nat
    BY <1>1
  <2>2. /\ Flows(r, w, s, h, split, max)
        /\ ~later => /\ ~split /\ ~G!CutMarker(SubSeq(w, 1, n))
                     /\ ~(\E i, j \in G!Markers(SubSeq(w, 1, n)) : i # j)
    BY <1>1, <1>2
  <2> HIDE DEF split, later, s, h
  <2>3. Flowing(Unit, all, rest, s, h + 1, later, max)
    BY <1>1, <1>2, <1>3, <2>1, <2>2, HandledFlows
  <2> QED  BY <2>3 DEF later, s, h, Flowing
<1> HIDE DEF all, rest
<1>5. sent' = [sent EXCEPT ![c] = sent[c]] /\ handled[c] + 1 \in Nat
  BY <1>1, <1>3 DEF StreamsOK
<1> QED  BY <1>1, <1>2, <1>3, <1>4, <1>5, <1>6, StreamOfOne DEF max

LEMMA StreamsStep == ASSUME StreamsOK, [G!Next]_(G!vars) PROVE StreamsOK'
<1>1. CASE UNCHANGED G!vars
  BY <1>1 DEF G!vars, G!history, StreamsOK, Flows, Deaf
<1>2. CASE G!Next
  <2>1. PICK c \in Conn : \/ \E m \in Login[c] \union Message[c] : G!Send(c, m)
                          \/ \E n \in 1 .. Len(wire[c]) : G!Receive(c, n)
    BY <1>2 DEF G!Next
  <2>2. CASE \E m \in Login[c] \union Message[c] : G!Send(c, m)
    BY <2>2, SendStreams
  <2>3. CASE \E n \in 1 .. Len(wire[c]) : G!Receive(c, n)
    <3>1. PICK n : G!Receive(c, n)
      BY <2>3
    <3>2. G!Wait(c, n) \/ G!Raise(c, n) \/ \E m : G!Handle(c, n, m)
      BY <3>1 DEF G!Receive, G!Other, G!Authp, G!SetPd, G!GetPd
    <3> QED  BY <3>2, WaitStreams, RaiseStreams, HandleStreams
  <2> QED  BY <2>1, <2>2, <2>3
<1> QED  BY <1>1, <1>2

\* No text is one empty word or more of them alone.
LEMMA NotOnlyBlank ==
    ASSUME NEW W, NEW s \in Seq(W), NamedKeys(s)
    PROVE  G!ToSet(s) # {G!Blank}
<1> SUFFICES ASSUME G!ToSet(s) = {G!Blank} PROVE FALSE
  OBVIOUS
<1>1. Len(s) \in Nat /\ DOMAIN s = 1 .. Len(s)
  BY LenProperties
<1>2. PICK i \in DOMAIN s : TRUE
  BY DEF G!ToSet
<1>3. 1 \in DOMAIN s /\ 2 * 1 - 1 = 1 /\ 1 <= Len(s)
  BY <1>1, <1>2
<1>4. s[1] # G!Blank
  BY <1>3 DEF NamedKeys
<1> QED  BY <1>3, <1>4 DEF G!ToSet

LEMMA TypesAreOK == ASSUME DataOK, StreamsOK PROVE G!TypeOK
<1>1. \A c \in Conn : /\ profileid[c] \in Profile \union {Nobody}
                      /\ Len(wire[c] \o remaining[c]) <= MaxPending[c]
  BY DEF DataOK, LoginsOK, StreamsOK, Flows, Deaf
<1>2. \A p \in Profile : ticket[p] \in {"login", "gone", G!Blank}
  BY DEF DataOK, LoginsOK
<1>3. DOMAIN stored \subseteq G!Row /\ hollow \subseteq G!Row /\ failed \subseteq G!Row
  BY DEF DataOK, RowsOK, AckedOK
<1>4. \A r \in DOMAIN stored : G!ToSet(stored[r]) # {G!Blank}
  BY NotOnlyBlank DEF DataOK, RowsOK
<1>5. /\ failures \in 0 .. MaxFailures
      /\ odd \subseteq Conn /\ raised \subseteq Conn /\ mixes \in BOOLEAN
  BY DEF DataOK, LoginsOK, StreamsOK
<1>6. acked \in [G!Row -> [Key -> G!Word \union {G!Blank}]]
  BY DEF DataOK, AckedOK
<1> QED  BY <1>1, <1>2, <1>3, <1>4, <1>5, <1>6 DEF G!TypeOK

(***************************************************************************)
(* For any games and messages, and any split of their streams by TCP:      *)
(* rawDataReceived hands over every message once, in order, and keeps a    *)
(* whole one waiting only after a chunk that cut a marker or brought two;  *)
(* or it raised for a chunk of the connection, which it does only where    *)
(* bytes and text do not mix, and then it handles nothing.                 *)
(***************************************************************************)
THEOREM NoMessageIsLost == G!Spec => []OnlySplitsLag
<1>1. DataOK /\ StreamsOK => OnlySplitsLag
  <2>0. ASSUME StreamsOK
        PROVE  \A c \in raised : ~mixes /\ handled[c] = 0 /\ remaining[c] = <<>>
    BY <2>0 DEF StreamsOK, Deaf
  <2> SUFFICES ASSUME DataOK, StreamsOK, NEW c \in Conn \ raised
               PROVE  /\ Len(G!Coming(c)) = 3 * (sent[c] - handled[c])
                      /\ \A i \in DOMAIN G!Coming(c) :
                            /\ G!Coming(c)[i][2] = ((i - 1) % 3) + 1
                            /\ G!Coming(c)[i][3] = handled[c] + ((i - 1) \div 3) + 1
                      /\ c \notin odd => \A i \in DOMAIN remaining[c] : remaining[c][i][2] # 3
    BY <2>0, TypesAreOK DEF OnlySplitsLag, G!OnlySplitsLag
  <2> DEFINE t == remaining[c] \o wire[c]
  <2>1. /\ remaining[c] \in Seq(Unit) /\ wire[c] \in Seq(Unit)
        /\ sent[c] \in Nat /\ handled[c] \in Nat
        /\ Flows(remaining[c], wire[c], sent[c], handled[c], c \in odd, MaxPending[c])
    BY DEF StreamsOK
  <2>2. t \in Seq(Unit)
    BY <2>1, ConcatProperties
  <2>3. G!Coming(c) = t
    BY DEF G!Coming
  <2>4. /\ \E k \in Nat : sent[c] = handled[c] + k /\ Len(t) = 3 * k
        /\ InOrder(t, handled[c]) /\ (c \notin odd => NoEnd(remaining[c]))
    BY <2>1 DEF Flows
  <2> HIDE DEF t
  <2>5. DOMAIN t = 1 .. Len(t) /\ DOMAIN remaining[c] = 1 .. Len(remaining[c])
    BY <2>1, <2>2, LenProperties
  <2>6. Len(t) = 3 * (sent[c] - handled[c])
    BY <2>1, <2>4
  <2>7. \A i \in DOMAIN t : /\ t[i][2] = ((i - 1) % 3) + 1
                            /\ t[i][3] = handled[c] + ((i - 1) \div 3) + 1
    BY <2>4, <2>5 DEF InOrder
  <2>8. c \notin odd => \A i \in DOMAIN remaining[c] : remaining[c][i][2] # 3
    BY <2>4, <2>5 DEF NoEnd
  <2> QED  BY <2>3, <2>6, <2>7, <2>8
<1>2. G!Init => StreamsOK
  BY StreamsStart
<1>3. StreamsOK /\ [G!Next]_(G!vars) => StreamsOK'
  BY StreamsStep
<1> QED  BY <1>1, <1>2, <1>3, DataInvariance, PTL DEF G!Spec

=============================================================================
