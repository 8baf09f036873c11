------------------------------- MODULE MftScan -------------------------------
(***************************************************************************)
(* What the readers of module Mft gather, and what is made of it            *)
(* (windows/src/ntfs.rs; windows/src/entry.rs): records are parsed as they   *)
(* lie on the disk and put in a table, in whatever order they come; once     *)
(* all are in, the extension records are folded into the files they extend   *)
(* and the tree under the scan root is sent, a Dir at a time.                *)
(*                                                                         *)
(* The volume may be changed while it is read: a record is then found as it  *)
(* was before or as it is after.  A file reference is <<record number,       *)
(* sequence number>>.                                                       *)
(***************************************************************************)
EXTENDS Mft, Sequences, FiniteSetsExt

CONSTANTS
    Room,        \* record_count
    PerRead,     \* how many records a read covers
    FirstUser,   \* FIRST_USER_RECORD: those below are NTFS's own, but for the root folder
    Volumes      \* each volume by its serial number: the files on it before and after it is
                 \* changed, and the root_reference of the folder to scan

Tag == {"none", "surrogate", "cloud"}
FileRef == Nat \X Nat
FileOnDisk ==
    [number : Nat, seq : Nat, dir : BOOLEAN, names : Seq([parent : FileRef, dos : BOOLEAN, in : Nat]),
     data_in : Nat, size : Nat, on_disk : Nat, sparse : BOOLEAN, mtime : Nat, recall : BOOLEAN,
     tag : Tag, tag_fits : BOOLEAN]

ASSUME VolumesAssumption ==
    /\ Room \in Nat /\ PerRead \in Nat /\ FirstUser \in Nat
    /\ 0 \notin DOMAIN Volumes
    /\ \A v \in DOMAIN Volumes :
         /\ Volumes[v].root \in FileRef
         /\ Volumes[v].before \cup Volumes[v].after \subseteq FileOnDisk

VARIABLES
    volume,          \* volume_serial
    got,             \* history: how each record was found
    records,         \* Mft::records
    extensions,      \* Mft::extensions
    plan,            \* the Dir events still to send
    sent             \* the Dir events sent

tableVars == <<volume, got, records, extensions, plan, sent>>
scanVars == <<vars, tableVars>>

before == Volumes[volume].before
after == Volumes[volume].after
root == Volumes[volume].root

Numbers == 0 .. Reads * PerRead - 1
Covers(i) == i * PerRead .. (i + 1) * PerRead - 1
Nothing == [kind |-> "nothing"]
NoFile == [kind |-> "none"]

(* A set of numbers, in order.                                              *)
Ascending(S) == [i \in 1 .. Cardinality(S) |-> CHOOSE n \in S : Cardinality({m \in S : m < n}) = i - 1]

-----------------------------------------------------------------------------
(* A volume                                                                 *)

(* A file's records: each attribute lies in the record it is said to be in, *)
(* the base record or an extension record of it.  A reparse tag too big to   *)
(* fit lies in none.  Streams of other names, and the later extents of this  *)
(* one, are there to be told apart.                                         *)
RecordNumbers(f) == {f.number, f.data_in} \cup {f.names[i].in : i \in DOMAIN f.names}

Attributes(f, n) ==
    LET here == Ascending({i \in DOMAIN f.names : f.names[i].in = n})
        data == [type |-> "data", unnamed |-> TRUE, first |-> n = f.data_in, sparse |-> f.sparse,
                 size |-> f.size, reserved |-> f.size, on_disk |-> f.on_disk]
        tag == [type |-> "reparse", tag |-> f.tag]
    IN (IF n # f.number THEN <<>>
        ELSE <<[type |-> "info", mtime |-> f.mtime, recall |-> f.recall, reparse |-> f.tag # "none"]>>)
       \o [i \in DOMAIN here |->
            [type |-> "name", parent |-> f.names[here[i]].parent, dos |-> f.names[here[i]].dos]]
       \o (IF f.dir THEN <<>> ELSE <<data, [data EXCEPT !.unnamed = FALSE, !.first = TRUE, !.size = 9]>>)
       \o (IF n = f.number /\ f.tag # "none" /\ f.tag_fits THEN <<tag>> ELSE <<>>)

Raw(f, n) ==
    [torn |-> FALSE, in_use |-> TRUE, dir |-> n = f.number /\ f.dir, seq |-> f.seq,
     base |-> IF n = f.number THEN <<>> ELSE <<f.number, f.seq>>,
     attributes |-> Attributes(f, n)]

Free == [torn |-> FALSE, in_use |-> FALSE, dir |-> FALSE, seq |-> 0, base |-> <<>>, attributes |-> <<>>]
Torn(raw) == [raw EXCEPT !.torn = TRUE]

OnDisk(files, n) ==
    IF \E f \in files : n \in RecordNumbers(f)
    THEN Raw(CHOOSE f \in files : n \in RecordNumbers(f), n)
    ELSE Free

Reference(f) == <<f.number, f.seq>>

(* A volume as NTFS keeps it, while nobody changes it: a record is of one   *)
(* file, in the table and covered by a read; a folder has one name, but for *)
(* a DOS name; and of NTFS's own files, which no folder lists, only the      *)
(* volume's root folder is here: its name is in itself.                      *)
Consistent(files) ==
    /\ \A f, g \in files : f # g => RecordNumbers(f) \cap RecordNumbers(g) = {}
    /\ \A f \in files :
         /\ RecordNumbers(f) \subseteq Numbers \cap 0 .. Room - 1
         /\ f.dir => \A i, j \in DOMAIN f.names : ~f.names[i].dos /\ ~f.names[j].dos => i = j
         /\ f.number < FirstUser => f.dir /\ \A i \in DOMAIN f.names : f.names[i].parent = Reference(f)

ASSUME ConsistentAssumption ==
    \A v \in DOMAIN Volumes : Volumes[v].before = Volumes[v].after => Consistent(Volumes[v].before)

(* tag_of, asked when all is gathered: OpenFileById finds the file as it is, *)
(* or not at all.                                                           *)
TagOf(ref) ==
    IF \E f \in after : Reference(f) = ref
    THEN (CHOOSE f \in after : Reference(f) = ref).tag ELSE "none"

-----------------------------------------------------------------------------
(* Entry::kind                                                              *)
IsSurrogate(e) == e.tag = "surrogate"
NotHere(e) == e.recall \/ (e.tag = "cloud" /\ e.allocated = 0)

Kind(e) ==
    CASE IsSurrogate(e) -> "Skip"
      [] ~IsSurrogate(e) /\ e.dir -> "Directory"
      [] OTHER -> "File"

CountedSize(e) == IF NotHere(e) THEN 0 ELSE e.size

-----------------------------------------------------------------------------
(* parse_record                                                             *)
Blank(raw) ==
    [kind |-> "file", dir |-> raw.dir, seq |-> raw.seq, has_data |-> FALSE, size |-> 0,
     allocated |-> 0, mtime |-> 0, recall |-> FALSE, reparse |-> FALSE, tag |-> "none",
     names |-> <<>>]

Attribute(file, a) ==
    CASE a.type = "info" ->
           [file EXCEPT !.mtime = a.mtime, !.recall = a.recall, !.reparse = a.reparse]
      [] a.type = "name" /\ ~a.dos -> [file EXCEPT !.names = Append(@, a.parent)]
      [] a.type = "data" /\ a.unnamed /\ a.first ->
           [file EXCEPT !.has_data = TRUE, !.size = a.size,
                        !.allocated = IF a.sparse THEN a.on_disk ELSE a.reserved]
      [] a.type = "reparse" -> [file EXCEPT !.tag = a.tag]
      [] OTHER -> file

Parsed(raw) ==
    LET file[i \in 0 .. Len(raw.attributes)] ==
            IF i = 0 THEN Blank(raw) ELSE Attribute(file[i - 1], raw.attributes[i])
    IN  file[Len(raw.attributes)]

ParseRecord(raw) ==
    IF raw.torn \/ ~raw.in_use THEN Nothing
    ELSE [kind |-> IF raw.base = <<>> THEN "base" ELSE "extension", base |-> raw.base,
          file |-> Parsed(raw)]

-----------------------------------------------------------------------------
(* What a read finds of record n: as it was, as it is, or torn.             *)
Raws(v, n) ==
    [was |-> OnDisk(Volumes[v].before, n), is |-> OnDisk(Volumes[v].after, n),
     torn |-> Torn(OnDisk(Volumes[v].before, n))]
ParsedRecords ==
    [v \in DOMAIN Volumes |->
       [n \in Numbers |-> [how \in {"was", "is", "torn"} |-> ParseRecord(Raws(v, n)[how])]]]
Record(n, how) == IF how = "unread" THEN Nothing ELSE ParsedRecords[volume][n][how]

Distinct(n) == IF Record(n, "was") = Record(n, "is") THEN {"is"} ELSE {"was", "is"}

(* The records of a read that is in torn include torn ones.                 *)
MayRead(i) ==
    LET whole == {found \in [Covers(i) -> {"was", "is"}] : \A n \in Covers(i) : found[n] \in Distinct(n)}
    IN IF i \notin torn THEN whole
       ELSE {[found EXCEPT ![n] = "torn"] : found \in whole, n \in Covers(i)}

(* Mft::insert.                                                             *)
Inserted(found) == {n \in DOMAIN found : n < Room /\ Record(n, found[n]).kind # "nothing"}
Bases(found) == {n \in Inserted(found) : Record(n, found[n]).kind = "base"}

(* A read's records come in order; the reads in any.                        *)
NewExtensions(found) ==
    LET numbers == Ascending(Inserted(found) \ Bases(found))
    IN [i \in DOMAIN numbers |->
          LET r == Record(numbers[i], found[numbers[i]])
          IN [number |-> numbers[i], base |-> r.base, file |-> r.file]]

Insert(i) ==
    /\ Gather(i)
    /\ \E found \in MayRead(i) :
         /\ got' = [n \in Numbers |-> IF n \in Covers(i) THEN found[n] ELSE got[n]]
         /\ records' = [n \in DOMAIN records |->
                          IF n \in Bases(found) THEN Record(n, found[n]).file ELSE records[n]]
         /\ extensions' = extensions \o NewExtensions(found)
    /\ UNCHANGED <<volume, plan, sent>>

-----------------------------------------------------------------------------
(* complete_records                                                         *)

Holds(table, ref) ==
    ref[1] < Room /\ table[ref[1]] # NoFile /\ table[ref[1]].seq = ref[2]

Fold(table, e) ==
    IF ~Holds(table, e.base) THEN table
    ELSE [table EXCEPT
            ![e.base[1]].names = @ \o e.file.names,
            ![e.base[1]].has_data = @ \/ e.file.has_data,
            ![e.base[1]].size = IF e.file.has_data THEN e.file.size ELSE @,
            ![e.base[1]].allocated = IF e.file.has_data THEN e.file.allocated ELSE @,
            ![e.base[1]].tag = IF e.file.tag # "none" THEN e.file.tag ELSE @]

(* Mutant: as they came.                                                    *)
FoldOrderCame(all) == all
FoldOrder(all) ==
    LET numbers == Ascending({e.number : e \in Range(all)})
    IN  [i \in DOMAIN numbers |-> CHOOSE e \in Range(all) : e.number = numbers[i]]

(* The table once the first i extension records are folded into it.         *)
Folded(table, all) ==
    LET folded[i \in 0 .. Len(all)] == IF i = 0 THEN table ELSE Fold(folded[i - 1], all[i])
    IN  folded[Len(all)]

Completed ==
    LET folded == Folded(records, FoldOrder(extensions))
    IN [n \in DOMAIN folded |->
          IF n >= FirstUser /\ folded[n] # NoFile /\ folded[n].tag = "none" /\ folded[n].reparse
          THEN [folded[n] EXCEPT !.tag = TagOf(<<n, folded[n].seq>>)]
          ELSE folded[n]]

(* send_scan                                                                *)
Folder(table, ref) == Holds(table, ref) /\ table[ref[1]].dir

Files(table) == {n \in DOMAIN table : n >= FirstUser /\ table[n] # NoFile}

(* A folder's subfolders: those whose first name is in it.                  *)
Subfolders(table, p) ==
    {n \in Files(table) :
        /\ Kind(table[n]) = "Directory"
        /\ table[n].names # <<>>
        /\ Folder(table, table[n].names[1])
        /\ table[n].names[1][1] = p}

(* The folders under the root, parents first: each is looked at in its turn, *)
(* and adds those of its subfolders that have no place yet, by number.       *)
(* Mutant: that have one.                                                   *)
AddSubfoldersAgain(table, order, i) ==
    IF i > Len(order) THEN order ELSE order \o Ascending(Subfolders(table, order[i]))

AddSubfolders(table, order, i) ==
    IF i > Len(order) THEN order ELSE order \o Ascending(Subfolders(table, order[i]) \ Range(order))

Order(table, r) ==
    LET order[i \in 0 .. Room] == IF i = 0 THEN <<r>> ELSE AddSubfolders(table, order[i - 1], i)
    IN  order[Room]

(* A name leads to a folder's place if the folder is still the one it was    *)
(* made in.                                                                 *)
Leads(table, order, name) == \E i \in DOMAIN order : <<order[i], table[order[i]].seq>> = name
Leading(table, order, n) == {i \in DOMAIN table[n].names : Leads(table, order, table[n].names[i])}
FirstLeads(table, order, n, ref) ==
    Leading(table, order, n) # {} /\ table[n].names[Min(Leading(table, order, n))] = ref

(* DirFiles::add and date: a file with nothing to count is left out, but     *)
(* dates its folder.                                                        *)
CountedIn(table, order, ref) ==
    {[file |-> <<n, table[n].seq>>, size |-> CountedSize(table[n])] :
        n \in {m \in Files(table) :
                 /\ Kind(table[m]) = "File"
                 /\ CountedSize(table[m]) > 0
                 /\ FirstLeads(table, order, m, ref)}}

Newest(times) == CHOOSE t \in times \cup {0} : \A u \in times : u <= t

(* Mutant: only the folder that counts it is as new as a file.              *)
DatedFirst(table, order, ref) ==
    Newest({table[n].mtime : n \in {m \in Files(table) :
              Kind(table[m]) = "File" /\ FirstLeads(table, order, m, ref)}})

Dated(table, order, ref) ==
    Newest({table[n].mtime : n \in {m \in Files(table) :
              Kind(table[m]) = "File" /\ \E i \in Leading(table, order, m) : table[m].names[i] = ref}})

Events(table, order) ==
    [i \in DOMAIN order |->
       LET ref == <<order[i], table[order[i]].seq>>
       IN [dir |-> ref,
           parent |-> IF i = 1 THEN <<>> ELSE table[order[i]].names[1],
           mtime |-> Dated(table, order, ref),
           files |-> CountedIn(table, order, ref)]]

-----------------------------------------------------------------------------
Unread == [n \in Numbers |-> "unread"]

ScanInit ==
    /\ Init
    /\ volume \in DOMAIN Volumes
    /\ got = Unread
    /\ records = [n \in 0 .. Room - 1 |-> NoFile]
    /\ extensions = <<>>
    /\ plan = <<>>
    /\ sent = <<>>

(* The flag is looked at, then send_scan begins: without a root it sends     *)
(* nothing.                                                                 *)
BeginSending ==
    /\ Decide
    /\ IF gather' = "sending" /\ Folder(Completed, root)
       THEN \E table \in {Completed} : \E order \in {Order(table, root[1])} : plan' = Events(table, order)
       ELSE plan' = <<>>
    /\ UNCHANGED <<volume, got, records, extensions, sent>>

SendEvent ==
    /\ gather = "sending"
    /\ plan # <<>>
    /\ sent' = Append(sent, Head(plan))
    /\ plan' = Tail(plan)
    /\ UNCHANGED <<vars, volume, got, records, extensions>>

(* ScanDone, or the error.                                                  *)
EndScan ==
    /\ Conclude
    /\ plan = <<>>
    /\ (outcome' \in {"walk", "error"}) = (sent = <<>>)
    /\ UNCHANGED tableVars

GatherRuns ==
    \/ (GatherFails \/ GatherEnds \/ Fail) /\ UNCHANGED tableVars
    \/ \E i \in Read : Insert(i)
    \/ BeginSending \/ SendEvent \/ EndScan

ReaderRuns(r) == ReaderStep(r) /\ UNCHANGED tableVars

ScanNext ==
    \/ GatherRuns
    \/ \E r \in Reader : ReaderRuns(r)
    \/ SetCancel /\ UNCHANGED tableVars

ScanSpec ==
    /\ ScanInit /\ [][ScanNext]_scanVars
    /\ WF_scanVars(GatherRuns)
    /\ \A r \in Reader : WF_scanVars(ReaderRuns(r))

-----------------------------------------------------------------------------
(* The folder walk of the same volume (windows/src/scan.rs, read_dir), which *)
(* goes by the folders' listings: DOS names aren't listed apart, and a       *)
(* reparse point whose listed tag may be something else is asked for it.     *)
Listed(f) ==
    [dir |-> f.dir, tag |-> f.tag, recall |-> f.recall, size |-> f.size,
     allocated |-> IF f.sparse THEN f.on_disk ELSE f.size]

Listing(files, ref) ==
    {f \in files : \E i \in DOMAIN f.names : f.names[i].parent = ref /\ ~f.names[i].dos}

LookedInto(files, reached) ==
    reached \cup {Reference(f) : f \in {g \in UNION {Listing(files, d) : d \in reached} :
                                       Kind(Listed(g)) = "Directory"}}

Walked(files, r) ==
    LET reached[i \in 0 .. Room] ==
            IF i = 0 THEN {r} ELSE LookedInto(files, reached[i - 1])
    IN  reached[Room]

WalkedFiles(files, r) ==
    {f \in UNION {Listing(files, d) : d \in Walked(files, r)} : Kind(Listed(f)) = "File"}

-----------------------------------------------------------------------------
Ran == outcome \in {"Complete", "Incomplete"}

Sent == {sent[i].dir : i \in DOMAIN sent}
SentOf(ref) == sent[CHOOSE i \in DOMAIN sent : sent[i].dir = ref]

(* What the walk sends, by volume.                                          *)
WalkSends ==
    [v \in DOMAIN Volumes |->
       LET files == Volumes[v].before
           walked == WalkedFiles(files, Volumes[v].root)
       IN [folders |-> [ref \in Walked(files, Volumes[v].root) |->
                          Newest({f.mtime : f \in Listing(files, ref) \cap walked})],
           files |-> {[file |-> Reference(f), size |-> CountedSize(Listed(f))] :
                        f \in {g \in walked : CountedSize(Listed(g)) > 0}}]]

(* "counting what the folder walk counts": a volume nobody changes has the   *)
(* same tree by its MFT as by its listings, folder for folder, file for file *)
(* and date for date.                                                       *)
SameAsWalk ==
    outcome = "Complete" /\ before = after =>
      /\ [ref \in Sent |-> SentOf(ref).mtime] = WalkSends[volume].folders
      /\ UNION {sent[i].files : i \in DOMAIN sent} = WalkSends[volume].files

(* Every name read of file n, as <<record it was in, place in it>>: its own,  *)
(* then its extension records'.                                             *)
NamesRead(n, ref) ==
    UNION {{<<m, i>> : i \in DOMAIN Record(m, got[m]).file.names} :
             m \in {k \in Numbers :
                      LET r == Record(k, got[k])
                      IN k < Room /\ r.kind # "nothing" /\ (k = n \/ r.base = ref)}}
NameAt(p) == Record(p[1], got[p[1]]).file.names[p[2]]

Earlier(n, p, q) ==
    LET rank(m) == IF m = n THEN -1 ELSE m
    IN rank(p[1]) < rank(q[1]) \/ (p[1] = q[1] /\ p[2] < q[2])
FirstIs(n, places, ref) ==
    \E p \in places : NameAt(p) = ref /\ \A q \in places \ {p} : Earlier(n, p, q)

(* What is sent depends on what was read alone, not on the order the reads   *)
(* came in: a file is counted in the first of its folders that are sent, in  *)
(* record order, and a folder is sent if the first of its names is in one.   *)
(* So "a file's names come in the same order on every scan", and a reference *)
(* to a record that has since been reused leads nowhere.                     *)
TreeOfWhatWasRead ==
    Ran =>
      \A table \in {Completed}, folders \in {Sent} :
        \A n \in Files(table) :
          LET ref == <<n, table[n].seq>>
               size == CountedSize(table[n])
               names == NamesRead(n, ref)
               leading == {p \in names : NameAt(p) \in folders}
           IN IF Kind(table[n]) = "Directory"
              THEN ref # root => (ref \in folders <=> \E d \in folders : FirstIs(n, names, d))
              ELSE \A i \in DOMAIN sent :
                     [file |-> ref, size |-> size] \in sent[i].files
                       <=> Kind(table[n]) = "File" /\ size > 0 /\ FirstIs(n, leading, sent[i].dir)

(* The events are the stream every scan promises (module ScanStream), with   *)
(* node ids for references: of the volume's serial number and the reference. *)
RootId == <<0, <<0, 0>>>>
NoId == <<0, <<0, 1>>>>
IdOn(v, ref) == IF ref = Volumes[v].root THEN RootId ELSE <<v, ref>>
FilesEver(v) == Volumes[v].before \cup Volumes[v].after
FolderIds == {RootId} \cup UNION {{IdOn(v, Reference(f)) : f \in {g \in FilesEver(v) : g.dir}} : v \in DOMAIN Volumes}
FileIds == UNION {{IdOn(v, Reference(f)) : f \in {g \in FilesEver(v) : ~g.dir}} : v \in DOMAIN Volumes}
NamedIn ==
    [id \in FolderIds |->
       UNION {{IdOn(v, Reference(f)) : f \in {g \in FilesEver(v) :
                  \E i \in DOMAIN g.names : IdOn(v, g.names[i].parent) = id}} : v \in DOMAIN Volumes}]

StreamEvent(e) ==
    [dir |-> IdOn(volume, e.dir),
     parent |-> IF e.parent = <<>> THEN NoId ELSE IdOn(volume, e.parent),
     files |-> {IdOn(volume, c.file) : c \in e.files}]
StreamSent == [i \in DOMAIN sent |-> StreamEvent(sent[i])]
StreamDone == IF outcome \in {"walk", "error"} THEN "none" ELSE outcome

Stream == INSTANCE ScanStream WITH
    Dir <- FolderIds, File <- FileIds, Root <- RootId, NoDir <- NoId,
    Contents <- NamedIn, sent <- StreamSent, done <- StreamDone

MftStreamIsSafe == Stream!StreamSafety
=============================================================================
