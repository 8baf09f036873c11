-------------------------------- MODULE Scan --------------------------------
(***************************************************************************)
(* A scan (core/src/scan.rs: run_scan, run_worker, DirSink): worker threads *)
(* take directories from the queue of WorkQueue, read each one, send a Dir  *)
(* event with its files, and queue the subdirectories they found; run_scan  *)
(* waits for the queue, sends ScanDone and returns, leaving behind whatever *)
(* worker is stuck in a system call.                                        *)
(*                                                                          *)
(* The items of the queue are directories, named by their ids.  The file    *)
(* system is Contents: the entries of each directory, by the identity of    *)
(* what they name, so that a directory or file in the Contents of two       *)
(* directories has two names (a bind mount or firmlink, a hardlink).        *)
(***************************************************************************)
EXTENDS WorkQueue

CONSTANTS
    File,                \* identities of files
    Contents,            \* the entries of each directory
    Fallible,            \* the entries the file system may refuse
    EntriesPerProgress   \* ENTRIES_PER_PROGRESS

Dir == Item
Root == FirstItem
NoDir == NoItem

ASSUME ContentsAssumption ==
    /\ Dir \cap File = {}
    /\ NoDir \notin File
    /\ Contents \in [Dir -> SUBSET (Dir \cup File)]
    /\ \A d \in Dir : IsFiniteSet(Contents[d])
    /\ EntriesPerProgress \in Nat \ {0}

VARIABLES
    sink,          \* what each worker has read of its directory: its DirSink
    parent,        \* DirJob::parent_id of each directory that was queued
    visited_dirs,  \* Shared::visited_dirs
    visited_files, \* Shared::visited_files
    failed,        \* Shared::failed
    sent,          \* the Dir events sent to tx, in order
    done,          \* the outcome of ScanDone, "none" until it is sent
    tx,            \* Shared::tx: whether the sender is still there
    runner,        \* run_scan: "waiting", "clearing", "returned"
    excused,       \* history: entries <<directory, entry>> left out quietly,
    reported       \* and those an error was reported for

sinkVars   == <<visited_dirs, visited_files, failed, parent, excused, reported>>
runVars    == <<done, tx, runner>>
scanVars   == <<queueVars, sink, sinkVars, sent, runVars>>

(***************************************************************************)
(* A worker's DirSink, and how far read_dir and run_worker are with it.     *)
(* "idle": no directory; "opening"; "listing": about to ask for a batch of  *)
(* entries; "entries": looking at one; "sending": read_dir has returned;    *)
(* "pushing": the Dir is sent, the children not yet queued.                 *)
(***************************************************************************)
Stages == {"idle", "opening", "listing", "entries", "sending", "pushing"}

NewSink(stage) ==
    [stage |-> stage, todo |-> {}, batch |-> {}, children |-> <<>>, files |-> {},
     entries |-> 0, left_out |-> FALSE]

ScanInit ==
    /\ Init
    /\ sink = [w \in Worker |-> NewSink("idle")]
    /\ parent = [d \in Dir |-> NoDir]
    /\ visited_dirs = {Root}
    /\ visited_files = {}
    /\ failed = FALSE
    /\ sent = <<>>
    /\ done = "none"
    /\ tx = TRUE
    /\ runner = "waiting"
    /\ excused = {}
    /\ reported = {}

-----------------------------------------------------------------------------
(* `report`: an error worth reporting makes the scan incomplete.            *)
Report(entries) ==
    /\ failed' = TRUE
    /\ reported' = reported \cup entries
    /\ UNCHANGED excused

(* Entries the scan passes over without a word.                             *)
Excuse(entries) ==
    /\ excused' = excused \cup entries
    /\ UNCHANGED <<failed, reported>>

(* entry_failed: an entry that can't be opened or looked at, quietly or not *)
(* by its error (is_left_out_quietly).                                      *)
EntryFailed(entry) == Report({entry}) \/ Excuse({entry})

ScanTake(w) ==
    /\ Take(w)
    /\ sink' = IF job'[w] # job[w] THEN [sink EXCEPT ![w] = NewSink("opening")] ELSE sink
    /\ UNCHANGED <<sinkVars, sent, runVars>>

(* DirJob::open.  The root is open already.                                 *)
Open(w) ==
    /\ sink[w].stage = "opening"
    /\ sink' = [sink EXCEPT ![w].stage = "listing", ![w].todo = Contents[job[w]]]
    /\ UNCHANGED <<queueVars, sinkVars, sent, runVars>>

OpenFails(w) ==
    /\ sink[w].stage = "opening"
    /\ job[w] \in Fallible \ {Root}
    /\ EntryFailed(<<parent[job[w]], job[w]>>)
    /\ sink' = [sink EXCEPT ![w].stage = "sending", ![w].left_out = TRUE]
    /\ UNCHANGED <<queueVars, visited_dirs, visited_files, parent, sent, runVars>>

(* One call of getdents64 (getattrlistbulk, GetFileInformationByHandleEx):  *)
(* some more entries, the end, or an error.                                 *)
ReadBatch(w) ==
    /\ sink[w].stage = "listing"
    /\ \E batch \in SUBSET sink[w].todo \ {{}} :
         sink' = [sink EXCEPT ![w].stage = "entries", ![w].batch = batch,
                              ![w].todo = @ \ batch]
    /\ UNCHANGED <<queueVars, sinkVars, sent, runVars>>

ReadEnd(w) ==
    /\ sink[w].stage = "listing"
    /\ sink[w].todo = {}
    /\ sink' = [sink EXCEPT ![w].stage = "sending"]
    /\ UNCHANGED <<queueVars, sinkVars, sent, runVars>>

(* Mutant: an error in listing is passed over like a directory gone.        *)
ListFailedQuietly(w, error) ==
    LET unlisted == error = "denied" /\ sink[w].entries = 0 /\ job[w] # Root
    IN  /\ sink[w].stage = "listing"
        /\ job[w] \in Fallible
        /\ sink' = [sink EXCEPT ![w].stage = "sending", ![w].left_out = unlisted]
        /\ UNCHANGED <<queueVars, sinkVars, sent, runVars>>

(* list_failed.  "gone": what is left of it is not on this machine;         *)
(* "denied": it opens but can't be searched; "io": anything else.           *)
ListFailed(w, error) ==
    LET rest == {<<job[w], e>> : e \in sink[w].todo}
        unlisted == error = "denied" /\ sink[w].entries = 0 /\ job[w] # Root
    IN  /\ sink[w].stage = "listing"
        /\ job[w] \in Fallible
        /\ sink' = [sink EXCEPT ![w].stage = "sending", ![w].left_out = unlisted]
        /\ CASE error = "gone" -> Excuse(rest)
             [] unlisted       -> Excuse({<<parent[job[w]], job[w]>>})
             [] OTHER          -> Report(rest)
        /\ UNCHANGED <<queueVars, visited_dirs, visited_files, parent, sent, runVars>>

(* count_entry: progress every EntriesPerProgress entries.                  *)
CountEntry(w) ==
    IF (sink[w].entries + 1) % EntriesPerProgress = 0
    THEN RecordProgress(w)
    ELSE UNCHANGED queueVars

Seen(w, e) == [sink[w] EXCEPT !.batch = @ \ {e}, !.entries = @ + 1]

(* Mutant: a subdirectory queued under every name it has.                   *)
SubdirEntryAgain(w, d) ==
    /\ sink[w].stage = "entries"
    /\ d \in sink[w].batch \cap Dir
    /\ CountEntry(w)
    /\ sink' = [sink EXCEPT ![w] = [Seen(w, d) EXCEPT !.children = Append(@, d)]]
    /\ visited_dirs' = visited_dirs \cup {d}
    /\ parent' = [parent EXCEPT ![d] = job[w]]
    /\ UNCHANGED <<visited_files, failed, excused, reported, sent, runVars>>

(* DirSink::dir: a subdirectory, read under the first name seen.            *)
SubdirEntry(w, d) ==
    /\ sink[w].stage = "entries"
    /\ d \in sink[w].batch \cap Dir
    /\ CountEntry(w)
    /\ IF d \in visited_dirs
       THEN /\ sink' = [sink EXCEPT ![w] = Seen(w, d)]
            /\ UNCHANGED <<visited_dirs, parent>>
       ELSE /\ sink' = [sink EXCEPT ![w] = [Seen(w, d) EXCEPT !.children = Append(@, d)]]
            /\ visited_dirs' = visited_dirs \cup {d}
            /\ parent' = [parent EXCEPT ![d] = job[w]]
    /\ UNCHANGED <<visited_files, failed, excused, reported, sent, runVars>>

(* DirSink::file: a file, counted under the first name seen.                *)
FileEntry(w, f) ==
    /\ sink[w].stage = "entries"
    /\ f \in sink[w].batch \cap File
    /\ CountEntry(w)
    /\ IF f \in visited_files
       THEN /\ sink' = [sink EXCEPT ![w] = Seen(w, f)]
            /\ UNCHANGED visited_files
       ELSE /\ sink' = [sink EXCEPT ![w] = [Seen(w, f) EXCEPT !.files = @ \cup {f}]]
            /\ visited_files' = visited_files \cup {f}
    /\ UNCHANGED <<visited_dirs, parent, failed, excused, reported, sent, runVars>>

EntryFails(w, e) ==
    /\ sink[w].stage = "entries"
    /\ e \in sink[w].batch \cap Fallible
    /\ EntryFailed(<<job[w], e>>)
    /\ sink' = [sink EXCEPT ![w].batch = @ \ {e}]
    /\ UNCHANGED <<queueVars, visited_dirs, visited_files, parent, sent, runVars>>

(* DirSink::checkpoint, after each batch: read on unless cancelled.         *)
Checkpoint(w) ==
    /\ sink[w].stage = "entries"
    /\ sink[w].batch = {}
    /\ RecordProgress(w)
    /\ sink' = [sink EXCEPT ![w].stage = IF cancel \/ cancelled THEN "sending" ELSE "listing"]
    /\ UNCHANGED <<sinkVars, sent, runVars>>

(* run_worker after read_dir: the Dir, under the read lock of tx.           *)
SendDir(w) ==
    /\ sink[w].stage = "sending"
    /\ sent' = IF sink[w].left_out \/ ~tx THEN sent
               ELSE Append(sent, [dir |-> job[w], parent |-> parent[job[w]],
                                  files |-> sink[w].files])
    /\ sink' = [sink EXCEPT ![w].stage = "pushing"]
    /\ UNCHANGED <<queueVars, sinkVars, runVars>>

PushChildren(w) ==
    /\ sink[w].stage = "pushing"
    /\ Push(w, sink[w].children)
    /\ sink' = [sink EXCEPT ![w] = NewSink("idle")]
    /\ UNCHANGED <<sinkVars, sent, runVars>>

ScanFinishOne(w) == FinishOne(w) /\ UNCHANGED <<sink, sinkVars, sent, runVars>>

-----------------------------------------------------------------------------
(* run_scan: wait for the queue; then ScanDone, the sender taken away under *)
(* the write lock; then the visited sets.                                   *)
Wait == WaiterStep /\ UNCHANGED <<sink, sinkVars, sent, runVars>>

(* Mutant: the workers are joined before ScanDone.                          *)
SendDoneJoined ==
    /\ runner = "waiting"
    /\ waiter = "returned"
    /\ \A w \in Worker : pc[w] = "exited"
    /\ done' = IF outcome = "Complete" /\ failed THEN "Incomplete" ELSE outcome
    /\ tx' = FALSE
    /\ runner' = "clearing"
    /\ UNCHANGED <<queueVars, sink, sinkVars, sent>>

SendDone ==
    /\ runner = "waiting"
    /\ waiter = "returned"
    /\ done' = IF outcome = "Complete" /\ failed THEN "Incomplete" ELSE outcome
    /\ tx' = FALSE
    /\ runner' = "clearing"
    /\ UNCHANGED <<queueVars, sink, sinkVars, sent>>

ClearVisited ==
    /\ runner = "clearing"
    /\ visited_dirs' = {}
    /\ visited_files' = {}
    /\ runner' = "returned"
    /\ UNCHANGED <<queueVars, sink, failed, parent, excused, reported, sent, done, tx>>

RunScan == Wait \/ SendDone \/ ClearVisited

(* The caller's flag, and a wakeup nobody asked for.                        *)
Outside ==
    /\ SetCancel \/ \E w \in Worker : SpuriousWakeup(w)
    /\ UNCHANGED <<sink, sinkVars, sent, runVars>>

(* What a worker does between system calls, and what a system call returns. *)
WorkerRuns(w) ==
    \/ ScanTake(w)
    \/ Checkpoint(w)
    \/ SendDir(w)
    \/ PushChildren(w)
    \/ ScanFinishOne(w)

SystemCall(w) ==
    \/ Open(w)
    \/ OpenFails(w)
    \/ ReadBatch(w)
    \/ ReadEnd(w)
    \/ \E error \in {"gone", "denied", "io"} : ListFailed(w, error)
    \/ \E d \in Dir : SubdirEntry(w, d)
    \/ \E f \in File : FileEntry(w, f)
    \/ \E e \in Dir \cup File : EntryFails(w, e)

ScanNext ==
    \/ RunScan
    \/ Outside
    \/ \E w \in Worker : WorkerRuns(w) \/ SystemCall(w)

ScanSpec == ScanInit /\ [][ScanNext]_scanVars

(* run_scan's thread never blocks for longer than a poll interval, or than  *)
(* a worker holds the read lock of tx to send.  A worker runs on between    *)
(* system calls; a system call may never return.                            *)
RunScanFairness == WF_scanVars(RunScan)
WorkerRunsFairness == \A w \in Worker : WF_scanVars(WorkerRuns(w))
SystemCallFairness == \A w \in Worker : WF_scanVars(SystemCall(w))

-----------------------------------------------------------------------------
(* The events a scan sends are a stream as ScanStream promises: a directory *)
(* once and after its parent, a file counted once, ScanDone last and once.  *)
Stream == INSTANCE ScanStream

StreamIsSafe == Stream!StreamSafety

(* Everything reachable was visited except the entries in missing: of every *)
(* directory sent, each entry is a directory sent in turn, or a file counted *)
(* somewhere.                                                               *)
EverythingBut(missing) ==
    /\ Root \in Stream!Announced
    /\ \A d \in Stream!Announced : \A e \in Contents[d] :
         \/ <<d, e>> \in missing
         \/ e \in Dir /\ (e \in Stream!Announced \/ <<parent[e], e>> \in missing)
         \/ e \in File /\ e \in Stream!Counted

(* Complete means what ScanOutcome says of it, "Every reachable directory   *)
(* was read": a read cut short by the cancel flag, an error reported, a     *)
(* directory still queued or in a worker's hands each rule it out.          *)
CompleteMeansEverything == done = "Complete" => EverythingBut(excused)

(* "Every reachable directory was visited, but some couldn't be read in     *)
(* full": an Incomplete scan, too, ran to its end, and misses only what it  *)
(* reported or may leave out.                                               *)
IncompleteMeansReported == done = "Incomplete" => EverythingBut(excused \cup reported)

(* What the doc of ScanOutcome::Stalled says: "the results are partial".    *)
StalledIsPartial == done = "Stalled" => ~EverythingBut(excused)

(* The receiver always gets its ScanDone, whatever the workers are stuck    *)
(* in.                                                                      *)
StreamEnds == Stream!StreamEnds

(* When run_scan has returned, its workers leave, except for those stuck in *)
(* a system call.                                                           *)
NoWorkerLeftBehind ==
    WorkerRunsFairness =>
        (runner = "returned") ~>
            [](\A w \in Worker : pc[w] = "exited"
                 \/ sink[w].stage \in {"opening", "listing", "entries"})
=============================================================================
