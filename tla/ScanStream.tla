----------------------------- MODULE ScanStream -----------------------------
(***************************************************************************)
(* What a scan promises its receiver (core/src/scan.rs, ScanEvent and       *)
(* run_scan): the stream of events that follows ScanStart.  Each directory  *)
(* is announced at most once, after the one it was found in; each file is   *)
(* counted in one directory that holds a name of it; ScanDone comes once,   *)
(* last, and always.                                                        *)
(***************************************************************************)
EXTENDS Sequences

CONSTANTS
    Dir, File,   \* identities of the directories and files under the root
    Root,        \* the directory the scan starts at
    NoDir,       \* the root's parent
    Contents     \* the entries of each directory

ASSUME TreeAssumption ==
    /\ Root \in Dir
    /\ NoDir \notin Dir
    /\ Dir \cap File = {}
    /\ Contents \in [Dir -> SUBSET (Dir \cup File)]

VARIABLES
    sent,        \* the Dir events sent, in order
    done         \* the outcome ScanDone carried, or "none" before it

streamVars == <<sent, done>>

Outcomes == {"Complete", "Cancelled", "Stalled", "Incomplete"}
DirEvent == [dir : Dir, parent : Dir \cup {NoDir}, files : SUBSET File]

Announced == {sent[i].dir : i \in DOMAIN sent}
Counted   == UNION {sent[i].files : i \in DOMAIN sent}

StreamInit == sent = <<>> /\ done = "none"

(* A Dir: directory d, found in p, with those of its files counted in it.   *)
Announce(d, p, files) ==
    /\ done = "none"
    /\ d \notin Announced
    /\ IF d = Root THEN p = NoDir ELSE p \in Announced /\ d \in Contents[p]
    /\ files \subseteq (Contents[d] \cap File) \ Counted
    /\ sent' = Append(sent, [dir |-> d, parent |-> p, files |-> files])
    /\ UNCHANGED done

(* ScanDone.  A scan that ran to the end has at least its root to show.     *)
Finish(outcome) ==
    /\ done = "none"
    /\ outcome \in {"Complete", "Incomplete"} => Root \in Announced
    /\ done' = outcome
    /\ UNCHANGED sent

(* Saying first that an event is sent spares TLC the search where none is.  *)
StreamNext ==
    \/ /\ Len(sent') # Len(sent)
       /\ \E d \in Dir, p \in Dir \cup {NoDir} : \E files \in SUBSET (Contents[d] \cap File) : Announce(d, p, files)
    \/ \E outcome \in Outcomes : Finish(outcome)

(* The stream is safe to read at every step, and it ends.                   *)
StreamSafety == StreamInit /\ [][StreamNext]_streamVars
StreamEnds == <>(done # "none")
=============================================================================
