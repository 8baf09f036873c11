--------------------------------- MODULE Mft ---------------------------------
(***************************************************************************)
(* A scan from an NTFS volume's master file table (windows/src/mft.rs,      *)
(* Volume::scan and read_records; windows/src/scan.rs, scan): readers take  *)
(* the reads the table was split into off a shared counter and hand their   *)
(* records to the thread that gathers them, which sends the folder's tree   *)
(* once all are in; where that fails, the folder walk of module Scan takes  *)
(* over, or nothing does.                                                   *)
(*                                                                         *)
(* The channel keeps no order here: records are inserted by their number.   *)
(***************************************************************************)
EXTENDS Integers, FiniteSets

CONSTANTS
    Reader,     \* the reader threads
    Reads,      \* how many reads the table takes
    Attempts    \* READ_ATTEMPTS

ASSUME ReadersAssumption ==
    /\ IsFiniteSet(Reader) /\ Reader # {}
    /\ Reads \in Nat
    /\ Attempts \in Nat \ {0}

VARIABLES
    mode,      \* ScanOptions::mft
    next,      \* the counter of reads
    reader,    \* each reader thread: [pc, read, tries]
    torn,      \* reads that left records out (the counter adds up how many)
    chan,      \* messages on their way: a read's records, or a reader's error
    gathered,  \* reads whose records are in the table
    gather,    \* "gathering", "gathered", "failed"; "sending": send_scan is running
    cancel,    \* the caller's flag
    outcome,   \* "none"; ScanDone's; "error": scan returns one; "walk": run_scan
    failed_at  \* history: `next` when gathering failed

vars == <<mode, next, reader, torn, chan, gathered, gather, cancel, outcome, failed_at>>
gatherVars == <<gathered, gather, outcome, failed_at>>

Read == 0 .. Reads - 1
Records(i) == [kind |-> "records", read |-> i]
Error == [kind |-> "error"]
InReader(pc, i, tries) == [pc |-> pc, read |-> i, tries |-> tries]

Init ==
    /\ mode \in {"Auto", "Require"}
    /\ next = 0
    /\ reader = [r \in Reader |-> InReader("opening", 0, 0)]
    /\ torn = {}
    /\ chan = {}
    /\ gathered = {}
    /\ gather = "gathering"
    /\ cancel = FALSE
    /\ outcome = "none"
    /\ failed_at = 0

-----------------------------------------------------------------------------
(* A reader *)
Goes(r, pc) == reader' = [reader EXCEPT ![r] = InReader(pc, reader[r].read, 0)]

Open(r) ==
    /\ reader[r].pc = "opening"
    /\ Goes(r, "take")
    /\ UNCHANGED <<mode, next, torn, chan, gatherVars, cancel>>

(* Its handle can't be opened, or a read fails.                             *)
Fails(r) ==
    /\ reader[r].pc \in {"opening", "reading"}
    /\ Goes(r, "exited")
    /\ chan' = IF gather = "failed" THEN chan ELSE chan \cup {Error}
    /\ UNCHANGED <<mode, next, torn, gatherVars, cancel>>

Take(r) ==
    /\ reader[r].pc = "take"
    /\ next' = next + 1
    /\ IF next >= Reads \/ cancel THEN Goes(r, "exited")
       ELSE reader' = [reader EXCEPT ![r] = InReader("reading", next, 0)]
    /\ UNCHANGED <<mode, torn, chan, gatherVars, cancel>>

(* The read comes back with every record whole, or with some torn: then it  *)
(* is made again, Attempts times in all, and what stays torn is left out.   *)
ReadWhole(r) ==
    /\ reader[r].pc = "reading"
    /\ Goes(r, "sending")
    /\ UNCHANGED <<mode, next, torn, chan, gatherVars, cancel>>

ReadTorn(r) ==
    /\ reader[r].pc = "reading"
    /\ IF reader[r].tries + 1 < Attempts
       THEN /\ reader' = [reader EXCEPT ![r] =
                             InReader("reading", reader[r].read, reader[r].tries + 1)]
            /\ UNCHANGED torn
       ELSE /\ Goes(r, "sending")
            /\ torn' = torn \cup {reader[r].read}
    /\ UNCHANGED <<mode, next, chan, gatherVars, cancel>>

(* Mutant: a reader that doesn't mind that nobody gathers.                  *)
SendAnyway(r) ==
    /\ reader[r].pc = "sending"
    /\ Goes(r, "take")
    /\ chan' = IF gather = "failed" THEN chan ELSE chan \cup {Records(reader[r].read)}
    /\ UNCHANGED <<mode, next, torn, gatherVars, cancel>>

Send(r) ==
    /\ reader[r].pc = "sending"
    /\ IF gather = "failed"
       THEN Goes(r, "exited") /\ UNCHANGED chan
       ELSE Goes(r, "take") /\ chan' = chan \cup {Records(reader[r].read)}
    /\ UNCHANGED <<mode, next, torn, gatherVars, cancel>>

-----------------------------------------------------------------------------
(* The gathering thread *)
Exited == \A r \in Reader : reader[r].pc = "exited"

Gather(i) ==
    /\ gather = "gathering"
    /\ Records(i) \in chan
    /\ chan' = chan \ {Records(i)}
    /\ gathered' = gathered \cup {i}
    /\ UNCHANGED <<mode, next, reader, torn, gather, cancel, outcome, failed_at>>

(* An error drops the channel, with what is still in it.                    *)
GatherFails ==
    /\ gather = "gathering"
    /\ Error \in chan
    /\ chan' = {}
    /\ gather' = "failed"
    /\ failed_at' = next
    /\ UNCHANGED <<mode, next, reader, torn, gathered, cancel, outcome>>

(* Every sender is gone, and every message received.  Mutants: an error     *)
(* that comes last is missed; a sender stays with the scan until it returns.*)
GatherEndsBlind ==
    /\ gather = "gathering"
    /\ Exited
    /\ \A i \in Read : Records(i) \notin chan
    /\ gather' = "gathered"
    /\ UNCHANGED <<mode, next, reader, torn, chan, gathered, cancel, outcome, failed_at>>

GatherEndsHeld ==
    /\ gather = "gathering"
    /\ outcome # "none"
    /\ gather' = "gathered"
    /\ UNCHANGED <<mode, next, reader, torn, chan, gathered, cancel, outcome, failed_at>>

GatherEnds ==
    /\ gather = "gathering"
    /\ Exited
    /\ chan = {}
    /\ gather' = "gathered"
    /\ UNCHANGED <<mode, next, reader, torn, chan, gathered, cancel, outcome, failed_at>>

(* The table can't be had: the walk scans instead where it may.             *)
Abandoned == IF mode = "Auto" THEN "walk" ELSE "error"

(* After the readers: the flag, then whether the scan root is in the table, *)
(* whose tree is then sent, then what is missing.                           *)
Ended == outcome = "none" /\ Exited

Fail ==
    /\ Ended
    /\ gather = "failed"
    /\ outcome' = Abandoned
    /\ UNCHANGED <<mode, next, reader, torn, chan, gathered, gather, cancel, failed_at>>

Decide ==
    /\ Ended
    /\ gather = "gathered"
    /\ IF cancel THEN outcome' = "Cancelled" /\ UNCHANGED gather
                 ELSE gather' = "sending" /\ UNCHANGED outcome
    /\ UNCHANGED <<mode, next, reader, torn, chan, gathered, cancel, failed_at>>

(* The flag isn't looked at again, however long sending takes.              *)
Conclude ==
    /\ Ended
    /\ gather = "sending"
    /\ \/ outcome' = IF torn = {} THEN "Complete" ELSE "Incomplete"
       \/ outcome' = Abandoned
    /\ UNCHANGED <<mode, next, reader, torn, chan, gathered, gather, cancel, failed_at>>

SetCancel ==
    /\ ~cancel
    /\ cancel' = TRUE
    /\ UNCHANGED <<mode, next, reader, torn, chan, gatherVars>>

ReaderStep(r) ==
    \/ Open(r) \/ Fails(r)
    \/ Take(r) \/ ReadWhole(r) \/ ReadTorn(r)
    \/ Send(r)

GatherStep == GatherFails \/ GatherEnds \/ Fail \/ Decide \/ Conclude \/ \E i \in Read : Gather(i)

Next == GatherStep \/ SetCancel \/ \E r \in Reader : ReaderStep(r)

(* A read of the disk returns.                                              *)
Spec ==
    /\ Init /\ [][Next]_vars
    /\ WF_vars(GatherStep)
    /\ \A r \in Reader : WF_vars(ReaderStep(r))

-----------------------------------------------------------------------------
TypeOK ==
    /\ mode \in {"Auto", "Require"}
    /\ next \in Nat
    /\ reader \in [Reader -> [pc : {"opening", "take", "reading", "sending", "exited"},
                              read : Nat, tries : 0 .. Attempts - 1]]
    /\ torn \subseteq Read
    /\ chan \subseteq {Records(i) : i \in Read} \cup {Error}
    /\ gathered \subseteq Read
    /\ gather \in {"gathering", "gathered", "failed", "sending"}
    /\ cancel \in BOOLEAN
    /\ outcome \in {"none", "Complete", "Incomplete", "Cancelled", "walk", "error"}
    /\ failed_at \in Nat

(* A scan that is said to have run to its end has the records of every read *)
(* in its table, however the readers shared them, stopped early or failed,  *)
(* and is Complete only if none were left out (Volume::scan).               *)
VerdictSound ==
    /\ outcome \in {"Complete", "Incomplete"} => gathered = Read
    /\ outcome = "Complete" => torn = {}

(* "An error ends the gathering, which stops the readers": each takes one   *)
(* more read off the counter at most.                                       *)
ErrorStopsReaders == gather = "failed" => next <= failed_at + Cardinality(Reader)

(* The scan ends: the thread that gathers waits for its readers, and they   *)
(* for nobody.                                                              *)
Ends == <>(outcome # "none")
=============================================================================
