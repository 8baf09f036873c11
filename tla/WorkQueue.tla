----------------------------- MODULE WorkQueue -----------------------------
(***************************************************************************)
(* The queue of directories the scan workers share (core/src/scan.rs,      *)
(* struct WorkQueue), with the workers as its users: a worker takes an     *)
(* item, works on it, pushes the items it found, and reports it finished.  *)
(* One thread waits for the work to run out, for the caller's cancel flag, *)
(* or for a stall.                                                         *)
(*                                                                         *)
(* Every step that holds the queue's mutex is one action, as are the loads *)
(* and stores of the atomics outside it.  The condition variable `work` is *)
(* the set of workers asleep in it.  The condition variable `idle` only    *)
(* brings the waiter's next poll forward: it polls every POLL_INTERVAL     *)
(* whether notified or not, so the model lets it poll at any time.         *)
(***************************************************************************)
EXTENDS Integers, Sequences, FiniteSets

CONSTANTS
    Worker,      \* the worker threads
    Item,        \* what is queued: in a scan, directories
    FirstItem,   \* the item queued before the workers start: the scan's root
    StallPolls,  \* STALL_TIMEOUT in POLL_INTERVALs: quiet polls that make a stall
    NoItem       \* a worker that holds no item

ASSUME WorkerAssumption == IsFiniteSet(Worker) /\ Worker # {}
ASSUME ItemAssumption == FirstItem \in Item /\ NoItem \notin Item
ASSUME StallAssumption == StallPolls \in Nat \ {0}

VARIABLES
    items,       \* QueueState::items, a stack: the last is taken first
    pending,     \* QueueState::pending: items queued or being processed
    cancel,      \* the caller's cancel flag
    cancelled,   \* set under the lock once the queue is cancelled
    progressed,  \* whether `progress` differs from the waiter's last_progress
    pc,          \* where each worker is
    job,         \* the item each worker holds
    waiter,      \* where the thread in `wait` is
    quiet,       \* its count of POLL_INTERVALs without progress
    outcome      \* what `wait` returned

queueVars == <<items, pending, cancel, cancelled, progressed, pc, job,
               waiter, quiet, outcome>>

(***************************************************************************)
(* Workers.  "take": about to lock the queue in `take`, for the first time *)
(* or after being woken; "asleep": in work.wait; "busy": working on its    *)
(* item; "pushed": has pushed what it found; "exited": take returned None. *)
(***************************************************************************)
Taking   == {w \in Worker : pc[w] = "take"}
Asleep   == {w \in Worker : pc[w] = "asleep"}
InFlight == {w \in Worker : pc[w] \in {"busy", "pushed"}}

Init ==
    /\ items = <<FirstItem>>
    /\ pending = 1
    /\ cancel \in BOOLEAN
    /\ cancelled = FALSE
    /\ progressed = FALSE
    /\ pc = [w \in Worker |-> "take"]
    /\ job = [w \in Worker |-> NoItem]
    /\ waiter = "waiting"
    /\ quiet = 0
    /\ outcome = "none"

-----------------------------------------------------------------------------
(* work.notify_all and work.notify_one, as the pc of the workers after it.  *)
WakeAll(p) == [w \in Worker |-> IF p[w] = "asleep" THEN "take" ELSE p[w]]

WakeOne(p) ==
    LET sleepers == {v \in Worker : p[v] = "asleep"}
    IN  IF sleepers = {} THEN {p} ELSE {[p EXCEPT ![v] = "take"] : v \in sleepers}

(* Mutant of cancel_locked: the sleepers aren't notified.                   *)
CancelLockedSilent(p) ==
    /\ cancelled' = TRUE
    /\ pc' = p
    /\ pending' = pending - Len(items)
    /\ items' = <<>>

(* cancel_locked: p is the pc of the workers once the caller has moved on.  *)
CancelLocked(p) ==
    /\ cancelled' = TRUE
    /\ IF cancelled
       THEN /\ pc' = p
            /\ UNCHANGED <<items, pending>>
       ELSE /\ pc' = WakeAll(p)
            /\ pending' = pending - Len(items)
            /\ items' = <<>>

Exited(w) == [pc EXCEPT ![w] = "exited"]

(* The four ways through the loop of `take`, in the order of its tests.     *)
TakeCancelled(w) ==
    /\ pc[w] = "take"
    /\ cancel \/ cancelled
    /\ IF cancel THEN CancelLocked(Exited(w))
       ELSE pc' = Exited(w) /\ UNCHANGED <<items, pending, cancelled>>
    /\ UNCHANGED <<cancel, progressed, job, waiter, quiet, outcome>>

TakeItem(w) ==
    /\ pc[w] = "take"
    /\ ~cancel /\ ~cancelled
    /\ items # <<>>
    /\ job' = [job EXCEPT ![w] = items[Len(items)]]
    /\ items' = SubSeq(items, 1, Len(items) - 1)
    /\ pc' = [pc EXCEPT ![w] = "busy"]
    /\ UNCHANGED <<pending, cancel, cancelled, progressed, waiter, quiet, outcome>>

TakeNone(w) ==
    /\ pc[w] = "take"
    /\ ~cancel /\ ~cancelled
    /\ items = <<>>
    /\ pc' = [pc EXCEPT ![w] = IF pending = 0 THEN "exited" ELSE "asleep"]
    /\ UNCHANGED <<items, pending, cancel, cancelled, progressed, job,
                   waiter, quiet, outcome>>

Take(w) == TakeCancelled(w) \/ TakeItem(w) \/ TakeNone(w)

(* A condition variable may wake a thread unasked.                          *)
SpuriousWakeup(w) ==
    /\ pc[w] = "asleep"
    /\ pc' = [pc EXCEPT ![w] = "take"]
    /\ UNCHANGED <<items, pending, cancel, cancelled, progressed, job,
                   waiter, quiet, outcome>>

(* record_progress, by a worker at work on its item.                        *)
RecordProgress(w) ==
    /\ pc[w] = "busy"
    /\ progressed' = TRUE
    /\ UNCHANGED <<items, pending, cancel, cancelled, pc, job, waiter, quiet, outcome>>

(* Mutants of push: notify_one whatever was pushed; no look at `cancelled`; *)
(* a batch counted as one item.                                             *)
PushNotifyingOne(w, found) ==
    /\ pc[w] = "busy"
    /\ LET p == [pc EXCEPT ![w] = "pushed"]
       IN  IF found = <<>> \/ cancelled
           THEN pc' = p /\ UNCHANGED <<items, pending>>
           ELSE /\ pending' = pending + Len(found)
                /\ items' = items \o found
                /\ pc' \in WakeOne(p)
    /\ UNCHANGED <<cancel, cancelled, progressed, job, waiter, quiet, outcome>>

PushWhenCancelled(w, found) ==
    /\ pc[w] = "busy"
    /\ pending' = pending + Len(found)
    /\ items' = items \o found
    /\ pc' = WakeAll([pc EXCEPT ![w] = "pushed"])
    /\ UNCHANGED <<cancel, cancelled, progressed, job, waiter, quiet, outcome>>

PushCountingOnce(w, found) ==
    /\ pc[w] = "busy"
    /\ LET p == [pc EXCEPT ![w] = "pushed"]
       IN  IF found = <<>> \/ cancelled
           THEN pc' = p /\ UNCHANGED <<items, pending>>
           ELSE /\ pending' = pending + 1
                /\ items' = items \o found
                /\ pc' = WakeAll(p)
    /\ UNCHANGED <<cancel, cancelled, progressed, job, waiter, quiet, outcome>>

(* push: `found` is what the worker's item led to.                          *)
Push(w, found) ==
    /\ pc[w] = "busy"
    /\ LET p == [pc EXCEPT ![w] = "pushed"]
       IN  IF found = <<>> \/ cancelled
           THEN pc' = p /\ UNCHANGED <<items, pending>>
           ELSE /\ pending' = pending + Len(found)
                /\ items' = items \o found
                /\ IF Len(found) = 1 THEN pc' \in WakeOne(p) ELSE pc' = WakeAll(p)
    /\ UNCHANGED <<cancel, cancelled, progressed, job, waiter, quiet, outcome>>

FinishOne(w) ==
    /\ pc[w] = "pushed"
    /\ pending' = pending - 1
    /\ progressed' = TRUE
    /\ job' = [job EXCEPT ![w] = NoItem]
    /\ LET p == [pc EXCEPT ![w] = "take"]
       IN  pc' = IF pending' = 0 THEN WakeAll(p) ELSE p
    /\ UNCHANGED <<items, cancel, cancelled, waiter, quiet, outcome>>

-----------------------------------------------------------------------------
(* One turn of the loop of `wait`, by the first of its tests that holds.    *)
PollCancelled ==
    /\ outcome' = "Cancelled"
    /\ waiter' = "returned"
    /\ CancelLocked(pc)
    /\ UNCHANGED <<progressed, quiet>>

PollDone ==
    /\ outcome' = "Complete"
    /\ waiter' = "returned"
    /\ UNCHANGED <<items, pending, cancelled, progressed, pc, quiet>>

(* Mutant of the stall count: not restarted by progress.                    *)
PollQuietAdding ==
    /\ quiet' = IF progressed THEN quiet ELSE quiet + 1
    /\ waiter' = IF quiet' >= StallPolls THEN "stalling" ELSE waiter
    /\ progressed' = FALSE
    /\ UNCHANGED <<items, pending, cancelled, pc, outcome>>

PollQuiet ==
    /\ IF progressed
       THEN quiet' = 0 /\ waiter' = waiter
       ELSE /\ quiet' = quiet + 1
            /\ waiter' = IF quiet' >= StallPolls THEN "stalling" ELSE waiter
    /\ progressed' = FALSE
    /\ UNCHANGED <<items, pending, cancelled, pc, outcome>>

(* Mutants of `wait`: the work taken for done once nothing is queued; the   *)
(* caller's flag looked at only after `pending`.                            *)
PollEmpty ==
    /\ waiter = "waiting"
    /\ \/ (cancel \/ cancelled) /\ PollCancelled
       \/ ~(cancel \/ cancelled) /\ items = <<>> /\ PollDone
       \/ ~(cancel \/ cancelled) /\ items # <<>> /\ PollQuiet
    /\ UNCHANGED <<cancel, job>>

PollDoneFirst ==
    /\ waiter = "waiting"
    /\ \/ cancelled /\ PollCancelled
       \/ ~cancelled /\ pending = 0 /\ PollDone
       \/ ~cancelled /\ pending # 0 /\ IF cancel THEN PollCancelled ELSE PollQuiet
    /\ UNCHANGED <<cancel, job>>

Poll ==
    /\ waiter = "waiting"
    /\ \/ (cancel \/ cancelled) /\ PollCancelled
       \/ ~(cancel \/ cancelled) /\ pending = 0 /\ PollDone
       \/ ~(cancel \/ cancelled) /\ pending # 0 /\ PollQuiet
    /\ UNCHANGED <<cancel, job>>

(* A stall: `wait` has let go of the lock to report it, and takes it again  *)
(* to cancel the queue.                                                     *)
StallCancel ==
    /\ waiter = "stalling"
    /\ CancelLocked(pc)
    /\ waiter' = "returned"
    /\ outcome' = "Stalled"
    /\ UNCHANGED <<cancel, progressed, job, quiet>>

(* The caller sets its flag, at any time.                                   *)
SetCancel ==
    /\ ~cancel
    /\ cancel' = TRUE
    /\ UNCHANGED <<items, pending, cancelled, progressed, pc, job, waiter, quiet, outcome>>

WaiterStep == Poll \/ StallCancel

WorkerStep(w) ==
    \/ Take(w)
    \/ SpuriousWakeup(w)
    \/ RecordProgress(w)
    \/ \E found \in Seq(Item) : Push(w, found)
    \/ FinishOne(w)

Next ==
    \/ WaiterStep
    \/ SetCancel
    \/ \E w \in Worker : WorkerStep(w)

Spec == Init /\ [][Next]_queueVars

-----------------------------------------------------------------------------
TypeOK ==
    /\ items \in Seq(Item)
    /\ pending \in Nat
    /\ cancel \in BOOLEAN
    /\ cancelled \in BOOLEAN
    /\ progressed \in BOOLEAN
    /\ pc \in [Worker -> {"take", "asleep", "busy", "pushed", "exited"}]
    /\ job \in [Worker -> Item \cup {NoItem}]
    /\ waiter \in {"waiting", "stalling", "returned"}
    /\ quiet \in 0 .. StallPolls
    /\ outcome \in {"none", "Complete", "Cancelled", "Stalled"}

(* `pending` is exactly the items queued and the items in workers' hands,   *)
(* whatever the interleaving of pushes, finishes and the cancellation that  *)
(* drops the queued ones ("Exact: cancelling removes only the queued items  *)
(* from `pending`", finish_one).                                            *)
PendingExact == pending = Len(items) + Cardinality(InFlight)

(* No wakeup is lost: while a worker sleeps in `take` there is work         *)
(* outstanding, the queue is not cancelled, and every queued item has an    *)
(* awake worker on its way to take it (push notifies one worker for one     *)
(* item and all for more; the waiter sleeps elsewhere).                     *)
NoLostWakeup ==
    Asleep # {} => /\ ~cancelled
                   /\ pending > 0
                   /\ Len(items) <= Cardinality(Taking)

(* A walk reported complete is over for good: nothing is queued, and no     *)
(* worker holds an item that could lead to more.                            *)
CompleteIsQuiescent == outcome = "Complete" => items = <<>> /\ InFlight = {}

(* Once the queue is cancelled no worker gets another item, even if one was *)
(* pushed meanwhile: the walk does not carry on behind a scan that was      *)
(* reported as done.                                                        *)
CancelledStaysEmpty ==
    [][cancelled => /\ items' = <<>>
                    /\ \A w \in Worker : job'[w] \in {job[w], NoItem}]_queueVars
=============================================================================
