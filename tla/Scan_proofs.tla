----------------------------- MODULE Scan_proofs ------------------------------
(***************************************************************************)
(* What holds of WorkQueue and of Scan, which runs it: for any number of    *)
(* workers, any items and pushes, any file system and any failures.         *)
(*                                                                         *)
(* First the queue.  Its inductive invariant is IInv: the type, the exact   *)
(* count of pending work, the bound on `quiet` while the waiter polls, the  *)
(* sleepers' invariant, and the emptiness of a cancelled queue.             *)
(*                                                                         *)
(* Then the scan: its events are a stream as ScanStream promises, and its   *)
(* outcome says what was read.  The invariant says where each directory is: *)
(* queued, among the children a worker found, in a worker's hands, or       *)
(* announced; in one place at most (NoTwice), and while the walk isn't      *)
(* cancelled in one at least, or left out with a word (Covered).  It holds  *)
(* until ScanDone; the visited sets are cleared after that, and a worker    *)
(* that was stuck may then read what was read before, but it has nobody to  *)
(* send it to.                                                              *)
(***************************************************************************)
EXTENDS MC_WorkQueue, Scan, FiniteSetTheorems, SequenceTheorems, TLAPS

Where == {"take", "asleep", "busy", "pushed", "exited"}

(* The workers whose place, by p, is one of K.                              *)
At(p, K) == {w \in Worker : p[w] \in K}

(* While the waiter polls its count is below the limit.                     *)
QuietBelowLimit == waiter = "waiting" => quiet < StallPolls

(* A worker holds an item exactly while it is in flight.                    *)
JobHeld == \A w \in Worker : job[w] \in Item <=> w \in InFlight

(* Cancelling dropped what was queued, and nothing was queued since.        *)
CancelledEmpty == cancelled => items = <<>>

IInv ==
    /\ TypeOK
    /\ QuietBelowLimit
    /\ CancelledEmpty
    /\ JobHeld
    /\ PendingExact
    /\ NoLostWakeup

-----------------------------------------------------------------------------
(* Counting workers: At(p, K) is finite, and moving one worker changes its  *)
(* size by one exactly when that worker enters or leaves K.                 *)
LEMMA AtFinite ==
    ASSUME NEW p, NEW K
    PROVE  IsFiniteSet(At(p, K)) /\ Cardinality(At(p, K)) \in Nat
<1>1. At(p, K) \in SUBSET Worker BY DEF At
<1>2. IsFiniteSet(At(p, K)) BY <1>1, FS_Subset, WorkerAssumption
<1> QED BY <1>2, FS_CardinalityType

LEMMA CountMove ==
    ASSUME NEW p \in [Worker -> Where], NEW K, NEW w \in Worker, NEW v \in Where
    PROVE  LET q == [p EXCEPT ![w] = v]
           IN  Cardinality(At(q, K)) =
                 IF v \in K /\ p[w] \notin K THEN Cardinality(At(p, K)) + 1
                 ELSE IF v \notin K /\ p[w] \in K THEN Cardinality(At(p, K)) - 1
                 ELSE Cardinality(At(p, K))
<1> DEFINE q == [p EXCEPT ![w] = v]
<1>0. IsFiniteSet(At(p, K)) BY AtFinite
<1>1. CASE v \in K /\ p[w] \notin K
  <2>1. At(q, K) = At(p, K) \cup {w} /\ w \notin At(p, K) BY <1>1 DEF At
  <2> QED BY <2>1, <1>0, <1>1, FS_AddElement
<1>2. CASE v \notin K /\ p[w] \in K
  <2>1. At(q, K) = At(p, K) \ {w} /\ w \in At(p, K) BY <1>2 DEF At
  <2> QED BY <2>1, <1>0, <1>2, FS_RemoveElement
<1>3. CASE v \in K <=> p[w] \in K
  <2>1. At(q, K) = At(p, K) BY <1>3 DEF At
  <2> QED BY <2>1, <1>3
<1> QED BY <1>1, <1>2, <1>3

(* Waking all: nobody is left asleep, and those in flight stay so.          *)
LEMMA WakeAllProperties ==
    ASSUME NEW p \in [Worker -> Where]
    PROVE  /\ WakeAll(p) \in [Worker -> Where]
           /\ At(WakeAll(p), {"asleep"}) = {}
           /\ At(WakeAll(p), {"busy", "pushed"}) = At(p, {"busy", "pushed"})
BY DEF WakeAll, At, Where

(* Waking one: either nobody slept, or one more worker is on its way; those *)
(* in flight stay so.                                                       *)
LEMMA WakeOneProperties ==
    ASSUME NEW p \in [Worker -> Where], NEW q \in WakeOne(p)
    PROVE  /\ q \in [Worker -> Where]
           /\ At(q, {"busy", "pushed"}) = At(p, {"busy", "pushed"})
           /\ \/ q = p /\ At(p, {"asleep"}) = {}
              \/ /\ Cardinality(At(q, {"take"})) = Cardinality(At(p, {"take"})) + 1
                 /\ At(p, {"asleep"}) # {}
<1>1. CASE At(p, {"asleep"}) = {}
  <2>1. q = p BY <1>1 DEF WakeOne, At
  <2> QED BY <2>1, <1>1
<1>2. CASE At(p, {"asleep"}) # {}
  <2>1. PICK v \in Worker : p[v] = "asleep" /\ q = [p EXCEPT ![v] = "take"]
        BY <1>2 DEF WakeOne, At
  <2>2. q \in [Worker -> Where] BY <2>1 DEF Where
  <2>3. At(q, {"busy", "pushed"}) = At(p, {"busy", "pushed"}) BY <2>1 DEF At
  <2>4. Cardinality(At(q, {"take"})) = Cardinality(At(p, {"take"})) + 1
        BY <2>1, CountMove, "take" \in Where, "asleep" \notin {"take"} DEF Where
  <2> QED BY <2>2, <2>3, <2>4, <1>2
<1> QED BY <1>1, <1>2

(* The top of the stack, and what is left when it is taken.                 *)
LEMMA PopProperties ==
    ASSUME NEW s \in Seq(Item), s # <<>>
    PROVE  /\ s[Len(s)] \in Item
           /\ SubSeq(s, 1, Len(s) - 1) \in Seq(Item)
           /\ Len(SubSeq(s, 1, Len(s) - 1)) = Len(s) - 1
           /\ Len(s) \in Nat \ {0}
<1> DEFINE n == Len(s)
           t == SubSeq(s, 1, n - 1)
<1>1. n \in Nat \ {0} BY EmptySeq
<1>2. \A i \in 1 .. n : s[i] \in Item BY ElementOfSeq
<1>3. \A i \in 1 .. n - 1 : s[i] \in Item BY <1>1, <1>2
<1>4. t \in Seq(Item) /\ Len(t) = IF 1 <= n - 1 THEN n - 1 - 1 + 1 ELSE 0
      BY <1>1, <1>3, SubSeqProperties
<1>5. s[n] \in Item BY <1>1, <1>2
<1> HIDE DEF n, t
<1>6. Len(t) = n - 1 BY <1>1, <1>4
<1> QED BY <1>1, <1>4, <1>5, <1>6 DEF n, t

-----------------------------------------------------------------------------
(* The named sets of workers are instances of At.                           *)
LEMMA NamedSets ==
    /\ Taking = At(pc, {"take"}) /\ Taking' = At(pc', {"take"})
    /\ Asleep = At(pc, {"asleep"}) /\ Asleep' = At(pc', {"asleep"})
    /\ InFlight = At(pc, {"busy", "pushed"}) /\ InFlight' = At(pc', {"busy", "pushed"})
BY DEF Taking, Asleep, InFlight, At

(* cancel_locked, seen from IInv: whatever the workers' places p were, the  *)
(* queue is empty afterwards, `pending` counts the items in flight, and no  *)
(* worker sleeps.                                                           *)
LEMMA CancelLockedProperties ==
    ASSUME NEW p \in [Worker -> Where], CancelLocked(p),
           items \in Seq(Item), pending \in Nat, cancelled \in BOOLEAN,
           pending = Len(items) + Cardinality(At(p, {"busy", "pushed"})),
           cancelled => items = <<>> /\ At(p, {"asleep"}) = {}
    PROVE  /\ cancelled' = TRUE
           /\ items' = <<>>
           /\ pc' \in [Worker -> Where]
           /\ At(pc', {"asleep"}) = {}
           /\ At(pc', {"busy", "pushed"}) = At(p, {"busy", "pushed"})
           /\ pending' = Cardinality(At(p, {"busy", "pushed"}))
<1>0. Cardinality(At(p, {"busy", "pushed"})) \in Nat BY AtFinite
<1>1. CASE cancelled
  <2>1. items = <<>> /\ items' = items /\ pending' = pending /\ pc' = p /\ cancelled' = TRUE
        BY <1>1 DEF CancelLocked
  <2>2. pending = Cardinality(At(p, {"busy", "pushed"})) BY <2>1, <1>0, EmptySeq
  <2> QED BY <2>1, <2>2, <1>1
<1>2. CASE ~cancelled
  <2>1. items' = <<>> /\ pending' = pending - Len(items) /\ pc' = WakeAll(p) /\ cancelled' = TRUE
        BY <1>2 DEF CancelLocked
  <2>2. Len(items) \in Nat BY LenProperties
  <2>3. pending' = Cardinality(At(p, {"busy", "pushed"})) BY <2>1, <2>2, <1>0
  <2> QED BY <2>1, <2>3, WakeAllProperties
<1> QED BY <1>1, <1>2

-----------------------------------------------------------------------------
LEMMA InitInvariant == Init => IInv
<1> SUFFICES ASSUME Init PROVE IInv OBVIOUS
<1> USE WorkerAssumption, ItemAssumption, StallAssumption
<1>0. items \in Seq(Item) BY DEF Init
<1>1. TypeOK
  <2>1. pc \in [Worker -> Where] BY DEF Init, Where
  <2>2. job \in [Worker -> Item \cup {NoItem}] BY DEF Init
  <2>3. quiet \in 0 .. StallPolls /\ pending \in Nat BY DEF Init
  <2> QED BY <1>0, <2>1, <2>2, <2>3 DEF Init, TypeOK, Where
<1>2. InFlight = {} /\ Asleep = {} BY DEF Init, InFlight, Asleep
<1>3. Cardinality(InFlight) = 0 BY <1>2, FS_EmptySet
<1>4. Len(items) = 1 BY DEF Init
<1>5. PendingExact BY <1>3, <1>4 DEF Init, PendingExact
<1>6. NoLostWakeup BY <1>2 DEF NoLostWakeup
<1>7. JobHeld BY <1>2 DEF JobHeld, Init
<1>8. QuietBelowLimit /\ CancelledEmpty BY DEF Init, QuietBelowLimit, CancelledEmpty
<1> QED BY <1>1, <1>5, <1>6, <1>7, <1>8 DEF IInv

(* A step of the waiter that leaves the queue alone, and the caller's flag. *)
LEMMA AloneInvariant ==
    ASSUME IInv, UNCHANGED <<items, pending, cancelled, pc, job>>,
           cancel' \in BOOLEAN, progressed' \in BOOLEAN,
           waiter' \in {"waiting", "stalling", "returned"},
           quiet' \in 0 .. StallPolls,
           outcome' \in {"none", "Complete", "Cancelled", "Stalled"},
           waiter' = "waiting" => quiet' < StallPolls
    PROVE  IInv'
<1>1. TypeOK' BY DEF IInv, TypeOK
<1>2. InFlight' = InFlight /\ Asleep' = Asleep /\ Taking' = Taking
      BY DEF InFlight, Asleep, Taking
<1>3. PendingExact' BY <1>2 DEF IInv, PendingExact
<1>4. NoLostWakeup' BY <1>2 DEF IInv, NoLostWakeup
<1>5. JobHeld' BY <1>2 DEF IInv, JobHeld
<1>6. QuietBelowLimit' /\ CancelledEmpty' BY DEF IInv, QuietBelowLimit, CancelledEmpty
<1> QED BY <1>1, <1>3, <1>4, <1>5, <1>6 DEF IInv

(* take: cancelling on the way out, taking an item, leaving or falling      *)
(* asleep.                                                                  *)
LEMMA TakeCancelledInvariant ==
    ASSUME IInv, NEW w \in Worker, TakeCancelled(w) PROVE IInv'
<1> USE DEF Where
<1>0. TypeOK /\ pc \in [Worker -> Where] BY DEF IInv, TypeOK
<1> DEFINE p == Exited(w)
<1>1. p \in [Worker -> Where] /\ p = [pc EXCEPT ![w] = "exited"] /\ pc[w] = "take"
      BY <1>0 DEF Exited, TakeCancelled
<1>2. At(p, {"busy", "pushed"}) = InFlight /\ (At(p, {"asleep"}) = Asleep)
      BY <1>0, <1>1 DEF At, InFlight, Asleep
<1>3. pending = Len(items) + Cardinality(At(p, {"busy", "pushed"}))
      BY <1>2 DEF IInv, PendingExact
<1>4. cancelled => items = <<>> /\ At(p, {"asleep"}) = {}
      BY <1>2 DEF IInv, CancelledEmpty, NoLostWakeup
<1> HIDE DEF p
<1>5. /\ cancelled' = TRUE
      /\ items' = <<>>
      /\ pc' \in [Worker -> Where]
      /\ At(pc', {"asleep"}) = {}
      /\ At(pc', {"busy", "pushed"}) = At(p, {"busy", "pushed"})
      /\ pending' = Cardinality(At(p, {"busy", "pushed"}))
  <2>1. CASE cancel
    <3>1. CancelLocked(p) BY <2>1 DEF TakeCancelled, p
    <3> QED BY <3>1, <1>0, <1>1, <1>3, <1>4, CancelLockedProperties DEF TypeOK
  <2>2. CASE ~cancel
    <3>1. cancelled /\ pc' = p /\ UNCHANGED <<items, pending, cancelled>>
          BY <2>2 DEF TakeCancelled, p
    <3>2. items = <<>> /\ At(p, {"asleep"}) = {} BY <3>1, <1>4
    <3>3. Cardinality(At(p, {"busy", "pushed"})) \in Nat BY AtFinite
    <3>4. pending = Cardinality(At(p, {"busy", "pushed"})) BY <3>2, <3>3, <1>3, EmptySeq
    <3> QED BY <3>1, <3>2, <3>4, <1>0, <1>1 DEF TypeOK
  <2> QED BY <2>1, <2>2
<1>6. UNCHANGED <<cancel, progressed, job, waiter, quiet, outcome>> BY DEF TakeCancelled
<1>7. InFlight' = InFlight /\ Asleep' = {} BY <1>2, <1>5, NamedSets
<1>8. TypeOK'
  <2>1. pending' \in Nat BY <1>5, AtFinite
  <2>2. items' \in Seq(Item) BY <1>5
  <2> QED BY <2>1, <2>2, <1>0, <1>5, <1>6 DEF TypeOK
<1>9. PendingExact'
  <2>1. pending' = Cardinality(InFlight') BY <1>5, NamedSets
  <2>2. Len(items') = 0 BY <1>5
  <2>3. Cardinality(InFlight') \in Nat BY NamedSets, AtFinite
  <2> QED BY <2>1, <2>2, <2>3 DEF PendingExact
<1>10. JobHeld' BY <1>6, <1>7 DEF IInv, JobHeld
<1> QED BY <1>5, <1>6, <1>7, <1>8, <1>9, <1>10
     DEF IInv, QuietBelowLimit, CancelledEmpty, NoLostWakeup

LEMMA TakeItemInvariant ==
    ASSUME IInv, NEW w \in Worker, TakeItem(w) PROVE IInv'
<1> USE DEF Where
<1>0. TypeOK /\ pc \in [Worker -> Where] BY DEF IInv, TypeOK
<1>1. /\ pc[w] = "take" /\ pc' = [pc EXCEPT ![w] = "busy"]
      /\ items \in Seq(Item) /\ items # <<>>
      /\ job' = [job EXCEPT ![w] = items[Len(items)]]
      /\ items' = SubSeq(items, 1, Len(items) - 1)
      /\ UNCHANGED <<pending, cancel, cancelled, progressed, waiter, quiet, outcome>>
      BY <1>0 DEF TakeItem, TypeOK
<1>2. /\ items[Len(items)] \in Item
      /\ items' \in Seq(Item)
      /\ Len(items') = Len(items) - 1
      /\ Len(items) \in Nat \ {0}
      BY <1>1, PopProperties
<1>3. TypeOK' BY <1>0, <1>1, <1>2 DEF TypeOK
<1>4. Cardinality(InFlight') = Cardinality(InFlight) + 1
      BY <1>0, <1>1, CountMove, NamedSets
<1>5. Cardinality(Taking') = Cardinality(Taking) - 1
      BY <1>0, <1>1, CountMove, NamedSets
<1>6. Cardinality(InFlight) \in Nat /\ Cardinality(Taking) \in Nat BY AtFinite, NamedSets
<1>7. PendingExact'
  <2>1. pending' = pending BY <1>1
  <2> QED BY <2>1, <1>2, <1>4, <1>6 DEF IInv, PendingExact
<1>8. Asleep' = Asleep BY <1>0, <1>1 DEF Asleep
<1>9. NoLostWakeup' BY <1>1, <1>2, <1>5, <1>6, <1>8 DEF IInv, NoLostWakeup
<1>10. JobHeld'
  <2>1. ASSUME NEW v \in Worker PROVE job'[v] \in Item <=> v \in InFlight'
    <3>1. CASE v = w BY <3>1, <1>0, <1>1, <1>2 DEF InFlight, TypeOK
    <3>2. CASE v # w BY <3>2, <1>0, <1>1 DEF InFlight, TypeOK, IInv, JobHeld
    <3> QED BY <3>1, <3>2
  <2> QED BY <2>1 DEF JobHeld
<1>11. CancelledEmpty' BY <1>1 DEF TakeItem, CancelledEmpty
<1>12. QuietBelowLimit' BY <1>1 DEF IInv, QuietBelowLimit
<1> QED BY <1>3, <1>7, <1>9, <1>10, <1>11, <1>12 DEF IInv

LEMMA TakeNoneInvariant ==
    ASSUME IInv, NEW w \in Worker, TakeNone(w) PROVE IInv'
<1> USE DEF Where
<1>0. TypeOK /\ pc \in [Worker -> Where] BY DEF IInv, TypeOK
<1>1. /\ pc[w] = "take"
      /\ pc' = [pc EXCEPT ![w] = IF pending = 0 THEN "exited" ELSE "asleep"]
      /\ ~cancelled /\ items = <<>>
      /\ UNCHANGED <<items, pending, cancel, cancelled, progressed, job, waiter, quiet, outcome>>
      BY DEF TakeNone
<1>2. TypeOK' BY <1>0, <1>1 DEF TypeOK
<1>3. InFlight' = InFlight BY <1>0, <1>1 DEF InFlight
<1>4. PendingExact' BY <1>1, <1>3 DEF IInv, PendingExact
<1>5. NoLostWakeup'
  <2>1. Cardinality(Taking') \in Nat BY AtFinite, NamedSets
  <2>2. Len(items') = 0 BY <1>1
  <2>3. CASE pending = 0
    <3>1. Asleep' = Asleep BY <2>3, <1>0, <1>1 DEF Asleep
    <3> QED BY <2>3, <3>1 DEF IInv, NoLostWakeup
  <2>4. CASE pending # 0 BY <2>4, <2>1, <2>2, <1>0, <1>1 DEF TypeOK, NoLostWakeup
  <2> QED BY <2>3, <2>4
<1>6. JobHeld' BY <1>1, <1>3 DEF IInv, JobHeld
<1> QED BY <1>1, <1>2, <1>4, <1>5, <1>6 DEF IInv, QuietBelowLimit, CancelledEmpty

LEMMA SpuriousWakeupInvariant ==
    ASSUME IInv, NEW w \in Worker, SpuriousWakeup(w) PROVE IInv'
<1> USE DEF Where
<1>0. TypeOK /\ pc \in [Worker -> Where] BY DEF IInv, TypeOK
<1>1. /\ pc[w] = "asleep" /\ pc' = [pc EXCEPT ![w] = "take"]
      /\ UNCHANGED <<items, pending, cancel, cancelled, progressed, job, waiter, quiet, outcome>>
      BY DEF SpuriousWakeup
<1>2. TypeOK' BY <1>0, <1>1 DEF TypeOK
<1>3. InFlight' = InFlight BY <1>0, <1>1 DEF InFlight
<1>4. PendingExact' BY <1>1, <1>3 DEF IInv, PendingExact
<1>5. NoLostWakeup'
  <2>1. Cardinality(Taking) \in Nat BY AtFinite, NamedSets
  <2>2. Cardinality(Taking') = Cardinality(Taking) + 1
        BY <1>0, <1>1, CountMove, NamedSets
  <2>3. Asleep' \subseteq Asleep BY <1>0, <1>1 DEF Asleep
  <2>4. Len(items) \in Nat BY <1>0, LenProperties DEF TypeOK
  <2> QED BY <2>1, <2>2, <2>3, <2>4, <1>1 DEF IInv, NoLostWakeup
<1>6. JobHeld' BY <1>1, <1>3 DEF IInv, JobHeld
<1> QED BY <1>1, <1>2, <1>4, <1>5, <1>6 DEF IInv, QuietBelowLimit, CancelledEmpty

(* push: nothing found or a cancelled queue; one item; several.             *)
LEMMA PushInvariant ==
    ASSUME IInv, NEW w \in Worker, NEW found \in Seq(Item), Push(w, found) PROVE IInv'
<1> USE DEF Where
<1> DEFINE p == [pc EXCEPT ![w] = "pushed"]
<1>0. TypeOK /\ pc \in [Worker -> Where] BY DEF IInv, TypeOK
<1>1. pc[w] = "busy" /\ UNCHANGED <<cancel, cancelled, progressed, job, waiter, quiet, outcome>>
      BY DEF Push
<1>2. /\ p \in [Worker -> Where]
      /\ At(p, {"busy", "pushed"}) = InFlight
      /\ At(p, {"asleep"}) = Asleep
      /\ At(p, {"take"}) = Taking
      BY <1>0, <1>1 DEF At, InFlight, Asleep, Taking
<1>3. Len(found) \in Nat /\ Len(items) \in Nat /\ pending \in Nat
      BY <1>0, LenProperties DEF TypeOK
<1>4. Cardinality(InFlight) \in Nat /\ Cardinality(Taking) \in Nat BY AtFinite, NamedSets
<1>5. CASE found = <<>> \/ cancelled
  <2>1. pc' = p /\ UNCHANGED <<items, pending>> BY <1>5 DEF Push
  <2>2. InFlight' = InFlight /\ Asleep' = Asleep /\ Taking' = Taking
        BY <2>1, <1>2, NamedSets
  <2>3. TypeOK' BY <2>1, <1>0, <1>1, <1>2 DEF TypeOK
  <2>4. JobHeld' BY <2>2, <1>1 DEF IInv, JobHeld
  <2> QED BY <2>1, <2>2, <2>3, <2>4, <1>1
       DEF IInv, PendingExact, NoLostWakeup, QuietBelowLimit, CancelledEmpty
<1>6. CASE found # <<>> /\ ~cancelled
  <2>1. /\ pending' = pending + Len(found)
        /\ items' = items \o found
        /\ IF Len(found) = 1 THEN pc' \in WakeOne(p) ELSE pc' = WakeAll(p)
        BY <1>6 DEF Push
  <2>2. items' \in Seq(Item) /\ Len(items') = Len(items) + Len(found) /\ Len(found) > 0
        BY <2>1, <1>0, <1>3, <1>6, ConcatProperties, EmptySeq DEF TypeOK
  <2>3. /\ pc' \in [Worker -> Where]
        /\ At(pc', {"busy", "pushed"}) = At(p, {"busy", "pushed"})
        /\ \/ At(pc', {"asleep"}) = {}
           \/ /\ Len(found) = 1
              /\ At(p, {"asleep"}) # {}
              /\ Cardinality(At(pc', {"take"})) = Cardinality(At(p, {"take"})) + 1
        BY ZenonT(40), <2>1, <1>2, WakeOneProperties, WakeAllProperties
  <2>4. InFlight' = InFlight BY <2>3, <1>2, NamedSets
  <2>5. TypeOK' BY <2>1, <2>2, <2>3, <1>0, <1>1, <1>3 DEF TypeOK
  <2>6. PendingExact' BY <2>1, <2>2, <2>4, <1>3, <1>4 DEF IInv, PendingExact
  <2>7. NoLostWakeup'
    <3>1. CASE At(pc', {"asleep"}) = {} BY <3>1, NamedSets DEF NoLostWakeup
    <3>2. CASE /\ Len(found) = 1
               /\ At(p, {"asleep"}) # {}
               /\ Cardinality(At(pc', {"take"})) = Cardinality(At(p, {"take"})) + 1
      <4>1. Asleep # {} /\ Cardinality(Taking') = Cardinality(Taking) + 1
            BY <3>2, <1>2, NamedSets
      <4>2. ~cancelled /\ pending > 0 /\ Len(items) <= Cardinality(Taking)
            BY <4>1 DEF IInv, NoLostWakeup
      <4> QED BY <4>1, <4>2, <3>2, <2>1, <2>2, <1>1, <1>3, <1>4 DEF NoLostWakeup
    <3> QED BY <2>3, <3>1, <3>2
  <2>8. JobHeld' BY <2>4, <1>1 DEF IInv, JobHeld
  <2> QED BY <2>5, <2>6, <2>7, <2>8, <1>1, <1>6 DEF IInv, QuietBelowLimit, CancelledEmpty
<1> QED BY <1>5, <1>6

(* finish_one: the last item outstanding wakes everyone.                    *)
LEMMA FinishOneInvariant ==
    ASSUME IInv, NEW w \in Worker, FinishOne(w) PROVE IInv'
<1> USE DEF Where
<1> DEFINE p == [pc EXCEPT ![w] = "take"]
<1>0. TypeOK /\ pc \in [Worker -> Where] BY DEF IInv, TypeOK
<1>1. /\ pc[w] = "pushed" /\ pending' = pending - 1 /\ progressed' = TRUE
      /\ job' = [job EXCEPT ![w] = NoItem]
      /\ pc' = IF pending' = 0 THEN WakeAll(p) ELSE p
      /\ UNCHANGED <<items, cancel, cancelled, waiter, quiet, outcome>>
      BY DEF FinishOne
<1>2. Cardinality(InFlight) \in Nat /\ Cardinality(Taking) \in Nat BY AtFinite, NamedSets
<1>3. Len(items) \in Nat /\ pending \in Nat BY <1>0, LenProperties DEF TypeOK
<1>4. /\ p \in [Worker -> Where]
      /\ Cardinality(At(p, {"busy", "pushed"})) = Cardinality(InFlight) - 1
      /\ Cardinality(At(p, {"take"})) = Cardinality(Taking) + 1
      /\ At(p, {"asleep"}) = Asleep
  <2>1. At(p, {"asleep"}) = Asleep /\ p \in [Worker -> Where]
        BY <1>0, <1>1 DEF At, Asleep
  <2>2. Cardinality(At(p, {"busy", "pushed"})) = Cardinality(At(pc, {"busy", "pushed"})) - 1
        BY <1>0, <1>1, CountMove
  <2>3. Cardinality(At(p, {"take"})) = Cardinality(At(pc, {"take"})) + 1
        BY <1>0, <1>1, CountMove
  <2> QED BY <2>1, <2>2, <2>3, NamedSets
<1>5. Cardinality(InFlight) > 0
  <2>1. w \in InFlight BY <1>1 DEF InFlight
  <2>2. IsFiniteSet(InFlight) BY AtFinite, NamedSets
  <2> QED BY <2>1, <2>2, <1>2, FS_EmptySet
<1>6. pending > 0 BY <1>2, <1>3, <1>5 DEF IInv, PendingExact
<1>7. /\ pc' \in [Worker -> Where]
      /\ At(pc', {"busy", "pushed"}) = At(p, {"busy", "pushed"})
      /\ pending' = 0 => At(pc', {"asleep"}) = {}
      /\ pending' # 0 => pc' = p
      BY <1>1, <1>4, WakeAllProperties
<1>8. TypeOK'
  <2>1. pending' \in Nat BY <1>1, <1>3, <1>6
  <2>2. job' \in [Worker -> Item \cup {NoItem}] BY <1>0, <1>1 DEF TypeOK
  <2> QED BY <2>1, <2>2, <1>0, <1>1, <1>7 DEF TypeOK
<1>9. Cardinality(InFlight') = Cardinality(InFlight) - 1 BY <1>4, <1>7, NamedSets
<1>10. PendingExact' BY <1>1, <1>2, <1>3, <1>9 DEF IInv, PendingExact
<1>11. NoLostWakeup'
  <2>1. CASE pending' = 0 BY <2>1, <1>7, NamedSets DEF NoLostWakeup
  <2>2. CASE pending' # 0
    <3>1. Asleep' = Asleep /\ Cardinality(Taking') = Cardinality(Taking) + 1
          BY <2>2, <1>4, <1>7, NamedSets
    <3> QED BY <3>1, <2>2, <1>1, <1>2, <1>3, <1>6 DEF IInv, NoLostWakeup
  <2> QED BY <2>1, <2>2
<1>12. JobHeld'
  <2>1. ASSUME NEW v \in Worker PROVE job'[v] \in Item <=> v \in InFlight'
    <3>0. InFlight' = At(p, {"busy", "pushed"}) BY <1>7, NamedSets
    <3>1. CASE v = w BY <3>0, <3>1, <1>0, <1>1, ItemAssumption DEF At, TypeOK
    <3>2. CASE v # w BY <3>0, <3>2, <1>0, <1>1 DEF At, InFlight, TypeOK, IInv, JobHeld
    <3> QED BY <3>1, <3>2
  <2> QED BY <2>1 DEF JobHeld
<1> QED BY <1>1, <1>8, <1>10, <1>11, <1>12 DEF IInv, QuietBelowLimit, CancelledEmpty

(* cancel_locked called by the waiter, on a cancel flag or after a stall.   *)
LEMMA WaiterCancelInvariant ==
    ASSUME IInv, CancelLocked(pc), UNCHANGED <<cancel, progressed, job, quiet>>,
           waiter' = "returned", outcome' \in {"Cancelled", "Stalled"}
    PROVE  IInv'
<1> USE DEF Where
<1>0. TypeOK /\ pc \in [Worker -> Where] BY DEF IInv, TypeOK
<1>1. pending = Len(items) + Cardinality(At(pc, {"busy", "pushed"}))
      BY NamedSets DEF IInv, PendingExact
<1>2. cancelled => items = <<>> /\ At(pc, {"asleep"}) = {}
      BY NamedSets DEF IInv, CancelledEmpty, NoLostWakeup
<1>3. /\ cancelled' = TRUE
      /\ items' = <<>>
      /\ pc' \in [Worker -> Where]
      /\ At(pc', {"asleep"}) = {}
      /\ At(pc', {"busy", "pushed"}) = At(pc, {"busy", "pushed"})
      /\ pending' = Cardinality(At(pc, {"busy", "pushed"}))
      BY <1>0, <1>1, <1>2, CancelLockedProperties DEF TypeOK
<1>4. InFlight' = InFlight /\ Asleep' = {} BY <1>3, NamedSets
<1>5. pending' = Cardinality(InFlight') /\ pending' \in Nat BY <1>3, AtFinite, NamedSets
<1>6. TypeOK'
  <2>1. items' \in Seq(Item) BY <1>3
  <2> QED BY <2>1, <1>0, <1>3, <1>5 DEF TypeOK
<1>7. PendingExact'
  <2>1. Len(items') = 0 BY <1>3
  <2> QED BY <2>1, <1>5 DEF PendingExact
<1>8. JobHeld' BY <1>4 DEF IInv, JobHeld
<1> QED BY <1>3, <1>4, <1>6, <1>7, <1>8
     DEF IInv, QuietBelowLimit, CancelledEmpty, NoLostWakeup

LEMMA PollInvariant == ASSUME IInv, Poll PROVE IInv'
<1>0. TypeOK /\ waiter = "waiting" /\ UNCHANGED <<cancel, job>>
      BY DEF IInv, Poll
<1>1. CASE PollCancelled
  <2>1. /\ CancelLocked(pc)
        /\ UNCHANGED <<cancel, progressed, job, quiet>>
        /\ waiter' = "returned" /\ outcome' \in {"Cancelled", "Stalled"}
        BY <1>0, <1>1 DEF PollCancelled
  <2> QED BY <2>1, WaiterCancelInvariant
<1>2. CASE PollDone
  BY <1>0, <1>2, AloneInvariant DEF PollDone, TypeOK
<1>3. CASE PollQuiet
  <2>1. quiet \in 0 .. StallPolls /\ quiet < StallPolls /\ StallPolls \in Nat
        BY <1>0, StallAssumption DEF IInv, TypeOK, QuietBelowLimit
  <2>2. /\ quiet' \in 0 .. StallPolls
        /\ waiter' \in {"waiting", "stalling"}
        /\ waiter' = "waiting" => quiet' < StallPolls
    <3>1. CASE progressed BY <3>1, <2>1, <1>0, <1>3, StallAssumption DEF PollQuiet
    <3>2. CASE ~progressed
      <4>1. quiet' = quiet + 1
            /\ waiter' = IF quiet' >= StallPolls THEN "stalling" ELSE "waiting"
            BY <3>2, <1>0, <1>3 DEF PollQuiet
      <4>2. quiet' \in 0 .. StallPolls BY <4>1, <2>1
      <4>3. CASE quiet' >= StallPolls BY <4>1, <4>2, <4>3
      <4>4. CASE quiet' < StallPolls BY <4>1, <4>2, <4>4, <2>1
      <4> QED BY <4>2, <4>3, <4>4, <2>1
    <3> QED BY <3>1, <3>2
  <2>3. UNCHANGED <<items, pending, cancelled, pc, job>> /\ progressed' \in BOOLEAN
        /\ cancel' \in BOOLEAN /\ outcome' \in {"none", "Complete", "Cancelled", "Stalled"}
        BY <1>0, <1>3 DEF PollQuiet, TypeOK
  <2> QED BY <2>2, <2>3, AloneInvariant
<1> QED BY <1>1, <1>2, <1>3 DEF Poll

LEMMA NextInvariant == IInv /\ [Next]_queueVars => IInv'
<1> SUFFICES ASSUME IInv, [Next]_queueVars PROVE IInv' OBVIOUS
<1>0. TypeOK BY DEF IInv
<1>1. ASSUME Poll PROVE IInv' BY <1>1, PollInvariant
<1>2. ASSUME StallCancel PROVE IInv' BY <1>2, WaiterCancelInvariant DEF StallCancel
<1>3. ASSUME SetCancel PROVE IInv'
      BY <1>3, <1>0, AloneInvariant DEF SetCancel, TypeOK, IInv, QuietBelowLimit
<1>4. ASSUME NEW w \in Worker, WorkerStep(w) PROVE IInv'
  <2>1. CASE Take(w)
        BY <2>1, TakeCancelledInvariant, TakeItemInvariant, TakeNoneInvariant DEF Take
  <2>2. CASE SpuriousWakeup(w) BY <2>2, SpuriousWakeupInvariant
  <2>3. CASE RecordProgress(w)
        BY <2>3, <1>0, AloneInvariant DEF RecordProgress, TypeOK, IInv, QuietBelowLimit
  <2>4. CASE \E found \in Seq(Item) : Push(w, found) BY <2>4, PushInvariant
  <2>5. CASE FinishOne(w) BY <2>5, FinishOneInvariant
  <2> QED BY <1>4, <2>1, <2>2, <2>3, <2>4, <2>5 DEF WorkerStep
<1>5. CASE UNCHANGED queueVars
      BY <1>5, <1>0, AloneInvariant DEF queueVars, TypeOK, IInv, QuietBelowLimit
<1> QED BY <1>1, <1>2, <1>3, <1>4, <1>5 DEF Next, WaiterStep

-----------------------------------------------------------------------------
(* The state of the queue is always well typed; in particular `pending`,   *)
(* an unsigned integer in the code, never goes below zero.                  *)
THEOREM WorkQueueTypeOK == Spec => []TypeOK
<1>1. IInv => TypeOK BY DEF IInv
<1> QED BY <1>1, InitInvariant, NextInvariant, PTL DEF Spec

(* `pending` counts exactly what is queued and what workers hold            *)
(* (WorkQueue::finish_one, cancel_locked), for any number of workers.       *)
THEOREM WorkQueuePendingExact == Spec => []PendingExact
<1>1. IInv => PendingExact BY DEF IInv
<1> QED BY <1>1, InitInvariant, NextInvariant, PTL DEF Spec

(* No notification is lost (WorkQueue::push, finish_one, cancel_locked): a  *)
(* worker sleeps only while work is outstanding, and every queued item has  *)
(* a worker awake to take it.                                               *)
THEOREM WorkQueueNoLostWakeup == Spec => []NoLostWakeup
<1>1. IInv => NoLostWakeup BY DEF IInv
<1> QED BY <1>1, InitInvariant, NextInvariant, PTL DEF Spec

-----------------------------------------------------------------------------
(* With nothing outstanding there is nothing queued and nothing in flight.  *)
LEMMA NothingPending ==
    ASSUME TypeOK, PendingExact, pending = 0
    PROVE  items = <<>> /\ InFlight = {}
<1>1. Len(items) \in Nat /\ items \in Seq(Item) BY LenProperties DEF TypeOK
<1>2. IsFiniteSet(InFlight) /\ Cardinality(InFlight) \in Nat BY AtFinite, NamedSets
<1>3. Len(items) = 0 /\ Cardinality(InFlight) = 0 BY <1>1, <1>2 DEF PendingExact
<1> QED BY <1>1, <1>2, <1>3, FS_EmptySet, EmptySeq

LEMMA QuiescentStep ==
    IInv /\ CompleteIsQuiescent /\ [Next]_queueVars => CompleteIsQuiescent'
<1> SUFFICES ASSUME IInv, CompleteIsQuiescent, [Next]_queueVars, outcome' = "Complete"
             PROVE  items' = <<>> /\ InFlight' = {}
    BY DEF CompleteIsQuiescent
<1>0. pc \in [Worker -> Where] /\ TypeOK /\ PendingExact BY DEF IInv, TypeOK, Where
<1>1. CASE Poll
  <2>1. CASE PollCancelled BY <2>1 DEF PollCancelled
  <2>2. CASE PollDone /\ pending = 0
    <3>1. items = <<>> /\ InFlight = {} BY <2>2, <1>0, NothingPending DEF PollDone
    <3> QED BY <3>1, <2>2 DEF PollDone, InFlight
  <2>3. CASE PollQuiet BY <2>3 DEF PollQuiet, InFlight, CompleteIsQuiescent
  <2> QED BY <1>1, <2>1, <2>2, <2>3 DEF Poll
<1>2. CASE StallCancel BY <1>2 DEF StallCancel
<1>3. CASE SetCancel BY <1>3 DEF SetCancel, InFlight, CompleteIsQuiescent
<1>4. ASSUME NEW w \in Worker, WorkerStep(w) PROVE items' = <<>> /\ InFlight' = {}
  <2>0. CASE outcome # "Complete"
    BY <2>0, <1>4 DEF WorkerStep, Take, TakeCancelled, TakeItem, TakeNone,
       SpuriousWakeup, RecordProgress, Push, FinishOne
  <2>1. CASE outcome = "Complete"
    <3>0. items = <<>> /\ InFlight = {} BY <2>1 DEF CompleteIsQuiescent
    <3>1. pc[w] \notin {"busy", "pushed"} BY <3>0 DEF InFlight
    <3>2. CASE TakeCancelled(w)
      <4>1. pc[w] = "take" BY <3>2 DEF TakeCancelled
      <4>2. Exited(w) \in [Worker -> Where] /\ At(Exited(w), {"busy", "pushed"}) = {}
            BY <4>1, <3>0, <1>0 DEF Exited, At, InFlight, Where
      <4>3. pc' = Exited(w) \/ pc' = WakeAll(Exited(w))
            BY <3>2 DEF TakeCancelled, CancelLocked
      <4>4. At(pc', {"busy", "pushed"}) = {} BY <4>2, <4>3, WakeAllProperties
      <4>5. items' = <<>> BY <3>0, <3>2 DEF TakeCancelled, CancelLocked
      <4> QED BY <4>4, <4>5, NamedSets
    <3>3. CASE TakeItem(w) BY <3>3, <3>0 DEF TakeItem
    <3>4. CASE TakeNone(w) BY <3>4, <3>0, <1>0 DEF TakeNone, InFlight, Where
    <3>5. CASE SpuriousWakeup(w)
          BY <3>5, <3>0, <1>0 DEF SpuriousWakeup, InFlight, Where
    <3> QED BY <1>4, <3>1, <3>2, <3>3, <3>4, <3>5
        DEF WorkerStep, Take, RecordProgress, Push, FinishOne
  <2> QED BY <2>0, <2>1
<1>5. CASE UNCHANGED queueVars BY <1>5 DEF queueVars, InFlight, CompleteIsQuiescent
<1> QED BY <1>1, <1>2, <1>3, <1>4, <1>5 DEF Next, WaiterStep

(* When `wait` has returned Complete nothing is queued and no worker holds  *)
(* an item, then and ever after: pending = 0 is a sound test of termination *)
(* because a worker pushes what it found before it finishes (run_worker).   *)
THEOREM WorkQueueCompleteIsQuiescent == Spec => []CompleteIsQuiescent
<1>1. Init => CompleteIsQuiescent BY DEF Init, CompleteIsQuiescent
<1> QED BY <1>1, InitInvariant, NextInvariant, QuiescentStep, PTL DEF Spec

LEMMA CancelledStep ==
    ASSUME IInv, Next, cancelled
    PROVE  items' = <<>> /\ \A w \in Worker : job'[w] \in {job[w], NoItem}
<1>0. items = <<>> /\ job \in [Worker -> Item \cup {NoItem}]
      BY DEF IInv, CancelledEmpty, TypeOK
<1>1. CASE WaiterStep
      BY <1>0, <1>1 DEF WaiterStep, Poll, PollCancelled, PollDone, PollQuiet,
         StallCancel, CancelLocked
<1>2. CASE SetCancel BY <1>0, <1>2 DEF SetCancel
<1>3. ASSUME NEW w \in Worker, WorkerStep(w)
      PROVE  items' = <<>> /\ \A v \in Worker : job'[v] \in {job[v], NoItem}
  <2>1. CASE Take(w)
        BY <2>1, <1>0 DEF Take, TakeCancelled, TakeItem, TakeNone, CancelLocked
  <2>2. CASE SpuriousWakeup(w) \/ RecordProgress(w)
        BY <2>2, <1>0 DEF SpuriousWakeup, RecordProgress
  <2>3. CASE \E found \in Seq(Item) : Push(w, found) BY <2>3, <1>0 DEF Push
  <2>4. CASE FinishOne(w) BY <2>4, <1>0 DEF FinishOne
  <2> QED BY <1>3, <2>1, <2>2, <2>3, <2>4 DEF WorkerStep
<1> QED BY <1>1, <1>2, <1>3 DEF Next

(* Behind a cancelled scan the walk stops: a cancelled queue never hands    *)
(* out another item, whoever cancelled it and whatever is pushed later.     *)
THEOREM WorkQueueCancelledStaysEmpty == Spec => CancelledStaysEmpty
<1>1. IInv /\ [Next]_queueVars =>
        [cancelled => /\ items' = <<>>
                      /\ \A w \in Worker : job'[w] \in {job[w], NoItem}]_queueVars
      BY CancelledStep
<1> QED BY <1>1, InitInvariant, NextInvariant, PTL DEF Spec, CancelledStaysEmpty

-----------------------------------------------------------------------------
(* MC_WorkQueue counts the polls since progress was recorded (`silent`).    *)
(* While nothing new is recorded the waiter's own count is not ahead of it. *)
QuietIsSilent ==
    /\ silent \in Nat
    /\ quiet \in Nat
    /\ progressed \/ quiet <= silent
    /\ QuietBelowLimit

LEMMA QuietIsSilentStep == QuietIsSilent /\ [MCNext]_mcVars => QuietIsSilent'
<1> SUFFICES ASSUME QuietIsSilent, [MCNext]_mcVars PROVE QuietIsSilent'
    OBVIOUS
<1> USE StallAssumption DEF QuietIsSilent, QuietBelowLimit
<1>1. CASE UNCHANGED mcVars
      BY <1>1 DEF mcVars, queueVars
<1>2. CASE Poll /\ silent' = IF silent > StallPolls THEN silent ELSE silent + 1
  <2>1. CASE PollCancelled \/ PollDone
        BY <1>2, <2>1 DEF PollCancelled, PollDone
  <2>2. CASE PollQuiet /\ waiter = "waiting"
        BY <1>2, <2>2 DEF PollQuiet
  <2> QED BY <1>2, <2>1, <2>2 DEF Poll
<1>3. CASE StallCancel /\ UNCHANGED silent
      BY <1>3 DEF StallCancel
<1>4. CASE SetCancel /\ UNCHANGED silent
      BY <1>4 DEF SetCancel
<1>5. ASSUME NEW w \in Worker, Take(w) \/ SpuriousWakeup(w), UNCHANGED silent
      PROVE  QuietIsSilent'
      BY <1>5 DEF Take, TakeCancelled, TakeItem, TakeNone, SpuriousWakeup
<1>6. ASSUME NEW w \in Worker, NEW found, Push(w, found), UNCHANGED silent
      PROVE  QuietIsSilent'
      BY <1>6 DEF Push
<1>7. ASSUME NEW w \in Worker, RecordProgress(w) \/ FinishOne(w), silent' = 0
      PROVE  QuietIsSilent'
      BY <1>7 DEF RecordProgress, FinishOne
<1> QED BY <1>1, <1>2, <1>3, <1>4, <1>5, <1>6, <1>7 DEF MCNext, MCPush

(* A slow scan is not taken for a stuck one: whatever the workers do, a     *)
(* stall is declared only after as many polls in a row without progress as  *)
(* STALL_TIMEOUT has, since the one that declares it counts in `silent` too.*)
THEOREM WorkQueueStallOnlyWhenSilent == MCSpec => StallOnlyWhenSilent
<1>1. MCInit => QuietIsSilent
      BY StallAssumption DEF MCInit, Init, QuietIsSilent, QuietBelowLimit
<1>2. QuietIsSilent /\ [MCNext]_mcVars =>
        [waiter = "waiting" /\ waiter' = "stalling" => silent' >= StallPolls]_mcVars
  <2> SUFFICES ASSUME QuietIsSilent, [MCNext]_mcVars,
                      waiter = "waiting", waiter' = "stalling"
               PROVE  silent' >= StallPolls
      OBVIOUS
  <2>1. MCNext
        BY DEF mcVars, queueVars
  <2>2. Poll /\ silent' = IF silent > StallPolls THEN silent ELSE silent + 1
        BY <2>1 DEF MCNext, MCPush, StallCancel, SetCancel, Take, TakeCancelled, TakeItem, TakeNone,
           SpuriousWakeup, RecordProgress, Push, FinishOne
  <2>3. PollQuiet
        BY <2>2 DEF Poll, PollCancelled, PollDone
  <2>4. ~progressed /\ quiet + 1 >= StallPolls
        BY <2>3, StallAssumption DEF PollQuiet, QuietIsSilent
  <2> QED BY <2>2, <2>4, StallAssumption DEF QuietIsSilent, QuietBelowLimit
<1> QED BY <1>1, <1>2, QuietIsSilentStep, PTL DEF MCSpec, StallOnlyWhenSilent

-----------------------------------------------------------------------------
Elems(q) == {q[i] : i \in DOMAIN q}
Distinct(q) == \A i, j \in DOMAIN q : q[i] = q[j] => i = j

Entry == Dir \cup File
SinkType ==
    [stage : Stages, todo : SUBSET Entry, batch : SUBSET Entry, children : Seq(Dir),
     files : SUBSET File, entries : Nat, left_out : BOOLEAN]
EventType == [dir : Dir, parent : Dir \cup {NoDir}, files : SUBSET File]

ScanTypes ==
    /\ sink \in [Worker -> SinkType]
    /\ parent \in [Dir -> Dir \cup {NoDir}]
    /\ visited_dirs \in SUBSET Dir
    /\ visited_files \in SUBSET File
    /\ failed \in BOOLEAN
    /\ sent \in Seq(EventType)
    /\ done \in {"none", "Complete", "Cancelled", "Stalled", "Incomplete"}
    /\ tx \in BOOLEAN
    /\ runner \in {"waiting", "clearing", "returned"}

(* How far the queue, the sinks and run_scan are goes together.             *)
Phases ==
    /\ \A w \in Worker : sink[w].stage # "idle" <=> pc[w] = "busy"
    /\ tx <=> runner = "waiting"
    /\ tx <=> done = "none"
    /\ ~tx => waiter = "returned"
    /\ waiter = "returned" => outcome # "none"

(* A sink in state r, of directory d.                                       *)
SinkOK(r, d) ==
    /\ r.batch \cup r.todo \cup Elems(r.children) \cup r.files \subseteq Contents[d]
    /\ r.entries = 0 => r.children = <<>> /\ r.files = {}
    /\ r.left_out => r.children = <<>> /\ r.files = {} /\ d # Root
    /\ r.left_out => r.stage \in {"sending", "pushing"}
    /\ r.stage \in {"opening", "listing"} => r.batch = {}
    /\ r.stage = "opening" => r.entries = 0

SinksOK ==
    \A w \in Worker : IF sink[w].stage = "idle" THEN sink[w] = NewSink("idle")
                                                ELSE SinkOK(sink[w], job[w])

Announced == Stream!Announced
Counted == Stream!Counted
Queued == Elems(items)
Kids(w) == Elems(sink[w].children)
Reading(w) == sink[w].stage \in {"opening", "listing", "entries", "sending"}

(* A directory is in one place at most.                                     *)
NoTwice ==
    /\ Distinct(items)
    /\ Queued \cap Announced = {}
    /\ \A w \in Worker :
         /\ Distinct(sink[w].children)
         /\ Kids(w) \cap (Queued \cup Announced) = {}
         /\ Reading(w) => job[w] \notin Queued \cup Announced
    /\ \A v, w \in Worker :
         /\ Reading(w) => job[w] \notin Kids(v)
         /\ v # w => Kids(v) \cap Kids(w) = {}
         /\ v # w /\ Reading(v) /\ Reading(w) => job[v] # job[w]

(* Wherever it is, it was visited.                                          *)
Visited ==
    /\ Root \in visited_dirs
    /\ Queued \cup Announced \subseteq visited_dirs
    /\ \A w \in Worker :
         /\ Kids(w) \subseteq visited_dirs
         /\ Reading(w) => job[w] \in visited_dirs

(* And it was found in the directory that is its parent.                    *)
FoundAt(d) == d # Root => parent[d] \in Announced /\ d \in Contents[parent[d]]

Found ==
    /\ parent[Root] = NoDir
    /\ \A d \in Queued : FoundAt(d)
    /\ \A w \in Worker :
         /\ Reading(w) => FoundAt(job[w])
         /\ \A d \in Kids(w) : d # Root /\ parent[d] = job[w]
         /\ sink[w].stage = "pushing" /\ Kids(w) # {} => job[w] \in Announced

(* A file is counted by one worker, once.                                   *)
FilesOnce ==
    /\ Counted \subseteq visited_files
    /\ \A w \in Worker :
         /\ sink[w].files \subseteq visited_files
         /\ Reading(w) => sink[w].files \cap Counted = {}
    /\ \A v, w \in Worker :
         v # w /\ Reading(v) /\ Reading(w) => sink[v].files \cap sink[w].files = {}

(* What was visited is somewhere, or it is left out with a word; and so is  *)
(* every entry of what was read.                                            *)
Somewhere(d) ==
    \/ d \in Queued \cup Announced
    \/ \E w \in Worker : d \in Kids(w) \/ (Reading(w) /\ job[w] = d)

LeftOut(d, e) == <<d, e>> \in excused \cup reported
Noted(d, e) == LeftOut(d, e) \/ e \in visited_dirs \cup visited_files

(* A sink in state r, of directory d, has an eye on every entry of it.      *)
CoveredBy(r, d) ==
    /\ r.left_out => LeftOut(parent[d], d)
    /\ r.stage \in {"listing", "entries"} =>
         \A e \in Contents[d] : Noted(d, e) \/ e \in r.todo \cup r.batch
    /\ r.stage = "sending" /\ ~r.left_out => \A e \in Contents[d] : Noted(d, e)

Covered ==
    /\ Somewhere(Root)
    /\ \A d \in visited_dirs : Somewhere(d) \/ LeftOut(parent[d], d)
    /\ \A f \in visited_files : f \in Counted \/ \E w \in Worker : Reading(w) /\ f \in sink[w].files
    /\ \A d \in Announced : \A e \in Contents[d] : Noted(d, e)
    /\ \A w \in Worker : Reading(w) => CoveredBy(sink[w], job[w])

(* The walk isn't cut short: it wasn't cancelled before it was over.        *)
Live == (~cancel /\ ~cancelled) \/ outcome = "Complete"

Reports == ~failed => reported = {}

Ended ==
    done \in {"Complete", "Incomplete"} =>
        /\ outcome = "Complete"
        /\ EverythingBut(excused \cup reported)
        /\ done = "Complete" => reported = {}

SInv ==
    /\ IInv /\ CompleteIsQuiescent
    /\ ScanTypes /\ Phases /\ SinksOK /\ Reports
    /\ tx => NoTwice /\ Visited /\ Found /\ FilesOnce
    /\ tx /\ Live => Covered
    /\ Ended
-----------------------------------------------------------------------------
(* What sequences hold.                                                     *)
LEMMA ElemsNone == Elems(<<>>) = {} /\ Distinct(<<>>)
  BY DEF Elems, Distinct

LEMMA ElemsAppend ==
  ASSUME NEW S, NEW q \in Seq(S), NEW x \in S
  PROVE  /\ Append(q, x) \in Seq(S)
         /\ Elems(Append(q, x)) = Elems(q) \cup {x}
         /\ Distinct(q) /\ x \notin Elems(q) => Distinct(Append(q, x))
<1> DEFINE n == Len(q)
           p == Append(q, x)
<1>1. n \in Nat /\ DOMAIN q = 1 .. n BY LenProperties
<1>2. p \in Seq(S) /\ DOMAIN p = 1 .. n + 1 /\ p[n + 1] = x /\ \A i \in 1 .. n : p[i] = q[i]
  BY <1>1, AppendProperties, LenProperties
<1> HIDE DEF n, p
<1>3. \A i \in DOMAIN p : i = n + 1 \/ i \in DOMAIN q BY <1>1, <1>2
<1>4. n + 1 \in DOMAIN p /\ \A i \in DOMAIN q : i \in DOMAIN p /\ p[i] = q[i] BY <1>1, <1>2
<1>5. Elems(p) = Elems(q) \cup {x} BY <1>2, <1>3, <1>4 DEF Elems
<1>6. Distinct(q) /\ x \notin Elems(q) => Distinct(p)
  BY <1>2, <1>3, <1>4 DEF Elems, Distinct
<1> QED BY <1>2, <1>5, <1>6 DEF p

LEMMA ElemsConcat ==
  ASSUME NEW S, NEW q \in Seq(S), NEW r \in Seq(S)
  PROVE  /\ q \o r \in Seq(S)
         /\ Elems(q \o r) = Elems(q) \cup Elems(r)
         /\ Distinct(q) /\ Distinct(r) /\ Elems(q) \cap Elems(r) = {} => Distinct(q \o r)
<1> DEFINE n == Len(q)
           m == Len(r)
           p == q \o r
<1>1. n \in Nat /\ m \in Nat /\ DOMAIN q = 1 .. n /\ DOMAIN r = 1 .. m BY LenProperties
<1>2. /\ p \in Seq(S) /\ DOMAIN p = 1 .. n + m
      /\ \A i \in 1 .. n + m : p[i] = IF i <= n THEN q[i] ELSE r[i - n]
  BY <1>1, ConcatProperties, LenProperties
<1> HIDE DEF n, m, p
<1>3. \A i \in DOMAIN q : i \in DOMAIN p /\ p[i] = q[i] BY <1>1, <1>2
<1>4. \A i \in DOMAIN r : n + i \in DOMAIN p /\ p[n + i] = r[i] BY <1>1, <1>2
<1>5. \A i \in DOMAIN p : \/ i \in DOMAIN q /\ p[i] = q[i]
                          \/ i - n \in DOMAIN r /\ p[i] = r[i - n] /\ i \notin DOMAIN q
  BY <1>1, <1>2
<1>6. Elems(p) = Elems(q) \cup Elems(r)
  <2>1. Elems(p) \subseteq Elems(q) \cup Elems(r) BY <1>5 DEF Elems
  <2>2. Elems(q) \subseteq Elems(p) BY <1>3 DEF Elems
  <2>3. Elems(r) \subseteq Elems(p) BY <1>4 DEF Elems
  <2> QED BY <2>1, <2>2, <2>3
<1>7. ASSUME Distinct(q), Distinct(r), Elems(q) \cap Elems(r) = {} PROVE Distinct(p)
  <2> SUFFICES ASSUME NEW i \in DOMAIN p, NEW j \in DOMAIN p, p[i] = p[j] PROVE i = j
    BY DEF Distinct
  <2>0. i \in Int /\ j \in Int /\ n \in Int BY <1>1, <1>2
  <2>1. CASE i \in DOMAIN q /\ j \in DOMAIN q BY <1>3, <1>7, <2>1 DEF Distinct
  <2>2. CASE i \notin DOMAIN q /\ j \notin DOMAIN q
    <3>1. i - n = j - n BY <1>5, <1>7, <2>2 DEF Distinct
    <3> QED BY <2>0, <3>1
  <2>3. ASSUME NEW x \in DOMAIN p, NEW y \in DOMAIN p, p[x] = p[y],
               x \in DOMAIN q, y \notin DOMAIN q
        PROVE  FALSE
    <3>1. p[x] \in Elems(q) BY <1>3, <2>3 DEF Elems
    <3>2. p[y] \in Elems(r) BY <1>5, <2>3 DEF Elems
    <3> QED BY <1>7, <2>3, <3>1, <3>2
  <2> QED BY <2>1, <2>2, <2>3
<1> QED BY <1>2, <1>6, <1>7 DEF p

LEMMA ElemsPop ==
  ASSUME NEW q \in Seq(Item), q # <<>>
  PROVE  LET last == q[Len(q)]
             rest == SubSeq(q, 1, Len(q) - 1)
         IN  /\ last \in Elems(q)
             /\ Elems(rest) \subseteq Elems(q)
             /\ Elems(q) \subseteq Elems(rest) \cup {last}
             /\ Distinct(q) => Distinct(rest) /\ last \notin Elems(rest)
<1> DEFINE n == Len(q)
           rest == SubSeq(q, 1, n - 1)
<1>1. n \in Nat \ {0} /\ DOMAIN q = 1 .. n BY PopProperties, LenProperties
<1>2. rest \in Seq(Item) /\ Len(rest) = n - 1 BY PopProperties
<1>3. DOMAIN rest = 1 .. n - 1 BY <1>2, LenProperties
<1>4. \A i \in 1 .. n - 1 : rest[i] = q[i]
  <2>1. \A i \in 1 .. n - 1 : q[i] \in Item BY <1>1, ElementOfSeq
  <2> QED BY <1>1, <1>2, <2>1, SubSeqProperties
<1> HIDE DEF n, rest
<1>5. n \in DOMAIN q /\ n \notin DOMAIN rest BY <1>1, <1>3
<1>6. \A i \in DOMAIN rest : i \in DOMAIN q /\ rest[i] = q[i] BY <1>1, <1>3, <1>4
<1>7. \A i \in DOMAIN q : i = n \/ i \in DOMAIN rest BY <1>1, <1>3
<1> QED BY <1>5, <1>6, <1>7 DEF Elems, Distinct, n, rest

LEMMA SentSame ==
  ASSUME sent' = sent PROVE Announced' = Announced /\ Counted' = Counted
  BY DEF Announced, Counted, Stream!Announced, Stream!Counted

LEMMA SentMore ==
  ASSUME NEW event \in EventType, sent \in Seq(EventType), sent' = Append(sent, event)
  PROVE  Announced' = Announced \cup {event.dir} /\ Counted' = Counted \cup event.files
<1> DEFINE n == Len(sent)
<1>1. n \in Nat /\ DOMAIN sent = 1 .. n BY LenProperties
<1>2. DOMAIN sent' = 1 .. n + 1 /\ sent'[n + 1] = event /\ \A i \in 1 .. n : sent'[i] = sent[i]
  BY <1>1, AppendProperties, LenProperties
<1> HIDE DEF n
<1>3. \A i \in DOMAIN sent' : i = n + 1 \/ i \in DOMAIN sent BY <1>1, <1>2
<1>4. n + 1 \in DOMAIN sent' /\ \A i \in DOMAIN sent : i \in DOMAIN sent' /\ sent'[i] = sent[i]
  BY <1>1, <1>2
<1>5. Announced' = Announced \cup {event.dir}
  BY <1>2, <1>3, <1>4 DEF Announced, Stream!Announced
<1>6. Counted' = Counted \cup event.files
  BY <1>2, <1>3, <1>4 DEF Counted, Stream!Counted
<1> QED BY <1>5, <1>6

-----------------------------------------------------------------------------
(* The steps of the queue.                                                  *)
LEMMA QueueSteps ==
  ASSUME SInv, [ScanNext]_scanVars
  PROVE  [Next]_queueVars
<1>1. CASE RunScan
  BY <1>1 DEF RunScan, Wait, SendDone, ClearVisited, Next
<1>2. CASE Outside
  BY <1>2 DEF Outside, Next, WorkerStep
<1>3. ASSUME NEW w \in Worker, WorkerRuns(w) PROVE [Next]_queueVars
  <2>1. CASE ScanTake(w) BY <2>1 DEF ScanTake, Next, WorkerStep
  <2>2. CASE Checkpoint(w) BY <2>2 DEF Checkpoint, Next, WorkerStep
  <2>3. CASE SendDir(w) BY <2>3 DEF SendDir
  <2>4. CASE PushChildren(w)
    <3>1. sink[w].children \in Seq(Item) BY DEF SInv, ScanTypes, SinkType, Dir
    <3> QED BY <2>4, <3>1 DEF PushChildren, Next, WorkerStep
  <2>5. CASE ScanFinishOne(w) BY <2>5 DEF ScanFinishOne, Next, WorkerStep
  <2> QED BY <1>3, <2>1, <2>2, <2>3, <2>4, <2>5 DEF WorkerRuns
<1>4. ASSUME NEW w \in Worker, SystemCall(w) PROVE [Next]_queueVars
  <2>1. CASE \/ Open(w) \/ OpenFails(w) \/ ReadBatch(w) \/ ReadEnd(w)
             \/ \E error \in {"gone", "denied", "io"} : ListFailed(w, error)
             \/ \E e \in Dir \cup File : EntryFails(w, e)
    BY <2>1 DEF Open, OpenFails, ReadBatch, ReadEnd, ListFailed, EntryFails
  <2>2. ASSUME CountEntry(w) PROVE [Next]_queueVars
    BY <2>2 DEF CountEntry, Next, WorkerStep
  <2>3. CASE (\E d \in Dir : SubdirEntry(w, d)) \/ \E f \in File : FileEntry(w, f)
    BY <2>2, <2>3 DEF SubdirEntry, FileEntry
  <2> QED BY <1>4, <2>1, <2>3 DEF SystemCall
<1>5. CASE UNCHANGED scanVars BY <1>5 DEF scanVars
<1> QED BY <1>1, <1>2, <1>3, <1>4, <1>5 DEF ScanNext

LEMMA QueueKeeps ==
  ASSUME SInv, [ScanNext]_scanVars
  PROVE  IInv' /\ CompleteIsQuiescent'
<1>1. [Next]_queueVars BY QueueSteps
<1> QED BY <1>1, NextInvariant, QuiescentStep DEF SInv

(* A worker with a directory: it is busy, and its directory is one.         *)
LEMMA AtWork ==
  ASSUME SInv, NEW w \in Worker, sink[w].stage # "idle"
  PROVE  /\ job[w] \in Dir /\ SinkOK(sink[w], job[w]) /\ pc[w] = "busy"
         /\ outcome # "Complete"
<1>1. pc[w] = "busy" BY DEF SInv, Phases
<1>2. w \in InFlight BY <1>1 DEF InFlight
<1>3. job[w] \in Dir BY <1>2 DEF SInv, IInv, JobHeld, Dir
<1>4. outcome # "Complete" BY <1>2 DEF SInv, CompleteIsQuiescent
<1>5. SinkOK(sink[w], job[w]) BY DEF SInv, SinksOK
<1> QED BY <1>1, <1>3, <1>4, <1>5

LEMMA Idle ==
  ASSUME SInv, NEW w \in Worker, pc[w] # "busy"
  PROVE  sink[w] = NewSink("idle") /\ ~Reading(w) /\ Kids(w) = {}
<1>1. sink[w].stage = "idle" BY DEF SInv, Phases
<1>2. sink[w] = NewSink("idle") BY <1>1 DEF SInv, SinksOK
<1>3. sink[w].children = <<>> BY <1>2 DEF NewSink
<1> QED BY <1>1, <1>2, <1>3, ElemsNone DEF Reading, Kids

(* A step of the queue that gives no worker a directory, and takes none.    *)
LEMMA QueueMoves ==
  ASSUME SInv, IInv', CompleteIsQuiescent',
         UNCHANGED <<sink, sinkVars, sent, runVars>>,
         items' = items \/ items' = <<>>,
         \A w \in Worker : pc'[w] = "busy" <=> pc[w] = "busy",
         \A w \in Worker : pc[w] = "busy" => job'[w] = job[w],
         waiter' = "returned" => outcome' # "none",
         waiter = "returned" => waiter' = waiter /\ outcome' = outcome,
         Live' => Live /\ items' = items
  PROVE  SInv'
<1>0. ScanTypes /\ Phases /\ SinksOK /\ Reports BY DEF SInv
<1>1. Announced' = Announced /\ Counted' = Counted BY SentSame
<1>2. Queued' \subseteq Queued /\ (Distinct(items) => Distinct(items'))
  BY ElemsNone DEF Queued
<1>3. \A w \in Worker : Kids(w)' = Kids(w) /\ (Reading(w)' <=> Reading(w)) BY DEF Kids, Reading
<1>4. \A w \in Worker : sink[w].stage # "idle" => job'[w] = job[w]
  BY <1>0 DEF Phases
<1>5. \A w \in Worker : Reading(w) => job'[w] = job[w] BY <1>4 DEF Reading
<1>6. ScanTypes' BY <1>0 DEF ScanTypes, sinkVars, runVars
<1>7. Phases' BY <1>0 DEF Phases, runVars
<1>8. SinksOK' BY <1>0, <1>4 DEF SinksOK
<1>9. Reports' BY <1>0 DEF Reports, sinkVars
<1>10. ASSUME tx PROVE NoTwice' /\ Visited' /\ Found' /\ FilesOnce'
  <2>0. NoTwice /\ Visited /\ Found /\ FilesOnce BY <1>10 DEF SInv
  <2>1. NoTwice' BY <1>1, <1>2, <1>3, <1>5, <2>0 DEF NoTwice
  <2>2. Visited' BY <1>1, <1>2, <1>3, <1>5, <2>0 DEF Visited, sinkVars
  <2>3. \A d : FoundAt(d)' <=> FoundAt(d) BY <1>1 DEF FoundAt, sinkVars
  <2>4. \A w \in Worker : Kids(w) # {} => job'[w] = job[w]
    <3>1. \A w \in Worker : Kids(w) # {} => pc[w] = "busy" BY Idle
    <3> QED BY <3>1
  <2>5. Found' BY <1>1, <1>2, <1>3, <1>5, <2>0, <2>3, <2>4 DEF Found, sinkVars
  <2>6. FilesOnce' BY <1>1, <1>3, <2>0 DEF FilesOnce, sinkVars
  <2> QED BY <2>1, <2>2, <2>5, <2>6
<1>11. ASSUME tx, Live' PROVE Covered'
  <2>0. Covered /\ Queued' = Queued BY <1>11 DEF SInv, Queued
  <2>1. \A d : Somewhere(d)' <=> Somewhere(d)
    BY <1>1, <1>3, <1>5, <2>0 DEF Somewhere
  <2>2. \A d, e : (Noted(d, e)' <=> Noted(d, e)) /\ (LeftOut(d, e)' <=> LeftOut(d, e))
    BY DEF Noted, LeftOut, sinkVars
  <2>3. \A w \in Worker : Reading(w) => CoveredBy(sink[w], job[w])'
    <3> SUFFICES ASSUME NEW w \in Worker, Reading(w) PROVE CoveredBy(sink[w], job[w])'
      OBVIOUS
    <3>1. CoveredBy(sink[w], job[w]) BY <2>0 DEF Covered
    <3> QED BY <1>5, <2>2, <3>1 DEF CoveredBy, sinkVars
  <2> QED BY <1>1, <1>3, <2>0, <2>1, <2>2, <2>3 DEF Covered, sinkVars
<1>12. Ended'
  <2>1. ~tx => outcome' = outcome BY <1>0 DEF Phases
  <2>2. done # "none" => ~tx BY <1>0 DEF Phases
  <2>3. EverythingBut(excused \cup reported)' <=> EverythingBut(excused \cup reported)
    BY <1>1 DEF EverythingBut, Announced, Counted, sinkVars
  <2> QED BY <2>1, <2>2, <2>3 DEF SInv, Ended, sinkVars, runVars
<1> QED BY <1>6, <1>7, <1>8, <1>9, <1>10, <1>11, <1>12 DEF SInv, runVars

(* A worker goes on with its directory.                                     *)
LEMMA SinkMoves ==
  ASSUME SInv, IInv', CompleteIsQuiescent',
         NEW w \in Worker, NEW r \in SinkType, Reading(w),
         sink' = [sink EXCEPT ![w] = r],
         r.stage \in {"listing", "entries", "sending"}, SinkOK(r, job[w]),
         UNCHANGED <<items, cancel, cancelled, pc, job, waiter, outcome, sent, runVars>>,
         ScanTypes', Reports',
         tx => NoTwice' /\ Visited' /\ Found' /\ FilesOnce',
         tx /\ Live => Covered'
  PROVE  SInv'
<1>0. ScanTypes /\ Phases /\ SinksOK BY DEF SInv
<1>1. \A v \in Worker : sink'[v] = IF v = w THEN r ELSE sink[v] BY <1>0 DEF ScanTypes
<1>2. sink[w].stage # "idle" BY DEF Reading
<1>3. pc[w] = "busy" /\ outcome # "Complete" BY <1>2, AtWork
<1>4. Phases' BY <1>0, <1>1, <1>3 DEF Phases, runVars
<1>5. SinksOK' BY <1>0, <1>1 DEF SinksOK
<1>6. Live' <=> Live BY DEF Live
<1>7. Ended' BY <1>3 DEF SInv, Ended, runVars
<1> QED BY <1>4, <1>5, <1>6, <1>7 DEF SInv, runVars

(* It finds no more directories or files.                                   *)
LEMMA SinkLooks ==
  ASSUME SInv, IInv', CompleteIsQuiescent',
         NEW w \in Worker, NEW r \in SinkType, Reading(w),
         sink' = [sink EXCEPT ![w] = r],
         r.children = sink[w].children, r.files = sink[w].files,
         r.stage \in {"listing", "entries", "sending"}, SinkOK(r, job[w]),
         UNCHANGED <<items, cancel, cancelled, pc, job, waiter, outcome, sent, runVars>>,
         UNCHANGED <<parent, visited_dirs, visited_files>>,
         failed' \in BOOLEAN, Reports',
         excused \subseteq excused', reported \subseteq reported',
         tx /\ Live => CoveredBy(r, job[w])'
  PROVE  SInv'
<1>0. ScanTypes /\ Phases BY DEF SInv
<1>1. \A v \in Worker : sink'[v] = IF v = w THEN r ELSE sink[v] BY <1>0 DEF ScanTypes
<1>2. Announced' = Announced /\ Counted' = Counted /\ Queued' = Queued
  BY SentSame DEF Queued
<1>3. \A v \in Worker : /\ Kids(v)' = Kids(v) /\ (Reading(v)' <=> Reading(v))
                        /\ sink'[v].children = sink[v].children
                        /\ sink'[v].files = sink[v].files
                        /\ sink'[v].stage = "pushing" => sink[v].stage = "pushing"
  BY <1>1 DEF Kids, Reading
<1>4. ScanTypes' BY <1>0 DEF ScanTypes, runVars
<1>5. ASSUME tx PROVE NoTwice' /\ Visited' /\ Found' /\ FilesOnce'
  <2>0. NoTwice /\ Visited /\ Found /\ FilesOnce BY <1>5 DEF SInv
  <2>1. NoTwice' BY <1>2, <1>3, <2>0 DEF NoTwice
  <2>2. Visited' BY <1>2, <1>3, <2>0 DEF Visited
  <2>3. \A d : FoundAt(d)' <=> FoundAt(d) BY <1>2 DEF FoundAt
  <2>4. Found' BY <1>2, <1>3, <2>0, <2>3 DEF Found
  <2>5. FilesOnce' BY <1>2, <1>3, <2>0 DEF FilesOnce
  <2> QED BY <2>1, <2>2, <2>4, <2>5
<1>6. ASSUME tx, Live PROVE Covered'
  <2>0. Covered BY <1>6 DEF SInv
  <2>1. \A d : Somewhere(d)' <=> Somewhere(d) BY <1>2, <1>3 DEF Somewhere
  <2>2. \A d, e : (Noted(d, e) => Noted(d, e)') /\ (LeftOut(d, e) => LeftOut(d, e)')
    BY DEF Noted, LeftOut
  <2>3. ASSUME NEW v \in Worker, Reading(v) PROVE CoveredBy(sink[v], job[v])'
    <3>1. CASE v = w BY <1>1, <1>6, <3>1 DEF CoveredBy
    <3>2. CASE v # w
      <4>1. CoveredBy(sink[v], job[v]) /\ sink'[v] = sink[v] BY <1>1, <2>0, <2>3, <3>2 DEF Covered
      <4> QED BY <2>2, <4>1 DEF CoveredBy
    <3> QED BY <3>1, <3>2
  <2> QED BY <1>2, <1>3, <2>0, <2>1, <2>2, <2>3 DEF Covered
<1> QED BY <1>4, <1>5, <1>6, SinkMoves
-----------------------------------------------------------------------------
(* The sink of a worker at work, changed.                                   *)
LEMMA SinkIs ==
  ASSUME SInv, NEW w \in Worker
  PROVE  sink[w] \in SinkType /\ sink \in [Worker -> SinkType]
  BY DEF SInv, ScanTypes

LEMMA SystemLooks ==
  ASSUME SInv, IInv', CompleteIsQuiescent', NEW w \in Worker,
         \/ Open(w) \/ OpenFails(w) \/ ReadBatch(w) \/ ReadEnd(w)
         \/ \E error \in {"gone", "denied", "io"} : ListFailed(w, error)
         \/ \E e \in Dir \cup File : EntryFails(w, e)
  PROVE  SInv'
<1> DEFINE q == sink[w]
           d == job[w]
<1>0. q \in SinkType /\ sink \in [Worker -> SinkType] BY SinkIs
<1>1. q.stage \in {"opening", "listing", "entries"} /\ Reading(w)
  BY DEF Open, OpenFails, ReadBatch, ReadEnd, ListFailed, EntryFails, Reading
<1>2. d \in Dir /\ SinkOK(q, d) BY <1>1, AtWork
<1>3. ~q.left_out BY <1>0, <1>1, <1>2 DEF SinkOK, SinkType
<1>4. tx /\ Live => CoveredBy(q, d) BY <1>1 DEF SInv, Covered
<1>5. Reports /\ failed \in BOOLEAN BY DEF SInv, ScanTypes
<1>6. ASSUME NEW entries, Report(entries) \/ Excuse(entries)
      PROVE  /\ failed' \in BOOLEAN /\ Reports'
             /\ excused \subseteq excused' /\ reported \subseteq reported'
             /\ entries \subseteq excused' \cup reported'
  BY <1>5, <1>6 DEF Report, Excuse, Reports
<1>7. ASSUME NEW entry, EntryFailed(entry)
      PROVE  /\ failed' \in BOOLEAN /\ Reports'
             /\ excused \subseteq excused' /\ reported \subseteq reported'
             /\ entry \in excused' \cup reported'
  BY <1>6, <1>7 DEF EntryFailed
<1>8. Contents[d] \subseteq Entry BY <1>2, ContentsAssumption DEF Entry
<1>9. CASE Open(w)
  <2>1. PICK r : r = [q EXCEPT !.stage = "listing", !.todo = Contents[d]] OBVIOUS
  <2>2. r \in SinkType BY <1>0, <1>8, <2>1 DEF SinkType, Stages
  <2>3. r.stage = "listing" /\ r.todo = Contents[d] /\ r.batch = q.batch /\ r.entries = q.entries
        /\ r.children = q.children /\ r.files = q.files /\ r.left_out = q.left_out
    BY <1>0, <2>1 DEF SinkType
  <2>4. sink' = [sink EXCEPT ![w] = r] /\ q.stage = "opening"
        /\ UNCHANGED <<queueVars, sinkVars, sent, runVars>>
    BY <1>0, <1>9, <2>1 DEF Open, SinkType
  <2>5. SinkOK(r, d) BY <1>2, <1>3, <2>3, <2>4 DEF SinkOK
  <2>6. Reports' /\ CoveredBy(r, d)'
    BY <1>3, <1>5, <2>3, <2>4 DEF Reports, CoveredBy, sinkVars, queueVars
  <2> HIDE DEF q
  <2> QED BY <1>1, <1>5, <2>2, <2>3, <2>4, <2>5, <2>6, SinkLooks DEF q, sinkVars, queueVars
<1>10. CASE OpenFails(w)
  <2>1. PICK r : r = [q EXCEPT !.stage = "sending", !.left_out = TRUE] OBVIOUS
  <2>2. r \in SinkType BY <1>0, <2>1 DEF SinkType, Stages
  <2>3. r.stage = "sending" /\ r.todo = q.todo /\ r.batch = q.batch /\ r.entries = q.entries
        /\ r.children = q.children /\ r.files = q.files /\ r.left_out
    BY <1>0, <2>1 DEF SinkType
  <2>4. sink' = [sink EXCEPT ![w] = r] /\ q.stage = "opening" /\ d # Root
        /\ EntryFailed(<<parent[d], d>>)
        /\ UNCHANGED <<queueVars, visited_dirs, visited_files, parent, sent, runVars>>
    BY <1>0, <1>10, <2>1 DEF OpenFails, SinkType
  <2>5. SinkOK(r, d) BY <1>2, <2>3, <2>4 DEF SinkOK
  <2>6. CoveredBy(r, d)' BY <1>7, <2>3, <2>4 DEF CoveredBy, LeftOut, queueVars
  <2> HIDE DEF q
  <2> QED BY <1>1, <1>7, <2>2, <2>3, <2>4, <2>5, <2>6, SinkLooks DEF q, queueVars
<1>11. CASE ReadBatch(w)
  <2>1. PICK batch \in SUBSET q.todo :
          sink' = [sink EXCEPT ![w].stage = "entries", ![w].batch = batch, ![w].todo = @ \ batch]
    BY <1>11 DEF ReadBatch
  <2>2. PICK r : r = [q EXCEPT !.stage = "entries", !.batch = batch, !.todo = @ \ batch] OBVIOUS
  <2>3. r \in SinkType BY <1>0, <2>1, <2>2 DEF SinkType, Stages
  <2>4. r.stage = "entries" /\ r.todo = q.todo \ batch /\ r.batch = batch /\ r.entries = q.entries
        /\ r.children = q.children /\ r.files = q.files /\ r.left_out = q.left_out
    BY <1>0, <2>2 DEF SinkType
  <2>5. sink' = [sink EXCEPT ![w] = r] BY <1>0, <2>1, <2>2 DEF SinkType
  <2>6. q.stage = "listing" /\ UNCHANGED <<queueVars, sinkVars, sent, runVars>>
    BY <1>11 DEF ReadBatch
  <2>7. SinkOK(r, d) BY <1>2, <1>3, <2>1, <2>4, <2>6 DEF SinkOK
  <2>8. tx /\ Live => CoveredBy(r, d)'
    <3>1. \A e : Noted(d, e)' <=> Noted(d, e) BY <2>6 DEF Noted, LeftOut, sinkVars, queueVars
    <3> QED BY <1>2, <1>3, <1>4, <2>1, <2>4, <2>6, <3>1 DEF CoveredBy, SinkOK, queueVars
  <2>9. Reports' BY <1>5, <2>6 DEF Reports, sinkVars
  <2> HIDE DEF q
  <2> QED BY <1>1, <1>5, <2>3, <2>4, <2>5, <2>6, <2>7, <2>8, <2>9, SinkLooks
        DEF q, sinkVars, queueVars
<1>12. CASE ReadEnd(w)
  <2>1. PICK r : r = [q EXCEPT !.stage = "sending"] OBVIOUS
  <2>2. r \in SinkType BY <1>0, <2>1 DEF SinkType, Stages
  <2>3. r.stage = "sending" /\ r.todo = q.todo /\ r.batch = q.batch /\ r.entries = q.entries
        /\ r.children = q.children /\ r.files = q.files /\ r.left_out = q.left_out
    BY <1>0, <2>1 DEF SinkType
  <2>4. sink' = [sink EXCEPT ![w] = r] /\ q.stage = "listing" /\ q.todo = {}
        /\ UNCHANGED <<queueVars, sinkVars, sent, runVars>>
    BY <1>0, <1>12, <2>1 DEF ReadEnd, SinkType
  <2>5. SinkOK(r, d) BY <1>2, <1>3, <2>3 DEF SinkOK
  <2>6. tx /\ Live => CoveredBy(r, d)'
    <3>1. \A e : Noted(d, e)' <=> Noted(d, e) BY <2>4 DEF Noted, LeftOut, sinkVars, queueVars
    <3> QED BY <1>2, <1>3, <1>4, <2>3, <2>4, <3>1 DEF CoveredBy, SinkOK, queueVars
  <2>7. Reports' BY <1>5, <2>4 DEF Reports, sinkVars
  <2> HIDE DEF q
  <2> QED BY <1>1, <1>5, <2>2, <2>3, <2>4, <2>5, <2>6, <2>7, SinkLooks DEF q, sinkVars, queueVars
<1>13. ASSUME NEW error \in {"gone", "denied", "io"}, ListFailed(w, error) PROVE SInv'
  <2> DEFINE unlisted == error = "denied" /\ q.entries = 0 /\ d # Root
             rest == {<<d, e>> : e \in q.todo}
  <2>1. PICK r : r = [q EXCEPT !.stage = "sending", !.left_out = unlisted] OBVIOUS
  <2>2. r \in SinkType BY <1>0, <2>1 DEF SinkType, Stages
  <2>3. r.stage = "sending" /\ r.todo = q.todo /\ r.batch = q.batch /\ r.entries = q.entries
        /\ r.children = q.children /\ r.files = q.files /\ r.left_out = unlisted
    BY <1>0, <2>1 DEF SinkType
  <2>4. sink' = [sink EXCEPT ![w] = r] /\ q.stage = "listing"
        /\ UNCHANGED <<queueVars, visited_dirs, visited_files, parent, sent, runVars>>
    BY <1>0, <1>13, <2>1 DEF ListFailed, SinkType
  <2>5. IF unlisted THEN Excuse({<<parent[d], d>>}) ELSE Excuse(rest) \/ Report(rest)
    BY <1>13 DEF ListFailed
  <2> HIDE DEF rest
  <2>6. /\ failed' \in BOOLEAN /\ Reports'
        /\ excused \subseteq excused' /\ reported \subseteq reported'
        /\ IF unlisted THEN <<parent[d], d>> \in excused' \cup reported'
                       ELSE rest \subseteq excused' \cup reported'
    BY <1>6, <2>5
  <2>7. SinkOK(r, d) BY <1>2, <1>3, <2>3 DEF SinkOK
  <2>8. tx /\ Live => CoveredBy(r, d)'
    <3> SUFFICES ASSUME tx, Live PROVE CoveredBy(r, d)'
      OBVIOUS
    <3>1. \A e : Noted(d, e) => Noted(d, e)' BY <2>4, <2>6 DEF Noted, LeftOut, queueVars
    <3>2. CASE unlisted BY <2>3, <2>4, <2>6, <3>2 DEF CoveredBy, LeftOut, queueVars
    <3>3. CASE ~unlisted
      <4>1. \A e \in q.todo : <<d, e>> \in rest BY DEF rest
      <4>2. \A e \in q.todo : Noted(d, e)' BY <2>4, <2>6, <3>3, <4>1 DEF Noted, LeftOut, queueVars
      <4> QED BY <1>2, <1>4, <2>3, <2>4, <3>1, <3>3, <4>2 DEF CoveredBy, SinkOK, queueVars
    <3> QED BY <3>2, <3>3
  <2> HIDE DEF q, unlisted
  <2> QED BY <1>1, <2>2, <2>3, <2>4, <2>6, <2>7, <2>8, SinkLooks DEF q, queueVars
<1>14. ASSUME NEW e \in Dir \cup File, EntryFails(w, e) PROVE SInv'
  <2>1. PICK r : r = [q EXCEPT !.batch = @ \ {e}] OBVIOUS
  <2>2. r \in SinkType BY <1>0, <2>1 DEF SinkType, Stages
  <2>3. r.stage = q.stage /\ r.todo = q.todo /\ r.batch = q.batch \ {e} /\ r.entries = q.entries
        /\ r.children = q.children /\ r.files = q.files /\ r.left_out = q.left_out
    BY <1>0, <2>1 DEF SinkType
  <2>4. sink' = [sink EXCEPT ![w] = r] /\ q.stage = "entries" /\ EntryFailed(<<d, e>>)
        /\ UNCHANGED <<queueVars, visited_dirs, visited_files, parent, sent, runVars>>
    BY <1>0, <1>14, <2>1 DEF EntryFails, SinkType
  <2>5. SinkOK(r, d) BY <1>2, <2>3 DEF SinkOK
  <2>6. tx /\ Live => CoveredBy(r, d)'
    <3>1. \A x : Noted(d, x) => Noted(d, x)' BY <1>7, <2>4 DEF Noted, LeftOut, queueVars
    <3>2. Noted(d, e)' BY <1>7, <2>4 DEF Noted, LeftOut, queueVars
    <3> QED BY <1>3, <1>4, <2>3, <2>4, <3>1, <3>2 DEF CoveredBy, queueVars
  <2> HIDE DEF q
  <2> QED BY <1>1, <1>7, <2>2, <2>3, <2>4, <2>5, <2>6, SinkLooks DEF q, queueVars
<1> QED BY <1>9, <1>10, <1>11, <1>12, <1>13, <1>14

LEMMA CheckpointKeeps ==
  ASSUME SInv, IInv', CompleteIsQuiescent', NEW w \in Worker, Checkpoint(w)
  PROVE  SInv'
<1> DEFINE q == sink[w]
           d == job[w]
           to == IF cancel \/ cancelled THEN "sending" ELSE "listing"
<1>0. q \in SinkType /\ sink \in [Worker -> SinkType] BY SinkIs
<1>1. q.stage = "entries" /\ q.batch = {} /\ Reading(w) BY DEF Checkpoint, Reading
<1>2. d \in Dir /\ SinkOK(q, d) /\ outcome # "Complete" BY <1>1, AtWork
<1>3. ~q.left_out BY <1>0, <1>1, <1>2 DEF SinkOK, SinkType
<1>4. tx /\ Live => CoveredBy(q, d) BY <1>1 DEF SInv, Covered
<1>5. PICK r : r = [q EXCEPT !.stage = to] OBVIOUS
<1>6. r \in SinkType BY <1>0, <1>5 DEF SinkType, Stages
<1>7. r.stage = to /\ r.todo = q.todo /\ r.batch = q.batch /\ r.entries = q.entries
      /\ r.children = q.children /\ r.files = q.files /\ r.left_out = q.left_out
  BY <1>0, <1>5 DEF SinkType
<1>8. sink' = [sink EXCEPT ![w] = r]
      /\ UNCHANGED <<items, cancel, cancelled, pc, job, waiter, outcome, sinkVars, sent, runVars>>
  BY <1>0, <1>5 DEF Checkpoint, RecordProgress, SinkType
<1>9. SinkOK(r, d) BY <1>1, <1>2, <1>3, <1>7 DEF SinkOK
<1>10. tx /\ Live => CoveredBy(r, d)'
  <2>1. \A e : Noted(d, e)' <=> Noted(d, e) BY <1>8 DEF Noted, LeftOut, sinkVars
  <2>2. Live => to = "listing" BY <1>2 DEF Live
  <2> QED BY <1>1, <1>3, <1>4, <1>7, <1>8, <2>1, <2>2 DEF CoveredBy
<1>11. Reports' /\ failed' \in BOOLEAN BY <1>8 DEF SInv, ScanTypes, Reports, sinkVars
<1> HIDE DEF q
<1> QED BY <1>1, <1>6, <1>7, <1>8, <1>9, <1>10, <1>11, SinkLooks DEF q, sinkVars
-----------------------------------------------------------------------------
(* An entry that is looked at: the worker's own count, and no more.         *)
LEMMA Counts ==
  ASSUME NEW w \in Worker, CountEntry(w)
  PROVE  UNCHANGED <<items, cancel, cancelled, pc, job, waiter, outcome>>
  BY DEF CountEntry, RecordProgress, queueVars

LEMMA SeenProperties ==
  ASSUME NEW q \in SinkType, NEW e
  PROVE  LET r == [q EXCEPT !.batch = @ \ {e}, !.entries = @ + 1]
         IN  /\ r \in SinkType
             /\ r.stage = q.stage /\ r.todo = q.todo /\ r.batch = q.batch \ {e}
             /\ r.entries = q.entries + 1 /\ r.entries # 0
             /\ r.children = q.children /\ r.files = q.files /\ r.left_out = q.left_out
<1> DEFINE r == [q EXCEPT !.batch = @ \ {e}, !.entries = @ + 1]
<1>1. q.entries \in Nat /\ q.batch \ {e} \in SUBSET Entry BY DEF SinkType
<1>2. q.entries + 1 \in Nat /\ q.entries + 1 # 0 BY <1>1
<1> QED BY <1>1, <1>2 DEF SinkType

(* One that was seen under another name.                                    *)
LEMMA SeenBefore ==
  ASSUME SInv, IInv', CompleteIsQuiescent', NEW w \in Worker, NEW e,
         sink[w].stage = "entries", e \in visited_dirs \cup visited_files, CountEntry(w),
         sink' = [sink EXCEPT ![w] = Seen(w, e)],
         UNCHANGED <<sinkVars, sent, runVars>>
  PROVE  SInv'
<1> DEFINE q == sink[w]
           d == job[w]
<1>0. q \in SinkType BY SinkIs
<1>1. Reading(w) BY DEF Reading
<1>2. d \in Dir /\ SinkOK(q, d) BY AtWork
<1>3. tx /\ Live => CoveredBy(q, d) BY <1>1 DEF SInv, Covered
<1>4. PICK r : r = [q EXCEPT !.batch = @ \ {e}, !.entries = @ + 1] OBVIOUS
<1>5. /\ r \in SinkType
      /\ r.stage = q.stage /\ r.todo = q.todo /\ r.batch = q.batch \ {e} /\ r.entries # 0
      /\ r.children = q.children /\ r.files = q.files /\ r.left_out = q.left_out
  BY <1>0, <1>4, SeenProperties
<1>6. sink' = [sink EXCEPT ![w] = r] BY <1>4 DEF Seen
<1>7. UNCHANGED <<items, cancel, cancelled, pc, job, waiter, outcome>> BY Counts
<1>8. SinkOK(r, d) BY <1>2, <1>5 DEF SinkOK
<1>9. \A x : Noted(d, x)' <=> Noted(d, x) BY <1>7 DEF Noted, LeftOut, sinkVars
<1>10. Noted(d, e) BY DEF Noted
<1>11. ~q.left_out BY <1>0, <1>2 DEF SinkOK, SinkType
<1>12. tx /\ Live => CoveredBy(r, d)'
  BY <1>3, <1>5, <1>7, <1>9, <1>10, <1>11 DEF CoveredBy
<1>13. Reports' /\ failed' \in BOOLEAN BY DEF SInv, ScanTypes, Reports, sinkVars
<1> HIDE DEF q
<1> QED BY <1>1, <1>5, <1>6, <1>7, <1>8, <1>12, <1>13, SinkLooks DEF q, sinkVars

(* A directory nobody has seen: it is no worker's, and in no place.         *)
LEMMA NewSubdir ==
  ASSUME SInv, IInv', CompleteIsQuiescent', NEW w \in Worker, NEW e \in Dir,
         SubdirEntry(w, e), e \notin visited_dirs
  PROVE  SInv'
<1> DEFINE q == sink[w]
           d == job[w]
<1>0. q \in SinkType /\ sink \in [Worker -> SinkType] /\ ScanTypes BY SinkIs DEF SInv
<1>1. q.stage = "entries" /\ e \in q.batch /\ Reading(w) BY DEF SubdirEntry, Reading
<1>2. d \in Dir /\ SinkOK(q, d) BY <1>1, AtWork
<1>3. ~q.left_out BY <1>0, <1>1, <1>2 DEF SinkOK, SinkType
<1>4. UNCHANGED <<items, cancel, cancelled, pc, job, waiter, outcome>>
  BY Counts DEF SubdirEntry
<1>5. UNCHANGED <<visited_files, failed, excused, reported, sent, runVars>> BY DEF SubdirEntry
<1>6. visited_dirs' = visited_dirs \cup {e} /\ parent' = [parent EXCEPT ![e] = d]
  BY DEF SubdirEntry
<1>7. PICK r : r = [Seen(w, e) EXCEPT !.children = Append(@, e)] OBVIOUS
<1>8. sink' = [sink EXCEPT ![w] = r] BY <1>7 DEF SubdirEntry
<1>9. /\ Append(q.children, e) \in Seq(Dir)
      /\ Elems(Append(q.children, e)) = Kids(w) \cup {e}
      /\ Distinct(q.children) /\ e \notin Kids(w) => Distinct(Append(q.children, e))
  BY <1>0, ElemsAppend DEF SinkType, Kids
<1>10. /\ r \in SinkType /\ r.stage = "entries"
       /\ r.todo = q.todo /\ r.batch = q.batch \ {e} /\ r.entries # 0
       /\ r.children = Append(q.children, e) /\ r.files = q.files /\ ~r.left_out
  <2> DEFINE p == Seen(w, e)
  <2>1. /\ p \in SinkType /\ p.stage = q.stage /\ p.todo = q.todo /\ p.batch = q.batch \ {e}
        /\ p.entries # 0 /\ p.children = q.children /\ p.files = q.files
        /\ p.left_out = q.left_out
    BY ZenonT(40), <1>0, SeenProperties DEF Seen
  <2> HIDE DEF p
  <2>2. r = [p EXCEPT !.children = Append(@, e)] BY <1>7 DEF p
  <2> QED BY <1>1, <1>3, <1>9, <2>1, <2>2 DEF SinkType
<1>11. SinkOK(r, d)
  <2>1. Elems(r.children) = Kids(w) \cup {e} BY <1>9, <1>10
  <2> HIDE DEF q
  <2> QED BY <1>1, <1>2, <1>10, <2>1 DEF SinkOK, Kids, q
<1>12. \A v \in Worker : sink'[v] = IF v = w THEN r ELSE sink[v] BY <1>0, <1>8
<1> HIDE DEF q
<1>13. Announced' = Announced /\ Counted' = Counted /\ Queued' = Queued
  BY <1>4, <1>5, SentSame DEF Queued
<1>14. \A v \in Worker : /\ Kids(v)' = IF v = w THEN Kids(v) \cup {e} ELSE Kids(v)
                         /\ Reading(v)' <=> Reading(v)
                         /\ sink'[v].files = sink[v].files
                         /\ sink'[v].stage = sink[v].stage
  BY <1>1, <1>9, <1>10, <1>12 DEF Kids, Reading, q
<1>15. ScanTypes'
  <2>1. parent' \in [Dir -> Dir \cup {NoDir}] BY <1>0, <1>2, <1>6 DEF ScanTypes
  <2> QED BY <1>0, <1>5, <1>6, <1>8, <1>10, <2>1 DEF ScanTypes, runVars
<1>16. Reports' BY <1>5 DEF SInv, Reports
<1>17. ASSUME tx PROVE NoTwice' /\ Visited' /\ Found' /\ FilesOnce'
  <2>0. NoTwice /\ Visited /\ Found /\ FilesOnce BY <1>17 DEF SInv
  <2>1. /\ e \notin Queued \cup Announced /\ e # Root
        /\ \A v \in Worker : e \notin Kids(v) /\ (Reading(v) => job[v] # e)
    BY <2>0 DEF Visited
  <2>2. \A v \in Worker : Distinct(sink'[v].children)
    BY <1>9, <1>10, <1>12, <2>0, <2>1 DEF NoTwice, q
  <2>3. NoTwice'
    <3>1. \A v \in Worker : /\ Kids(v)' \cap (Queued \cup Announced) = {}
                            /\ Reading(v) => job[v] \notin Queued \cup Announced
      BY <1>14, <2>0, <2>1 DEF NoTwice
    <3>2. \A v, x \in Worker :
            /\ Reading(x) => job[x] \notin Kids(v)'
            /\ v # x => (Kids(v) \cap Kids(x))' = {}
            /\ v # x /\ Reading(v) /\ Reading(x) => job[v] # job[x]
      BY <1>14, <2>0, <2>1 DEF NoTwice
    <3> QED BY <1>4, <1>13, <1>14, <2>0, <2>2, <3>1, <3>2 DEF NoTwice
  <2>4. Visited' BY <1>4, <1>6, <1>13, <1>14, <2>0 DEF Visited
  <2>5. \A x \in Dir : x # e => parent'[x] = parent[x] BY <1>0, <1>6 DEF ScanTypes
  <2>6. parent'[e] = d BY <1>0, <1>6 DEF ScanTypes
  <2>7. \A x \in visited_dirs : x # e /\ parent'[x] = parent[x]
    BY <1>0, <2>5 DEF ScanTypes
  <2>8. \A x \in visited_dirs : FoundAt(x) => FoundAt(x)' BY <1>13, <2>7 DEF FoundAt
  <2>9. Found'
    <3>1. parent'[Root] = NoDir BY <2>0, <2>7 DEF Found, Visited
    <3>2. \A x \in Queued : FoundAt(x)' BY <2>0, <2>8 DEF Found, Visited
    <3>3. \A v \in Worker : Reading(v) => FoundAt(job[v])'
      <4> SUFFICES ASSUME NEW v \in Worker, Reading(v) PROVE FoundAt(job[v])'
        OBVIOUS
      <4>1. job[v] \in visited_dirs /\ FoundAt(job[v]) /\ job'[v] = job[v]
        BY <1>4, <2>0 DEF Found, Visited
      <4> QED BY <1>13, <2>7, <4>1 DEF FoundAt
    <3>4. \A v \in Worker : \A x \in Kids(v)' : x # Root /\ parent'[x] = job[v]
      BY <1>14, <2>0, <2>1, <2>6, <2>7 DEF Found, Visited
    <3>5. \A v \in Worker : sink'[v].stage = "pushing" /\ Kids(v)' # {} => job[v] \in Announced
      BY <1>1, <1>14, <2>0 DEF Found, q
    <3> QED BY <1>4, <1>13, <1>14, <3>1, <3>2, <3>3, <3>4, <3>5 DEF Found
  <2>10. FilesOnce' BY <1>5, <1>13, <1>14, <2>0 DEF FilesOnce
  <2> QED BY <2>3, <2>4, <2>9, <2>10
<1>18. ASSUME tx, Live PROVE Covered'
  <2>0. Covered /\ Visited BY <1>18 DEF SInv
  <2>1. \A x : Somewhere(x) => Somewhere(x)'
    BY <1>4, <1>13, <1>14 DEF Somewhere
  <2>2. Somewhere(e)' BY <1>14 DEF Somewhere
  <2>3. \A x \in visited_dirs : x # e /\ parent'[x] = parent[x]
    BY <1>0, <1>6 DEF ScanTypes
  <2>4. \A x, y : (Noted(x, y) => Noted(x, y)') /\ (LeftOut(x, y)' <=> LeftOut(x, y))
    BY <1>5, <1>6 DEF Noted, LeftOut
  <2>5. Noted(d, e)' BY <1>6 DEF Noted
  <2>6. ASSUME NEW v \in Worker, Reading(v) PROVE CoveredBy(sink[v], job[v])'
    <3>1. CoveredBy(sink[v], job[v]) /\ job[v] \in visited_dirs BY <2>0, <2>6 DEF Covered, Visited
    <3>2. CASE v = w
      BY <1>1, <1>4, <1>10, <1>12, <2>4, <2>5, <3>1, <3>2 DEF CoveredBy, q
    <3>3. CASE v # w
      BY <1>4, <1>12, <2>3, <2>4, <3>1, <3>3 DEF CoveredBy
    <3> QED BY <3>2, <3>3
  <2>7. \A x \in visited_dirs' : Somewhere(x)' \/ LeftOut(parent[x], x)'
    BY <1>6, <2>0, <2>1, <2>2, <2>3, <2>4 DEF Covered
  <2>8. \A f \in visited_files : f \in Counted \/ \E v \in Worker : Reading(v)' /\ f \in sink'[v].files
    BY <1>14, <2>0 DEF Covered
  <2>9. \A x \in Announced : \A y \in Contents[x] : Noted(x, y)' BY <2>0, <2>4 DEF Covered
  <2> QED BY <1>5, <1>13, <1>14, <2>0, <2>1, <2>6, <2>7, <2>8, <2>9 DEF Covered
<1> QED BY <1>1, <1>4, <1>5, <1>8, <1>10, <1>11, <1>15, <1>16, <1>17, <1>18, SinkMoves

(* A file nobody has counted.                                               *)
LEMMA NewFile ==
  ASSUME SInv, IInv', CompleteIsQuiescent', NEW w \in Worker, NEW f \in File,
         FileEntry(w, f), f \notin visited_files
  PROVE  SInv'
<1> DEFINE q == sink[w]
           d == job[w]
<1>0. q \in SinkType /\ sink \in [Worker -> SinkType] /\ ScanTypes BY SinkIs DEF SInv
<1>1. q.stage = "entries" /\ f \in q.batch /\ Reading(w) BY DEF FileEntry, Reading
<1>2. d \in Dir /\ SinkOK(q, d) BY <1>1, AtWork
<1>3. ~q.left_out BY <1>0, <1>1, <1>2 DEF SinkOK, SinkType
<1>4. UNCHANGED <<items, cancel, cancelled, pc, job, waiter, outcome>> BY Counts DEF FileEntry
<1>5. /\ visited_files' = visited_files \cup {f}
      /\ UNCHANGED <<visited_dirs, parent, failed, excused, reported, sent, runVars>>
  BY DEF FileEntry
<1>6. PICK r : r = [Seen(w, f) EXCEPT !.files = @ \cup {f}] OBVIOUS
<1>7. sink' = [sink EXCEPT ![w] = r] BY <1>6 DEF FileEntry
<1>8. /\ r \in SinkType /\ r.stage = "entries"
      /\ r.todo = q.todo /\ r.batch = q.batch \ {f} /\ r.entries # 0
      /\ r.children = q.children /\ r.files = q.files \cup {f} /\ ~r.left_out
  <2> DEFINE p == Seen(w, f)
  <2>1. /\ p \in SinkType /\ p.stage = q.stage /\ p.todo = q.todo /\ p.batch = q.batch \ {f}
        /\ p.entries # 0 /\ p.children = q.children /\ p.files = q.files
        /\ p.left_out = q.left_out
    BY ZenonT(40), <1>0, SeenProperties DEF Seen
  <2> HIDE DEF p
  <2>2. r = [p EXCEPT !.files = @ \cup {f}] BY <1>6 DEF p
  <2> QED BY <1>1, <1>3, <2>1, <2>2 DEF SinkType
<1>9. SinkOK(r, d) BY <1>1, <1>2, <1>8 DEF SinkOK
<1>10. \A v \in Worker : sink'[v] = IF v = w THEN r ELSE sink[v] BY <1>0, <1>7
<1> HIDE DEF q
<1>11. Announced' = Announced /\ Counted' = Counted /\ Queued' = Queued
  BY <1>4, <1>5, SentSame DEF Queued
<1>12. \A v \in Worker : /\ Kids(v)' = Kids(v) /\ sink'[v].children = sink[v].children
                         /\ Reading(v)' <=> Reading(v)
                         /\ sink'[v].files = IF v = w THEN sink[v].files \cup {f} ELSE sink[v].files
                         /\ sink'[v].stage = sink[v].stage
  BY <1>1, <1>8, <1>10 DEF Kids, Reading, q
<1>13. ScanTypes' BY <1>0, <1>5, <1>7, <1>8 DEF ScanTypes, runVars
<1>14. Reports' BY <1>5 DEF SInv, Reports
<1>15. ASSUME tx PROVE NoTwice' /\ Visited' /\ Found' /\ FilesOnce'
  <2>0. NoTwice /\ Visited /\ Found /\ FilesOnce BY <1>15 DEF SInv
  <2>1. NoTwice' BY ZenonT(40), <1>4, <1>11, <1>12, <2>0 DEF NoTwice
  <2>2. Visited' BY <1>4, <1>5, <1>11, <1>12, <2>0 DEF Visited
  <2>3. \A x : FoundAt(x)' <=> FoundAt(x) BY <1>5, <1>11 DEF FoundAt
  <2>4. Found' BY <1>4, <1>5, <1>11, <1>12, <2>0, <2>3 DEF Found
  <2>5. f \notin Counted /\ \A v \in Worker : f \notin sink[v].files BY <2>0 DEF FilesOnce
  <2>6. FilesOnce' BY ZenonT(40), <1>5, <1>11, <1>12, <2>0, <2>5 DEF FilesOnce
  <2> QED BY <2>1, <2>2, <2>4, <2>6
<1>16. ASSUME tx, Live PROVE Covered'
  <2>0. Covered BY <1>16 DEF SInv
  <2>1. \A x : Somewhere(x) => Somewhere(x)' BY <1>4, <1>11, <1>12 DEF Somewhere
  <2>2. \A x, y : (Noted(x, y) => Noted(x, y)') /\ (LeftOut(x, y)' <=> LeftOut(x, y))
    BY <1>5 DEF Noted, LeftOut
  <2>3. Noted(d, f)' BY <1>5 DEF Noted
  <2>4. ASSUME NEW v \in Worker, Reading(v) PROVE CoveredBy(sink[v], job[v])'
    <3>1. CoveredBy(sink[v], job[v]) BY <2>0, <2>4 DEF Covered
    <3>2. CASE v = w BY <1>1, <1>4, <1>8, <1>10, <2>2, <2>3, <3>1, <3>2 DEF CoveredBy, q
    <3>3. CASE v # w BY <1>4, <1>5, <1>10, <2>2, <3>1, <3>3 DEF CoveredBy
    <3> QED BY <3>2, <3>3
  <2>5. \A x \in visited_files' : x \in Counted \/ \E v \in Worker : Reading(v)' /\ x \in sink'[v].files
    BY <1>1, <1>5, <1>12, <2>0 DEF Covered
  <2> QED BY <1>5, <1>11, <1>12, <2>0, <2>1, <2>2, <2>4, <2>5 DEF Covered
<1> QED BY <1>1, <1>4, <1>5, <1>7, <1>8, <1>9, <1>13, <1>14, <1>15, <1>16, SinkMoves

LEMMA EntryKeeps ==
  ASSUME SInv, IInv', CompleteIsQuiescent', NEW w \in Worker,
         (\E d \in Dir : SubdirEntry(w, d)) \/ \E f \in File : FileEntry(w, f)
  PROVE  SInv'
<1>1. ASSUME NEW d \in Dir, SubdirEntry(w, d) PROVE SInv'
  <2>1. CASE d \notin visited_dirs BY <1>1, <2>1, NewSubdir
  <2>2. CASE d \in visited_dirs
    BY <1>1, <2>2, SeenBefore DEF SubdirEntry, sinkVars
  <2> QED BY <2>1, <2>2
<1>2. ASSUME NEW f \in File, FileEntry(w, f) PROVE SInv'
  <2>1. CASE f \notin visited_files BY <1>2, <2>1, NewFile
  <2>2. CASE f \in visited_files
    BY <1>2, <2>2, SeenBefore DEF FileEntry, sinkVars
  <2> QED BY <2>1, <2>2
<1> QED BY <1>1, <1>2
-----------------------------------------------------------------------------
(* The last directory queued becomes a worker's.                            *)
LEMMA TakesOne ==
  ASSUME SInv, IInv', CompleteIsQuiescent', NEW w \in Worker, TakeItem(w),
         sink' = [sink EXCEPT ![w] = NewSink("opening")],
         UNCHANGED <<sinkVars, sent, runVars>>
  PROVE  SInv'
<1> DEFINE d == items[Len(items)]
           rest == SubSeq(items, 1, Len(items) - 1)
           r == NewSink("opening")
<1>0. ScanTypes /\ Phases /\ SinksOK /\ sink \in [Worker -> SinkType] BY SinkIs DEF SInv
<1>1. items \in Seq(Item) /\ items # <<>> /\ pc[w] = "take" /\ pc \in [Worker -> Where]
      /\ job \in [Worker -> Item \cup {NoItem}]
  BY DEF TakeItem, SInv, IInv, TypeOK, Where
<1>2. /\ items' = rest /\ job' = [job EXCEPT ![w] = d] /\ pc' = [pc EXCEPT ![w] = "busy"]
      /\ UNCHANGED <<cancel, cancelled, waiter, outcome>>
  BY DEF TakeItem
<1>3. d \in Dir BY <1>1, PopProperties DEF Dir
<1>4. /\ d \in Queued /\ Queued' \subseteq Queued /\ Queued \subseteq Queued' \cup {d}
      /\ Distinct(items) => Distinct(items') /\ d \notin Queued'
  BY <1>1, <1>2, ElemsPop DEF Queued
<1> HIDE DEF d, rest
<1>5. Kids(w) = {} /\ ~Reading(w) BY <1>1, Idle
<1>6. /\ r \in SinkType /\ r.stage = "opening" /\ r.children = <<>> /\ r.files = {}
      /\ r.todo = {} /\ r.batch = {} /\ r.entries = 0 /\ ~r.left_out
  BY EmptySeq DEF NewSink, SinkType, Stages
<1> HIDE DEF r
<1>7. \A v \in Worker : sink'[v] = IF v = w THEN r ELSE sink[v] BY <1>0 DEF r
<1>8. \A v \in Worker : job'[v] = IF v = w THEN d ELSE job[v] BY <1>1, <1>2
<1>9. \A v \in Worker : /\ Kids(v)' = Kids(v)
                        /\ Reading(v)' <=> Reading(v) \/ v = w
                        /\ sink'[v].stage = "pushing" => v # w /\ sink[v].stage = "pushing"
                        /\ Distinct(sink[v].children) => Distinct(sink'[v].children)
                        /\ sink'[v].files = IF v = w THEN {} ELSE sink[v].files
  <2>1. Kids(w)' = {} /\ Reading(w)' /\ Distinct(sink'[w].children) /\ sink'[w].files = {}
        /\ sink'[w].stage = "opening"
    BY <1>6, <1>7, ElemsNone DEF Kids, Reading
  <2>2. \A v \in Worker :
          v # w => sink'[v] = sink[v] /\ Kids(v)' = Kids(v) /\ (Reading(v)' <=> Reading(v))
    BY <1>7 DEF Kids, Reading
  <2> QED BY <1>5, <2>1, <2>2
<1>10. Announced' = Announced /\ Counted' = Counted BY SentSame
<1>11. ScanTypes' BY <1>0, <1>6 DEF ScanTypes, sinkVars, runVars, r
<1>12. Phases' BY <1>0, <1>1, <1>2, <1>6, <1>7 DEF Phases, runVars
<1>13. SinksOK'
  <2>1. SinkOK(r, d) BY <1>6, ElemsNone DEF SinkOK
  <2> QED BY <1>0, <1>6, <1>7, <1>8, <2>1 DEF SinksOK
<1>14. Reports' BY DEF SInv, Reports, sinkVars
<1>15. ASSUME tx PROVE NoTwice' /\ Visited' /\ Found' /\ FilesOnce'
  <2>0. NoTwice /\ Visited /\ Found /\ FilesOnce BY <1>15 DEF SInv
  <2>1. NoTwice'
    <3>1. Distinct(items') /\ d \notin Queued' /\ d \notin Announced
          /\ \A v \in Worker : d \notin Kids(v) /\ (Reading(v) => job[v] # d)
      BY <1>4, <1>10, <2>0 DEF NoTwice
    <3>2. Queued' \cap Announced = {} BY <1>4, <2>0 DEF NoTwice
    <3>3. \A v \in Worker : /\ Distinct(sink'[v].children)
                            /\ Kids(v) \cap (Queued' \cup Announced) = {}
                            /\ Reading(v)' => job'[v] \notin Queued' \cup Announced
      BY <1>4, <1>5, <1>8, <1>9, <2>0, <3>1 DEF NoTwice
    <3>4. \A v, x \in Worker : /\ Reading(x)' => job'[x] \notin Kids(v)
                               /\ v # x => Kids(v) \cap Kids(x) = {}
                               /\ v # x /\ Reading(v)' /\ Reading(x)' => job'[v] # job'[x]
      BY <1>5, <1>8, <1>9, <2>0, <3>1 DEF NoTwice
    <3> QED BY <1>9, <1>10, <3>1, <3>2, <3>3, <3>4 DEF NoTwice
  <2>2. Visited' BY <1>4, <1>5, <1>8, <1>9, <1>10, <2>0 DEF Visited, sinkVars
  <2>3. \A x : FoundAt(x)' <=> FoundAt(x) BY <1>10 DEF FoundAt, sinkVars
  <2>4. FoundAt(d) BY <1>4, <2>0 DEF Found
  <2>5. \A v \in Worker : Reading(v)' => FoundAt(job[v])'
    <3> SUFFICES ASSUME NEW v \in Worker, Reading(v)' PROVE FoundAt(job[v])'
      OBVIOUS
    <3>1. FoundAt(job'[v]) BY <1>8, <1>9, <2>0, <2>4 DEF Found
    <3> QED BY <1>10, <3>1 DEF FoundAt, sinkVars
  <2>6. Found' BY <1>4, <1>5, <1>8, <1>9, <1>10, <2>0, <2>3, <2>5 DEF Found, sinkVars
  <2>7. FilesOnce' BY <1>9, <1>10, <2>0 DEF FilesOnce, sinkVars
  <2> QED BY <2>1, <2>2, <2>6, <2>7
<1>16. ASSUME tx, Live' PROVE Covered'
  <2>0. Covered BY <1>2, <1>16 DEF SInv, Live
  <2>1. \A x : Somewhere(x) => Somewhere(x)'
    BY <1>4, <1>5, <1>6, <1>7, <1>8, <1>9, <1>10 DEF Somewhere
  <2>2. \A x, y : (Noted(x, y)' <=> Noted(x, y)) /\ (LeftOut(x, y)' <=> LeftOut(x, y))
    BY DEF Noted, LeftOut, sinkVars
  <2>3. \A f \in visited_files : f \in Counted \/ \E v \in Worker : Reading(v)' /\ f \in sink'[v].files
    BY <1>5, <1>9, <2>0 DEF Covered
  <2>4. ASSUME NEW v \in Worker, Reading(v)' PROVE CoveredBy(sink[v], job[v])'
    <3>1. CASE v = w BY <1>6, <1>7, <3>1 DEF CoveredBy
    <3>2. CASE v # w
      <4>1. CoveredBy(sink[v], job[v]) BY <1>9, <2>0, <2>4, <3>2 DEF Covered
      <4> QED BY <1>7, <1>8, <2>2, <3>2, <4>1 DEF CoveredBy, sinkVars
    <3> QED BY <3>1, <3>2
  <2> QED BY <1>10, <2>0, <2>1, <2>2, <2>3, <2>4 DEF Covered, sinkVars
<1>17. Ended'
  <2>1. EverythingBut(excused \cup reported)' <=> EverythingBut(excused \cup reported)
    BY <1>10 DEF EverythingBut, Announced, Counted, sinkVars
  <2> QED BY <1>2, <2>1 DEF SInv, Ended, sinkVars, runVars
<1> QED BY <1>11, <1>12, <1>13, <1>14, <1>15, <1>16, <1>17 DEF SInv, runVars

(* The Dir of a directory that was read, if it is to be sent.               *)
LEMMA SendKeeps ==
  ASSUME SInv, IInv', CompleteIsQuiescent', NEW w \in Worker, SendDir(w)
  PROVE  SInv'
<1> DEFINE q == sink[w]
           d == job[w]
           event == [dir |-> d, parent |-> parent[d], files |-> q.files]
           sends == ~q.left_out /\ tx
<1>0. ScanTypes /\ Phases /\ SinksOK /\ q \in SinkType /\ sink \in [Worker -> SinkType]
  BY SinkIs DEF SInv
<1>1. q.stage = "sending" /\ Reading(w) BY DEF SendDir, Reading
<1>2. d \in Dir /\ SinkOK(q, d) /\ pc[w] = "busy" /\ outcome # "Complete" BY <1>1, AtWork
<1>3. UNCHANGED <<queueVars, sinkVars, runVars>> BY DEF SendDir
<1>4. PICK r : r = [q EXCEPT !.stage = "pushing"] OBVIOUS
<1>5. sink' = [sink EXCEPT ![w] = r] BY <1>0, <1>4 DEF SendDir, SinkType
<1>6. /\ r \in SinkType /\ r.stage = "pushing" /\ r.todo = q.todo /\ r.batch = q.batch
      /\ r.entries = q.entries /\ r.children = q.children /\ r.files = q.files
      /\ r.left_out = q.left_out
  BY <1>0, <1>4 DEF SinkType, Stages
<1>7. SinkOK(r, d) BY <1>2, <1>6 DEF SinkOK
<1>8. event \in EventType BY <1>0, <1>2 DEF ScanTypes, SinkType, EventType
<1>9. sent' = IF sends THEN Append(sent, event) ELSE sent
  BY DEF SendDir
<1>10. sent \in Seq(EventType) BY <1>0 DEF ScanTypes
<1>11. /\ Announced' = IF sends THEN Announced \cup {d} ELSE Announced
       /\ Counted' = IF sends THEN Counted \cup q.files ELSE Counted
  <2>1. CASE sends
    <3>1. event.dir = d /\ event.files = q.files OBVIOUS
    <3>2. sent' = Append(sent, event) BY <1>9, <2>1
    <3> HIDE DEF event, q
    <3> QED BY <1>8, <1>10, <2>1, <3>1, <3>2, SentMore
  <2>2. CASE ~sends BY <1>9, <2>2, SentSame
  <2> QED BY <2>1, <2>2
<1>12. sent' \in Seq(EventType)
  <2> HIDE DEF event
  <2> QED BY <1>8, <1>9, <1>10, ElemsAppend
<1> HIDE DEF event
<1>13. \A v \in Worker : sink'[v] = IF v = w THEN r ELSE sink[v] BY <1>0, <1>5
<1>14. \A v \in Worker : /\ Kids(v)' = Kids(v) /\ sink'[v].children = sink[v].children
                         /\ Reading(v)' <=> Reading(v) /\ v # w
                         /\ sink'[v].files = sink[v].files
                         /\ sink'[v].stage = IF v = w THEN "pushing" ELSE sink[v].stage
  BY <1>1, <1>6, <1>13 DEF Kids, Reading
<1>15. Queued' = Queued BY <1>3 DEF Queued, queueVars
<1>16. ScanTypes' BY <1>0, <1>3, <1>5, <1>6, <1>12 DEF ScanTypes, sinkVars, runVars
<1>17. Phases' BY <1>0, <1>2, <1>3, <1>6, <1>13 DEF Phases, queueVars, runVars
<1>18. SinksOK' BY <1>0, <1>3, <1>6, <1>7, <1>13 DEF SinksOK, queueVars
<1>19. Reports' BY <1>3 DEF SInv, Reports, sinkVars
<1>20. q.left_out => Kids(w) = {} /\ q.files = {} /\ d # Root
  BY <1>2, ElemsNone DEF SinkOK, Kids
<1> HIDE DEF q
<1>21. ASSUME tx PROVE NoTwice' /\ Visited' /\ Found' /\ FilesOnce'
  <2>0. NoTwice /\ Visited /\ Found /\ FilesOnce BY <1>21 DEF SInv
  <2>1. /\ d \notin Queued \cup Announced /\ d \in visited_dirs
        /\ \A v \in Worker : d \notin Kids(v) /\ (v # w /\ Reading(v) => job[v] # d)
    BY <1>1, <2>0 DEF NoTwice, Visited
  <2>2. NoTwice' BY <1>3, <1>11, <1>14, <1>15, <2>0, <2>1 DEF NoTwice, queueVars
  <2>3. Visited' BY <1>3, <1>11, <1>14, <1>15, <2>0, <2>1 DEF Visited, queueVars, sinkVars
  <2>4. \A x : FoundAt(x) => FoundAt(x)' BY <1>3, <1>11 DEF FoundAt, sinkVars
  <2>5. \A v \in Worker : Reading(v) => FoundAt(job[v])'
    <3> SUFFICES ASSUME NEW v \in Worker, Reading(v) PROVE FoundAt(job[v])'
      OBVIOUS
    <3>1. FoundAt(job[v]) BY <2>0 DEF Found
    <3> QED BY <1>3, <1>11, <3>1 DEF FoundAt, sinkVars, queueVars
  <2>6. \A v \in Worker : sink'[v].stage = "pushing" /\ Kids(v) # {} => job[v] \in Announced'
    BY <1>11, <1>14, <1>20, <1>21, <2>0 DEF Found
  <2>7. Found' BY <1>3, <1>14, <1>15, <2>0, <2>4, <2>5, <2>6 DEF Found, queueVars, sinkVars
  <2>8. FilesOnce'
    <3>1. q.files \subseteq visited_files
          /\ \A v \in Worker : v # w /\ Reading(v) => sink[v].files \cap q.files = {}
      BY <1>1, <2>0 DEF FilesOnce, q
    <3> QED BY <1>3, <1>11, <1>14, <2>0, <3>1 DEF FilesOnce, sinkVars
  <2> QED BY <2>2, <2>3, <2>7, <2>8
<1>22. ASSUME tx, Live PROVE Covered'
  <2>0. Covered BY <1>22 DEF SInv
  <2>1. CoveredBy(sink[w], d) BY <1>1, <2>0 DEF Covered
  <2>2. \A x, y : (Noted(x, y)' <=> Noted(x, y)) /\ (LeftOut(x, y)' <=> LeftOut(x, y))
    BY <1>3 DEF Noted, LeftOut, sinkVars
  <2>3. q.left_out => LeftOut(parent[d], d) BY <2>1 DEF CoveredBy, q
  <2>4. ~q.left_out => \A e \in Contents[d] : Noted(d, e) BY <1>1, <2>1 DEF CoveredBy, q
  <2>5. \A x : x # d \/ ~q.left_out => (Somewhere(x) => Somewhere(x)')
    BY <1>3, <1>11, <1>14, <1>15, <1>22 DEF Somewhere, queueVars
  <2>6. Somewhere(Root)' BY <1>20, <2>0, <2>5 DEF Covered
  <2>7. \A x \in visited_dirs : Somewhere(x)' \/ LeftOut(parent[x], x)
    BY <2>0, <2>3, <2>5 DEF Covered
  <2>8. \A f \in visited_files : f \in Counted' \/ \E v \in Worker : Reading(v)' /\ f \in sink'[v].files
    BY <1>11, <1>14, <1>20, <1>22, <2>0 DEF Covered, q
  <2>9. \A x \in Announced' : \A e \in Contents[x] : Noted(x, e)
    BY <1>11, <2>0, <2>4 DEF Covered
  <2>10. ASSUME NEW v \in Worker, Reading(v)' PROVE CoveredBy(sink[v], job[v])'
    <3>1. CoveredBy(sink[v], job[v]) /\ sink'[v] = sink[v]
      BY <1>13, <1>14, <2>0, <2>10 DEF Covered
    <3> QED BY <1>3, <2>2, <3>1 DEF CoveredBy, queueVars, sinkVars
  <2> QED BY <1>3, <2>2, <2>6, <2>7, <2>8, <2>9, <2>10 DEF Covered, sinkVars
<1>23. Live' <=> Live BY <1>3 DEF Live, queueVars
<1>24. Ended' BY <1>2, <1>3 DEF SInv, Ended, runVars
<1> QED BY <1>3, <1>16, <1>17, <1>18, <1>19, <1>21, <1>22, <1>23, <1>24 DEF SInv, runVars

(* What a worker found is queued, unless the queue was cancelled.           *)
LEMMA PushKeeps ==
  ASSUME SInv, IInv', CompleteIsQuiescent', NEW w \in Worker, PushChildren(w)
  PROVE  SInv'
<1> DEFINE q == sink[w]
           d == job[w]
           r == NewSink("idle")
           kids == q.children
           drops == kids = <<>> \/ cancelled
<1>0. ScanTypes /\ Phases /\ SinksOK /\ q \in SinkType /\ sink \in [Worker -> SinkType]
  BY SinkIs DEF SInv
<1>1. q.stage = "pushing" /\ ~Reading(w) BY DEF PushChildren, Reading
<1>2. d \in Dir /\ SinkOK(q, d) /\ pc[w] = "busy" /\ outcome # "Complete" BY <1>1, AtWork
<1>3. sink' = [sink EXCEPT ![w] = r] /\ UNCHANGED <<sinkVars, sent, runVars>>
  BY DEF PushChildren
<1>4. Push(w, kids) BY DEF PushChildren
<1>5. UNCHANGED <<cancel, cancelled, job, waiter, outcome>> BY <1>4 DEF Push
<1>6. items' = IF drops THEN items ELSE items \o kids BY <1>4 DEF Push
<1>7. pc \in [Worker -> Where] BY DEF SInv, IInv, TypeOK, Where
<1>8. \A v \in Worker : pc'[v] = "busy" <=> pc[v] = "busy" /\ v # w
  <2> DEFINE p == [pc EXCEPT ![w] = "pushed"]
  <2>1. p \in [Worker -> Where] BY <1>7 DEF Where
  <2>2. \A v \in Worker : p[v] = "busy" <=> pc[v] = "busy" /\ v # w BY <1>7
  <2>3. pc' = p \/ pc' = WakeAll(p) \/ pc' \in WakeOne(p) BY <1>4 DEF Push
  <2> HIDE DEF p
  <2>4. \A v \in Worker : WakeAll(p)[v] = "busy" <=> p[v] = "busy" BY DEF WakeAll
  <2>5. ASSUME NEW x \in WakeOne(p), NEW v \in Worker PROVE x[v] = "busy" <=> p[v] = "busy"
    <3>1. CASE x = p BY <3>1
    <3>2. CASE x # p
      <4>1. PICK u \in Worker : p[u] = "asleep" /\ x = [p EXCEPT ![u] = "take"]
        BY <2>5, <3>2 DEF WakeOne
      <4> QED BY <2>1, <4>1
    <3> QED BY <3>1, <3>2
  <2>6. CASE pc' \in WakeOne(p) BY <2>2, <2>5, <2>6
  <2> QED BY <2>2, <2>3, <2>4, <2>6
<1>9. items \in Seq(Dir) /\ kids \in Seq(Dir) BY <1>0 DEF SInv, IInv, TypeOK, SinkType, Dir
<1>10. /\ Queued' = IF drops THEN Queued ELSE Queued \cup Kids(w)
       /\ Distinct(items) /\ Distinct(kids) /\ (Queued \cap Kids(w) = {}) => Distinct(items')
  <2>1. CASE drops BY <1>6, <2>1 DEF Queued
  <2>2. CASE ~drops
    <3>1. items' = items \o kids BY <1>6, <2>2
    <3>2. Kids(w) = Elems(kids) BY DEF Kids
    <3> HIDE DEF drops, kids
    <3> QED BY <1>9, <2>2, <3>1, <3>2, ElemsConcat DEF Queued
  <2> QED BY <2>1, <2>2
<1>11. drops => Kids(w) = {} \/ cancelled BY ElemsNone DEF Kids
<1>12. /\ r \in SinkType /\ r.stage = "idle" /\ r.children = <<>> /\ r.files = {}
  BY EmptySeq DEF NewSink, SinkType, Stages
<1> HIDE DEF r, kids, drops, q
<1>13. \A v \in Worker : sink'[v] = IF v = w THEN r ELSE sink[v] BY <1>0, <1>3
<1>14. /\ Kids(w)' = {} /\ ~Reading(w)' /\ Distinct(sink'[w].children)
       /\ sink'[w].files = {} /\ sink'[w].stage = "idle"
  BY <1>12, <1>13, ElemsNone DEF Kids, Reading
<1>15. \A v \in Worker :
         v # w => sink'[v] = sink[v] /\ Kids(v)' = Kids(v) /\ (Reading(v)' <=> Reading(v))
  BY <1>13 DEF Kids, Reading
<1>16. \A v \in Worker : Kids(v)' \subseteq Kids(v) /\ (Reading(v)' <=> Reading(v))
  BY <1>1, <1>14, <1>15
<1>17. Announced' = Announced /\ Counted' = Counted BY <1>3, SentSame
<1>18. ScanTypes' BY <1>0, <1>3, <1>12 DEF ScanTypes, sinkVars, runVars
<1>19. Phases' BY <1>0, <1>3, <1>5, <1>8, <1>14, <1>15 DEF Phases, runVars
<1>20. SinksOK'
  <2>1. sink'[w] = NewSink("idle") BY <1>13 DEF r
  <2> QED BY <1>0, <1>5, <1>14, <1>15, <2>1 DEF SinksOK
<1>21. Reports' BY <1>3 DEF SInv, Reports, sinkVars
<1>22. ASSUME tx PROVE NoTwice' /\ Visited' /\ Found' /\ FilesOnce'
  <2>0. NoTwice /\ Visited /\ Found /\ FilesOnce BY <1>22 DEF SInv
  <2>1. Queued' \subseteq Queued \cup Kids(w) BY <1>10
  <2>2. NoTwice'
    <3>1. Distinct(items') BY <1>10, <2>0 DEF NoTwice, kids, q
    <3>2. (Queued \cup Kids(w)) \cap Announced = {} BY <2>0 DEF NoTwice
    <3>3. ASSUME NEW v \in Worker
          PROVE  /\ Distinct(sink'[v].children)
                 /\ Kids(v)' \cap (Queued \cup Kids(w) \cup Announced) = {}
                 /\ Reading(v) => job[v] \notin Queued \cup Kids(w) \cup Announced
      <4>1. CASE v = w BY <1>1, <1>14, <4>1
      <4>2. CASE v # w BY <1>15, <2>0, <4>2 DEF NoTwice
      <4> QED BY <4>1, <4>2
    <3>4. \A v, x \in Worker : /\ Reading(x) => job[x] \notin Kids(v)'
                               /\ v # x => (Kids(v) \cap Kids(x))' = {}
                               /\ v # x /\ Reading(v) /\ Reading(x) => job[v] # job[x]
      BY <1>16, <2>0 DEF NoTwice
    <3> QED BY <1>5, <1>16, <1>17, <2>1, <3>1, <3>2, <3>3, <3>4 DEF NoTwice
  <2>3. Visited' BY <1>3, <1>5, <1>16, <1>17, <2>0, <2>1 DEF Visited, sinkVars
  <2>4. \A x : FoundAt(x)' <=> FoundAt(x) BY <1>3, <1>17 DEF FoundAt, sinkVars
  <2>5. \A x \in Kids(w) : FoundAt(x)
    <3>1. \A x \in Kids(w) : x \in Contents[d] BY <1>2 DEF SinkOK, Kids, q
    <3> QED BY <1>1, <2>0, <3>1 DEF Found, FoundAt, q
  <2>6. \A x \in Queued' : FoundAt(x) BY <2>0, <2>1, <2>5 DEF Found
  <2>7. \A v \in Worker : Reading(v) => FoundAt(job[v]) BY <2>0 DEF Found
  <2>8. \A v \in Worker : Reading(v) => FoundAt(job[v])'
    BY <1>3, <1>5, <1>17, <2>7 DEF FoundAt, sinkVars
  <2>9. \A v \in Worker :
          sink'[v].stage = "pushing" /\ Kids(v)' # {} => job[v] \in Announced
    BY <1>14, <1>15, <2>0 DEF Found
  <2>10. \A v \in Worker : \A x \in Kids(v)' : x # Root /\ parent[x] = job[v]
    BY <1>16, <2>0 DEF Found
  <2>11. parent[Root] = NoDir BY <2>0 DEF Found
  <2>12. \A x \in Queued' : FoundAt(x)' BY <2>4, <2>6
  <2>13. Found'
    BY <1>3, <1>5, <1>16, <1>17, <2>8, <2>9, <2>10, <2>11, <2>12 DEF Found, sinkVars
  <2>14. FilesOnce'
    <3>1. \A v \in Worker : sink'[v].files \subseteq sink[v].files BY <1>14, <1>15
    <3> QED BY <1>3, <1>16, <1>17, <2>0, <3>1 DEF FilesOnce, sinkVars
  <2> QED BY <2>2, <2>3, <2>13, <2>14
<1>23. ASSUME tx, Live' PROVE Covered'
  <2>0. Covered /\ ~cancelled BY <1>2, <1>5, <1>23 DEF SInv, Live
  <2>1. Queued' = Queued \cup Kids(w) BY <1>10, <1>11, <2>0
  <2>2. \A x : Somewhere(x) => Somewhere(x)'
    BY <1>5, <1>15, <1>16, <1>17, <2>1 DEF Somewhere
  <2>3. \A x, y : (Noted(x, y)' <=> Noted(x, y)) /\ (LeftOut(x, y)' <=> LeftOut(x, y))
    BY <1>3 DEF Noted, LeftOut, sinkVars
  <2>4. \A f \in visited_files : f \in Counted \/ \E v \in Worker : Reading(v)' /\ f \in sink'[v].files
    BY <1>1, <1>15, <1>16, <2>0 DEF Covered
  <2>5. ASSUME NEW v \in Worker, Reading(v)' PROVE CoveredBy(sink[v], job[v])'
    <3>1. v # w BY <1>14, <2>5
    <3>2. CoveredBy(sink[v], job[v]) /\ sink'[v] = sink[v]
      BY <1>15, <2>0, <2>5, <3>1 DEF Covered
    <3> QED BY <1>3, <1>5, <2>3, <3>2 DEF CoveredBy, sinkVars
  <2>6. \A x \in visited_dirs : Somewhere(x)' \/ LeftOut(parent[x], x)
    BY <2>0, <2>2 DEF Covered
  <2>7. Somewhere(Root)' BY <2>0, <2>2 DEF Covered
  <2>8. \A x \in Announced : \A e \in Contents[x] : Noted(x, e) BY <2>0 DEF Covered
  <2> QED BY <1>3, <1>17, <2>3, <2>4, <2>5, <2>6, <2>7, <2>8 DEF Covered, sinkVars
<1>24. Ended' BY <1>2, <1>3 DEF SInv, Ended, runVars
<1> QED BY <1>3, <1>18, <1>19, <1>20, <1>21, <1>22, <1>23, <1>24 DEF SInv, runVars

-----------------------------------------------------------------------------
(* When the walk is over no directory is left but those announced.          *)
LEMMA AtTheEnd ==
  ASSUME SInv, tx, outcome = "Complete"
  PROVE  EverythingBut(excused \cup reported)
<1>1. items = <<>> /\ InFlight = {} BY DEF SInv, CompleteIsQuiescent
<1>2. \A w \in Worker : pc[w] # "busy" BY <1>1 DEF InFlight
<1>3. \A w \in Worker : ~Reading(w) /\ Kids(w) = {} BY <1>2, Idle
<1>4. Queued = {} BY <1>1, ElemsNone DEF Queued
<1>5. Covered BY DEF SInv, Live
<1>6. \A d : Somewhere(d) => d \in Announced BY <1>3, <1>4 DEF Somewhere
<1>7. \A d \in visited_dirs : d \in Announced \/ LeftOut(parent[d], d)
  BY <1>5, <1>6 DEF Covered
<1>8. visited_files \subseteq Counted BY <1>3, <1>5 DEF Covered
<1>9. Root \in Announced BY <1>5, <1>6 DEF Covered
<1>10. visited_dirs \subseteq Dir /\ visited_files \subseteq File BY DEF SInv, ScanTypes
<1>11. ASSUME NEW d \in Announced, NEW e \in Contents[d]
       PROVE  \/ LeftOut(d, e)
              \/ e \in Dir /\ (e \in Announced \/ LeftOut(parent[e], e))
              \/ e \in File /\ e \in Counted
  <2>1. Noted(d, e) BY <1>5, <1>11 DEF Covered
  <2> QED BY <1>7, <1>8, <1>10, <2>1 DEF Noted
<1> QED BY <1>9, <1>11 DEF EverythingBut, Announced, Counted, LeftOut

LEMMA RunnerKeeps ==
  ASSUME SInv, IInv', CompleteIsQuiescent', SendDone \/ ClearVisited
  PROVE  SInv'
<1>0. ScanTypes /\ Phases /\ SinksOK /\ Reports BY DEF SInv
<1>1. UNCHANGED <<queueVars, sink, failed, parent, excused, reported, sent>>
  BY DEF SendDone, ClearVisited, sinkVars
<1>2. ~tx'
  BY <1>0 DEF SendDone, ClearVisited, Phases
<1>3. SinksOK' BY <1>0, <1>1 DEF SinksOK, queueVars
<1>4. Reports' BY <1>0, <1>1 DEF Reports
<1>5. EverythingBut(excused \cup reported)' <=> EverythingBut(excused \cup reported)
  <2>1. Announced' = Announced /\ Counted' = Counted BY <1>1, SentSame
  <2> QED BY <1>1, <2>1 DEF EverythingBut, Announced, Counted
<1>6. CASE SendDone
  <2>1. /\ tx /\ waiter = "returned" /\ outcome # "none" /\ runner' = "clearing" /\ tx' = FALSE
        /\ done' = IF outcome = "Complete" /\ failed THEN "Incomplete" ELSE outcome
        /\ UNCHANGED <<visited_dirs, visited_files>>
    BY <1>0, <1>6 DEF SendDone, Phases, sinkVars
  <2>2. outcome \in {"none", "Complete", "Cancelled", "Stalled"} BY DEF SInv, IInv, TypeOK
  <2>3. ScanTypes' BY <1>0, <1>1, <2>1, <2>2 DEF ScanTypes
  <2>4. Phases' BY <1>0, <1>1, <2>1, <2>2 DEF Phases, queueVars
  <2>5. Ended'
    BY <1>0, <1>1, <1>5, <2>1, <2>2, AtTheEnd DEF Ended, Reports, queueVars
  <2> QED BY <1>2, <1>3, <1>4, <2>3, <2>4, <2>5 DEF SInv
<1>7. CASE ClearVisited
  <2>1. /\ runner = "clearing" /\ runner' = "returned" /\ UNCHANGED <<done, tx>>
        /\ visited_dirs' = {} /\ visited_files' = {}
    BY <1>7 DEF ClearVisited
  <2>2. ScanTypes' BY <1>0, <1>1, <2>1 DEF ScanTypes
  <2>3. Phases' BY <1>0, <1>1, <2>1 DEF Phases, queueVars
  <2>4. Ended' BY <1>1, <1>5, <2>1 DEF SInv, Ended, queueVars
  <2> QED BY <1>2, <1>3, <1>4, <2>2, <2>3, <2>4 DEF SInv
<1> QED BY <1>6, <1>7

(* The steps of the queue that move no directory to a worker.               *)
LEMMA QueueStepKeeps ==
  ASSUME SInv, IInv', CompleteIsQuiescent',
         \/ Wait \/ Outside
         \/ \E w \in Worker :
              ScanFinishOne(w) \/ (ScanTake(w) /\ ~TakeItem(w))
  PROVE  SInv'
<1>1. Phases /\ pc \in [Worker -> Where] /\ job \in [Worker -> Item \cup {NoItem}]
      /\ (outcome = "Complete" => items = <<>>)
  BY DEF SInv, IInv, TypeOK, CompleteIsQuiescent, Where
<1>2. ASSUME NEW p, CancelLocked(p)
      PROVE  (items' = items \/ items' = <<>>) /\ (pc' = p \/ pc' = WakeAll(p)) /\ cancelled'
  BY <1>2 DEF CancelLocked
<1>3. \A p : \A v \in Worker : WakeAll(p)[v] = "busy" <=> p[v] = "busy" BY DEF WakeAll
<1>4. \A w, v \in Worker : pc[w] = "take" => (Exited(w)[v] = "busy" <=> pc[v] = "busy")
  BY <1>1 DEF Exited
<1>5. CASE Wait
  <2>0. UNCHANGED <<sink, sinkVars, sent, runVars>> /\ WaiterStep BY <1>5 DEF Wait
  <2>1. CASE Poll /\ PollCancelled
    <3>1. /\ waiter = "waiting" /\ waiter' = "returned" /\ outcome' = "Cancelled"
          /\ CancelLocked(pc) /\ UNCHANGED <<cancel, job>> /\ (cancel \/ cancelled)
      BY <2>1 DEF Poll, PollCancelled, PollDone, PollQuiet
    <3>2. ~Live' BY <1>2, <3>1 DEF Live
    <3>3. \A v \in Worker : pc'[v] = "busy" <=> pc[v] = "busy" BY <1>2, <1>3, <3>1
    <3> QED BY <1>2, <2>0, <3>1, <3>2, <3>3, QueueMoves
  <2>2. CASE Poll /\ PollDone
    <3>1. /\ waiter = "waiting" /\ waiter' = "returned" /\ outcome' = "Complete"
          /\ ~cancel /\ ~cancelled /\ UNCHANGED <<items, pc, job>>
      BY <2>2 DEF Poll, PollCancelled, PollDone, PollQuiet
    <3>2. Live BY <3>1 DEF Live
    <3> QED BY <2>0, <3>1, <3>2, QueueMoves
  <2>3. CASE Poll /\ PollQuiet
    <3>1. /\ waiter = "waiting" /\ waiter' # "returned"
          /\ UNCHANGED <<items, pc, job, cancel, cancelled, outcome>>
      BY <2>3 DEF Poll, PollCancelled, PollDone, PollQuiet
    <3>2. Live' => Live BY <3>1 DEF Live
    <3> QED BY <2>0, <3>1, <3>2, QueueMoves
  <2>4. CASE StallCancel
    <3>1. /\ waiter = "stalling" /\ waiter' = "returned" /\ outcome' = "Stalled"
          /\ CancelLocked(pc) /\ job' = job
      BY <2>4 DEF StallCancel
    <3>2. ~Live' BY <1>2, <3>1 DEF Live
    <3>3. \A v \in Worker : pc'[v] = "busy" <=> pc[v] = "busy" BY <1>2, <1>3, <3>1
    <3> QED BY <1>2, <2>0, <3>1, <3>2, <3>3, QueueMoves
  <2> QED BY <2>0, <2>1, <2>2, <2>3, <2>4 DEF WaiterStep, Poll
<1>6. CASE Outside
  <2>0. UNCHANGED <<sink, sinkVars, sent, runVars>> BY <1>6 DEF Outside
  <2>1. CASE SetCancel
    <3>1. UNCHANGED <<items, cancelled, pc, job, waiter, outcome>> /\ ~cancel /\ cancel'
      BY <2>1 DEF SetCancel
    <3>2. Live' => Live BY <3>1 DEF Live
    <3> QED BY <1>1, <2>0, <3>1, <3>2, QueueMoves DEF Phases
  <2>2. ASSUME NEW w \in Worker, SpuriousWakeup(w) PROVE SInv'
    <3>1. UNCHANGED <<items, cancel, cancelled, job, waiter, outcome>>
          /\ pc[w] = "asleep" /\ pc' = [pc EXCEPT ![w] = "take"]
      BY <2>2 DEF SpuriousWakeup
    <3>2. \A v \in Worker : pc'[v] = "busy" <=> pc[v] = "busy" BY <1>1, <3>1
    <3>3. Live' => Live BY <3>1 DEF Live
    <3> QED BY <1>1, <2>0, <3>1, <3>2, <3>3, QueueMoves DEF Phases
  <2> QED BY <1>6, <2>1, <2>2 DEF Outside
<1>7. ASSUME NEW w \in Worker, ScanFinishOne(w) PROVE SInv'
  <2>0. UNCHANGED <<sink, sinkVars, sent, runVars>> BY <1>7 DEF ScanFinishOne
  <2>1. /\ pc[w] = "pushed" /\ job' = [job EXCEPT ![w] = NoItem]
        /\ UNCHANGED <<items, cancel, cancelled, waiter, outcome>>
    BY <1>7 DEF ScanFinishOne, FinishOne
  <2>2. \A v \in Worker : pc'[v] = "busy" <=> pc[v] = "busy"
    <3> DEFINE p == [pc EXCEPT ![w] = "take"]
    <3>1. pc' = p \/ pc' = WakeAll(p) BY <1>7 DEF ScanFinishOne, FinishOne
    <3>2. \A v \in Worker : p[v] = "busy" <=> pc[v] = "busy" BY <1>1, <2>1
    <3> HIDE DEF p
    <3> QED BY <1>3, <3>1, <3>2
  <2>3. \A v \in Worker : pc[v] = "busy" => job'[v] = job[v] BY <1>1, <2>1
  <2>4. Live' => Live BY <2>1 DEF Live
  <2> QED BY <1>1, <2>0, <2>1, <2>2, <2>3, <2>4, QueueMoves DEF Phases
<1>8. ASSUME NEW w \in Worker, ScanTake(w), ~TakeItem(w) PROVE SInv'
  <2>0. TakeCancelled(w) \/ TakeNone(w) BY <1>8 DEF ScanTake, Take
  <2>1. UNCHANGED <<job, waiter, outcome, cancel>> /\ pc[w] = "take"
    BY <2>0 DEF TakeCancelled, TakeNone
  <2>2. UNCHANGED <<sink, sinkVars, sent, runVars>> BY <1>8, <2>1 DEF ScanTake
  <2>3. CASE TakeNone(w)
    <3>1. UNCHANGED <<items, cancelled>>
          /\ \E x \in {"exited", "asleep"} : pc' = [pc EXCEPT ![w] = x]
      BY <2>3 DEF TakeNone
    <3>2. \A v \in Worker : pc'[v] = "busy" <=> pc[v] = "busy" BY <1>1, <2>1, <3>1
    <3>3. Live' => Live BY <2>1, <3>1 DEF Live
    <3> QED BY <1>1, <2>1, <2>2, <3>1, <3>2, <3>3, QueueMoves DEF Phases
  <2>4. CASE TakeCancelled(w)
    <3>1. /\ cancel \/ cancelled
          /\ \/ CancelLocked(Exited(w))
             \/ pc' = Exited(w) /\ UNCHANGED <<items, cancelled>>
      BY <2>4 DEF TakeCancelled
    <3>2. items' = items \/ items' = <<>> BY <1>2, <3>1
    <3>3. \A v \in Worker : pc'[v] = "busy" <=> pc[v] = "busy"
      BY <1>2, <1>3, <1>4, <2>1, <3>1
    <3>4. Live' => outcome = "Complete" BY <1>2, <2>1, <3>1 DEF Live
    <3>5. Live' => Live /\ items' = items BY <1>1, <3>2, <3>4 DEF Live
    <3> QED BY <1>1, <2>1, <2>2, <3>2, <3>3, <3>5, QueueMoves DEF Phases
  <2> QED BY <2>0, <2>3, <2>4
<1> QED BY <1>5, <1>6, <1>7, <1>8

-----------------------------------------------------------------------------
LEMMA InitScan == ScanInit => SInv
<1> SUFFICES ASSUME ScanInit PROVE SInv OBVIOUS
<1> USE ItemAssumption
<1>1. IInv BY InitInvariant DEF ScanInit
<1>2. /\ items = <<Root>> /\ outcome = "none" /\ waiter = "waiting" /\ Root \in Dir
      /\ pc = [w \in Worker |-> "take"] /\ ~cancelled
  BY DEF ScanInit, Init, Root, Dir
<1>3. /\ sink = [w \in Worker |-> NewSink("idle")] /\ parent = [d \in Dir |-> NoDir]
      /\ visited_dirs = {Root} /\ visited_files = {} /\ ~failed /\ sent = <<>>
      /\ done = "none" /\ tx /\ runner = "waiting" /\ reported = {} /\ failed = FALSE
  BY DEF ScanInit
<1>4. Announced = {} /\ Counted = {}
  <2>1. DOMAIN sent = {} BY <1>3
  <2> QED BY <2>1 DEF Announced, Counted, Stream!Announced, Stream!Counted
<1>5. Queued = {Root} /\ Distinct(items)
  <2>1. DOMAIN items = {1} /\ items[1] = Root BY <1>2
  <2> QED BY <2>1 DEF Queued, Elems, Distinct
<1>6. PICK r : r = NewSink("idle") OBVIOUS
<1>7. /\ r \in SinkType /\ r.stage = "idle" /\ r.children = <<>> /\ r.files = {}
  BY <1>6, EmptySeq DEF NewSink, SinkType, Stages
<1>8. \A w \in Worker : sink[w] = r /\ sink[w] = NewSink("idle") BY <1>3, <1>6
<1>9. \A w \in Worker : /\ Kids(w) = {} /\ Distinct(sink[w].children) /\ ~Reading(w)
                        /\ sink[w].files = {} /\ sink[w].stage = "idle"
  BY <1>7, <1>8, ElemsNone DEF Kids, Reading
<1>10. ScanTypes
  <2>1. sent \in Seq(EventType) BY <1>3, EmptySeq
  <2>2. sink \in [Worker -> SinkType] BY <1>3, <1>6, <1>7
  <2> QED BY <1>2, <1>3, <2>1, <2>2 DEF ScanTypes
<1>11. Phases BY <1>2, <1>3, <1>9 DEF Phases
<1>12. SinksOK BY <1>8, <1>9 DEF SinksOK
<1>13. NoTwice BY <1>4, <1>5, <1>9 DEF NoTwice
<1>14. Visited BY <1>3, <1>4, <1>5, <1>9 DEF Visited
<1>15. Found BY <1>2, <1>3, <1>5, <1>9 DEF Found, FoundAt
<1>16. FilesOnce BY <1>3, <1>4, <1>9 DEF FilesOnce
<1>17. Covered BY <1>3, <1>4, <1>5, <1>9 DEF Covered, Somewhere
<1> QED BY <1>1, <1>2, <1>3, <1>10, <1>11, <1>12, <1>13, <1>14, <1>15, <1>16, <1>17
        DEF SInv, CompleteIsQuiescent, Reports, Ended

LEMMA TakeKeeps ==
  ASSUME SInv, IInv', CompleteIsQuiescent', NEW w \in Worker, ScanTake(w)
  PROVE  SInv'
<1>1. CASE TakeItem(w)
  <2>1. pc[w] = "take" /\ job \in [Worker -> Item \cup {NoItem}]
        /\ items \in Seq(Item) /\ items # <<>> /\ job' = [job EXCEPT ![w] = items[Len(items)]]
    BY <1>1 DEF TakeItem, SInv, IInv, TypeOK
  <2>2. job[w] \notin Item BY <2>1 DEF SInv, IInv, JobHeld, InFlight
  <2>3. items[Len(items)] \in Item BY <2>1, PopProperties
  <2>4. job'[w] # job[w] BY <2>1, <2>2, <2>3
  <2>5. sink' = [sink EXCEPT ![w] = NewSink("opening")] /\ UNCHANGED <<sinkVars, sent, runVars>>
    BY <2>4 DEF ScanTake
  <2> QED BY <1>1, <2>5, TakesOne
<1>2. CASE ~TakeItem(w) BY <1>2, QueueStepKeeps
<1> QED BY <1>1, <1>2

LEMMA NextScan == SInv /\ [ScanNext]_scanVars => SInv'
<1> SUFFICES ASSUME SInv, [ScanNext]_scanVars PROVE SInv' OBVIOUS
<1>0. IInv' /\ CompleteIsQuiescent' BY QueueKeeps
<1>1. CASE RunScan BY <1>0, <1>1, QueueStepKeeps, RunnerKeeps DEF RunScan
<1>2. CASE Outside BY <1>0, <1>2, QueueStepKeeps
<1>3. ASSUME NEW w \in Worker, WorkerRuns(w) PROVE SInv'
  <2>1. CASE ScanTake(w) BY <1>0, <2>1, TakeKeeps
  <2>2. CASE Checkpoint(w) BY <1>0, <2>2, CheckpointKeeps
  <2>3. CASE SendDir(w) BY <1>0, <2>3, SendKeeps
  <2>4. CASE PushChildren(w) BY <1>0, <2>4, PushKeeps
  <2>5. CASE ScanFinishOne(w) BY <1>0, <2>5, QueueStepKeeps
  <2> QED BY <1>3, <2>1, <2>2, <2>3, <2>4, <2>5 DEF WorkerRuns
<1>4. ASSUME NEW w \in Worker, SystemCall(w) PROVE SInv'
  <2>1. CASE (\E d \in Dir : SubdirEntry(w, d)) \/ \E f \in File : FileEntry(w, f)
    BY <1>0, <2>1, EntryKeeps
  <2>2. CASE \/ Open(w) \/ OpenFails(w) \/ ReadBatch(w) \/ ReadEnd(w)
             \/ \E error \in {"gone", "denied", "io"} : ListFailed(w, error)
             \/ \E e \in Dir \cup File : EntryFails(w, e)
    BY <1>0, <2>2, SystemLooks
  <2> QED BY <1>4, <2>1, <2>2 DEF SystemCall
<1>5. CASE UNCHANGED scanVars
  <2>1. UNCHANGED <<sink, sinkVars, sent, runVars>>
        /\ UNCHANGED <<items, pc, job, waiter, outcome, cancel, cancelled>>
    BY <1>5 DEF scanVars, queueVars
  <2>2. Live' => Live BY <2>1 DEF Live
  <2> QED BY <1>0, <2>1, <2>2, QueueMoves DEF SInv, Phases
<1> QED BY <1>1, <1>2, <1>3, <1>4, <1>5 DEF ScanNext

LEMMA AlwaysSInv == ScanSpec => []SInv
  BY InitScan, NextScan, PTL DEF ScanSpec

-----------------------------------------------------------------------------
(* The workers of a scan use the queue as WorkQueue says a user does (take, *)
(* push, finish_one, record_progress by their own rules): every theorem of  *)
(* WorkQueue_proofs about Spec is one about a scan.                         *)
THEOREM ScanRunsTheQueue == ScanSpec => Spec
<1>1. ScanInit => Init BY DEF ScanInit
<1>2. SInv /\ [ScanNext]_scanVars => [Next]_queueVars BY QueueSteps
<1> QED BY <1>1, <1>2, AlwaysSInv, PTL DEF ScanSpec, Spec

(* A scan that reports Complete has announced every reachable directory and *)
(* counted every reachable file, but for what it may leave out without a    *)
(* word (run_scan, ScanOutcome::Complete).                                  *)
THEOREM ScanCompleteMeansEverything == ScanSpec => []CompleteMeansEverything
<1>1. SInv => CompleteMeansEverything
  <2> SUFFICES ASSUME SInv, done = "Complete" PROVE EverythingBut(excused)
    BY DEF CompleteMeansEverything
  <2>1. EverythingBut(excused \cup reported) /\ reported = {} BY DEF SInv, Ended
  <2> QED BY <2>1 DEF EverythingBut
<1> QED BY <1>1, AlwaysSInv, PTL

(* A scan that reports Incomplete ran to its end, and misses only what it   *)
(* reported an error for or may leave out (run_scan, report).               *)
THEOREM ScanIncompleteMeansReported == ScanSpec => []IncompleteMeansReported
<1>1. SInv => IncompleteMeansReported BY DEF SInv, Ended, IncompleteMeansReported
<1> QED BY <1>1, AlwaysSInv, PTL

(* A step sends nothing, announces a directory as the stream may, or ends   *)
(* the stream.                                                              *)
LEMMA SendAnnounces ==
  ASSUME SInv, NEW w \in Worker, SendDir(w)
  PROVE  [Stream!StreamNext]_(Stream!streamVars)
<1> DEFINE q == sink[w]
           d == job[w]
           event == [dir |-> d, parent |-> parent[d], files |-> q.files]
<1>0. q \in SinkType /\ sent \in Seq(EventType) /\ parent \in [Dir -> Dir \cup {NoDir}]
  BY SinkIs DEF SInv, ScanTypes
<1>1. q.stage = "sending" /\ Reading(w) /\ done' = done BY DEF SendDir, Reading, runVars
<1>2. d \in Dir /\ SinkOK(q, d) BY <1>1, AtWork
<1>3. CASE q.left_out \/ ~tx BY <1>1, <1>3 DEF SendDir, Stream!streamVars
<1>4. CASE ~q.left_out /\ tx
  <2>0. NoTwice /\ Found /\ FilesOnce /\ done = "none" BY <1>4 DEF SInv, Phases
  <2>1. sent' = Append(sent, event) BY <1>4 DEF SendDir
  <2>2. event \in EventType BY <1>0, <1>2 DEF SinkType, EventType
  <2>3. Len(sent') # Len(sent)
    <3> HIDE DEF event
    <3>1. Len(sent) \in Nat /\ Len(sent') = Len(sent) + 1
      BY <1>0, <2>1, <2>2, AppendProperties, LenProperties
    <3> QED BY <3>1
  <2>4. d \notin Stream!Announced BY <1>1, <2>0 DEF NoTwice, Announced
  <2>5. IF d = Root THEN parent[d] = NoDir
        ELSE parent[d] \in Stream!Announced /\ d \in Contents[parent[d]]
    BY <1>1, <2>0 DEF Found, FoundAt, Announced
  <2>6. q.files \subseteq (Contents[d] \cap File) \ Stream!Counted
    <3>1. q.files \subseteq Contents[d] BY <1>2 DEF SinkOK
    <3>2. q.files \subseteq File BY <1>0 DEF SinkType
    <3>3. q.files \cap Stream!Counted = {} BY <1>1, <2>0 DEF FilesOnce, Counted
    <3> QED BY <3>1, <3>2, <3>3
  <2>7. Stream!Announce(d, parent[d], q.files)
    BY <1>1, <2>0, <2>1, <2>4, <2>5, <2>6 DEF Stream!Announce
  <2>8. parent[d] \in Dir \cup {NoDir} /\ q.files \in SUBSET (Contents[d] \cap File)
    BY <1>0, <1>2, <2>6
  <2> QED BY <1>2, <2>3, <2>7, <2>8 DEF Stream!StreamNext
<1> QED BY <1>3, <1>4

LEMMA DoneFinishes ==
  ASSUME SInv, SendDone
  PROVE  Stream!StreamNext
<1>1. /\ tx /\ done = "none" /\ outcome # "none" /\ sent' = sent
      /\ done' = IF outcome = "Complete" /\ failed THEN "Incomplete" ELSE outcome
  BY DEF SInv, Phases, SendDone
<1>2. outcome \in {"Complete", "Cancelled", "Stalled"} BY <1>1 DEF SInv, IInv, TypeOK
<1>3. done' \in {"Complete", "Incomplete"} => Root \in Stream!Announced
  BY <1>1, <1>2, AtTheEnd DEF EverythingBut
<1>4. done' \in Stream!Outcomes BY <1>1, <1>2 DEF Stream!Outcomes
<1>5. Stream!Finish(done') BY <1>1, <1>3 DEF Stream!Finish
<1> QED BY <1>4, <1>5 DEF Stream!StreamNext

LEMMA StepStreams ==
  SInv /\ [ScanNext]_scanVars => [Stream!StreamNext]_(Stream!streamVars)
<1> SUFFICES ASSUME SInv, [ScanNext]_scanVars PROVE [Stream!StreamNext]_(Stream!streamVars)
  OBVIOUS
<1>1. ASSUME UNCHANGED <<sent, done>> PROVE UNCHANGED Stream!streamVars
  BY <1>1 DEF Stream!streamVars
<1>2. CASE RunScan
  BY <1>1, <1>2, DoneFinishes DEF RunScan, Wait, ClearVisited, runVars
<1>3. CASE Outside BY <1>1, <1>3 DEF Outside, runVars
<1>4. ASSUME NEW w \in Worker, WorkerRuns(w) PROVE [Stream!StreamNext]_(Stream!streamVars)
  BY <1>1, <1>4, SendAnnounces
     DEF WorkerRuns, ScanTake, Checkpoint, PushChildren, ScanFinishOne, runVars
<1>5. ASSUME NEW w \in Worker, SystemCall(w) PROVE UNCHANGED <<sent, done>>
  BY <1>5 DEF SystemCall, Open, OpenFails, ReadBatch, ReadEnd, ListFailed, SubdirEntry,
              FileEntry, EntryFails, runVars
<1>6. CASE UNCHANGED scanVars BY <1>1, <1>6 DEF scanVars, runVars
<1> QED BY <1>1, <1>2, <1>3, <1>4, <1>5, <1>6 DEF ScanNext

(* The events a scan sends are a stream as ScanStream promises: a directory *)
(* once and after its parent, a file counted once, ScanDone last and once   *)
(* (run_scan, run_worker, DirSink), through workers that outlive the scan.  *)
THEOREM ScanStreamIsSafe == ScanSpec => StreamIsSafe
<1>1. ScanInit => Stream!StreamInit BY DEF ScanInit, Stream!StreamInit
<1> QED BY <1>1, StepStreams, AlwaysSInv, PTL DEF ScanSpec, StreamIsSafe, Stream!StreamSafety
=============================================================================
