----------------------------- MODULE Mft_proofs -----------------------------
(***************************************************************************)
(* For any number of readers and reads, and any volume: a scan from the MFT *)
(* that is said to have run to its end missed no read, and what it sends is *)
(* a stream of module ScanStream.                                           *)
(***************************************************************************)
EXTENDS MftScan, FiniteSetTheorems, SequenceTheorems, TLAPS

Pcs == {"opening", "take", "reading", "sending", "exited"}

ReadersOK == reader \in [Reader -> [pc : Pcs, read : Nat, tries : 0 .. Attempts - 1]]

TableOK ==
    /\ mode \in {"Auto", "Require"}
    /\ next \in Nat
    /\ torn \subseteq Read
    /\ chan \subseteq {Records(i) : i \in Read} \cup {Error}
    /\ gathered \subseteq Read
    /\ gather \in {"gathering", "gathered", "failed", "sending"}
    /\ cancel \in BOOLEAN
    /\ outcome \in {"none", "Complete", "Incomplete", "Cancelled", "walk", "error"}
    /\ failed_at \in Nat

(* What lets a reader stop before the last read.                            *)
Broken == cancel \/ Error \in chan \/ gather = "failed"

InHand(i) == \E r \in Reader : reader[r].pc \in {"reading", "sending"} /\ reader[r].read = i

HandsOK == \A r \in Reader : reader[r].pc \in {"reading", "sending"} => reader[r].read \in Read

(* Every read taken off the counter is somewhere.                           *)
NoneLost == \A i \in Read : i < next => i \in gathered \/ Records(i) \in chan \/ InHand(i) \/ Broken

(* A reader leaves because no read is left, or because something broke.     *)
LeftForAReason == \A r \in Reader : reader[r].pc = "exited" => next >= Reads \/ Broken

AllIn ==
    /\ gather = "gathered" => Exited /\ chan = {}
    /\ gather = "sending" => Exited /\ gathered = Read

EndedOnce == outcome # "none" => Exited

IInv == ReadersOK /\ TableOK /\ HandsOK /\ NoneLost /\ LeftForAReason /\ AllIn /\ EndedOnce /\ VerdictSound

USE ReadersAssumption

(* Records are told apart from each other and from an error.                *)
LEMMA MessagesDiffer ==
  /\ \A i, j \in Read : Records(i) = Records(j) => i = j
  /\ \A i \in Read : Records(i) # Error
  <1>1. ASSUME NEW i \in Read, NEW j \in Read, Records(i) = Records(j) PROVE i = j
    <2>1. Records(i).read = i /\ Records(j).read = j  BY DEF Records
    <2> QED BY <1>1, <2>1
  <1>2. ASSUME NEW i \in Read PROVE Records(i) # Error
    <2>1. Records(i).kind = "records" /\ Error.kind = "error"  BY DEF Records, Error
    <2> QED BY <2>1
  <1> QED BY <1>1, <1>2

LEMMA InitIInv == Init => IInv
  <1> SUFFICES ASSUME Init PROVE IInv  OBVIOUS
  <1>1. ReadersOK
    <2>1. InReader("opening", 0, 0) \in [pc : Pcs, read : Nat, tries : 0 .. Attempts - 1]
      BY DEF InReader, Pcs
    <2> QED BY <2>1 DEF Init, ReadersOK
  <1>2. \A r \in Reader : reader[r].pc = "opening"  BY DEF Init, InReader
  <1>3. TableOK  BY DEF Init, TableOK
  <1>4. HandsOK  BY <1>2 DEF HandsOK
  <1>5. NoneLost  BY DEF Init, NoneLost, Read
  <1>6. LeftForAReason  BY <1>2 DEF LeftForAReason
  <1>7. AllIn  BY DEF Init, AllIn
  <1>8. EndedOnce /\ VerdictSound  BY DEF Init, EndedOnce, VerdictSound
  <1> QED BY <1>1, <1>3, <1>4, <1>5, <1>6, <1>7, <1>8 DEF IInv

(* What every step of a reader leaves as it was: it is a reader that hasn't *)
(* exited, so nothing has ended, and only its own state and the channel     *)
(* change.                                                                  *)
LEMMA ReaderMoves ==
  ASSUME IInv, NEW r \in Reader, reader[r].pc # "exited",
         NEW s \in [pc : Pcs, read : Nat, tries : 0 .. Attempts - 1],
         reader' = [reader EXCEPT ![r] = s],
         s.pc \in {"reading", "sending"} => s.read \in Read,
         UNCHANGED <<gathered, gather, outcome, failed_at>>
  PROVE  /\ ReadersOK' /\ HandsOK' /\ AllIn' /\ EndedOnce' /\ VerdictSound'
         /\ reader'[r] = s
         /\ \A q \in Reader : q # r => reader'[q] = reader[q]
  <1>1. ReadersOK'  BY DEF IInv, ReadersOK
  <1>2. reader'[r] = s /\ \A q \in Reader : q # r => reader'[q] = reader[q]
    BY DEF IInv, ReadersOK
  <1>3. HandsOK'  BY <1>2 DEF IInv, HandsOK, Read
  <1>4. ~ Exited  BY DEF Exited
  <1>5. AllIn' /\ EndedOnce' /\ VerdictSound'
    BY <1>4 DEF IInv, AllIn, EndedOnce, VerdictSound, Read
  <1> QED BY <1>1, <1>2, <1>3, <1>5

LEMMA OpenIInv == ASSUME IInv, NEW r \in Reader, Open(r) PROVE IInv'
  <1> DEFINE s == InReader("take", reader[r].read, 0)
  <1>1. /\ s \in [pc : Pcs, read : Nat, tries : 0 .. Attempts - 1]
        /\ s.pc = "take"
    BY DEF IInv, ReadersOK, InReader, Pcs
  <1>2. /\ reader[r].pc = "opening"
        /\ reader' = [reader EXCEPT ![r] = s]
        /\ UNCHANGED <<mode, next, torn, chan, gathered, gather, outcome, failed_at, cancel>>
    BY DEF Open, Goes, gatherVars
  <1> HIDE DEF s
  <1>3. /\ ReadersOK' /\ HandsOK' /\ AllIn' /\ EndedOnce' /\ VerdictSound'
        /\ reader'[r] = s
        /\ \A q \in Reader : q # r => reader'[q] = reader[q]
    BY <1>1, <1>2, ReaderMoves
  <1>4. TableOK'  BY <1>2 DEF IInv, TableOK, Read
  <1>5. Broken' = Broken  BY <1>2 DEF Broken
  <1>6. \A i \in Read : InHand(i) => InHand(i)'  BY <1>1, <1>2, <1>3 DEF InHand
  <1>7. NoneLost'  BY <1>2, <1>5, <1>6 DEF IInv, NoneLost, Read
  <1>8. LeftForAReason'  BY <1>1, <1>2, <1>3, <1>5 DEF IInv, LeftForAReason
  <1> QED BY <1>3, <1>4, <1>7, <1>8 DEF IInv

LEMMA FailsIInv == ASSUME IInv, NEW r \in Reader, Fails(r) PROVE IInv'
  <1> DEFINE s == InReader("exited", reader[r].read, 0)
  <1>1. /\ s \in [pc : Pcs, read : Nat, tries : 0 .. Attempts - 1]
        /\ s.pc = "exited"
    BY DEF IInv, ReadersOK, InReader, Pcs
  <1>2. /\ reader[r].pc # "exited"
        /\ reader' = [reader EXCEPT ![r] = s]
        /\ UNCHANGED <<mode, next, torn, gathered, gather, outcome, failed_at, cancel>>
        /\ chan' = IF gather = "failed" THEN chan ELSE chan \cup {Error}
    BY DEF Fails, Goes, gatherVars
  <1> HIDE DEF s
  <1>3. /\ ReadersOK' /\ HandsOK' /\ AllIn' /\ EndedOnce' /\ VerdictSound'
        /\ reader'[r] = s
        /\ \A q \in Reader : q # r => reader'[q] = reader[q]
    BY <1>1, <1>2, ReaderMoves
  <1>4. TableOK'  BY <1>2 DEF IInv, TableOK, Read
  <1>5. Broken'  BY <1>2 DEF Broken
  <1>6. NoneLost' /\ LeftForAReason'  BY <1>5 DEF NoneLost, LeftForAReason
  <1> QED BY <1>3, <1>4, <1>6 DEF IInv

LEMMA TakeIInv == ASSUME IInv, NEW r \in Reader, Take(r) PROVE IInv'
  <1> DEFINE none == next >= Reads \/ cancel
             s == IF none THEN InReader("exited", reader[r].read, 0)
                          ELSE InReader("reading", next, 0)
  <1>0. next \in Nat  BY DEF IInv, TableOK
  <1>1. /\ s \in [pc : Pcs, read : Nat, tries : 0 .. Attempts - 1]
        /\ none => s.pc = "exited"
        /\ ~none => s.pc = "reading" /\ s.read = next
    BY <1>0 DEF IInv, ReadersOK, InReader, Pcs
  <1>2. /\ reader[r].pc = "take"
        /\ reader' = [reader EXCEPT ![r] = s]
        /\ next' = next + 1
        /\ UNCHANGED <<mode, torn, chan, gathered, gather, outcome, failed_at, cancel>>
    BY DEF Take, Goes, gatherVars
  <1> HIDE DEF s
  <1>3. s.pc \in {"reading", "sending"} => s.read \in Read  BY <1>0, <1>1 DEF Read
  <1>4. /\ ReadersOK' /\ HandsOK' /\ AllIn' /\ EndedOnce' /\ VerdictSound'
        /\ reader'[r] = s
        /\ \A q \in Reader : q # r => reader'[q] = reader[q]
    BY <1>1, <1>2, <1>3, ReaderMoves
  <1>5. TableOK'  BY <1>2 DEF IInv, TableOK, Read
  <1>6. Broken' = Broken  BY <1>2 DEF Broken
  <1>7. \A i \in Read : InHand(i) => InHand(i)'  BY <1>2, <1>4 DEF InHand
  <1>8. NoneLost'
    <2> SUFFICES ASSUME NEW i \in Read, i < next'
                 PROVE  i \in gathered' \/ Records(i) \in chan' \/ InHand(i)' \/ Broken'
      BY DEF NoneLost, Read
    <2>1. CASE i < next  BY <2>1, <1>2, <1>6, <1>7 DEF IInv, NoneLost
    <2>2. CASE i = next
      <3>1. CASE none  BY <3>1, <2>2, <1>0, <1>2 DEF Broken, Read
      <3>2. CASE ~none  BY <3>2, <2>2, <1>1, <1>4 DEF InHand
      <3> QED BY <3>1, <3>2
    <2> QED BY <2>1, <2>2, <1>0, <1>2 DEF Read
  <1>9. LeftForAReason'
    <2> SUFFICES ASSUME NEW q \in Reader, reader'[q].pc = "exited"
                 PROVE  next' >= Reads \/ Broken'
      BY DEF LeftForAReason
    <2>1. CASE q = r
      BY <2>1, <1>0, <1>1, <1>2, <1>4 DEF Broken
    <2>2. CASE q # r
      BY <2>2, <1>0, <1>2, <1>4, <1>6 DEF IInv, LeftForAReason
    <2> QED BY <2>1, <2>2
  <1> QED BY <1>4, <1>5, <1>8, <1>9 DEF IInv

(* A read made, whole or torn, or made again, stays in its reader's hands.  *)
LEMMA StillInHand ==
  ASSUME IInv, NEW r \in Reader, reader[r].pc = "reading",
         NEW s \in [pc : Pcs, read : Nat, tries : 0 .. Attempts - 1],
         s.pc \in {"reading", "sending"}, s.read = reader[r].read,
         reader' = [reader EXCEPT ![r] = s],
         torn' \subseteq Read,
         UNCHANGED <<mode, next, chan, gathered, gather, outcome, failed_at, cancel>>
  PROVE  IInv'
  <1>1. s.read \in Read  BY DEF IInv, HandsOK
  <1>2. ~ Exited  BY DEF Exited
  <1>3. /\ ReadersOK' /\ HandsOK' /\ AllIn' /\ EndedOnce' /\ VerdictSound'
        /\ reader'[r] = s
        /\ \A q \in Reader : q # r => reader'[q] = reader[q]
    BY <1>1, ReaderMoves
  <1>4. TableOK'  BY DEF IInv, TableOK, Read
  <1>5. Broken' = Broken  BY DEF Broken
  <1>6. \A i \in Read : InHand(i) => InHand(i)'  BY <1>3 DEF InHand
  <1>7. NoneLost'  BY <1>5, <1>6 DEF IInv, NoneLost, Read
  <1>8. LeftForAReason'  BY <1>3, <1>5 DEF IInv, LeftForAReason
  <1> QED BY <1>3, <1>4, <1>7, <1>8 DEF IInv

LEMMA ReadIInv == ASSUME IInv, NEW r \in Reader, ReadWhole(r) \/ ReadTorn(r) PROVE IInv'
  <1> DEFINE sends == InReader("sending", reader[r].read, 0)
             again == InReader("reading", reader[r].read, reader[r].tries + 1)
  <1>0. /\ reader[r].pc = "reading"
        /\ reader[r].read \in Read
        /\ reader[r].read \in Nat
        /\ reader[r].tries \in 0 .. Attempts - 1
    BY DEF IInv, HandsOK, ReadersOK, ReadWhole, ReadTorn
  <1>1. /\ sends \in [pc : Pcs, read : Nat, tries : 0 .. Attempts - 1]
        /\ sends.pc = "sending" /\ sends.read = reader[r].read
    BY <1>0 DEF InReader, Pcs
  <1>2. torn \subseteq Read  BY DEF IInv, TableOK
  <1>3. CASE /\ reader' = [reader EXCEPT ![r] = sends]
             /\ torn' \subseteq torn \cup {reader[r].read}
             /\ UNCHANGED <<mode, next, chan, gathered, gather, outcome, failed_at, cancel>>
    <2> HIDE DEF sends
    <2> QED BY <1>0, <1>1, <1>2, <1>3, StillInHand
  <1>4. CASE /\ reader[r].tries + 1 < Attempts
             /\ reader' = [reader EXCEPT ![r] = again]
             /\ UNCHANGED <<mode, next, torn, chan, gathered, gather, outcome, failed_at, cancel>>
    <2>1. /\ again \in [pc : Pcs, read : Nat, tries : 0 .. Attempts - 1]
          /\ again.pc = "reading" /\ again.read = reader[r].read
      BY <1>0, <1>4 DEF InReader, Pcs
    <2> HIDE DEF again
    <2> QED BY <1>0, <1>2, <1>4, <2>1, StillInHand
  <1> QED BY <1>3, <1>4 DEF ReadWhole, ReadTorn, Goes, gatherVars

LEMMA SendIInv == ASSUME IInv, NEW r \in Reader, Send(r) PROVE IInv'
  <1> DEFINE failed == gather = "failed"
             i == reader[r].read
             s == IF failed THEN InReader("exited", i, 0) ELSE InReader("take", i, 0)
  <1>1. /\ s \in [pc : Pcs, read : Nat, tries : 0 .. Attempts - 1]
        /\ s.pc = IF failed THEN "exited" ELSE "take"
    BY DEF IInv, ReadersOK, InReader, Pcs
  <1>2. /\ reader[r].pc = "sending"
        /\ i \in Read
        /\ reader' = [reader EXCEPT ![r] = s]
        /\ UNCHANGED <<mode, next, torn, gathered, gather, outcome, failed_at, cancel>>
        /\ chan' = IF failed THEN chan ELSE chan \cup {Records(i)}
    BY DEF IInv, HandsOK, Send, Goes, gatherVars
  <1> HIDE DEF s
  <1>3. /\ ReadersOK' /\ HandsOK' /\ AllIn' /\ EndedOnce' /\ VerdictSound'
        /\ reader'[r] = s
        /\ \A q \in Reader : q # r => reader'[q] = reader[q]
    BY <1>1, <1>2, ReaderMoves
  <1>4. TableOK'  BY <1>2 DEF IInv, TableOK, Read
  <1>5. Broken => Broken'  BY <1>2 DEF Broken
  <1>6. \A j \in Read : InHand(j) /\ j # i => InHand(j)'  BY <1>2, <1>3 DEF InHand
  <1>7. NoneLost'
    <2> SUFFICES ASSUME NEW j \in Read, j < next
                 PROVE  j \in gathered \/ Records(j) \in chan' \/ InHand(j)' \/ Broken'
      BY <1>2 DEF NoneLost, Read
    <2>1. CASE j = i  BY <2>1, <1>2 DEF Broken
    <2>2. CASE j # i  BY <2>2, <1>2, <1>5, <1>6 DEF IInv, NoneLost
    <2> QED BY <2>1, <2>2
  <1>8. LeftForAReason'
    <2> SUFFICES ASSUME NEW q \in Reader, reader'[q].pc = "exited"
                 PROVE  next' >= Reads \/ Broken'
      BY DEF LeftForAReason
    <2>1. CASE q = r  BY <2>1, <1>1, <1>2, <1>3 DEF Broken
    <2>2. CASE q # r  BY <2>2, <1>2, <1>3, <1>5 DEF IInv, LeftForAReason
    <2> QED BY <2>1, <2>2
  <1> QED BY <1>3, <1>4, <1>7, <1>8 DEF IInv

LEMMA GatherIInv == ASSUME IInv, NEW i \in Read, Gather(i) PROVE IInv'
  <1>1. /\ gather = "gathering"
        /\ chan' = chan \ {Records(i)}
        /\ gathered' = gathered \cup {i}
        /\ UNCHANGED <<mode, next, reader, torn, gather, cancel, outcome, failed_at>>
    BY DEF Gather
  <1>2. ReadersOK' /\ HandsOK' /\ AllIn' /\ EndedOnce'
    BY <1>1 DEF IInv, ReadersOK, HandsOK, AllIn, EndedOnce, Exited, Read
  <1>3. TableOK'  BY <1>1 DEF IInv, TableOK, Read
  <1>4. VerdictSound'  BY <1>1, <1>3 DEF IInv, VerdictSound, TableOK, Read
  <1>5. Broken => Broken'  BY <1>1, MessagesDiffer DEF Broken
  <1>6. NoneLost'
    <2> SUFFICES ASSUME NEW j \in Read, j < next
                 PROVE  j \in gathered' \/ Records(j) \in chan' \/ InHand(j)' \/ Broken'
      BY <1>1 DEF NoneLost, Read
    <2>1. InHand(j) => InHand(j)'  BY <1>1 DEF InHand
    <2>2. Records(j) \in chan => j = i \/ Records(j) \in chan'  BY <1>1, MessagesDiffer
    <2> QED BY <1>1, <1>5, <2>1, <2>2 DEF IInv, NoneLost
  <1>7. LeftForAReason'  BY <1>1, <1>5 DEF IInv, LeftForAReason
  <1> QED BY <1>2, <1>3, <1>4, <1>6, <1>7 DEF IInv

LEMMA GatherFailsIInv == ASSUME IInv, GatherFails PROVE IInv'
  <1>1. Broken'  BY DEF GatherFails, Broken
  <1>2. NoneLost' /\ LeftForAReason'  BY <1>1 DEF NoneLost, LeftForAReason
  <1>3. ReadersOK' /\ HandsOK' /\ AllIn' /\ EndedOnce' /\ VerdictSound'
    BY DEF GatherFails, IInv, ReadersOK, HandsOK, AllIn, EndedOnce, VerdictSound, Exited, Read
  <1>4. TableOK'  BY DEF GatherFails, IInv, TableOK, Read
  <1> QED BY <1>2, <1>3, <1>4 DEF IInv

LEMMA GatherEndsIInv == ASSUME IInv, GatherEnds PROVE IInv'
  <1>1. ReadersOK' /\ HandsOK' /\ AllIn' /\ EndedOnce' /\ VerdictSound'
    BY DEF GatherEnds, IInv, ReadersOK, HandsOK, AllIn, EndedOnce, VerdictSound, Exited, Read
  <1>2. TableOK'  BY DEF GatherEnds, IInv, TableOK, Read
  <1>3. Broken' = Broken  BY DEF GatherEnds, Broken
  <1>4. \A i \in Read : InHand(i)' = InHand(i)  BY DEF GatherEnds, InHand
  <1>5. NoneLost'  BY <1>3, <1>4 DEF GatherEnds, IInv, NoneLost, Read
  <1>6. LeftForAReason'  BY <1>3 DEF GatherEnds, IInv, LeftForAReason
  <1> QED BY <1>1, <1>2, <1>5, <1>6 DEF IInv

(* The heart of it: the readers have exited, so for each a reason holds; an *)
(* error would have failed the gathering, and a set flag is seen here.  So  *)
(* no read was left, none is in a reader's hands or in the channel, and all *)
(* are gathered.                                                            *)
LEMMA AllGathered == ASSUME IInv, gather = "gathered", ~cancel PROVE gathered = Read
  <1>1. Exited /\ chan = {}  BY DEF IInv, AllIn
  <1>2. ~ Broken  BY <1>1 DEF Broken
  <1>3. PICK r \in Reader : TRUE  BY DEF ReadersAssumption
  <1>4. next >= Reads  BY <1>1, <1>2, <1>3 DEF IInv, LeftForAReason, Exited
  <1>5. ASSUME NEW i \in Read PROVE i \in gathered
    <2>1. i < next  BY <1>4 DEF IInv, TableOK, Read
    <2>2. ~ InHand(i)  BY <1>1 DEF InHand, Exited
    <2> QED BY <1>1, <1>2, <2>1, <2>2 DEF IInv, NoneLost
  <1> QED BY <1>5 DEF IInv, TableOK

LEMMA DecideIInv == ASSUME IInv, Decide PROVE IInv'
  <1>1. /\ Exited
        /\ gather = "gathered"
        /\ IF cancel THEN outcome' = "Cancelled" /\ gather' = gather
                     ELSE gather' = "sending" /\ outcome' = outcome
        /\ UNCHANGED <<mode, next, reader, torn, chan, gathered, cancel, failed_at>>
    BY DEF Decide, Ended
  <1>2. ~cancel => gathered = Read  BY <1>1, AllGathered
  <1>3. ReadersOK' /\ HandsOK' /\ AllIn' /\ EndedOnce' /\ VerdictSound'
    BY <1>1, <1>2 DEF IInv, ReadersOK, HandsOK, AllIn, EndedOnce, VerdictSound, Exited, Read
  <1>4. TableOK'  BY <1>1 DEF IInv, TableOK, Read
  <1>5. Broken' = Broken  BY <1>1 DEF Broken
  <1>6. \A i \in Read : InHand(i)' = InHand(i)  BY <1>1 DEF InHand
  <1>7. NoneLost'  BY <1>1, <1>5, <1>6 DEF IInv, NoneLost, Read
  <1>8. LeftForAReason'  BY <1>1, <1>5 DEF IInv, LeftForAReason
  <1> QED BY <1>3, <1>4, <1>7, <1>8 DEF IInv

LEMMA EndIInv == ASSUME IInv, Fail \/ Conclude PROVE IInv'
  <1>1. /\ Exited
        /\ UNCHANGED <<mode, next, reader, torn, chan, gathered, gather, cancel, failed_at>>
    BY DEF Fail, Conclude, Ended
  <1>2. outcome' \in {"Complete", "Incomplete", "walk", "error"}
    BY DEF Fail, Conclude, Abandoned
  <1>3. VerdictSound'
    <2>1. CASE Fail  BY <2>1, <1>1 DEF Fail, Abandoned, VerdictSound
    <2>2. CASE Conclude
      <3>1. gathered = Read  BY <2>2 DEF IInv, AllIn, Conclude
      <3>2. outcome' = "Complete" => torn = {}  BY <2>2 DEF Conclude, Abandoned
      <3> QED BY <3>1, <3>2, <1>1 DEF VerdictSound, Read
    <2> QED BY <2>1, <2>2
  <1>4. ReadersOK' /\ HandsOK' /\ AllIn' /\ EndedOnce'
    BY <1>1 DEF IInv, ReadersOK, HandsOK, AllIn, EndedOnce, Exited, Read
  <1>5. TableOK'  BY <1>1, <1>2 DEF IInv, TableOK, Read
  <1>6. Broken' = Broken  BY <1>1 DEF Broken
  <1>7. \A i \in Read : InHand(i)' = InHand(i)  BY <1>1 DEF InHand
  <1>8. NoneLost'  BY <1>1, <1>6, <1>7 DEF IInv, NoneLost, Read
  <1>9. LeftForAReason'  BY <1>1, <1>6 DEF IInv, LeftForAReason
  <1> QED BY <1>3, <1>4, <1>5, <1>8, <1>9 DEF IInv

LEMMA SetCancelIInv == ASSUME IInv, SetCancel PROVE IInv'
  <1>1. Broken'  BY DEF SetCancel, Broken
  <1>2. NoneLost' /\ LeftForAReason'  BY <1>1 DEF NoneLost, LeftForAReason
  <1>3. ReadersOK' /\ HandsOK' /\ AllIn' /\ EndedOnce' /\ VerdictSound'
    BY DEF SetCancel, gatherVars, IInv, ReadersOK, HandsOK, AllIn, EndedOnce, VerdictSound,
           Exited, Read
  <1>4. TableOK'  BY DEF SetCancel, gatherVars, IInv, TableOK, Read
  <1> QED BY <1>2, <1>3, <1>4 DEF IInv

LEMMA StutterIInv == ASSUME IInv, UNCHANGED vars PROVE IInv'
  <1>1. ReadersOK' /\ HandsOK' /\ AllIn' /\ EndedOnce' /\ VerdictSound' /\ TableOK'
    BY DEF vars, IInv, ReadersOK, HandsOK, AllIn, EndedOnce, VerdictSound, TableOK, Exited, Read
  <1>2. NoneLost' /\ LeftForAReason'
    BY DEF vars, IInv, NoneLost, LeftForAReason, Broken, InHand, Read
  <1> QED BY <1>1, <1>2 DEF IInv

LEMMA NextIInv == IInv /\ [Next]_vars => IInv'
  <1> SUFFICES ASSUME IInv, [Next]_vars PROVE IInv'  OBVIOUS
  <1>1. CASE UNCHANGED vars  BY <1>1, StutterIInv
  <1>2. CASE SetCancel  BY <1>2, SetCancelIInv
  <1>3. CASE GatherStep
    BY <1>3, GatherFailsIInv, GatherEndsIInv, DecideIInv, EndIInv, GatherIInv DEF GatherStep
  <1>4. ASSUME NEW r \in Reader, ReaderStep(r) PROVE IInv'
    BY <1>4, OpenIInv, FailsIInv, TakeIInv, ReadIInv, SendIInv DEF ReaderStep
  <1> QED BY <1>1, <1>2, <1>3, <1>4 DEF Next

LEMMA SpecIInv == Spec => []IInv
  BY InitIInv, NextIInv, PTL DEF Spec

(* The types of the readers' and the gathering thread's state (mft.rs,      *)
(* Volume::scan and read_records).                                          *)
THEOREM MftTypeOK == Spec => []TypeOK
  <1>1. IInv => TypeOK  BY DEF IInv, ReadersOK, TableOK, TypeOK, Pcs
  <1> QED BY <1>1, SpecIInv, PTL

(* A scan from the MFT that says it ran to its end has every read's records *)
(* in its table, and is Complete only if none were left out (Volume::scan), *)
(* for any number of readers and reads.                                     *)
THEOREM MftVerdictSound == Spec => []VerdictSound
  <1>1. IInv => VerdictSound  BY DEF IInv
  <1> QED BY <1>1, SpecIInv, PTL

-----------------------------------------------------------------------------
(* Readers that may yet take a read: after the gathering failed each takes  *)
(* one at most, for sending what it read then tells it to leave.            *)
MayTake == {r \in Reader : reader[r].pc \in {"opening", "take"}}

FewTaken ==
    gather = "failed" => next + Cardinality(MayTake) <= failed_at + Cardinality(Reader)

LEMMA MayTakeFinite ==
  /\ Cardinality(Reader) \in Nat
  /\ IsFiniteSet(MayTake) /\ Cardinality(MayTake) \in Nat
  /\ Cardinality(MayTake) <= Cardinality(Reader)
  <1>1. MayTake \in SUBSET Reader  BY DEF MayTake
  <1>2. IsFiniteSet(MayTake) /\ Cardinality(MayTake) <= Cardinality(Reader)
    BY <1>1, FS_Subset
  <1> QED BY <1>2, FS_CardinalityType

(* What none of the steps but Take and GatherFails does.                    *)
LEMMA NothingTaken ==
  ASSUME IInv, FewTaken, MayTake' \subseteq MayTake, UNCHANGED <<next, failed_at>>,
         gather' = "failed" => gather = "failed"
  PROVE  FewTaken'
  <1>1. MayTake' \in SUBSET MayTake /\ IsFiniteSet(MayTake)  BY MayTakeFinite
  <1>2. IsFiniteSet(MayTake') /\ Cardinality(MayTake') <= Cardinality(MayTake)
    BY <1>1, FS_Subset
  <1>3. Cardinality(MayTake') \in Nat  BY <1>2, FS_CardinalityType
  <1>4. next \in Nat /\ failed_at \in Nat  BY DEF IInv, TableOK
  <1> QED BY <1>2, <1>3, <1>4, MayTakeFinite DEF FewTaken

LEMMA TakeCounts == ASSUME IInv, FewTaken, NEW r \in Reader, Take(r) PROVE FewTaken'
  <1> DEFINE none == next >= Reads \/ cancel
             s == IF none THEN InReader("exited", reader[r].read, 0)
                          ELSE InReader("reading", next, 0)
  <1>1. s.pc \in {"exited", "reading"}  BY DEF InReader
  <1>2. /\ reader[r].pc = "take"
        /\ reader' = [reader EXCEPT ![r] = s]
        /\ next' = next + 1
        /\ UNCHANGED <<gather, failed_at>>
    BY DEF Take, Goes, gatherVars
  <1> HIDE DEF s
  <1>3. MayTake' = MayTake \ {r}  BY <1>1, <1>2 DEF MayTake, IInv, ReadersOK
  <1>4. Cardinality(MayTake') = Cardinality(MayTake) - 1
    <2>1. r \in MayTake  BY <1>2 DEF MayTake
    <2>2. IsFiniteSet(MayTake)  BY MayTakeFinite
    <2> HIDE DEF MayTake
    <2> QED BY <1>3, <2>1, <2>2, FS_RemoveElement
  <1>5. next \in Nat /\ failed_at \in Nat  BY DEF IInv, TableOK
  <1> QED BY <1>2, <1>4, <1>5, MayTakeFinite DEF FewTaken

LEMMA ReaderCounts == ASSUME IInv, FewTaken, NEW r \in Reader, ReaderStep(r) PROVE FewTaken'
  <1>1. CASE Take(r)  BY <1>1, TakeCounts
  <1>2. ASSUME NEW s, s.pc = "take" => reader[r].pc \in {"opening", "take"} \/ gather # "failed",
               s.pc # "opening",
               reader' = [reader EXCEPT ![r] = s],
               UNCHANGED <<next, gather, failed_at>>
        PROVE  FewTaken'
    <2>1. CASE gather = "failed"
      <3>1. MayTake' \subseteq MayTake  BY <1>2, <2>1 DEF MayTake, IInv, ReadersOK
      <3> QED BY <1>2, <3>1, NothingTaken
    <2>2. CASE gather # "failed"  BY <1>2, <2>2 DEF FewTaken
    <2> QED BY <2>1, <2>2
  <1> DEFINE to(pc) == InReader(pc, reader[r].read, 0)
             again == InReader("reading", reader[r].read, reader[r].tries + 1)
  <1>3. to("take").pc = "take" /\ to("exited").pc = "exited" /\ to("sending").pc = "sending"
        /\ again.pc = "reading"
    BY DEF InReader
  <1>4. CASE Open(r)
    <2>1. reader[r].pc = "opening" /\ reader' = [reader EXCEPT ![r] = to("take")]
          /\ UNCHANGED <<next, gather, failed_at>>
      BY <1>4 DEF Open, Goes, gatherVars
    <2> HIDE DEF to
    <2> QED BY <1>2, <1>3, <2>1
  <1>5. CASE Fails(r)
    <2>1. reader' = [reader EXCEPT ![r] = to("exited")] /\ UNCHANGED <<next, gather, failed_at>>
      BY <1>5 DEF Fails, Goes, gatherVars
    <2> HIDE DEF to
    <2> QED BY <1>2, <1>3, <2>1
  <1>6. CASE ReadWhole(r) \/ ReadTorn(r)
    <2>1. /\ reader' = [reader EXCEPT ![r] = to("sending")] \/ reader' = [reader EXCEPT ![r] = again]
          /\ UNCHANGED <<next, gather, failed_at>>
      BY <1>6 DEF ReadWhole, ReadTorn, Goes, gatherVars
    <2> HIDE DEF to, again
    <2> QED BY <1>2, <1>3, <2>1
  <1>7. CASE Send(r)
    <2>1. /\ IF gather = "failed" THEN reader' = [reader EXCEPT ![r] = to("exited")]
                                  ELSE reader' = [reader EXCEPT ![r] = to("take")]
          /\ UNCHANGED <<next, gather, failed_at>>
      BY <1>7 DEF Send, Goes, gatherVars
    <2> HIDE DEF to
    <2> QED BY <1>2, <1>3, <2>1
  <1> QED BY <1>1, <1>4, <1>5, <1>6, <1>7 DEF ReaderStep

LEMMA NextCounts == IInv /\ FewTaken /\ [Next]_vars => FewTaken'
  <1> SUFFICES ASSUME IInv, FewTaken, [Next]_vars PROVE FewTaken'  OBVIOUS
  <1>1. CASE UNCHANGED <<next, reader, gather, failed_at>>
    <2>1. MayTake' = MayTake  BY <1>1 DEF MayTake
    <2> QED BY <1>1, <2>1, NothingTaken
  <1>2. CASE GatherFails
    <2>1. next' = next /\ failed_at' = next /\ MayTake' = MayTake
      BY <1>2 DEF GatherFails, MayTake
    <2>2. next \in Nat  BY DEF IInv, TableOK
    <2> QED BY <2>1, <2>2, MayTakeFinite DEF FewTaken
  <1>3. CASE GatherEnds \/ Decide
    <2>1. gather' # "failed"  BY <1>3 DEF GatherEnds, Decide
    <2> QED BY <2>1 DEF FewTaken
  <1>4. CASE SetCancel \/ Fail \/ Conclude \/ \E i \in Read : Gather(i)
    <2>1. UNCHANGED <<next, reader, gather, failed_at>>
      BY <1>4 DEF SetCancel, Fail, Conclude, Gather, gatherVars
    <2> QED BY <1>1, <2>1
  <1>5. ASSUME NEW r \in Reader, ReaderStep(r) PROVE FewTaken'  BY <1>5, ReaderCounts
  <1> QED BY <1>1, <1>2, <1>3, <1>4, <1>5 DEF Next, GatherStep, vars

LEMMA CountsBound == IInv /\ FewTaken => ErrorStopsReaders
  <1> SUFFICES ASSUME IInv, FewTaken PROVE ErrorStopsReaders  OBVIOUS
  <1>1. next \in Nat /\ failed_at \in Nat  BY DEF IInv, TableOK
  <1> QED BY <1>1, MayTakeFinite DEF FewTaken, ErrorStopsReaders

(* "An error ends the gathering, which stops the readers" (Volume::scan):   *)
(* each takes one more read at most, however many reads are left.           *)
THEOREM MftErrorStopsReaders == Spec => []ErrorStopsReaders
  <1>1. Init => FewTaken  BY DEF Init, FewTaken
  <1> QED BY <1>1, CountsBound, SpecIInv, NextCounts, PTL DEF Spec

HIDE ReadersAssumption

-----------------------------------------------------------------------------
(* Numbers.  Induction is by the set of those it holds for.                 *)
LEMMA Least ==
    ASSUME NEW T, T \subseteq Nat, T # {}
    PROVE  \E i \in T : \A j \in T : i <= j
  <1>1. PICK i \in T : \A j \in T : ~ (<<j, i>> \in OpToRel(<, Nat))
    BY NatLessThanWellFounded, WFMin, Zenon
  <1>2. ASSUME NEW j \in T, j < i PROVE FALSE
    <2>1. <<j, i>> \in OpToRel(<, Nat)
      BY <1>2 DEF OpToRel
    <2>2. QED BY <1>1, <2>1
  <1>3. QED BY <1>2

(* Induction, up to n.                                                      *)
LEMMA Induct ==
    ASSUME NEW n \in Nat, NEW T, 0 \in T, \A i \in 1 .. n : i - 1 \in T => i \in T
    PROVE  0 .. n \subseteq T
  <1> DEFINE Bad == {i \in Nat : i <= n /\ i \notin T}
  <1>1. SUFFICES ASSUME Bad # {} PROVE FALSE
    OBVIOUS
  <1>2. PICK i \in Bad : \A j \in Bad : i <= j
    BY <1>1, Least
  <1>3. i \in 1 .. n
    BY <1>2
  <1>4. i - 1 \in Nat /\ i - 1 < i
    BY <1>3
  <1>5. i - 1 \in T
    BY <1>2, <1>3, <1>4
  <1>6. QED BY <1>2, <1>3, <1>5

(* What the values computed in n steps are, by the set every step stays in. *)
LEMMA StaysInAll ==
    ASSUME NEW S, NEW n \in Nat, NEW h, h[0] \in S, \A i \in 1 .. n : h[i - 1] \in S => h[i] \in S
    PROVE  \A i \in 0 .. n : h[i] \in S
  <1> DEFINE T == {i \in 0 .. n : h[i] \in S}
  <1>1. 0 \in T /\ \A i \in 1 .. n : i - 1 \in T => i \in T
    OBVIOUS
  <1> HIDE DEF T
  <1>2. 0 .. n \subseteq T
    BY <1>1, Induct
  <1>3. QED BY <1>2 DEF T

(* There is such a value.                                                   *)
Stepped(h, S, b, n, step) ==
    /\ h \in [0 .. n -> S]
    /\ h[0] = b
    /\ \A i \in 1 .. n : h[i] = step[h[i - 1]][i]

LEMMA Steps ==
    ASSUME NEW S, NEW b \in S, NEW n \in Nat, NEW step \in [S -> [1 .. n -> S]]
    PROVE  \E h : Stepped(h, S, b, n, step)
  <1> DEFINE T == {m \in 0 .. n : \E h : Stepped(h, S, b, m, step)}
  <1>1. 0 \in T
    <2> DEFINE k == [i \in 0 .. 0 |-> b]
    <2>1. k \in [0 .. 0 -> S] /\ k[0] = b
      OBVIOUS
    <2>2. \A i \in 1 .. 0 : k[i] = step[k[i - 1]][i]
      OBVIOUS
    <2> HIDE DEF k
    <2>3. Stepped(k, S, b, 0, step)
      BY <2>1, <2>2 DEF Stepped
    <2>4. QED BY <2>3
  <1>2. ASSUME NEW m \in 1 .. n, m - 1 \in T PROVE m \in T
    <2>0. PICK h : Stepped(h, S, b, m - 1, step)
      BY <1>2
    <2>1. h \in [0 .. m - 1 -> S] /\ h[0] = b /\ \A i \in 1 .. m - 1 : h[i] = step[h[i - 1]][i]
      BY <2>0 DEF Stepped
    <2> DEFINE k == [i \in 0 .. m |-> IF i = m THEN step[h[m - 1]][m] ELSE h[i]]
    <2>2. \A i \in 0 .. m : i # m => i \in 0 .. m - 1
      OBVIOUS
    <2>3. m - 1 \in 0 .. m - 1
      OBVIOUS
    <2>4. h[m - 1] \in S
      BY <2>1, <2>3
    <2>5. step[h[m - 1]][m] \in S
      BY <2>4
    <2>6. k \in [0 .. m -> S]
      BY <2>1, <2>2, <2>5
    <2>7. k[0] = b
      BY <2>1
    <2>8. ASSUME NEW i \in 1 .. m PROVE k[i] = step[k[i - 1]][i]
      <3>1. CASE i = m
        <4>1. k[m] = step[h[m - 1]][m] /\ k[m - 1] = h[m - 1]
          OBVIOUS
        <4>2. QED BY <3>1, <4>1
      <3>2. CASE i # m
        <4>1. i \in 1 .. m - 1 /\ k[i] = h[i] /\ k[i - 1] = h[i - 1]
          BY <3>2
        <4>2. QED BY <2>1, <4>1
      <3>3. QED BY <3>1, <3>2
    <2> HIDE DEF k
    <2>9. Stepped(k, S, b, m, step)
      BY <2>6, <2>7, <2>8 DEF Stepped
    <2>10. QED BY <2>9
  <1>3. 0 .. n \subseteq T
    <2> HIDE DEF T
    <2>1. QED BY <1>1, <1>2, Induct
  <1>4. n \in T
    BY <1>3
  <1>5. QED BY <1>4

(* Ascending is the increasing sequence of a finite set's numbers: how many *)
(* are before a number says its place.                                      *)
LEMMA AscendingIs ==
    ASSUME NEW S \in SUBSET Nat, IsFiniteSet(S)
    PROVE  /\ Ascending(S) \in [1 .. Cardinality(S) -> S]
           /\ Cardinality(S) \in Nat
           /\ \A i, j \in 1 .. Cardinality(S) : i < j => Ascending(S)[i] < Ascending(S)[j]
           /\ \A n \in S : \E i \in 1 .. Cardinality(S) : Ascending(S)[i] = n
  <1> DEFINE below(n) == {m \in S : m < n}
             rank == [n \in S |-> Cardinality(below(n))]
             C == Cardinality(S)
  <1>1. C \in Nat
    BY FS_CardinalityType
  <1>2. ASSUME NEW n \in S PROVE IsFiniteSet(below(n)) /\ rank[n] \in 0 .. C - 1
    <2>1. below(n) \in SUBSET S /\ below(n) # S
      OBVIOUS
    <2>2. IsFiniteSet(below(n)) /\ Cardinality(below(n)) <= C /\ Cardinality(below(n)) # C
      BY <2>1, FS_Subset
    <2>3. Cardinality(below(n)) \in Nat
      BY <2>2, FS_CardinalityType
    <2>4. QED BY <1>1, <2>2, <2>3
  <1>3. ASSUME NEW m \in S, NEW n \in S, m < n PROVE rank[m] < rank[n]
    <2>1. ASSUME NEW k \in S, k < m PROVE k < n
      <3>1. k \in Nat /\ m \in Nat /\ n \in Nat
        OBVIOUS
      <3>2. QED BY <1>3, <2>1, <3>1
    <2>2. below(m) \in SUBSET below(n) /\ m \in below(n) /\ m \notin below(m)
      <3>1. m \in Nat /\ ~ (m < m)
        OBVIOUS
      <3>2. QED BY <1>3, <2>1, <3>1
    <2>3. Cardinality(below(m)) <= Cardinality(below(n)) /\ Cardinality(below(m)) # Cardinality(below(n))
      BY <1>2, <2>2, FS_Subset
    <2>4. QED BY <1>2, <2>3
  <1>4. rank \in [S -> 0 .. C - 1]
    BY <1>2
  <1>5. \A m, n \in S : rank[m] = rank[n] => m = n
    <2>1. SUFFICES ASSUME NEW m \in S, NEW n \in S, rank[m] = rank[n], m # n PROVE FALSE
      OBVIOUS
    <2>2. m < n \/ n < m
      BY <2>1
    <2>3. rank[m] \in Int /\ rank[n] \in Int
      BY <1>4
    <2> HIDE DEF rank
    <2>4. QED BY <1>3, <2>1, <2>2, <2>3
  <1>6. rank \in Surjection(S, 0 .. C - 1)
    <2> HIDE DEF rank
    <2>1. rank \in Injection(S, 0 .. C - 1)
      BY <1>4, <1>5 DEF Injection, IsInjective
    <2>2. IsFiniteSet(0 .. C - 1) /\ Cardinality(0 .. C - 1) = C
      <3>1. 0 \in Int /\ C - 1 \in Int /\ (0 > C - 1 => C = 0) /\ C - 1 - 0 + 1 = C
        BY <1>1
      <3> HIDE DEF C
      <3>2. QED BY <3>1, FS_Interval
    <2>3. QED BY <2>1, <2>2, FS_Injection
  <1>7. \A k \in 0 .. C - 1 : \E n \in S : rank[n] = k
    <2> HIDE DEF rank
    <2>1. QED BY <1>6 DEF Surjection
  <1> DEFINE at(i) == CHOOSE n \in S : Cardinality({m \in S : m < n}) = i - 1
  <1>8. Ascending(S) = [i \in 1 .. C |-> at(i)]
    BY DEF Ascending
  <1>9. ASSUME NEW i \in 1 .. C PROVE at(i) \in S /\ rank[at(i)] = i - 1
    <2>1. i - 1 \in 0 .. C - 1
      BY <1>1
    <2>2. \E n \in S : Cardinality({m \in S : m < n}) = i - 1
      BY <1>7, <2>1
    <2>3. at(i) \in S /\ Cardinality({m \in S : m < at(i)}) = i - 1
      BY <2>2
    <2> HIDE DEF at
    <2>4. QED BY <2>3
  <1> HIDE DEF rank, at
  <1>10. Ascending(S) \in [1 .. C -> S] /\ \A i \in 1 .. C : rank[Ascending(S)[i]] = i - 1
    BY <1>8, <1>9
  <1>11. ASSUME NEW i \in 1 .. C, NEW j \in 1 .. C, i < j
         PROVE  Ascending(S)[i] < Ascending(S)[j]
    <2> DEFINE a == Ascending(S)[i]
               b == Ascending(S)[j]
    <2>1. a \in S /\ b \in S /\ rank[a] < rank[b]
      BY <1>10, <1>11
    <2> HIDE DEF a, b
    <2>2. ~ (b < a) /\ a # b
      BY <1>3, <1>4, <2>1
    <2>3. a < b
      BY <2>1, <2>2
    <2>4. QED BY <2>3 DEF a, b
  <1>12. ASSUME NEW n \in S PROVE \E i \in 1 .. C : Ascending(S)[i] = n
    <2>1. rank[n] \in 0 .. C - 1
      BY <1>4
    <2>2. PICK i \in 1 .. C : i - 1 = rank[n]
      <3>1. rank[n] + 1 \in 1 .. C /\ (rank[n] + 1) - 1 = rank[n]
        BY <1>1, <2>1
      <3>2. QED BY <3>1
    <2>3. QED BY <1>5, <1>10, <2>2
  <1>13. QED BY <1>1, <1>10, <1>11, <1>12

-----------------------------------------------------------------------------
(* Records as they are read                                                 *)
FileRecord ==
    [kind : {"file"}, dir : BOOLEAN, seq : Nat, has_data : BOOLEAN, size : Nat, allocated : Nat,
     mtime : Nat, recall : BOOLEAN, reparse : BOOLEAN, tag : Tag, names : Seq(FileRef)]

AttributeRecord ==
    [type : {"info"}, mtime : Nat, recall : BOOLEAN, reparse : BOOLEAN]
      \cup [type : {"name"}, parent : FileRef, dos : BOOLEAN]
      \cup [type : {"data"}, unnamed : BOOLEAN, first : BOOLEAN, sparse : BOOLEAN, size : Nat,
            reserved : Nat, on_disk : Nat]
      \cup [type : {"reparse"}, tag : Tag]

(* What reading an attribute may change.                                    *)
Reads1(q, r, a) ==
    /\ q \in FileRecord
    /\ q.dir = r.dir /\ q.seq = r.seq
    /\ q.names = r.names \/ (a.type = "name" /\ q.names = Append(r.names, a.parent))

LEMMA AttributeReads ==
    ASSUME NEW r \in FileRecord, NEW a \in AttributeRecord
    PROVE  Reads1(Attribute(r, a), r, a)
  <1>1. CASE a.type = "info"
    <2>1. a.mtime \in Nat /\ a.recall \in BOOLEAN /\ a.reparse \in BOOLEAN
      BY <1>1 DEF AttributeRecord
    <2>2. Attribute(r, a) = [r EXCEPT !.mtime = a.mtime, !.recall = a.recall, !.reparse = a.reparse]
      BY <1>1 DEF Attribute
    <2>3. QED BY <2>1, <2>2 DEF FileRecord, Reads1
  <1>2. CASE a.type = "name"
    <2>1. a.parent \in FileRef
      BY <1>2 DEF AttributeRecord
    <2>2. Attribute(r, a) = IF a.dos THEN r ELSE [r EXCEPT !.names = Append(@, a.parent)]
      BY <1>2 DEF Attribute
    <2>3. Append(r.names, a.parent) \in Seq(FileRef)
      BY <2>1 DEF FileRecord
    <2>4. QED BY <1>2, <2>2, <2>3 DEF FileRecord, Reads1
  <1>3. CASE a.type = "data"
    <2>1. a.size \in Nat /\ (IF a.sparse THEN a.on_disk ELSE a.reserved) \in Nat
      BY <1>3 DEF AttributeRecord
    <2>2. Attribute(r, a) =
            IF a.unnamed /\ a.first
            THEN [r EXCEPT !.has_data = TRUE, !.size = a.size,
                           !.allocated = IF a.sparse THEN a.on_disk ELSE a.reserved]
            ELSE r
      BY <1>3 DEF Attribute
    <2>3. QED BY <2>1, <2>2 DEF FileRecord, Reads1
  <1>4. CASE a.type = "reparse"
    <2>1. a.tag \in Tag
      BY <1>4 DEF AttributeRecord
    <2>2. Attribute(r, a) = [r EXCEPT !.tag = a.tag]
      BY <1>4 DEF Attribute
    <2>3. QED BY <2>1, <2>2 DEF FileRecord, Reads1
  <1>5. QED BY <1>1, <1>2, <1>3, <1>4 DEF AttributeRecord

(* What is known of a record once it is parsed: its names were in its       *)
(* attributes.                                                              *)
ReadOf(r, raw) ==
    /\ r \in FileRecord
    /\ r.dir = raw.dir /\ r.seq = raw.seq
    /\ \A k \in DOMAIN r.names : \E i \in DOMAIN raw.attributes :
         raw.attributes[i].type = "name" /\ raw.attributes[i].parent = r.names[k]

ParsesTo(raw, h) ==
    h = [i \in 0 .. Len(raw.attributes) |->
           IF i = 0 THEN Blank(raw) ELSE Attribute(h[i - 1], raw.attributes[i])]

(* A record is parsed an attribute at a time.                               *)
ParseSteps(raw, h) ==
    /\ h[0] = Blank(raw)
    /\ \A i \in 1 .. Len(raw.attributes) : h[i] = Attribute(h[i - 1], raw.attributes[i])
    /\ \A i \in 0 .. Len(raw.attributes) : h[i] \in FileRecord
    /\ Parsed(raw) = h[Len(raw.attributes)]

LEMMA ParsedBySteps ==
    ASSUME NEW raw, raw.attributes \in Seq(AttributeRecord), raw.dir \in BOOLEAN, raw.seq \in Nat
    PROVE  \E h : ParseSteps(raw, h)
  <1> DEFINE n == Len(raw.attributes)
             S == FileRecord
  <1>1. n \in Nat /\ DOMAIN raw.attributes = 1 .. n /\ \A i \in 1 .. n : raw.attributes[i] \in AttributeRecord
    BY LenProperties
  <1>2. Blank(raw) \in S
    BY DEF Blank, FileRecord, Tag
  <1>3. ASSUME NEW r \in S, NEW i \in 1 .. n PROVE Attribute(r, raw.attributes[i]) \in S
    BY <1>1, AttributeReads DEF Reads1
  <1> DEFINE step == [r \in S |-> [i \in 1 .. n |-> Attribute(r, raw.attributes[i])]]
  <1> HIDE DEF S
  <1>4. step \in [S -> [1 .. n -> S]]
    BY <1>3
  <1>5. \A r \in S, i \in 1 .. n : step[r][i] = Attribute(r, raw.attributes[i])
    OBVIOUS
  <1> HIDE DEF step
  <1>6. \E h : ParsesTo(raw, h)
    <2>0. PICK h : Stepped(h, S, Blank(raw), n, step)
      <3> HIDE DEF n
      <3>1. QED BY <1>1, <1>2, <1>4, Steps
    <2>1. h \in [0 .. n -> S] /\ h[0] = Blank(raw) /\ \A i \in 1 .. n : h[i] = step[h[i - 1]][i]
      BY <2>0 DEF Stepped
    <2>2. ASSUME NEW i \in 0 .. n
          PROVE  h[i] = IF i = 0 THEN Blank(raw) ELSE Attribute(h[i - 1], raw.attributes[i])
      <3>1. CASE i = 0
        BY <2>1, <3>1
      <3>2. CASE i # 0
        <4>1. i \in 1 .. n /\ i - 1 \in 0 .. n
          BY <1>1, <3>2
        <4>2. h[i - 1] \in S
          BY <2>1, <4>1
        <4>3. step[h[i - 1]][i] = Attribute(h[i - 1], raw.attributes[i])
          BY <1>5, <4>1, <4>2
        <4>4. QED BY <2>1, <3>2, <4>1, <4>3
      <3>3. QED BY <3>1, <3>2
    <2>3. h = [i \in 0 .. n |-> h[i]]
      BY <2>1
    <2>4. ParsesTo(raw, h)
      BY <2>2, <2>3 DEF ParsesTo
    <2>5. QED BY <2>4
  <1> DEFINE h == CHOOSE h : ParsesTo(raw, h)
  <1>7. ParsesTo(raw, h)
    BY <1>6
  <1>8. Parsed(raw) = h[n]
    BY DEF Parsed, ParsesTo
  <1> HIDE DEF h
  <1>9. h[0] = Blank(raw) /\ \A i \in 1 .. n : h[i] = Attribute(h[i - 1], raw.attributes[i])
    <2>1. \A i \in 0 .. n : h[i] = IF i = 0 THEN Blank(raw) ELSE Attribute(h[i - 1], raw.attributes[i])
      BY <1>7 DEF ParsesTo
    <2>2. QED BY <1>1, <2>1
  <1>10. \A i \in 0 .. n : h[i] \in S
    BY <1>1, <1>2, <1>3, <1>9, StaysInAll
  <1>11. ParseSteps(raw, h)
    BY <1>8, <1>9, <1>10 DEF ParseSteps, S, n
  <1>12. QED BY <1>11

LEMMA ParsedIs ==
    ASSUME NEW raw, raw.attributes \in Seq(AttributeRecord), raw.dir \in BOOLEAN, raw.seq \in Nat
    PROVE  ReadOf(Parsed(raw), raw)
  <1> DEFINE n == Len(raw.attributes)
             S == {r \in FileRecord : ReadOf(r, raw)}
  <1>1. n \in Nat /\ DOMAIN raw.attributes = 1 .. n /\ \A i \in 1 .. n : raw.attributes[i] \in AttributeRecord
    BY LenProperties
  <1>2. Blank(raw) \in S
    <2>1. Blank(raw).names = <<>> /\ DOMAIN <<>> = {}
      BY DEF Blank
    <2>2. Blank(raw) \in FileRecord
      BY DEF Blank, FileRecord, Tag
    <2>3. Blank(raw).dir = raw.dir /\ Blank(raw).seq = raw.seq
      BY DEF Blank
    <2>4. QED BY <2>1, <2>2, <2>3 DEF ReadOf
  <1>3. ASSUME NEW r \in S, NEW i \in 1 .. n PROVE Attribute(r, raw.attributes[i]) \in S
    <2> DEFINE a == raw.attributes[i]
    <2>1. a \in AttributeRecord /\ r \in FileRecord /\ ReadOf(r, raw)
      BY <1>1
    <2>2. PICK q : q = Attribute(r, a)
      OBVIOUS
    <2>3. Reads1(q, r, a)
      BY <2>1, <2>2, AttributeReads
    <2>4. q \in FileRecord /\ q.dir = raw.dir /\ q.seq = raw.seq
      BY <2>1, <2>3 DEF Reads1, ReadOf
    <2>5. ASSUME NEW k \in DOMAIN q.names
          PROVE  \E j \in DOMAIN raw.attributes :
                   raw.attributes[j].type = "name" /\ raw.attributes[j].parent = q.names[k]
      <3>1. CASE q.names = r.names
        BY <2>1, <3>1 DEF ReadOf
      <3>2. CASE a.type = "name" /\ q.names = Append(r.names, a.parent)
        <4>1. r.names \in Seq(FileRef)
          BY <2>1 DEF FileRecord
        <4>2. a.parent \in FileRef
          BY <2>1, <3>2 DEF AttributeRecord
        <4>3. k \in DOMAIN r.names \/ q.names[k] = a.parent
          BY <3>2, <4>1, <4>2
        <4>4. ASSUME k \in DOMAIN r.names PROVE q.names[k] = r.names[k]
          BY <3>2, <4>1, <4>2, <4>4
        <4>5. i \in DOMAIN raw.attributes
          BY <1>1
        <4>6. QED BY <2>1, <3>2, <4>3, <4>4, <4>5 DEF ReadOf
      <3>3. QED BY <2>3, <3>1, <3>2 DEF Reads1
    <2>6. ReadOf(q, raw)
      BY <2>4, <2>5 DEF ReadOf
    <2>7. QED BY <2>2, <2>4, <2>6
  <1> HIDE DEF S
  <1>4. PICK h : ParseSteps(raw, h)
    BY ParsedBySteps
  <1>5. /\ h[0] = Blank(raw) /\ Parsed(raw) = h[n]
        /\ \A i \in 1 .. n : h[i] = Attribute(h[i - 1], raw.attributes[i])
    BY <1>4 DEF ParseSteps, n
  <1>6. h[0] \in S /\ \A i \in 1 .. n : h[i - 1] \in S => h[i] \in S
    BY <1>2, <1>3, <1>5
  <1>7. \A i \in 0 .. n : h[i] \in S
    BY <1>1, <1>6, StaysInAll
  <1>8. QED BY <1>1, <1>5, <1>7 DEF S

-----------------------------------------------------------------------------
(* What is on the disk: an attribute of a file's records; its names are the *)
(* file's.                                                                  *)
AttributeOf(f) ==
    {a \in AttributeRecord :
       a.type = "name" => \E i \in DOMAIN f.names : f.names[i].parent = a.parent}

InfoOf(f) == [type |-> "info", mtime |-> f.mtime, recall |-> f.recall, reparse |-> f.tag # "none"]
NameOf(f, i) == [type |-> "name", parent |-> f.names[i].parent, dos |-> f.names[i].dos]
DataOf(f, n) ==
    [type |-> "data", unnamed |-> TRUE, first |-> n = f.data_in, sparse |-> f.sparse,
     size |-> f.size, reserved |-> f.size, on_disk |-> f.on_disk]
StreamOf(f, n) == [DataOf(f, n) EXCEPT !.unnamed = FALSE, !.first = TRUE, !.size = 9]
TagAttribute(f) == [type |-> "reparse", tag |-> f.tag]
NamesIn(f, n) == {i \in DOMAIN f.names : f.names[i].in = n}

LEMMA FileTypes ==
    ASSUME NEW f \in FileOnDisk
    PROVE  /\ f.number \in Nat /\ f.seq \in Nat /\ f.dir \in BOOLEAN /\ f.data_in \in Nat
           /\ f.size \in Nat /\ f.on_disk \in Nat /\ f.sparse \in BOOLEAN /\ f.mtime \in Nat
           /\ f.recall \in BOOLEAN /\ f.tag \in Tag /\ f.tag_fits \in BOOLEAN
           /\ f.names \in Seq([parent : FileRef, dos : BOOLEAN, in : Nat])
  BY DEF FileOnDisk

(* The attributes that are a file's.                                        *)
LEMMA OneAttribute ==
    ASSUME NEW f \in FileOnDisk, NEW n
    PROVE  /\ InfoOf(f) \in AttributeOf(f)
           /\ \A i \in DOMAIN f.names : NameOf(f, i) \in AttributeOf(f)
           /\ DataOf(f, n) \in AttributeOf(f)
           /\ StreamOf(f, n) \in AttributeOf(f)
           /\ TagAttribute(f) \in AttributeOf(f)
  <1>1. InfoOf(f) \in AttributeOf(f)
    <2>1. (f.tag # "none") \in BOOLEAN
      OBVIOUS
    <2>2. InfoOf(f) \in [type : {"info"}, mtime : Nat, recall : BOOLEAN, reparse : BOOLEAN]
      BY <2>1, FileTypes DEF InfoOf
    <2>3. InfoOf(f).type # "name"
      BY DEF InfoOf
    <2>4. QED BY <2>2, <2>3 DEF AttributeOf, AttributeRecord
  <1>2. ASSUME NEW i \in DOMAIN f.names PROVE NameOf(f, i) \in AttributeOf(f)
    <2>1. f.names[i] \in [parent : FileRef, dos : BOOLEAN, in : Nat]
      BY FileTypes, ElementOfSeq, LenProperties
    <2>2. NameOf(f, i) \in [type : {"name"}, parent : FileRef, dos : BOOLEAN]
      BY <2>1 DEF NameOf
    <2>3. NameOf(f, i).parent = f.names[i].parent
      BY DEF NameOf
    <2>4. QED BY <2>2, <2>3 DEF AttributeOf, AttributeRecord
  <1>3. DataOf(f, n) \in AttributeOf(f) /\ StreamOf(f, n) \in AttributeOf(f)
    <2>1. (n = f.data_in) \in BOOLEAN
      OBVIOUS
    <2>2. DataOf(f, n) \in [type : {"data"}, unnamed : BOOLEAN, first : BOOLEAN, sparse : BOOLEAN, size : Nat,
                           reserved : Nat, on_disk : Nat]
      BY <2>1, FileTypes DEF DataOf
    <2>3. StreamOf(f, n) \in [type : {"data"}, unnamed : BOOLEAN, first : BOOLEAN, sparse : BOOLEAN, size : Nat,
                             reserved : Nat, on_disk : Nat]
      BY <2>2 DEF StreamOf
    <2>4. DataOf(f, n).type = "data" /\ StreamOf(f, n).type = "data"
      BY <2>2, <2>3
    <2>5. QED BY <2>2, <2>3, <2>4 DEF AttributeOf, AttributeRecord
  <1>4. TagAttribute(f) \in AttributeOf(f)
    <2>1. TagAttribute(f) \in [type : {"reparse"}, tag : Tag]
      BY FileTypes DEF TagAttribute
    <2>2. TagAttribute(f).type # "name"
      BY DEF TagAttribute
    <2>3. QED BY <2>1, <2>2 DEF AttributeOf, AttributeRecord
  <1>5. QED BY <1>1, <1>2, <1>3, <1>4

(* So are those of any of its records.                                      *)
LEMMA AttributesAre ==
    ASSUME NEW f \in FileOnDisk, NEW n \in Nat
    PROVE  Attributes(f, n) \in Seq(AttributeOf(f))
  <1> DEFINE here == Ascending(NamesIn(f, n))
             A == AttributeOf(f)
             info == IF n # f.number THEN <<>> ELSE <<InfoOf(f)>>
             names == [i \in DOMAIN here |-> NameOf(f, here[i])]
             data == IF f.dir THEN <<>> ELSE <<DataOf(f, n), StreamOf(f, n)>>
             tag == IF n = f.number /\ f.tag # "none" /\ f.tag_fits THEN <<TagAttribute(f)>> ELSE <<>>
  <1>1. Attributes(f, n) = info \o names \o data \o tag
    BY DEF Attributes, InfoOf, NameOf, DataOf, StreamOf, TagAttribute, NamesIn
  <1>2. names \in Seq(A)
    <2>1. f.names \in Seq([parent : FileRef, dos : BOOLEAN, in : Nat])
      BY FileTypes
    <2>2. DOMAIN f.names = 1 .. Len(f.names) /\ Len(f.names) \in Nat
      BY <2>1, LenProperties
    <2>3. IsFiniteSet(DOMAIN f.names)
      BY <2>2, FS_Interval
    <2>4. NamesIn(f, n) \in SUBSET Nat /\ NamesIn(f, n) \subseteq DOMAIN f.names
      BY <2>2 DEF NamesIn
    <2>5. IsFiniteSet(NamesIn(f, n))
      BY <2>3, <2>4, FS_Subset
    <2>6. Cardinality(NamesIn(f, n)) \in Nat /\ here \in [1 .. Cardinality(NamesIn(f, n)) -> NamesIn(f, n)]
      BY <2>4, <2>5, AscendingIs
    <2> HIDE DEF here
    <2>7. ASSUME NEW i \in DOMAIN here PROVE NameOf(f, here[i]) \in A
      BY <2>4, <2>6, OneAttribute
    <2> HIDE DEF A
    <2>8. names \in [1 .. Cardinality(NamesIn(f, n)) -> A]
      BY <2>6, <2>7
    <2>9. QED BY <2>6, <2>8, SeqDef
  <1>3. info \in Seq(A) /\ data \in Seq(A) /\ tag \in Seq(A)
    <2>1. InfoOf(f) \in A /\ DataOf(f, n) \in A /\ StreamOf(f, n) \in A /\ TagAttribute(f) \in A
      BY OneAttribute
    <2> HIDE DEF A
    <2>2. QED BY <2>1
  <1> HIDE DEF A, info, names, data, tag
  <1>4. info \o names \o data \o tag \in Seq(A)
    BY <1>2, <1>3
  <1>5. QED BY <1>1, <1>4 DEF A

(* A name of a file that was on the volume at some time.                    *)
HasName(v, ref, parent) ==
    \E g \in FilesEver(v) : Reference(g) = ref /\ \E i \in DOMAIN g.names : g.names[i].parent = parent

(* What the table may hold of record n, and what an extension record adds.  *)
EntryOf(v, n) ==
    {r \in FileRecord :
       /\ \E f \in FilesEver(v) : Reference(f) = <<n, r.seq>> /\ f.dir = r.dir
       /\ \A k \in DOMAIN r.names : HasName(v, <<n, r.seq>>, r.names[k])}

ExtensionOf(v) ==
    {e \in [number : Nat, base : FileRef, file : FileRecord] :
       \A k \in DOMAIN e.file.names : HasName(v, e.base, e.file.names[k])}

RecordOK(v, n, r) ==
    \/ r.kind = "nothing"
    \/ r.kind = "base" /\ r.file \in EntryOf(v, n)
    \/ /\ r.kind = "extension" /\ r.base \in FileRef /\ r.file \in FileRecord
       /\ \A k \in DOMAIN r.file.names : HasName(v, r.base, r.file.names[k])

(* A whole record parses to an entry for the file whose base record it is,  *)
(* or to an extension of the file it says it extends.                       *)
LEMMA RawParses ==
    ASSUME NEW v \in DOMAIN Volumes, NEW f \in FilesEver(v), NEW n \in Nat
    PROVE  RecordOK(v, n, ParseRecord(Raw(f, n)))
  <1>1. f \in FileOnDisk
    BY VolumesAssumption DEF FilesEver
  <1>2. PICK raw : raw = Raw(f, n)
    OBVIOUS
  <1>3. /\ raw.torn = FALSE /\ raw.in_use = TRUE /\ raw.dir = (n = f.number /\ f.dir) /\ raw.seq = f.seq
        /\ raw.base = (IF n = f.number THEN <<>> ELSE <<f.number, f.seq>>)
        /\ raw.attributes = Attributes(f, n)
    BY <1>2 DEF Raw
  <1>4. raw.attributes \in Seq(AttributeOf(f))
    BY <1>1, <1>3, AttributesAre
  <1>5. raw.attributes \in Seq(AttributeRecord)
    BY <1>4, SeqMonotonic DEF AttributeOf
  <1>6. raw.dir \in BOOLEAN /\ raw.seq \in Nat
    BY <1>1, <1>3, FileTypes
  <1>7. PICK file : file = Parsed(raw)
    OBVIOUS
  <1>8. ReadOf(file, raw)
    BY <1>5, <1>6, <1>7, ParsedIs
  <1>9. file \in FileRecord /\ file.dir = raw.dir /\ file.seq = f.seq
    BY <1>3, <1>8 DEF ReadOf
  <1>10. ASSUME NEW k \in DOMAIN file.names PROVE HasName(v, Reference(f), file.names[k])
    <2>1. PICK i \in DOMAIN raw.attributes :
                raw.attributes[i].type = "name" /\ raw.attributes[i].parent = file.names[k]
      BY <1>8 DEF ReadOf
    <2>2. raw.attributes[i] \in AttributeOf(f)
      <3>1. i \in 1 .. Len(raw.attributes)
        BY <1>4, LenProperties
      <3>2. QED BY <1>4, <3>1, ElementOfSeq
    <2>3. \E j \in DOMAIN f.names : f.names[j].parent = file.names[k]
      BY <2>1, <2>2 DEF AttributeOf
    <2>4. QED BY <2>3 DEF HasName
  <1>11. PICK r : r = ParseRecord(raw)
    OBVIOUS
  <1>12. r.kind = (IF raw.base = <<>> THEN "base" ELSE "extension") /\ r.base = raw.base /\ r.file = file
    BY <1>3, <1>7, <1>11 DEF ParseRecord
  <1>13. CASE n = f.number
    <2>1. raw.base = <<>> /\ raw.dir = f.dir /\ Reference(f) = <<n, file.seq>>
      BY <1>1, <1>3, <1>9, <1>13, FileTypes DEF Reference
    <2>2. file \in EntryOf(v, n)
      BY <1>9, <1>10, <2>1 DEF EntryOf
    <2>3. QED BY <1>2, <1>11, <1>12, <2>1, <2>2 DEF RecordOK
  <1>14. CASE n # f.number
    <2>1. raw.base = Reference(f) /\ raw.base # <<>>
      BY <1>3, <1>14 DEF Reference
    <2>2. Reference(f) \in FileRef
      BY <1>1, FileTypes DEF Reference, FileRef
    <2>3. QED BY <1>2, <1>9, <1>10, <1>11, <1>12, <2>1, <2>2 DEF RecordOK
  <1>15. QED BY <1>13, <1>14

(* So does a record as a read may find it, if it is whole and in use.       *)
LEMMA RecordIs ==
    ASSUME volume \in DOMAIN Volumes, NEW n \in Numbers, NEW how \in {"unread", "was", "is", "torn"}
    PROVE  RecordOK(volume, n, Record(n, how))
  <1>1. n \in Nat
    BY VolumesAssumption DEF Numbers
  <1>2. CASE how = "unread"
    <2>1. Record(n, how).kind = "nothing"
      BY <1>2 DEF Record, Nothing
    <2>2. QED BY <2>1 DEF RecordOK
  <1>3. ASSUME NEW files, files \subseteq FilesEver(volume), NEW raw, raw = OnDisk(files, n)
        PROVE  RecordOK(volume, n, ParseRecord(raw)) /\ ParseRecord(Torn(raw)).kind = "nothing"
    <2>1. CASE \E f \in files : n \in RecordNumbers(f)
      <3>1. PICK f : f = CHOOSE g \in files : n \in RecordNumbers(g)
        OBVIOUS
      <3>2. f \in files /\ raw = Raw(f, n)
        BY <1>3, <2>1, <3>1 DEF OnDisk
      <3>3. RecordOK(volume, n, ParseRecord(raw))
        BY <1>1, <1>3, <3>2, RawParses
      <3>4. Torn(raw).torn = TRUE
        BY <3>2 DEF Torn, Raw
      <3>5. QED BY <3>3, <3>4 DEF ParseRecord, Nothing
    <2>2. CASE ~ \E f \in files : n \in RecordNumbers(f)
      <3>1. raw = Free
        BY <1>3, <2>2 DEF OnDisk
      <3>2. ParseRecord(raw).kind = "nothing"
        BY <3>1 DEF ParseRecord, Free, Nothing
      <3>3. Torn(raw).torn = TRUE
        BY <3>1 DEF Torn, Free
      <3>4. ParseRecord(Torn(raw)).kind = "nothing"
        BY <3>3 DEF ParseRecord, Nothing
      <3>5. QED BY <3>2, <3>4 DEF RecordOK
    <2>3. QED BY <2>1, <2>2
  <1>4. CASE how # "unread"
    <2>1. Record(n, how) = ParseRecord(Raws(volume, n)[how])
      BY <1>4 DEF Record, ParsedRecords
    <2>2. PICK was, is : was = OnDisk(Volumes[volume].before, n) /\ is = OnDisk(Volumes[volume].after, n)
      OBVIOUS
    <2>3. Raws(volume, n) = [was |-> was, is |-> is, torn |-> Torn(was)]
      BY <2>2 DEF Raws
    <2>4. RecordOK(volume, n, ParseRecord(was)) /\ ParseRecord(Torn(was)).kind = "nothing"
      BY <1>3, <2>2 DEF FilesEver
    <2>5. RecordOK(volume, n, ParseRecord(is))
      BY <1>3, <2>2 DEF FilesEver
    <2>6. RecordOK(volume, n, ParseRecord(Torn(was)))
      BY <2>4 DEF RecordOK
    <2>7. Raws(volume, n)[how] \in {was, is, Torn(was)}
      BY <1>4, <2>3
    <2>8. QED BY <2>1, <2>4, <2>5, <2>6, <2>7
  <1>5. QED BY <1>2, <1>4

-----------------------------------------------------------------------------
(* The table                                                                *)
TableOf(v) ==
    {t \in [0 .. Room - 1 -> FileRecord \cup {NoFile}] :
       \A n \in 0 .. Room - 1 : t[n] = NoFile \/ t[n] \in EntryOf(v, n)}

GatheredOK ==
    /\ volume \in DOMAIN Volumes
    /\ records \in TableOf(volume)
    /\ extensions \in Seq(ExtensionOf(volume))

(* A read covers a few of the table's numbers.                              *)
LEMMA CoversNumbers ==
    ASSUME NEW i \in Read
    PROVE  Covers(i) \subseteq Numbers /\ Covers(i) \subseteq Nat /\ IsFiniteSet(Covers(i))
  <1>1. i \in Nat /\ i < Reads /\ PerRead \in Nat /\ Reads \in Nat
    BY ReadersAssumption, VolumesAssumption DEF Read
  <1> DEFINE a == i * PerRead
             b == (i + 1) * PerRead
             c == Reads * PerRead
  <1>2. a \in Nat /\ b \in Nat /\ c \in Nat
    BY <1>1
  <1>3. b <= c
    <2>1. Reads - (i + 1) \in Nat
      BY <1>1
    <2>2. PICK k \in Nat : k = Reads - (i + 1)
      BY <2>1
    <2>3. Reads = (i + 1) + k
      BY <1>1, <2>2
    <2>4. c = b + k * PerRead
      BY <1>1, <2>2, <2>3
    <2>5. k * PerRead \in Nat
      BY <1>1, <2>2
    <2> HIDE DEF b, c
    <2>6. QED BY <1>2, <2>4, <2>5
  <1>4. Covers(i) = a .. b - 1 /\ Numbers = 0 .. c - 1
    BY DEF Covers, Numbers
  <1> HIDE DEF a, b, c
  <1>5. IsFiniteSet(a .. b - 1)
    <2>1. a \in Int /\ b - 1 \in Int
      BY <1>2
    <2>2. QED BY <2>1, FS_Interval
  <1>6. QED BY <1>2, <1>3, <1>4, <1>5

LEMMA MayReadIs ==
    ASSUME NEW i \in Read, NEW found \in MayRead(i)
    PROVE  found \in [Covers(i) -> {"unread", "was", "is", "torn"}]
  <1> DEFINE whole == {f \in [Covers(i) -> {"was", "is"}] : \A n \in Covers(i) : f[n] \in Distinct(n)}
  <1>1. CASE i \notin torn
    <2>1. found \in whole
      BY <1>1 DEF MayRead
    <2>2. QED BY <2>1
  <1>2. CASE i \in torn
    <2>1. PICK f \in whole, n \in Covers(i) : found = [f EXCEPT ![n] = "torn"]
      BY <1>2 DEF MayRead
    <2>2. f \in [Covers(i) -> {"was", "is"}]
      OBVIOUS
    <2> HIDE DEF whole
    <2>3. QED BY <2>1, <2>2
  <1>3. QED BY <1>1, <1>2

(* The extension records of a read.                                         *)
LEMMA ExtensionsAre ==
    ASSUME volume \in DOMAIN Volumes, NEW i \in Read,
           NEW found \in [Covers(i) -> {"unread", "was", "is", "torn"}]
    PROVE  NewExtensions(found) \in Seq(ExtensionOf(volume))
  <1> DEFINE D == Inserted(found) \ Bases(found)
             numbers == Ascending(D)
             extension(k) == [number |-> numbers[k], base |-> Record(numbers[k], found[numbers[k]]).base,
                              file |-> Record(numbers[k], found[numbers[k]]).file]
             C == Cardinality(D)
  <1>1. D \subseteq Covers(i)
    BY DEF Inserted
  <1>2. D \in SUBSET Nat /\ IsFiniteSet(D)
    BY <1>1, CoversNumbers, FS_Subset
  <1>3. C \in Nat /\ numbers \in [1 .. C -> D]
    <2> HIDE DEF D
    <2>1. QED BY <1>2, AscendingIs
  <1>4. NewExtensions(found) = [k \in 1 .. C |-> extension(k)]
    <2>1. NewExtensions(found) = [k \in DOMAIN numbers |-> extension(k)]
      BY DEF NewExtensions
    <2> HIDE DEF numbers, extension
    <2>2. QED BY <1>3, <2>1
  <1>5. ASSUME NEW k \in 1 .. C PROVE extension(k) \in ExtensionOf(volume)
    <2>1. PICK n : n = numbers[k]
      OBVIOUS
    <2>2. n \in D /\ n \in Nat
      <3> HIDE DEF D, numbers
      <3>1. QED BY <1>2, <1>3, <2>1
    <2>3. PICK r : r = Record(n, found[n])
      OBVIOUS
    <2>4. r.kind # "nothing" /\ r.kind # "base"
      BY <2>2, <2>3 DEF Inserted, Bases
    <2>5. RecordOK(volume, n, r)
      <3>1. n \in Numbers /\ found[n] \in {"unread", "was", "is", "torn"}
        BY <1>1, <2>2, CoversNumbers
      <3>2. QED BY <2>3, <3>1, RecordIs
    <2>6. /\ r.base \in FileRef /\ r.file \in FileRecord
          /\ \A j \in DOMAIN r.file.names : HasName(volume, r.base, r.file.names[j])
      BY <2>4, <2>5 DEF RecordOK
    <2>7. PICK e : e = [number |-> n, base |-> r.base, file |-> r.file]
      OBVIOUS
    <2>8. extension(k) = e
      BY <2>1, <2>3, <2>7
    <2>9. e \in [number : Nat, base : FileRef, file : FileRecord] /\ e.base = r.base /\ e.file = r.file
      BY <2>2, <2>6, <2>7
    <2>10. e \in ExtensionOf(volume)
      BY <2>6, <2>9 DEF ExtensionOf
    <2>11. QED BY <2>8, <2>10
  <1> HIDE DEF extension, C
  <1>6. [k \in 1 .. C |-> extension(k)] \in [1 .. C -> ExtensionOf(volume)]
    BY <1>5
  <1>7. QED BY <1>3, <1>4, <1>6, SeqDef

(* Inserting a read's records keeps the table one of entries.               *)
LEMMA InsertGathers ==
    ASSUME GatheredOK, NEW i \in Read, Insert(i)
    PROVE  GatheredOK'
  <1>1. PICK found \in MayRead(i) :
             /\ records' = [n \in DOMAIN records |->
                              IF n \in Bases(found) THEN Record(n, found[n]).file ELSE records[n]]
             /\ extensions' = extensions \o NewExtensions(found)
    BY DEF Insert
  <1>2. found \in [Covers(i) -> {"unread", "was", "is", "torn"}]
    BY MayReadIs
  <1>3. volume' = volume /\ volume \in DOMAIN Volumes
    BY DEF Insert, GatheredOK
  <1>4. extensions' \in Seq(ExtensionOf(volume))
    <2>1. NewExtensions(found) \in Seq(ExtensionOf(volume)) /\ extensions \in Seq(ExtensionOf(volume))
      BY <1>2, <1>3, ExtensionsAre DEF GatheredOK
    <2>2. QED BY <1>1, <2>1, ConcatProperties
  <1>5. records' \in TableOf(volume)
    <2>1. /\ records \in [0 .. Room - 1 -> FileRecord \cup {NoFile}]
          /\ \A n \in 0 .. Room - 1 : records[n] = NoFile \/ records[n] \in EntryOf(volume, n)
      BY DEF GatheredOK, TableOf
    <2>2. ASSUME NEW n \in Bases(found) PROVE Record(n, found[n]).file \in EntryOf(volume, n)
      <3>1. PICK r : r = Record(n, found[n])
        OBVIOUS
      <3>2. n \in Covers(i) /\ r.kind = "base"
        BY <1>2, <3>1 DEF Bases, Inserted
      <3>3. RecordOK(volume, n, r)
        <4>1. n \in Numbers /\ found[n] \in {"unread", "was", "is", "torn"}
          BY <1>2, <3>2, CoversNumbers
        <4>2. QED BY <1>3, <3>1, <4>1, RecordIs
      <3>4. QED BY <3>1, <3>2, <3>3 DEF RecordOK
    <2>3. EntryOf(volume, 0) \subseteq FileRecord /\ \A n : EntryOf(volume, n) \subseteq FileRecord
      BY DEF EntryOf
    <2>4. ASSUME NEW n \in 0 .. Room - 1
          PROVE  records'[n] = NoFile \/ records'[n] \in EntryOf(volume, n)
      BY <1>1, <2>1, <2>2
    <2>5. records' \in [0 .. Room - 1 -> FileRecord \cup {NoFile}]
      <3>1. DOMAIN records = 0 .. Room - 1 /\ \E F : records' = [n \in 0 .. Room - 1 |-> F[n]]
        <4>1. DOMAIN records = 0 .. Room - 1
          BY <2>1
        <4>2. records' = [n \in 0 .. Room - 1 |-> records'[n]]
          BY <1>1, <4>1
        <4>3. QED BY <4>1, <4>2
      <3>2. QED BY <2>3, <2>4, <3>1
    <2>6. QED BY <2>4, <2>5 DEF TableOf
  <1>6. QED BY <1>3, <1>4, <1>5 DEF GatheredOK

(* An extension record is folded into the file it extends, if that is the   *)
(* file in the table: the names stay names of it.                           *)
LEMMA FoldKeeps ==
    ASSUME NEW v, NEW t \in TableOf(v), NEW e \in ExtensionOf(v)
    PROVE  Fold(t, e) \in TableOf(v)
  <1>1. /\ t \in [0 .. Room - 1 -> FileRecord \cup {NoFile}]
        /\ \A n \in 0 .. Room - 1 : t[n] = NoFile \/ t[n] \in EntryOf(v, n)
    BY DEF TableOf
  <1>2. e.base \in FileRef /\ e.file \in FileRecord /\ \A k \in DOMAIN e.file.names : HasName(v, e.base, e.file.names[k])
    BY DEF ExtensionOf
  <1>3. CASE Holds(t, e.base)
    <2>1. PICK m \in Nat, s \in Nat : e.base = <<m, s>>
      BY <1>2 DEF FileRef
    <2>2. m < Room /\ t[m] # NoFile /\ t[m].seq = s /\ m \in 0 .. Room - 1
      BY <1>3, <2>1, VolumesAssumption DEF Holds
    <2>3. t[m] \in EntryOf(v, m)
      BY <1>1, <2>2
    <2>4. /\ t[m] \in FileRecord
          /\ \E f \in FilesEver(v) : Reference(f) = <<m, s>> /\ f.dir = t[m].dir
          /\ \A k \in DOMAIN t[m].names : HasName(v, <<m, s>>, t[m].names[k])
      BY <2>2, <2>3 DEF EntryOf
    <2>5. PICK q : q = [t[m] EXCEPT
            !.names = @ \o e.file.names,
            !.has_data = @ \/ e.file.has_data,
            !.size = IF e.file.has_data THEN e.file.size ELSE @,
            !.allocated = IF e.file.has_data THEN e.file.allocated ELSE @,
            !.tag = IF e.file.tag # "none" THEN e.file.tag ELSE @]
      OBVIOUS
    <2>6. /\ t[m].names \in Seq(FileRef) /\ e.file.names \in Seq(FileRef)
          /\ e.file.size \in Nat /\ e.file.allocated \in Nat /\ e.file.tag \in Tag /\ e.file.has_data \in BOOLEAN
      BY <1>2, <2>4 DEF FileRecord
    <2>7. q.names = t[m].names \o e.file.names /\ q.dir = t[m].dir /\ q.seq = s
      BY <2>2, <2>4, <2>5 DEF FileRecord
    <2>8. q \in FileRecord
      <3>1. t[m].names \o e.file.names \in Seq(FileRef)
        BY <2>6
      <3>2. PICK ns \in Seq(FileRef) : ns = t[m].names \o e.file.names
        BY <3>1
      <3>3. (t[m].has_data \/ e.file.has_data) \in BOOLEAN
        OBVIOUS
      <3>4. QED BY <2>4, <2>5, <2>6, <3>2, <3>3 DEF FileRecord
    <2>9. ASSUME NEW k \in DOMAIN q.names PROVE HasName(v, <<m, s>>, q.names[k])
      <3>1. PICK a, b : a = t[m].names /\ b = e.file.names
        OBVIOUS
      <3>2. a \in Seq(FileRef) /\ b \in Seq(FileRef) /\ q.names = a \o b
        BY <2>6, <2>7, <3>1
      <3>3. /\ Len(a) \in Nat /\ Len(b) \in Nat /\ DOMAIN a = 1 .. Len(a) /\ DOMAIN b = 1 .. Len(b)
            /\ DOMAIN q.names = 1 .. Len(a) + Len(b)
            /\ k \in 1 .. Len(a) => q.names[k] = a[k]
            /\ k \notin 1 .. Len(a) => q.names[k] = b[k - Len(a)]
        BY <3>2
      <3>4. CASE k \in 1 .. Len(a)
        BY <2>4, <3>1, <3>3, <3>4
      <3>5. CASE k \notin 1 .. Len(a)
        <4>1. k - Len(a) \in DOMAIN b
          BY <3>3, <3>5
        <4>2. QED BY <1>2, <2>1, <3>1, <3>3, <3>5, <4>1
      <3>6. QED BY <3>4, <3>5
    <2>10. q \in EntryOf(v, m)
      BY <2>4, <2>7, <2>8, <2>9 DEF EntryOf
    <2>11. Fold(t, e) = [t EXCEPT ![m] = q]
      <3>1. e.base[1] = m
        BY <2>1
      <3>2. QED BY <1>1, <1>3, <2>2, <2>5, <3>1 DEF Fold
    <2>12. PICK u : u = [t EXCEPT ![m] = q]
      OBVIOUS
    <2>13. u \in [0 .. Room - 1 -> FileRecord \cup {NoFile}]
      BY <1>1, <2>2, <2>8, <2>12
    <2>14. \A n \in 0 .. Room - 1 : u[n] = NoFile \/ u[n] \in EntryOf(v, n)
      BY <1>1, <2>2, <2>10, <2>12
    <2>15. QED BY <2>11, <2>12, <2>13, <2>14 DEF TableOf
  <1>4. QED BY <1>3 DEF Fold

(* Those that came, by number.                                              *)
LEMMA FoldOrderIs ==
    ASSUME NEW v, NEW all \in Seq(ExtensionOf(v))
    PROVE  FoldOrder(all) \in Seq(ExtensionOf(v))
  <1> DEFINE D == {e.number : e \in Range(all)}
             numbers == Ascending(D)
             C == Cardinality(D)
             first(k) == CHOOSE e \in Range(all) : e.number = numbers[k]
  <1>1. /\ Len(all) \in Nat /\ DOMAIN all = 1 .. Len(all)
        /\ \A i \in 1 .. Len(all) : all[i] \in ExtensionOf(v)
        /\ Range(all) = {all[i] : i \in 1 .. Len(all)}
    BY LenProperties, ElementOfSeq DEF Range
  <1>2. \A e \in ExtensionOf(v) : e.number \in Nat
    BY DEF ExtensionOf
  <1>3. D \in SUBSET Nat
    BY <1>1, <1>2
  <1>4. IsFiniteSet(D)
    <2> DEFINE g == [i \in 1 .. Len(all) |-> all[i].number]
    <2>1. g \in Surjection(1 .. Len(all), D)
      BY <1>1 DEF Surjection
    <2>2. IsFiniteSet(1 .. Len(all))
      BY <1>1, FS_Interval
    <2> HIDE DEF g, D
    <2>3. QED BY <2>1, <2>2, FS_Surjection
  <1>5. C \in Nat /\ numbers \in [1 .. C -> D]
    <2> HIDE DEF D
    <2>1. QED BY <1>3, <1>4, AscendingIs
  <1>6. ASSUME NEW k \in 1 .. C PROVE first(k) \in ExtensionOf(v)
    <2>1. numbers[k] \in D
      <3> HIDE DEF D, numbers
      <3>1. QED BY <1>5
    <2>2. PICK n : n = numbers[k]
      OBVIOUS
    <2>3. \E e \in Range(all) : e.number = n
      BY <2>1, <2>2
    <2>4. PICK e : e = CHOOSE x \in Range(all) : x.number = n
      OBVIOUS
    <2>5. e \in Range(all) /\ first(k) = e
      BY <2>2, <2>3, <2>4
    <2>6. QED BY <1>1, <2>5
  <1>7. FoldOrder(all) = [k \in 1 .. C |-> first(k)]
    <2>1. FoldOrder(all) = [k \in DOMAIN numbers |-> first(k)]
      BY DEF FoldOrder
    <2> HIDE DEF numbers, first
    <2>2. QED BY <1>5, <2>1
  <1> HIDE DEF first, C
  <1>8. [k \in 1 .. C |-> first(k)] \in [1 .. C -> ExtensionOf(v)]
    BY <1>6
  <1>9. QED BY <1>5, <1>7, <1>8, SeqDef

FoldsTo(table, all, h) ==
    h = [i \in 0 .. Len(all) |-> IF i = 0 THEN table ELSE Fold(h[i - 1], all[i])]

(* The table in every step of folding.                                      *)
FoldSteps(t, all, h) ==
    /\ h[0] = t
    /\ \A i \in 1 .. Len(all) : h[i] = Fold(h[i - 1], all[i])
    /\ Folded(t, all) = h[Len(all)]

LEMMA FoldedBySteps ==
    ASSUME NEW v, NEW t \in TableOf(v), NEW all \in Seq(ExtensionOf(v))
    PROVE  \E h : FoldSteps(t, all, h) /\ \A i \in 0 .. Len(all) : h[i] \in TableOf(v)
  <1> DEFINE n == Len(all)
             S == TableOf(v)
             step == [r \in S |-> [i \in 1 .. n |-> Fold(r, all[i])]]
  <1>1. n \in Nat /\ \A i \in 1 .. n : all[i] \in ExtensionOf(v)
    BY LenProperties, ElementOfSeq
  <1>2. \A r \in S, i \in 1 .. n : Fold(r, all[i]) \in S
    BY <1>1, FoldKeeps
  <1> HIDE DEF S, n
  <1>3. step \in [S -> [1 .. n -> S]]
    BY <1>2
  <1>4. \A r \in S, i \in 1 .. n : step[r][i] = Fold(r, all[i])
    OBVIOUS
  <1>5. t \in S
    BY DEF S
  <1> HIDE DEF step
  <1>6. \E h : FoldsTo(t, all, h)
    <2>1. PICK h : Stepped(h, S, t, n, step)
      BY <1>1, <1>3, <1>5, Steps
    <2>2. h \in [0 .. n -> S] /\ h[0] = t /\ \A i \in 1 .. n : h[i] = step[h[i - 1]][i]
      BY <2>1 DEF Stepped
    <2>3. ASSUME NEW i \in 0 .. n
          PROVE  h[i] = IF i = 0 THEN t ELSE Fold(h[i - 1], all[i])
      <3>1. CASE i = 0
        BY <2>2, <3>1
      <3>2. CASE i # 0
        <4>1. i \in 1 .. n /\ i - 1 \in 0 .. n
          BY <1>1, <3>2
        <4>2. h[i - 1] \in S
          BY <2>2, <4>1
        <4>3. QED BY <1>4, <2>2, <3>2, <4>1, <4>2
      <3>3. QED BY <3>1, <3>2
    <2>4. h = [i \in 0 .. n |-> h[i]]
      BY <2>2
    <2>5. FoldsTo(t, all, h)
      BY <2>3, <2>4 DEF FoldsTo, n
    <2>6. QED BY <2>5
  <1> DEFINE h == CHOOSE h : FoldsTo(t, all, h)
  <1>7. FoldsTo(t, all, h)
    BY <1>6
  <1>8. Folded(t, all) = h[n]
    BY DEF Folded, FoldsTo, n
  <1> HIDE DEF h
  <1>9. h[0] = t /\ \A i \in 1 .. n : h[i] = Fold(h[i - 1], all[i])
    <2>1. \A i \in 0 .. n : h[i] = IF i = 0 THEN t ELSE Fold(h[i - 1], all[i])
      BY <1>7 DEF FoldsTo, n
    <2>2. QED BY <1>1, <2>1
  <1>10. \A i \in 0 .. n : h[i] \in S
    BY <1>1, <1>2, <1>5, <1>9, StaysInAll
  <1>11. QED BY <1>8, <1>9, <1>10 DEF FoldSteps, S, n

LEMMA FoldedIs ==
    ASSUME NEW v, NEW t \in TableOf(v), NEW all \in Seq(ExtensionOf(v))
    PROVE  Folded(t, all) \in TableOf(v)
  <1>1. PICK h : FoldSteps(t, all, h) /\ \A i \in 0 .. Len(all) : h[i] \in TableOf(v)
    BY FoldedBySteps
  <1>2. Len(all) \in 0 .. Len(all)
    BY LenProperties
  <1>3. QED BY <1>1, <1>2 DEF FoldSteps

(* What the tree is made from is a table of entries.                        *)
LEMMA CompletedIs ==
    ASSUME GatheredOK
    PROVE  Completed \in TableOf(volume)
  <1>1. PICK t : t = Folded(records, FoldOrder(extensions))
    OBVIOUS
  <1>2. t \in TableOf(volume)
    <2>1. FoldOrder(extensions) \in Seq(ExtensionOf(volume))
      BY FoldOrderIs DEF GatheredOK
    <2>2. QED BY <1>1, <2>1, FoldedIs DEF GatheredOK
  <1>3. /\ t \in [0 .. Room - 1 -> FileRecord \cup {NoFile}]
        /\ \A n \in 0 .. Room - 1 : t[n] = NoFile \/ t[n] \in EntryOf(volume, n)
    BY <1>2 DEF TableOf
  <1>4. \A ref : TagOf(ref) \in Tag
    <2>1. TAKE ref
    <2>2. CASE \E f \in after : Reference(f) = ref
      <3>1. PICK f : f = CHOOSE g \in after : Reference(g) = ref
        OBVIOUS
      <3>2. f \in after /\ TagOf(ref) = f.tag
        BY <2>2, <3>1 DEF TagOf
      <3>3. f \in FileOnDisk
        BY <3>2, VolumesAssumption DEF after, GatheredOK
      <3>4. QED BY <3>2, <3>3, FileTypes
    <2>3. CASE ~ \E f \in after : Reference(f) = ref
      BY <2>3 DEF TagOf, Tag
    <2>4. QED BY <2>2, <2>3
  <1> DEFINE done(n) == IF n >= FirstUser /\ t[n] # NoFile /\ t[n].tag = "none" /\ t[n].reparse
                        THEN [t[n] EXCEPT !.tag = TagOf(<<n, t[n].seq>>)]
                        ELSE t[n]
  <1>5. Completed = [n \in 0 .. Room - 1 |-> done(n)]
    <2>1. DOMAIN t = 0 .. Room - 1
      BY <1>3
    <2>2. Completed = [n \in DOMAIN t |-> done(n)]
      BY <1>1 DEF Completed
    <2> HIDE DEF done
    <2>3. QED BY <2>1, <2>2
  <1>6. ASSUME NEW n \in 0 .. Room - 1
        PROVE  done(n) = NoFile \/ done(n) \in EntryOf(volume, n)
    <2>1. CASE t[n] = NoFile
      BY <2>1
    <2>2. CASE t[n] # NoFile
      <3>1. PICK tag : tag = TagOf(<<n, t[n].seq>>)
        OBVIOUS
      <3>2. PICK q : q = [t[n] EXCEPT !.tag = tag]
        OBVIOUS
      <3>3. /\ t[n] \in FileRecord
            /\ \E f \in FilesEver(volume) : Reference(f) = <<n, t[n].seq>> /\ f.dir = t[n].dir
            /\ \A k \in DOMAIN t[n].names : HasName(volume, <<n, t[n].seq>>, t[n].names[k])
        BY <1>3, <2>2 DEF EntryOf
      <3>4. q \in FileRecord /\ q.dir = t[n].dir /\ q.seq = t[n].seq /\ q.names = t[n].names
        <4>1. tag \in Tag
          BY <1>4, <3>1
        <4>2. QED BY <3>2, <3>3, <4>1 DEF FileRecord
      <3>5. q \in EntryOf(volume, n)
        BY <3>3, <3>4 DEF EntryOf
      <3>6. done(n) \in {q, t[n]}
        BY <3>1, <3>2
      <3>7. QED BY <1>3, <2>2, <3>5, <3>6
    <2>3. QED BY <2>1, <2>2
  <1> HIDE DEF done
  <1>7. PICK u : u = [n \in 0 .. Room - 1 |-> done(n)]
    OBVIOUS
  <1>8. \A n \in 0 .. Room - 1 : u[n] = NoFile \/ u[n] \in EntryOf(volume, n)
    BY <1>6, <1>7
  <1>9. u \in [0 .. Room - 1 -> FileRecord \cup {NoFile}]
    <2>1. \A n : EntryOf(volume, n) \subseteq FileRecord
      BY DEF EntryOf
    <2>2. QED BY <1>7, <1>8, <2>1
  <1>10. QED BY <1>5, <1>7, <1>8, <1>9 DEF TableOf

-----------------------------------------------------------------------------
(* The folders in the order they are sent: the root first, each once, each  *)
(* later one with its first name in an earlier one.                         *)
Place(t, o, j) == <<o[j], t[o[j]].seq>>

FoundEarlier(t, o, i) ==
    /\ t[o[i]] # NoFile /\ t[o[i]].dir /\ t[o[i]].names # <<>>
    /\ o[i] \in Files(t) /\ Kind(t[o[i]]) = "Directory"
    /\ \E j \in 1 .. i - 1 : t[o[i]].names[1] = Place(t, o, j)

OrderOf(t, r) ==
    {o \in Seq(0 .. Room - 1) :
       /\ Len(o) >= 1 /\ o[1] = r
       /\ \A i, j \in 1 .. Len(o) : o[i] = o[j] => i = j
       /\ \A i \in 2 .. Len(o) : FoundEarlier(t, o, i)}

LEMMA KindIs ==
    ASSUME NEW e \in FileRecord
    PROVE  /\ Kind(e) = "Directory" => e.dir
           /\ Kind(e) = "File" => ~e.dir
  <1>1. e.dir \in BOOLEAN
    BY DEF FileRecord
  <1>2. CASE IsSurrogate(e)
    BY <1>2 DEF Kind
  <1>3. CASE ~IsSurrogate(e) /\ e.dir
    BY <1>3 DEF Kind
  <1>4. CASE ~IsSurrogate(e) /\ ~e.dir
    BY <1>4 DEF Kind
  <1>5. QED BY <1>1, <1>2, <1>3, <1>4

(* A folder's subfolder has its first name in it.                           *)
LEMMA SubfoldersIs ==
    ASSUME NEW v, NEW t \in TableOf(v), NEW p, NEW n \in Subfolders(t, p)
    PROVE  /\ n \in 0 .. Room - 1 /\ t[n] # NoFile /\ t[n].dir /\ t[n].names # <<>>
           /\ n \in Files(t) /\ Kind(t[n]) = "Directory"
           /\ t[n].names[1] = <<p, t[p].seq>>
  <1>1. /\ t \in [0 .. Room - 1 -> FileRecord \cup {NoFile}]
        /\ n \in DOMAIN t /\ t[n] # NoFile /\ Kind(t[n]) = "Directory" /\ t[n].names # <<>>
        /\ Folder(t, t[n].names[1]) /\ t[n].names[1][1] = p
    BY DEF TableOf, Subfolders, Files
  <1>2. n \in 0 .. Room - 1 /\ t[n] \in FileRecord
    BY <1>1
  <1>3. t[n].dir
    BY <1>1, <1>2, KindIs
  <1>4. t[n].names \in Seq(FileRef) /\ Len(t[n].names) \in Nat /\ Len(t[n].names) >= 1
    <2>1. t[n].names \in Seq(FileRef)
      BY <1>2 DEF FileRecord
    <2>2. QED BY <1>1, <2>1
  <1>5. t[n].names[1] \in FileRef
    BY <1>4
  <1>6. PICK a \in Nat, b \in Nat : t[n].names[1] = <<a, b>>
    BY <1>5 DEF FileRef
  <1>7. a = p /\ t[p].seq = b
    BY <1>1, <1>6 DEF Folder, Holds
  <1>8. n \in Files(t)
    BY DEF Subfolders
  <1>9. QED BY <1>1, <1>2, <1>3, <1>6, <1>7, <1>8

(* A folder's subfolders are put in order after it.                         *)
LEMMA AddSubfoldersKeeps ==
    ASSUME NEW v, NEW t \in TableOf(v), NEW r, NEW o \in OrderOf(t, r), NEW i \in 1 .. Room
    PROVE  AddSubfolders(t, o, i) \in OrderOf(t, r)
  <1> DEFINE D == Subfolders(t, o[i]) \ Range(o)
             a == Ascending(D)
             C == Cardinality(D)
             q == o \o a
             n == Len(o)
  <1>1. /\ o \in Seq(0 .. Room - 1) /\ n >= 1 /\ o[1] = r
        /\ \A k, j \in 1 .. n : o[k] = o[j] => k = j
        /\ \A k \in 2 .. n : FoundEarlier(t, o, k)
    BY DEF OrderOf
  <1>2. n \in Nat /\ DOMAIN o = 1 .. n /\ Range(o) = {o[k] : k \in 1 .. n}
    BY <1>1, LenProperties DEF Range
  <1>3. CASE i > n
    BY <1>3 DEF AddSubfolders
  <1>4. CASE ~(i > n)
    <2>0. i \in 1 .. n
      BY <1>2, <1>4
    <2>1. D \subseteq 0 .. Room - 1 /\ D \in SUBSET Nat
      BY SubfoldersIs, VolumesAssumption
    <2>2. IsFiniteSet(D)
      <3>1. IsFiniteSet(0 .. Room - 1)
        <4>1. 0 \in Int /\ Room - 1 \in Int
          BY VolumesAssumption
        <4>2. QED BY <4>1, FS_Interval
      <3> HIDE DEF D
      <3>2. QED BY <2>1, <3>1, FS_Subset
    <2>3. /\ C \in Nat /\ a \in [1 .. C -> D]
          /\ \A k, j \in 1 .. C : k < j => a[k] < a[j]
      <3> HIDE DEF D
      <3>1. QED BY <2>1, <2>2, AscendingIs
    <2>4. \A m \in D : /\ m \notin Range(o)
                       /\ t[m] # NoFile /\ t[m].dir /\ t[m].names # <<>>
                       /\ m \in Files(t) /\ Kind(t[m]) = "Directory"
                       /\ t[m].names[1] = Place(t, o, i)
      BY SubfoldersIs DEF Place
    <2> HIDE DEF D, a, C
    <2>5. a \in Seq(0 .. Room - 1) /\ Len(a) = C /\ DOMAIN a = 1 .. C
      <3>1. a \in [1 .. C -> 0 .. Room - 1]
        BY <2>1, <2>3
      <3>2. a \in Seq(0 .. Room - 1)
        BY <2>3, <3>1, SeqDef
      <3>3. QED BY <2>3, <3>1, <3>2, LenProperties
    <2>6. /\ q \in Seq(0 .. Room - 1) /\ Len(q) = n + C
          /\ \A k \in 1 .. n : q[k] = o[k]
          /\ \A k \in 1 .. n + C : k \notin 1 .. n => k - n \in 1 .. C /\ q[k] = a[k - n]
      <3>1. q \in Seq(0 .. Room - 1) /\ Len(q) = n + C
        BY <1>1, <2>5, ConcatProperties
      <3>2. \A k \in 1 .. n + C : q[k] = IF k <= n THEN o[k] ELSE a[k - n]
        BY <1>1, <2>5, ConcatProperties
      <3>3. QED BY <1>2, <2>3, <3>1, <3>2
    <2> HIDE DEF q, n
    <2>7. ASSUME NEW k \in 1 .. n + C, NEW j \in 1 .. n + C, q[k] = q[j] PROVE k = j
      <3>1. CASE k \in 1 .. n /\ j \in 1 .. n
        BY <1>1, <2>6, <2>7, <3>1
      <3>2. CASE k \notin 1 .. n /\ j \notin 1 .. n
        <4>1. k - n \in 1 .. C /\ j - n \in 1 .. C /\ a[k - n] = a[j - n]
          BY <2>6, <2>7, <3>2
        <4>2. PICK x \in 1 .. C, y \in 1 .. C : x = k - n /\ y = j - n
          BY <4>1
        <4>3. a[x] \in Nat /\ a[x] = a[y]
          BY <2>1, <2>3, <4>1, <4>2
        <4>4. ~(x < y) /\ ~(y < x)
          BY <2>3, <4>3
        <4>5. x = y
          BY <4>4
        <4>6. QED BY <1>2, <4>2, <4>5
      <3>3. CASE k \in 1 .. n /\ j \notin 1 .. n
        <4>1. q[k] \in Range(o) /\ q[j] \in D
          BY <1>2, <2>3, <2>6, <3>3
        <4>2. QED BY <2>4, <2>7, <4>1
      <3>4. CASE k \notin 1 .. n /\ j \in 1 .. n
        <4>1. q[j] \in Range(o) /\ q[k] \in D
          BY <1>2, <2>3, <2>6, <3>4
        <4>2. QED BY <2>4, <2>7, <4>1
      <3>5. QED BY <3>1, <3>2, <3>3, <3>4
    <2>8. ASSUME NEW k \in 2 .. n + C PROVE FoundEarlier(t, q, k)
      <3>0. k \in 1 .. n + C
        BY <2>8
      <3>1. CASE k \in 1 .. n
        <4>1. FoundEarlier(t, o, k) /\ q[k] = o[k]
          <5>1. k \in 2 .. n
            BY <1>2, <3>1
          <5>2. QED BY <1>1, <2>6, <3>1, <5>1
        <4>2. PICK j \in 1 .. k - 1 : t[o[k]].names[1] = Place(t, o, j)
          BY <4>1 DEF FoundEarlier
        <4>3. j \in 1 .. n /\ q[j] = o[j]
          BY <1>2, <2>6, <3>1
        <4>4. QED BY <4>1, <4>2, <4>3 DEF FoundEarlier, Place
      <3>2. CASE k \notin 1 .. n
        <4>1. q[k] \in D
          BY <2>3, <2>6, <3>0, <3>2
        <4>2. i \in 1 .. k - 1 /\ q[i] = o[i]
          BY <1>2, <2>0, <2>3, <2>6, <3>0, <3>2
        <4>3. Place(t, q, i) = Place(t, o, i)
          BY <4>2 DEF Place
        <4>4. QED BY <2>4, <4>1, <4>2, <4>3 DEF FoundEarlier
      <3>3. QED BY <3>1, <3>2
    <2>9. q[1] = r /\ Len(q) >= 1
      BY <1>1, <1>2, <2>3, <2>6
    <2>10. q \in OrderOf(t, r)
      BY <2>6, <2>7, <2>8, <2>9 DEF OrderOf
    <2>11. AddSubfolders(t, o, i) = q
      BY <1>4 DEF AddSubfolders, q, a, D, n
    <2>12. QED BY <2>10, <2>11
  <1>5. QED BY <1>3, <1>4

OrdersTo(table, r, h) ==
    h = [i \in 0 .. Room |-> IF i = 0 THEN <<r>> ELSE AddSubfolders(table, h[i - 1], i)]

(* The order in every step of making it.                                    *)
OrderSteps(t, r, h) ==
    /\ h[0] = <<r>>
    /\ \A i \in 1 .. Room : h[i] = AddSubfolders(t, h[i - 1], i)
    /\ Order(t, r) = h[Room]

LEMMA OrderBySteps ==
    ASSUME NEW v, NEW t \in TableOf(v), NEW r \in 0 .. Room - 1
    PROVE  \E h : OrderSteps(t, r, h) /\ \A i \in 0 .. Room : h[i] \in OrderOf(t, r)
  <1> DEFINE n == Room
             S == OrderOf(t, r)
             step == [o \in S |-> [i \in 1 .. n |-> AddSubfolders(t, o, i)]]
  <1>1. n \in Nat
    BY VolumesAssumption
  <1>2. \A o \in S, i \in 1 .. n : AddSubfolders(t, o, i) \in S
    BY AddSubfoldersKeeps
  <1>5. <<r>> \in S
    BY DEF OrderOf
  <1> HIDE DEF S, n
  <1>3. step \in [S -> [1 .. n -> S]]
    BY <1>2
  <1>4. \A o \in S, i \in 1 .. n : step[o][i] = AddSubfolders(t, o, i)
    OBVIOUS
  <1> HIDE DEF step
  <1>6. \E h : OrdersTo(t, r, h)
    <2>1. PICK h : Stepped(h, S, <<r>>, n, step)
      BY <1>1, <1>3, <1>5, Steps
    <2>2. h \in [0 .. n -> S] /\ h[0] = <<r>> /\ \A i \in 1 .. n : h[i] = step[h[i - 1]][i]
      BY <2>1 DEF Stepped
    <2>3. ASSUME NEW i \in 0 .. n
          PROVE  h[i] = IF i = 0 THEN <<r>> ELSE AddSubfolders(t, h[i - 1], i)
      <3>1. CASE i = 0
        BY <2>2, <3>1
      <3>2. CASE i # 0
        <4>1. i \in 1 .. n /\ i - 1 \in 0 .. n
          BY <1>1, <3>2
        <4>2. h[i - 1] \in S
          BY <2>2, <4>1
        <4>3. QED BY <1>4, <2>2, <3>2, <4>1, <4>2
      <3>3. QED BY <3>1, <3>2
    <2>4. h = [i \in 0 .. n |-> h[i]]
      BY <2>2
    <2>5. OrdersTo(t, r, h)
      BY <2>3, <2>4 DEF OrdersTo, n
    <2>6. QED BY <2>5
  <1> DEFINE h == CHOOSE h : OrdersTo(t, r, h)
  <1>7. OrdersTo(t, r, h)
    BY <1>6
  <1>8. Order(t, r) = h[n]
    BY DEF Order, OrdersTo, n
  <1> HIDE DEF h
  <1>9. h[0] = <<r>> /\ \A i \in 1 .. n : h[i] = AddSubfolders(t, h[i - 1], i)
    <2>1. \A i \in 0 .. n : h[i] = IF i = 0 THEN <<r>> ELSE AddSubfolders(t, h[i - 1], i)
      BY <1>7 DEF OrdersTo, n
    <2>2. QED BY <1>1, <2>1
  <1>10. \A i \in 0 .. n : h[i] \in S
    BY <1>1, <1>2, <1>5, <1>9, StaysInAll
  <1>11. QED BY <1>8, <1>9, <1>10 DEF OrderSteps, S, n

(* However many are.                                                        *)
LEMMA OrderIs ==
    ASSUME NEW v, NEW t \in TableOf(v), NEW r \in 0 .. Room - 1
    PROVE  Order(t, r) \in OrderOf(t, r)
  <1>1. PICK h : OrderSteps(t, r, h) /\ \A i \in 0 .. Room : h[i] \in OrderOf(t, r)
    BY OrderBySteps
  <1>2. Room \in 0 .. Room
    BY VolumesAssumption
  <1>3. QED BY <1>1, <1>2 DEF OrderSteps

-----------------------------------------------------------------------------
(* The events: what is sent is a stream                                     *)
EventOK(v, p, i) ==
    /\ p[i].dir \in FileRef
    /\ IdOn(v, p[i].dir) \in FolderIds
    /\ i = 1 => p[i].dir = Volumes[v].root /\ p[i].parent = <<>>
    /\ i # 1 => /\ \E j \in 1 .. i - 1 : p[i].parent = p[j].dir
                /\ HasName(v, p[i].dir, p[i].parent)
    /\ \A c \in p[i].files : IdOn(v, c.file) \in FileIds /\ HasName(v, c.file, p[i].dir)

Apart(p, i, j) ==
    /\ p[i].dir # p[j].dir
    /\ \A c \in p[i].files, d \in p[j].files : c.file # d.file

PlanOK(v, p) ==
    /\ \E S : p \in Seq(S)
    /\ \A i \in DOMAIN p : EventOK(v, p, i)
    /\ \A i, j \in DOMAIN p : i # j => Apart(p, i, j)

(* A file that is counted in a folder has a name in it, and in one folder.  *)
LEMMA CountedInIs ==
    ASSUME NEW v \in DOMAIN Volumes, NEW t \in TableOf(v), NEW o, NEW ref, NEW c \in CountedIn(t, o, ref)
    PROVE  /\ IdOn(v, c.file) \in FileIds /\ HasName(v, c.file, ref)
           /\ c.file = <<c.file[1], t[c.file[1]].seq>> /\ FirstLeads(t, o, c.file[1], ref)
  <1>1. PICK n \in {m \in Files(t) : /\ Kind(t[m]) = "File"
                                     /\ CountedSize(t[m]) > 0
                                     /\ FirstLeads(t, o, m, ref)} :
             c = [file |-> <<n, t[n].seq>>, size |-> CountedSize(t[n])]
    BY DEF CountedIn
  <1>2. c.file = <<n, t[n].seq>> /\ c.file[1] = n
    BY <1>1
  <1>3. t[n] # NoFile /\ n \in 0 .. Room - 1 /\ t[n] \in FileRecord /\ t[n] \in EntryOf(v, n)
    <2>1. DOMAIN t = 0 .. Room - 1 /\ \A m \in 0 .. Room - 1 : t[m] = NoFile \/ t[m] \in EntryOf(v, m)
      BY DEF TableOf
    <2>2. n \in DOMAIN t /\ t[n] # NoFile
      BY <1>1 DEF Files
    <2>3. QED BY <2>1, <2>2 DEF EntryOf
  <1>4. ~t[n].dir
    BY <1>1, <1>3, KindIs
  <1>5. PICK f \in FilesEver(v) : Reference(f) = <<n, t[n].seq>> /\ f.dir = t[n].dir
    BY <1>3 DEF EntryOf
  <1>6. IdOn(v, c.file) \in FileIds
    BY <1>2, <1>4, <1>5 DEF FileIds
  <1>7. PICK L : L = Leading(t, o, n)
    OBVIOUS
  <1>8. L # {} /\ t[n].names[Min(L)] = ref
    BY <1>1, <1>7 DEF FirstLeads
  <1>9. L \subseteq DOMAIN t[n].names /\ DOMAIN t[n].names \subseteq Nat
    <2>1. t[n].names \in Seq(FileRef)
      BY <1>3 DEF FileRecord
    <2>2. QED BY <1>7, <2>1, LenProperties DEF Leading
  <1>10. Min(L) \in L
    <2>1. \E i \in L : \A j \in L : i <= j
      BY <1>8, <1>9, Least
    <2>2. QED BY <2>1 DEF Min
  <1>11. HasName(v, c.file, ref)
    BY <1>2, <1>3, <1>8, <1>9, <1>10 DEF EntryOf
  <1>12. QED BY <1>1, <1>2, <1>6, <1>11

(* The events of a table and an order of its folders.                       *)
LEMMA EventsIs ==
    ASSUME NEW v \in DOMAIN Volumes, NEW t \in TableOf(v), NEW r \in 0 .. Room - 1, NEW o \in OrderOf(t, r),
           t[r] # NoFile, t[r].dir, <<r, t[r].seq>> = Volumes[v].root
    PROVE  PlanOK(v, Events(t, o))
  <1> DEFINE n == Len(o)
  <1>1. /\ o \in Seq(0 .. Room - 1) /\ n >= 1 /\ o[1] = r
        /\ \A k, j \in 1 .. n : o[k] = o[j] => k = j
        /\ \A k \in 2 .. n : FoundEarlier(t, o, k)
    BY DEF OrderOf
  <1>2. n \in Nat /\ DOMAIN o = 1 .. n /\ \A k \in 1 .. n : o[k] \in 0 .. Room - 1
    BY <1>1, LenProperties, ElementOfSeq
  <1>3. PICK p : p = Events(t, o)
    OBVIOUS
  <1> HIDE DEF n
  <1>4. ASSUME NEW i \in 1 .. n
        PROVE  /\ p[i].dir = Place(t, o, i)
               /\ p[i].parent = IF i = 1 THEN <<>> ELSE t[o[i]].names[1]
               /\ p[i].files = CountedIn(t, o, Place(t, o, i))
    BY <1>2, <1>3 DEF Events, Place
  <1>5. DOMAIN p = 1 .. n /\ \E S : p \in Seq(S)
    <2>1. DOMAIN p = 1 .. n /\ p = [i \in 1 .. n |-> p[i]]
      BY <1>2, <1>3 DEF Events
    <2>2. p \in [1 .. n -> {p[i] : i \in 1 .. n}]
      BY <2>1
    <2>3. p \in Seq({p[i] : i \in 1 .. n})
      BY <1>2, <2>2, SeqDef
    <2>4. QED BY <2>1, <2>3
  <1>6. ASSUME NEW i \in 1 .. n PROVE t[o[i]] # NoFile /\ t[o[i]].dir
    <2>1. CASE i = 1
      BY <1>1, <2>1
    <2>2. CASE i # 1
      <3>1. i \in 2 .. n
        BY <2>2
      <3>2. QED BY <1>1, <3>1 DEF FoundEarlier
    <2>3. QED BY <2>1, <2>2
  <1>7. ASSUME NEW i \in 1 .. n PROVE t[o[i]] \in EntryOf(v, o[i]) /\ t[o[i]] \in FileRecord
    BY <1>2, <1>6 DEF TableOf, EntryOf
  <1>8. ASSUME NEW i \in 1 .. n PROVE EventOK(v, p, i)
    <2>1. p[i].dir \in FileRef
      <3>1. o[i] \in Nat /\ t[o[i]].seq \in Nat
        BY <1>2, <1>7, VolumesAssumption DEF FileRecord
      <3>2. Place(t, o, i) \in FileRef
        BY <3>1 DEF Place, FileRef
      <3>3. QED BY <1>4, <3>2
    <2>2. IdOn(v, p[i].dir) \in FolderIds
      <3>1. PICK f \in FilesEver(v) : Reference(f) = Place(t, o, i) /\ f.dir = t[o[i]].dir
        BY <1>7 DEF EntryOf, Place
      <3>2. f.dir /\ p[i].dir = Reference(f)
        BY <1>4, <1>6, <3>1
      <3>3. QED BY <3>2 DEF FolderIds
    <2>3. CASE i = 1
      <3>1. p[i].dir = Volumes[v].root /\ p[i].parent = <<>>
        BY <1>1, <1>4, <2>3 DEF Place
      <3>2. \A c \in p[i].files : IdOn(v, c.file) \in FileIds /\ HasName(v, c.file, p[i].dir)
        BY <1>4, CountedInIs
      <3>3. QED BY <2>1, <2>2, <2>3, <3>1, <3>2 DEF EventOK
    <2>4. CASE i # 1
      <3>1. FoundEarlier(t, o, i) /\ p[i].parent = t[o[i]].names[1]
        <4>1. i \in 2 .. n
          BY <2>4
        <4>2. QED BY <1>1, <1>4, <2>4, <4>1
      <3>2. PICK j \in 1 .. i - 1 : t[o[i]].names[1] = Place(t, o, j)
        BY <3>1 DEF FoundEarlier
      <3>3. p[i].parent = p[j].dir
        <4>1. j \in 1 .. n
          BY <1>2
        <4>2. QED BY <1>4, <3>1, <3>2, <4>1
      <3>4. HasName(v, p[i].dir, p[i].parent)
        <4>1. t[o[i]].names \in Seq(FileRef) /\ t[o[i]].names # <<>>
          BY <1>7, <3>1 DEF FileRecord, FoundEarlier
        <4>2. 1 \in DOMAIN t[o[i]].names
          BY <4>1
        <4>3. QED BY <1>4, <1>7, <3>1, <4>2 DEF EntryOf, Place
      <3>5. \A c \in p[i].files : IdOn(v, c.file) \in FileIds /\ HasName(v, c.file, p[i].dir)
        BY <1>4, CountedInIs
      <3>6. QED BY <2>1, <2>2, <2>4, <3>3, <3>4, <3>5 DEF EventOK
    <2>5. QED BY <2>3, <2>4
  <1>9. ASSUME NEW i \in 1 .. n, NEW j \in 1 .. n, i # j PROVE Apart(p, i, j)
    <2>1. Place(t, o, i) # Place(t, o, j)
      BY <1>1, <1>9 DEF Place
    <2>2. ASSUME NEW c \in p[i].files, NEW d \in p[j].files, c.file = d.file PROVE FALSE
      <3>1. FirstLeads(t, o, c.file[1], Place(t, o, i)) /\ FirstLeads(t, o, d.file[1], Place(t, o, j))
        BY <1>4, CountedInIs
      <3>2. QED BY <2>1, <2>2, <3>1 DEF FirstLeads
    <2>3. QED BY <1>4, <2>1, <2>2 DEF Apart
  <1>10. PlanOK(v, p)
    BY <1>5, <1>8, <1>9 DEF PlanOK
  <1>11. QED BY <1>3, <1>10

-----------------------------------------------------------------------------
(* Node ids                                                                 *)
LEMMA IdsDiffer ==
    ASSUME NEW v \in DOMAIN Volumes
    PROVE  /\ \A a, b : IdOn(v, a) = IdOn(v, b) => a = b
           /\ \A a : IdOn(v, a) = RootId <=> a = Volumes[v].root
           /\ \A a : IdOn(v, a) # NoId
  <1>1. v # 0
    BY VolumesAssumption
  <1>2. \A a : <<v, a>> # RootId /\ <<v, a>> # NoId
    BY <1>1 DEF RootId, NoId
  <1>3. RootId # NoId
    BY DEF RootId, NoId
  <1>4. \A a : IF a = Volumes[v].root THEN IdOn(v, a) = RootId ELSE IdOn(v, a) = <<v, a>>
    BY DEF IdOn
  <1>5. QED BY <1>2, <1>3, <1>4

(* A name of a file in a folder says that it is among the folder's entries. *)
LEMMA NamedInIs ==
    ASSUME NEW v \in DOMAIN Volumes, NEW ref, NEW parent, HasName(v, ref, parent), IdOn(v, parent) \in FolderIds
    PROVE  IdOn(v, ref) \in NamedIn[IdOn(v, parent)]
  <1>1. PICK id : id = IdOn(v, parent)
    OBVIOUS
  <1>2. PICK g \in FilesEver(v) : Reference(g) = ref /\ \E i \in DOMAIN g.names : g.names[i].parent = parent
    BY DEF HasName
  <1>3. g \in {f \in FilesEver(v) : \E i \in DOMAIN f.names : IdOn(v, f.names[i].parent) = id}
    BY <1>1, <1>2
  <1>4. NamedIn[id] = UNION {{IdOn(u, Reference(f)) : f \in {h \in FilesEver(u) :
                         \E i \in DOMAIN h.names : IdOn(u, h.names[i].parent) = id}} : u \in DOMAIN Volumes}
    BY <1>1 DEF NamedIn
  <1>5. QED BY <1>1, <1>2, <1>3, <1>4

(* An event sent: what it was sent after and what is left are as before.    *)
LEMMA SendsNext ==
    ASSUME NEW S, NEW s \in Seq(S), NEW p \in Seq(S), p # <<>>
    PROVE  /\ Append(s, Head(p)) \o Tail(p) = s \o p
           /\ Append(s, Head(p)) \in Seq(S) /\ Tail(p) \in Seq(S)
           /\ Head(p) = (s \o p)[Len(s) + 1]
           /\ Len(s \o p) > Len(s)
           /\ \A i \in 1 .. Len(s) : s[i] = (s \o p)[i]
  <1>1. Len(p) \in Nat /\ Len(s) \in Nat /\ Len(p) >= 1
    OBVIOUS
  <1>2. Head(p) = p[1] /\ Head(p) \in S
    BY <1>1
  <1>3. PICK q : q = Append(s, Head(p))
    OBVIOUS
  <1>4. q \in Seq(S) /\ Len(q) = Len(s) + 1 /\ \A i \in 1 .. Len(s) + 1 : q[i] = IF i = Len(s) + 1 THEN p[1] ELSE s[i]
    BY <1>1, <1>2, <1>3
  <1>5. PICK u : u = Tail(p)
    OBVIOUS
  <1>6. u \in Seq(S) /\ Len(u) = Len(p) - 1 /\ \A i \in 1 .. Len(p) - 1 : u[i] = p[i + 1]
    BY <1>1, <1>5, HeadTailProperties
  <1>7. PICK w : w = s \o p
    OBVIOUS
  <1>8. w \in Seq(S) /\ Len(w) = Len(s) + Len(p) /\ \A i \in 1 .. Len(s) + Len(p) : w[i] = IF i <= Len(s) THEN s[i] ELSE p[i - Len(s)]
    BY <1>7, ConcatProperties
  <1>9. PICK x : x = q \o u
    OBVIOUS
  <1>10. x \in Seq(S) /\ Len(x) = Len(q) + Len(u) /\ \A i \in 1 .. Len(q) + Len(u) : x[i] = IF i <= Len(q) THEN q[i] ELSE u[i - Len(q)]
    BY <1>4, <1>6, <1>9, ConcatProperties
  <1>11. Len(x) = Len(w)
    BY <1>1, <1>4, <1>6, <1>8, <1>10
  <1>12. ASSUME NEW i \in 1 .. Len(x) PROVE x[i] = w[i]
    <2>1. CASE i <= Len(s)
      <3>1. i \in 1 .. Len(s) + 1 /\ i <= Len(q) /\ i # Len(s) + 1
        BY <1>1, <1>4, <2>1
      <3>2. i \in 1 .. Len(q) + Len(u) /\ i \in 1 .. Len(s) + Len(p)
        BY <1>8, <1>10, <1>11
      <3>3. x[i] = s[i]
        BY <1>4, <1>10, <3>1, <3>2
      <3>4. w[i] = s[i]
        BY <1>8, <2>1, <3>2
      <3>5. QED BY <3>3, <3>4
    <2>2. CASE i = Len(s) + 1
      <3>1. x[i] = p[1]
        BY <1>1, <1>4, <1>6, <1>10, <2>2
      <3>2. w[i] = p[i - Len(s)] /\ i - Len(s) = 1
        BY <1>1, <1>8, <1>11, <2>2
      <3>3. QED BY <3>1, <3>2
    <2>3. CASE i > Len(s) + 1
      <3>1. x[i] = u[i - (Len(s) + 1)]
        BY <1>1, <1>4, <1>6, <1>10, <2>3
      <3>2. i - (Len(s) + 1) \in 1 .. Len(p) - 1
        BY <1>1, <1>8, <1>11, <2>3
      <3>3. x[i] = p[i - (Len(s) + 1) + 1]
        BY <1>6, <3>1, <3>2
      <3>4. w[i] = p[i - Len(s)]
        BY <1>1, <1>8, <1>11, <2>3
      <3>5. i - (Len(s) + 1) + 1 = i - Len(s)
        BY <1>1
      <3>6. QED BY <3>3, <3>4, <3>5
    <2>4. QED BY <1>1, <2>1, <2>2, <2>3
  <1>13. x = w
    BY <1>8, <1>10, <1>11, <1>12, SeqEqual
  <1>14. w[Len(s) + 1] = p[1]
    <2>1. w[Len(s) + 1] = p[Len(s) + 1 - Len(s)] /\ Len(s) + 1 - Len(s) = 1
      BY <1>1, <1>8
    <2>2. QED BY <2>1
  <1>15. QED BY <1>1, <1>2, <1>3, <1>4, <1>5, <1>6, <1>7, <1>8, <1>9, <1>13, <1>14

-----------------------------------------------------------------------------
(* An event that goes on from a stream                                      *)
SendingOK ==
    /\ \E S : sent \in Seq(S) /\ plan \in Seq(S)
    /\ PlanOK(volume, sent \o plan)
    /\ gather # "sending" => plan = <<>> /\ sent = <<>>
    /\ outcome # "none" => plan = <<>>

SIInv == GatheredOK /\ SendingOK

LEMMA NoReference == \A ref \in FileRef : ref # <<>>
  <1>1. TAKE ref \in FileRef
  <1>2. PICK a \in Nat, b \in Nat : ref = <<a, b>>
    BY DEF FileRef
  <1>3. QED BY <1>2

(* Sending the next event is a step of the stream.                          *)
LEMMA EventAnnounced ==
    ASSUME SIInv, outcome = "none", plan # <<>>, volume' = volume,
           sent' = Append(sent, Head(plan)), outcome' = outcome
    PROVE  Stream!StreamNext
  <1> DEFINE v == volume
             w == sent \o plan
             n == Len(sent)
             e == Head(plan)
             d == IdOn(v, e.dir)
             q == IF e.parent = <<>> THEN NoId ELSE IdOn(v, e.parent)
             F == {IdOn(v, c.file) : c \in e.files}
  <1>1. PICK S : sent \in Seq(S) /\ plan \in Seq(S)
    BY DEF SIInv, SendingOK
  <1>2. /\ e = w[n + 1] /\ n \in Nat /\ Len(w) > n /\ \A i \in 1 .. n : sent[i] = w[i]
        /\ w \in Seq(S) /\ DOMAIN sent = 1 .. n
    BY <1>1, SendsNext, ConcatProperties, LenProperties
  <1>3. v \in DOMAIN Volumes /\ PlanOK(v, w)
    BY DEF SIInv, GatheredOK, SendingOK
  <1>4. \A i \in 1 .. n + 1 : i \in DOMAIN w
    BY <1>2, LenProperties
  <1> HIDE DEF v, w, n, e
  <1>5. \A i \in 1 .. n + 1 : EventOK(v, w, i)
    BY <1>3, <1>4 DEF PlanOK
  <1>6. \A i, j \in 1 .. n + 1 : i # j => Apart(w, i, j)
    BY <1>3, <1>4 DEF PlanOK
  <1>7. EventOK(v, w, n + 1) /\ \A i \in 1 .. n : Apart(w, n + 1, i)
    BY <1>2, <1>5, <1>6
  <1>8. StreamSent = [i \in 1 .. n |-> StreamEvent(sent[i])]
    BY <1>2 DEF StreamSent
  <1>9. ASSUME NEW i \in 1 .. n
        PROVE  StreamSent[i].dir = IdOn(v, w[i].dir) /\ StreamSent[i].files = {IdOn(v, c.file) : c \in w[i].files}
    BY <1>2, <1>8 DEF StreamEvent, v
  <1>10. d \in FolderIds
    BY <1>2, <1>7 DEF EventOK
  <1>11. StreamDone = "none" /\ StreamDone' = StreamDone
    BY DEF StreamDone
  <1>12. Stream!Announced = {IdOn(v, w[i].dir) : i \in 1 .. n}
    BY <1>8, <1>9 DEF Stream!Announced
  <1>13. \A x \in Stream!Counted : \E i \in 1 .. n : x \in StreamSent[i].files
    BY <1>8 DEF Stream!Counted
  <1>14. d \notin Stream!Announced
    <2>1. \A i \in 1 .. n : e.dir # w[i].dir
      BY <1>2, <1>7 DEF Apart
    <2>2. \A i \in 1 .. n : d # IdOn(v, w[i].dir)
      BY <1>3, <2>1, IdsDiffer
    <2>3. QED BY <1>12, <2>2
  <1>15. IF d = RootId THEN q = NoId ELSE q \in Stream!Announced /\ d \in NamedIn[q]
    <2>1. CASE n = 0
      <3>1. e.dir = Volumes[v].root /\ e.parent = <<>>
        BY <1>2, <1>7, <2>1 DEF EventOK
      <3>2. d = RootId
        BY <1>3, <3>1, IdsDiffer
      <3>3. QED BY <3>1, <3>2
    <2>2. CASE n # 0
      <3>1. PICK j \in 1 .. (n + 1) - 1 : e.parent = w[j].dir
        BY <1>2, <1>7, <2>2 DEF EventOK
      <3>2. j \in 1 .. n /\ 1 \in 1 .. n
        BY <1>2, <2>2
      <3>3. e.dir # Volumes[v].root
        <4>1. w[1].dir = Volumes[v].root
          BY <1>2, <1>5 DEF EventOK
        <4>2. e.dir # w[1].dir
          BY <1>2, <1>7, <3>2 DEF Apart
        <4>3. QED BY <4>1, <4>2
      <3>4. d # RootId
        BY <1>3, <3>3, IdsDiffer
      <3>5. w[j].dir \in FileRef /\ IdOn(v, w[j].dir) \in FolderIds
        BY <1>2, <1>5, <3>2 DEF EventOK
      <3>6. e.parent # <<>>
        BY <3>1, <3>5, NoReference
      <3>7. q = IdOn(v, w[j].dir)
        BY <3>1, <3>6
      <3>8. HasName(v, e.dir, w[j].dir)
        <4>1. HasName(v, e.dir, e.parent)
          BY <1>2, <1>7, <2>2 DEF EventOK
        <4>2. QED BY <3>1, <4>1
      <3>9. d \in NamedIn[q]
        BY <1>3, <3>5, <3>7, <3>8, NamedInIs
      <3>10. QED BY <1>12, <3>2, <3>4, <3>7, <3>9
    <2>3. QED BY <2>1, <2>2
  <1>16. q \in FolderIds \cup {NoId}
    <2>1. RootId \in FolderIds
      BY DEF FolderIds
    <2>2. CASE d = RootId
      BY <1>15, <2>2
    <2>3. CASE d # RootId
      <3>1. q \in {IdOn(v, w[i].dir) : i \in 1 .. n}
        BY <1>12, <1>15, <2>3
      <3>2. \A i \in 1 .. n : IdOn(v, w[i].dir) \in FolderIds
        BY <1>2, <1>5 DEF EventOK
      <3>3. QED BY <3>1, <3>2
    <2>4. QED BY <2>2, <2>3
  <1>17. F \subseteq NamedIn[d] \cap FileIds
    <2>1. ASSUME NEW c \in e.files PROVE IdOn(v, c.file) \in NamedIn[d] /\ IdOn(v, c.file) \in FileIds
      <3>1. IdOn(v, c.file) \in FileIds /\ HasName(v, c.file, e.dir)
        BY <1>2, <1>7 DEF EventOK
      <3>2. QED BY <1>3, <1>10, <3>1, NamedInIs
    <2>2. QED BY <2>1
  <1>18. F \cap Stream!Counted = {}
    <2>1. SUFFICES ASSUME NEW x, x \in F, x \in Stream!Counted PROVE FALSE
      OBVIOUS
    <2>2. PICK c \in e.files : x = IdOn(v, c.file)
      BY <2>1
    <2>3. PICK i \in 1 .. n : x \in {IdOn(v, b.file) : b \in w[i].files}
      BY <1>9, <1>13, <2>1
    <2>4. PICK b \in w[i].files : x = IdOn(v, b.file)
      BY <2>3
    <2>5. c.file = b.file
      BY <1>3, <2>2, <2>4, IdsDiffer
    <2>6. c.file # b.file
      BY <1>2, <1>7 DEF Apart
    <2>7. QED BY <2>5, <2>6
  <1>19. /\ StreamSent' = Append(StreamSent, [dir |-> d, parent |-> q, files |-> F])
         /\ Len(StreamSent') # Len(StreamSent)
    <2>1. e \in S /\ sent' = Append(sent, e)
      BY <1>1, HeadTailProperties DEF e
    <2>2. PICK s : s = sent'
      OBVIOUS
    <2>3. DOMAIN s = 1 .. n + 1 /\ \A i \in 1 .. n + 1 : s[i] = IF i = n + 1 THEN e ELSE sent[i]
      BY <1>1, <1>2, <2>1, <2>2 DEF n
    <2>4. StreamSent' = [i \in 1 .. n + 1 |-> StreamEvent(s[i])]
      BY <2>2, <2>3 DEF StreamSent, StreamEvent
    <2>5. StreamEvent(e) = [dir |-> d, parent |-> q, files |-> F]
      BY DEF StreamEvent, v
    <2> DEFINE E == {StreamEvent(s[i]) : i \in 1 .. n + 1}
    <2>6. StreamSent \in Seq(E)
      <3>1. \A i \in 1 .. n : StreamEvent(sent[i]) \in E
        BY <1>2, <2>3
      <3> HIDE DEF E
      <3>2. StreamSent \in [1 .. n -> E]
        BY <1>8, <3>1
      <3>3. QED BY <1>2, <3>2, SeqDef
    <2>7. StreamSent' \in Seq(E)
      <3>1. \A i \in 1 .. n + 1 : StreamEvent(s[i]) \in E
        OBVIOUS
      <3> HIDE DEF E
      <3>2. StreamSent' \in [1 .. n + 1 -> E] /\ n + 1 \in Nat
        BY <1>2, <2>4, <3>1
      <3>3. QED BY <3>2, SeqDef
    <2>8. StreamEvent(e) \in E
      BY <1>2, <2>3
    <2> HIDE DEF E
    <2>9. Len(StreamSent) = n /\ Len(StreamSent') = n + 1
      BY <1>2, <1>8, <2>4, <2>6, <2>7, LenProperties
    <2>10. PICK a, x : a = StreamSent' /\ x = Append(StreamSent, StreamEvent(e))
      OBVIOUS
    <2>11. a \in Seq(E) /\ x \in Seq(E) /\ Len(a) = n + 1 /\ Len(x) = n + 1
      BY <1>2, <2>6, <2>7, <2>8, <2>9, <2>10, AppendProperties
    <2>12. ASSUME NEW i \in 1 .. n + 1 PROVE a[i] = x[i]
      <3>1. a[i] = StreamEvent(s[i])
        BY <2>4, <2>10
      <3>2. CASE i = n + 1
        <4>1. x[i] = StreamEvent(e)
          BY <2>6, <2>8, <2>9, <2>10, <3>2, AppendProperties
        <4>2. QED BY <2>3, <3>1, <3>2, <4>1
      <3>3. CASE i # n + 1
        <4>1. i \in 1 .. n
          BY <1>2, <3>3
        <4>2. x[i] = StreamSent[i]
          BY <2>6, <2>8, <2>9, <2>10, <4>1, AppendProperties
        <4>3. QED BY <1>8, <2>3, <3>1, <3>3, <4>1, <4>2
      <3>4. QED BY <3>2, <3>3
    <2>13. a = x
      BY <2>11, <2>12, SeqEqual
    <2>14. QED BY <1>2, <2>5, <2>9, <2>10, <2>13
  <1>20. QED BY <1>10, <1>11, <1>14, <1>15, <1>16, <1>17, <1>18, <1>19 DEF Stream!StreamNext, Stream!Announce

-----------------------------------------------------------------------------
LEMMA ScanInitSIInv == ScanInit => SIInv
  <1> SUFFICES ASSUME ScanInit PROVE SIInv
    OBVIOUS
  <1>1. records \in TableOf(volume)
    <2>1. records \in [0 .. Room - 1 -> FileRecord \cup {NoFile}] /\ \A n \in 0 .. Room - 1 : records[n] = NoFile
      BY DEF ScanInit
    <2>2. QED BY <2>1 DEF TableOf
  <1>2. GatheredOK
    BY <1>1 DEF ScanInit, GatheredOK
  <1>3. sent \o plan = <<>> /\ sent \in Seq({}) /\ plan \in Seq({})
    BY DEF ScanInit
  <1>4. PlanOK(volume, sent \o plan)
    BY <1>3 DEF PlanOK
  <1>5. SendingOK
    BY <1>3, <1>4 DEF ScanInit, SendingOK
  <1>6. QED BY <1>2, <1>5 DEF SIInv

(* A step that leaves the table alone, and either what it says to the stream *)
(* too, or ends the scan.                                                   *)
LEMMA Elsewhere ==
    ASSUME SIInv, UNCHANGED tableVars,
           gather' # "sending" => gather # "sending",
           outcome' # "none" => outcome # "none" \/ plan = <<>>
    PROVE  SIInv'
  BY DEF SIInv, GatheredOK, SendingOK, tableVars

LEMMA BeginSendingSIInv ==
    ASSUME SIInv, BeginSending
    PROVE  SIInv' /\ sent' = sent
  <1>1. gather = "gathered" /\ outcome = "none" /\ outcome' \in {"none", "Cancelled"}
    BY DEF BeginSending, Decide, Ended
  <1>2. sent = <<>> /\ plan = <<>> /\ sent' = <<>> /\ sent' = sent
    BY <1>1 DEF BeginSending, SIInv, SendingOK
  <1>3. volume \in DOMAIN Volumes /\ volume' = volume
    BY DEF BeginSending, SIInv, GatheredOK
  <1>4. GatheredOK'
    BY DEF BeginSending, SIInv, GatheredOK
  <1>5. CASE plan' = <<>>
    <2>1. PlanOK(volume, <<>>) /\ <<>> \o <<>> = <<>>
      BY <1>2 DEF SIInv, SendingOK
    <2>2. SendingOK'
      BY <1>2, <1>3, <1>5, <2>1 DEF SendingOK
    <2>3. QED BY <1>2, <1>4, <2>2 DEF SIInv
  <1>6. CASE plan' # <<>>
    <2>1. gather' = "sending" /\ Folder(Completed, root)
      BY <1>6 DEF BeginSending
    <2>2. PICK t : t = Completed
      OBVIOUS
    <2>3. PICK o : o = Order(t, root[1])
      OBVIOUS
    <2>4. plan' = Events(t, o)
      BY <2>1, <2>2, <2>3 DEF BeginSending
    <2>5. t \in TableOf(volume)
      BY <2>2, CompletedIs DEF SIInv
    <2>6. PICK a \in Nat, b \in Nat : root = <<a, b>>
      BY <1>3, VolumesAssumption DEF root, FileRef
    <2>7. a \in 0 .. Room - 1 /\ t[a] # NoFile /\ t[a].seq = b /\ t[a].dir
      BY <2>1, <2>2, <2>6, VolumesAssumption DEF Folder, Holds
    <2>8. o \in OrderOf(t, a)
      BY <2>3, <2>5, <2>6, <2>7, OrderIs
    <2>9. Volumes[volume].root = <<a, t[a].seq>>
      BY <2>6, <2>7 DEF root
    <2>10. PICK p : p = plan'
      OBVIOUS
    <2>11. PlanOK(volume, p)
      BY <1>3, <2>4, <2>5, <2>7, <2>8, <2>9, <2>10, EventsIs
    <2>12. PICK S : p \in Seq(S)
      BY <2>11 DEF PlanOK
    <2>13. <<>> \in Seq(S) /\ <<>> \o p = p
      BY <2>12, ConcatEmptySeq
    <2>14. outcome' = "none"
      BY <1>1, <2>1 DEF BeginSending, Decide
    <2>15. SendingOK'
      BY <1>2, <1>3, <2>1, <2>10, <2>11, <2>12, <2>13, <2>14 DEF SendingOK
    <2>16. QED BY <1>2, <1>4, <2>15 DEF SIInv
  <1>7. QED BY <1>5, <1>6

LEMMA SendEventSIInv ==
    ASSUME SIInv, SendEvent
    PROVE  SIInv'
  <1>1. gather' = gather /\ outcome' = outcome /\ volume' = volume /\ gather = "sending"
        /\ records' = records /\ extensions' = extensions
        /\ sent' = Append(sent, Head(plan)) /\ plan' = Tail(plan) /\ plan # <<>>
    BY DEF SendEvent, vars
  <1>2. GatheredOK'
    BY <1>1 DEF SIInv, GatheredOK
  <1>3. PICK S : sent \in Seq(S) /\ plan \in Seq(S)
    BY DEF SIInv, SendingOK
  <1>4. sent' \in Seq(S) /\ plan' \in Seq(S) /\ sent' \o plan' = sent \o plan
    BY <1>1, <1>3, SendsNext
  <1>5. outcome = "none"
    BY <1>1 DEF SIInv, SendingOK
  <1>6. SendingOK'
    BY <1>1, <1>4, <1>5 DEF SIInv, SendingOK
  <1>7. QED BY <1>2, <1>6 DEF SIInv

(* What each other step does to the stream.                                 *)
LEMMA OtherSteps ==
    /\ GatherFails => gather' = "failed" /\ gather = "gathering" /\ outcome' = outcome
    /\ GatherEnds => gather' = "gathered" /\ gather = "gathering" /\ outcome' = outcome
    /\ Fail => gather' = gather /\ gather = "failed" /\ outcome = "none" /\ outcome' \in {"walk", "error"}
    /\ \A i : Gather(i) => gather' = gather /\ gather = "gathering" /\ outcome' = outcome
    /\ \A r : ReaderStep(r) => gather' = gather /\ outcome' = outcome
    /\ SetCancel => gather' = gather /\ outcome' = outcome
    /\ Conclude => /\ gather' = gather /\ gather = "sending" /\ outcome = "none"
                   /\ outcome' \in {"Complete", "Incomplete", "walk", "error"}
  <1>1. \A r : ReaderStep(r) => gather' = gather /\ outcome' = outcome
    BY DEF ReaderStep, Open, Fails, Take, ReadWhole, ReadTorn, Send, gatherVars
  <1>2. Abandoned \in {"walk", "error"}
    BY DEF Abandoned
  <1>3. QED BY <1>1, <1>2 DEF GatherFails, GatherEnds, Fail, Gather, SetCancel, Conclude, Ended, gatherVars

Streams == Stream!StreamNext \/ UNCHANGED <<StreamSent, StreamDone>>

(* A scan that walks instead, or fails, says nothing to the stream.         *)
LEMMA StreamStays ==
    ASSUME sent' = sent, volume' = volume, outcome' = outcome \/ (outcome = "none" /\ outcome' \in {"walk", "error"})
    PROVE  Streams
  <1>1. StreamSent' = StreamSent
    BY DEF StreamSent, StreamEvent
  <1>2. StreamDone' = StreamDone
    BY DEF StreamDone
  <1>3. QED BY <1>1, <1>2 DEF Streams

LEMMA StreamFinishes ==
    ASSUME sent' = sent, volume' = volume, outcome = "none",
           outcome' \in {"Complete", "Incomplete", "Cancelled"},
           outcome' # "Cancelled" => RootId \in Stream!Announced
    PROVE  Streams
  <1>1. StreamSent' = StreamSent
    BY DEF StreamSent, StreamEvent
  <1>2. StreamDone = "none" /\ StreamDone' = outcome'
    BY DEF StreamDone
  <1>3. PICK done : done = outcome'
    OBVIOUS
  <1>4. done \in Stream!Outcomes
    BY <1>3 DEF Stream!Outcomes
  <1>5. Stream!Finish(done)
    BY <1>1, <1>2, <1>3 DEF Stream!Finish
  <1>6. QED BY <1>4, <1>5 DEF Streams, Stream!StreamNext

LEMMA RootAnnounced ==
    ASSUME SIInv, sent # <<>>
    PROVE  RootId \in Stream!Announced
  <1>1. PICK S : sent \in Seq(S) /\ plan \in Seq(S)
    BY DEF SIInv, SendingOK
  <1>2. PICK w : w = sent \o plan
    OBVIOUS
  <1>3. w \in Seq(S) /\ 1 \in DOMAIN w /\ 1 \in DOMAIN sent /\ w[1] = sent[1]
    <2>1. Len(sent) \in Nat /\ Len(sent) >= 1 /\ Len(plan) \in Nat
      BY <1>1
    <2>2. w \in Seq(S) /\ Len(w) = Len(sent) + Len(plan)
          /\ \A i \in 1 .. Len(sent) + Len(plan) : w[i] = IF i <= Len(sent) THEN sent[i] ELSE plan[i - Len(sent)]
      BY <1>1, <1>2, ConcatProperties
    <2>3. 1 \in 1 .. Len(sent) /\ 1 \in 1 .. Len(w)
      BY <2>1, <2>2
    <2>4. QED BY <1>1, <2>1, <2>2, <2>3, LenProperties
  <1>4. EventOK(volume, w, 1) /\ volume \in DOMAIN Volumes
    BY <1>2, <1>3 DEF SIInv, GatheredOK, SendingOK, PlanOK
  <1>5. sent[1].dir = Volumes[volume].root
    BY <1>3, <1>4 DEF EventOK
  <1>6. StreamSent[1].dir = IdOn(volume, sent[1].dir) /\ 1 \in DOMAIN StreamSent
    BY <1>3 DEF StreamSent, StreamEvent
  <1>7. IdOn(volume, sent[1].dir) = RootId
    BY <1>4, <1>5, IdsDiffer
  <1>8. QED BY <1>6, <1>7 DEF Stream!Announced

(* Every step keeps the invariant and is one of the stream's, or none.      *)
LEMMA ScanNextSIInv ==
    ASSUME SIInv, [ScanNext]_scanVars
    PROVE  SIInv' /\ Streams
  <1>1. CASE (GatherFails \/ GatherEnds \/ Fail) /\ UNCHANGED tableVars
    <2>1. SIInv'
      <3>1. gather' # "sending" => gather # "sending"
        BY <1>1, OtherSteps
      <3>2. outcome' # "none" => outcome # "none" \/ plan = <<>>
        BY <1>1, OtherSteps DEF SIInv, SendingOK
      <3>3. QED BY <1>1, <3>1, <3>2, Elsewhere
    <2>2. Streams
      <3>1. outcome' = outcome \/ (outcome = "none" /\ outcome' \in {"walk", "error"})
        BY <1>1, OtherSteps
      <3>2. QED BY <1>1, <3>1, StreamStays DEF tableVars
    <2>3. QED BY <2>1, <2>2
  <1>2. ASSUME NEW i \in Read, Insert(i) PROVE SIInv' /\ Streams
    <2>1. gather' = gather /\ outcome' = outcome /\ volume' = volume /\ plan' = plan /\ sent' = sent
      BY <1>2, OtherSteps DEF Insert
    <2>2. GatheredOK'
      BY <1>2, InsertGathers DEF SIInv
    <2>3. SendingOK'
      BY <2>1 DEF SIInv, SendingOK
    <2>4. QED BY <2>1, <2>2, <2>3, StreamStays DEF SIInv
  <1>3. CASE BeginSending
    <2>1. SIInv' /\ sent' = sent /\ volume' = volume
      BY <1>3, BeginSendingSIInv DEF BeginSending
    <2>2. outcome = "none" /\ outcome' \in {"none", "Cancelled"}
      BY <1>3 DEF BeginSending, Decide, Ended
    <2>3. QED BY <2>1, <2>2, StreamStays, StreamFinishes
  <1>4. CASE SendEvent
    <2>1. outcome' = outcome /\ volume' = volume /\ sent' = Append(sent, Head(plan)) /\ plan # <<>>
      BY <1>4 DEF SendEvent, vars
    <2>2. outcome = "none"
      BY <2>1 DEF SIInv, SendingOK
    <2>3. QED BY <1>4, <2>1, <2>2, SendEventSIInv, EventAnnounced DEF Streams
  <1>5. CASE EndScan
    <2>1. UNCHANGED tableVars /\ plan = <<>> /\ (outcome' \in {"walk", "error"}) = (sent = <<>>)
          /\ gather' = gather /\ outcome = "none"
          /\ outcome' \in {"Complete", "Incomplete", "walk", "error"}
      BY <1>5, OtherSteps DEF EndScan
    <2>2. SIInv'
      BY <2>1, Elsewhere
    <2>3. sent' = sent /\ volume' = volume
      BY <2>1 DEF tableVars
    <2>4. CASE outcome' \in {"walk", "error"}
      BY <2>1, <2>2, <2>3, <2>4, StreamStays
    <2>5. CASE outcome' \notin {"walk", "error"}
      <3>1. sent # <<>>
        BY <2>1, <2>5
      <3>2. QED BY <2>1, <2>2, <2>3, <2>5, <3>1, RootAnnounced, StreamFinishes
    <2>6. QED BY <2>4, <2>5
  <1>6. ASSUME NEW r \in Reader, ReaderRuns(r) PROVE SIInv' /\ Streams
    <2>1. UNCHANGED tableVars /\ gather' = gather /\ outcome' = outcome
      BY <1>6, OtherSteps DEF ReaderRuns
    <2>2. QED BY <2>1, Elsewhere, StreamStays DEF tableVars
  <1>7. CASE SetCancel /\ UNCHANGED tableVars
    <2>1. gather' = gather /\ outcome' = outcome
      BY <1>7, OtherSteps
    <2>2. QED BY <1>7, <2>1, Elsewhere, StreamStays DEF tableVars
  <1>8. CASE UNCHANGED scanVars
    <2>1. UNCHANGED tableVars /\ gather' = gather /\ outcome' = outcome
      BY <1>8 DEF scanVars, vars
    <2>2. QED BY <2>1, Elsewhere, StreamStays DEF tableVars
  <1>9. QED BY <1>1, <1>2, <1>3, <1>4, <1>5, <1>6, <1>7, <1>8 DEF ScanNext, GatherRuns

(* A scan from the MFT sends what every scan promises: a folder once, after *)
(* the one that holds it, a file in one folder that names it, ScanDone last *)
(* (ntfs.rs, complete_records and send_scan).  So for any volume, whatever  *)
(* of it changes while it is read, and in whatever order the reads come in. *)
THEOREM MftScanStreamIsSafe == ScanSpec => MftStreamIsSafe
  <1>1. ScanInit => Stream!StreamInit
    BY DEF ScanInit, Init, Stream!StreamInit, StreamSent, StreamDone
  <1>2. SIInv /\ [ScanNext]_scanVars => SIInv'
    BY ScanNextSIInv
  <1>3. SIInv /\ [ScanNext]_scanVars => [Stream!StreamNext]_(Stream!streamVars)
    BY ScanNextSIInv DEF Streams, Stream!streamVars
  <1>4. QED BY <1>1, <1>2, <1>3, ScanInitSIInv, PTL DEF ScanSpec, MftStreamIsSafe, Stream!StreamSafety

-----------------------------------------------------------------------------
(* What is made of the records gets in nobody's way: the readers and the    *)
(* thread that gathers run as module Mft says.                              *)
LEMMA ScanSteps == ScanNext => [Next]_vars
  <1>1. SendEvent => UNCHANGED vars
    BY DEF SendEvent
  <1>2. GatherRuns => GatherStep \/ UNCHANGED vars
    BY <1>1 DEF GatherRuns, GatherStep, Insert, BeginSending, EndScan
  <1>3. \A r \in Reader : ReaderRuns(r) => ReaderStep(r)
    BY DEF ReaderRuns
  <1>4. QED BY <1>2, <1>3 DEF ScanNext, Next

LEMMA ScanRuns == ScanSpec => Init /\ [][Next]_vars
  <1>1. ScanInit => Init
    BY DEF ScanInit
  <1>2. [ScanNext]_scanVars => [Next]_vars
    BY ScanSteps DEF scanVars
  <1>3. QED BY <1>1, <1>2, PTL DEF ScanSpec

LEMMA ScanIInv == ScanSpec => []IInv
  BY ScanRuns, InitIInv, NextIInv, PTL

(* The verdict of a scan that makes a tree of what it reads (Volume::scan). *)
THEOREM MftScanVerdictSound == ScanSpec => []VerdictSound
  <1>1. IInv => VerdictSound
    BY DEF IInv
  <1>2. QED BY <1>1, ScanIInv, PTL

(* "An error ends the gathering, which stops the readers", in that scan.    *)
THEOREM MftScanErrorStopsReaders == ScanSpec => []ErrorStopsReaders
  <1>1. Init => FewTaken
    BY DEF Init, FewTaken
  <1>2. IInv /\ FewTaken => ErrorStopsReaders
    BY CountsBound
  <1>3. QED BY <1>1, <1>2, ScanRuns, ScanIInv, NextCounts, PTL

-----------------------------------------------------------------------------
(* Every read is handed over once: those in hands, on their way and in the   *)
(* table are different ones, and all of them were taken off the counter.     *)
Holding(r) == reader[r].pc \in {"reading", "sending"}

HandsApart ==
    /\ \A r \in Reader : Holding(r) => /\ reader[r].read < next
                                       /\ reader[r].read \notin gathered
                                       /\ Records(reader[r].read) \notin chan
    /\ \A r, s \in Reader : Holding(r) /\ Holding(s) /\ r # s => reader[r].read # reader[s].read

HandedOnce ==
    /\ HandsApart
    /\ \A i \in Read : Records(i) \in chan => i < next /\ i \notin gathered
    /\ \A i \in gathered : i < next

LEMMA InitHandedOnce == Init => HandedOnce
  BY DEF Init, HandedOnce, HandsApart, Holding, InReader

(* Steps that hand nothing over.                                            *)
LEMMA NothingHanded ==
    ASSUME IInv, HandedOnce, next' = next, gathered' = gathered,
           \A i \in Read : Records(i) \in chan' => Records(i) \in chan,
           \A r \in Reader : Holding(r)' => Holding(r) /\ reader'[r].read = reader[r].read
    PROVE  HandedOnce'
  <1>1. \A r \in Reader : Holding(r) => reader[r].read \in Read
    BY DEF IInv, HandsOK, Holding
  <1>2. HandsApart'
    BY <1>1 DEF HandedOnce, HandsApart
  <1>3. QED BY <1>2 DEF HandedOnce

LEMMA ReaderHandsOnce ==
    ASSUME IInv, HandedOnce, NEW r \in Reader, ReaderStep(r)
    PROVE  HandedOnce'
  <1>1. reader \in [Reader -> [pc : Pcs, read : Nat, tries : 0 .. Attempts - 1]] /\ next \in Nat
    BY DEF IInv, ReadersOK, TableOK
  <1>2. \A i \in Read : Records(i) # Error
    BY MessagesDiffer
  <1>3. CASE Open(r)
    BY <1>1, <1>3, NothingHanded DEF Open, Goes, InReader, Holding, gatherVars
  <1>4. CASE Fails(r)
    <2>1. \A i \in Read : Records(i) \in chan' => Records(i) \in chan
      BY <1>2, <1>4 DEF Fails
    <2>2. QED BY <1>1, <1>4, <2>1, NothingHanded DEF Fails, Goes, InReader, Holding, gatherVars
  <1>5. CASE ReadWhole(r)
    BY <1>1, <1>5, NothingHanded DEF ReadWhole, Goes, InReader, Holding, gatherVars
  <1>6. CASE ReadTorn(r)
    <2>1. \A s \in Reader : Holding(s)' => Holding(s) /\ reader'[s].read = reader[s].read
      BY <1>1, <1>6 DEF ReadTorn, Goes, InReader, Holding
    <2>2. QED BY <1>6, <2>1, NothingHanded DEF ReadTorn, gatherVars
  <1>7. CASE Take(r)
    <2>1. next' = next + 1 /\ chan' = chan /\ gathered' = gathered
      BY <1>7 DEF Take, gatherVars
    <2>2. \A s \in Reader : s # r => reader'[s] = reader[s]
      BY <1>1, <1>7 DEF Take, Goes
    <2>3. reader'[r].pc = "exited" \/ (reader'[r].read = next /\ next \in Read)
      <3>1. CASE next >= Reads \/ cancel
        BY <1>1, <1>7, <3>1 DEF Take, Goes, InReader
      <3>2. CASE ~(next >= Reads \/ cancel)
        <4>1. next \in Read
          BY <1>1, <3>2, ReadersAssumption DEF Read
        <4>2. reader'[r] = InReader("reading", next, 0)
          BY <1>1, <1>7, <3>2 DEF Take
        <4>3. QED BY <4>1, <4>2 DEF InReader
      <3>3. QED BY <3>1, <3>2
    <2>4. \A s \in Reader : Holding(s) => reader[s].read \in Read
      BY DEF IInv, HandsOK, Holding
    <2>5. gathered \subseteq Read
      BY DEF IInv, TableOK
    <2>6. \A i \in Read : i < next => i < next'
      BY <1>1, <2>1 DEF Read
    <2>7. ASSUME NEW s \in Reader, Holding(s)'
          PROVE  /\ reader'[s].read < next' /\ reader'[s].read \notin gathered'
                 /\ Records(reader'[s].read) \notin chan'
      <3>1. CASE s = r
        <4>1. reader'[s].read = next /\ next \in Read
          BY <2>3, <2>7, <3>1 DEF Holding
        <4>2. next \notin gathered /\ Records(next) \notin chan
          BY <1>1, <4>1 DEF HandedOnce
        <4>3. QED BY <1>1, <2>1, <4>1, <4>2
      <3>2. CASE s # r
        BY <2>1, <2>2, <2>4, <2>6, <2>7, <3>2 DEF HandedOnce, HandsApart, Holding
      <3>3. QED BY <3>1, <3>2
    <2>8. ASSUME NEW s \in Reader, NEW u \in Reader, Holding(s)', Holding(u)', s # u
          PROVE  reader'[s].read # reader'[u].read
      <3>1. CASE s # r /\ u # r
        BY <2>2, <2>8, <3>1 DEF HandedOnce, HandsApart, Holding
      <3>2. CASE s = r
        <4>1. reader'[s].read = next /\ reader'[u].read < next
          BY <2>2, <2>3, <2>8, <3>2 DEF HandedOnce, HandsApart, Holding
        <4>2. QED BY <1>1, <4>1
      <3>3. CASE u = r
        <4>1. reader'[u].read = next /\ reader'[s].read < next
          BY <2>2, <2>3, <2>8, <3>3 DEF HandedOnce, HandsApart, Holding
        <4>2. QED BY <1>1, <4>1
      <3>4. QED BY <3>1, <3>2, <3>3
    <2>9. HandsApart'
      BY <2>7, <2>8 DEF HandsApart
    <2>10. QED BY <2>1, <2>5, <2>6, <2>9 DEF HandedOnce
  <1>8. CASE Send(r)
    <2>1. CASE gather = "failed"
      BY <1>1, <1>8, <2>1, NothingHanded DEF Send, Goes, InReader, Holding, gatherVars
    <2>2. CASE gather # "failed"
      <3>1. /\ next' = next /\ gathered' = gathered /\ chan' = chan \cup {Records(reader[r].read)}
            /\ Holding(r) /\ ~Holding(r)'
            /\ \A s \in Reader : s # r => reader'[s] = reader[s]
        BY <1>1, <1>8, <2>2 DEF Send, Goes, InReader, Holding, gatherVars
      <3>2. \A s \in Reader : Holding(s) => reader[s].read \in Read
        BY DEF IInv, HandsOK, Holding
      <3>3. \A i \in Read : Records(i) \in chan' => Records(i) \in chan \/ i = reader[r].read
        BY <3>1, <3>2, MessagesDiffer
      <3>4. HandsApart'
        <4>1. ASSUME NEW s \in Reader, Holding(s)'
              PROVE  /\ Holding(s) /\ s # r /\ reader'[s] = reader[s]
                     /\ Records(reader[s].read) \notin chan'
          <5>1. s # r /\ reader'[s] = reader[s] /\ Holding(s)
            BY <3>1, <4>1 DEF Holding
          <5>2. reader[s].read # reader[r].read /\ reader[s].read \in Read
            BY <3>1, <3>2, <5>1 DEF HandedOnce, HandsApart
          <5>3. QED BY <3>3, <5>1, <5>2 DEF HandedOnce, HandsApart
        <4>2. QED BY <3>1, <4>1 DEF HandedOnce, HandsApart
      <3>5. QED BY <3>1, <3>3, <3>4 DEF HandedOnce, HandsApart
    <2>3. QED BY <2>1, <2>2
  <1>9. QED BY <1>3, <1>4, <1>5, <1>6, <1>7, <1>8 DEF ReaderStep

LEMMA NextHandedOnce == IInv /\ HandedOnce /\ [Next]_vars => HandedOnce'
  <1> SUFFICES ASSUME IInv, HandedOnce, [Next]_vars PROVE HandedOnce'
    OBVIOUS
  <1>1. CASE GatherEnds \/ Fail \/ Decide \/ Conclude \/ SetCancel
    <2>1. UNCHANGED <<next, reader, gathered, chan>>
      BY <1>1 DEF GatherEnds, Fail, Decide, Conclude, SetCancel, gatherVars
    <2>2. QED BY <2>1, NothingHanded DEF Holding
  <1>2. CASE UNCHANGED vars
    BY <1>2, NothingHanded DEF Holding, vars
  <1>3. CASE GatherFails
    <2>1. UNCHANGED <<next, reader, gathered>> /\ chan' = {}
      BY <1>3 DEF GatherFails
    <2>2. QED BY <2>1, NothingHanded DEF Holding
  <1>4. ASSUME NEW i \in Read, Gather(i) PROVE HandedOnce'
    <2>1. /\ UNCHANGED <<next, reader>> /\ chan' = chan \ {Records(i)} /\ gathered' = gathered \cup {i}
          /\ Records(i) \in chan
      BY <1>4 DEF Gather
    <2>2. HandsApart'
      BY <2>1 DEF HandedOnce, HandsApart, Holding
    <2>3. QED BY <2>1, <2>2 DEF HandedOnce
  <1>5. ASSUME NEW r \in Reader, ReaderStep(r) PROVE HandedOnce'
    BY <1>5, ReaderHandsOnce
  <1>6. QED BY <1>1, <1>2, <1>3, <1>4, <1>5 DEF Next, GatherStep

-----------------------------------------------------------------------------
(* What is gathered is what was read: an entry for each base record, and an  *)
(* extension for each other one.                                            *)
Found(n) == Record(n, got[n])
Extends(n) == n \in Numbers /\ n < Room /\ Found(n).kind = "extension"
Extension(n) == [number |-> n, base |-> Found(n).base, file |-> Found(n).file]

GotOK ==
    /\ got \in [Numbers -> {"unread", "was", "is", "torn"}]
    /\ \A i \in Read : i \notin gathered => \A n \in Covers(i) : got[n] = "unread"

TableIs ==
    /\ \A n \in 0 .. Room - 1 :
         records[n] = IF n \in Numbers /\ Found(n).kind = "base" THEN Found(n).file ELSE NoFile
    /\ \A e : e \in Range(extensions) <=> \E n : Extends(n) /\ e = Extension(n)

LEMMA CoversApart ==
    ASSUME NEW i \in Read, NEW j \in Read, i # j
    PROVE  Covers(i) \cap Covers(j) = {}
  <1>1. \A a, b \in Read : a < b => Covers(a) \cap Covers(b) = {}
    <2>1. SUFFICES ASSUME NEW a \in Read, NEW b \in Read, a < b PROVE Covers(a) \cap Covers(b) = {}
      OBVIOUS
    <2>2. a \in Nat /\ b \in Nat /\ PerRead \in Nat
      BY VolumesAssumption DEF Read
    <2>3. PICK k \in Nat : b = (a + 1) + k
      <3>1. b - (a + 1) \in Nat /\ b = (a + 1) + (b - (a + 1))
        BY <2>1, <2>2
      <3>2. QED BY <3>1
    <2> DEFINE x == a * PerRead
               y == (a + 1) * PerRead
               z == b * PerRead
               w == (b + 1) * PerRead
    <2>4. z = y + k * PerRead /\ k * PerRead \in Nat
      BY <2>2, <2>3
    <2>5. Covers(a) = x .. y - 1 /\ Covers(b) = z .. w - 1
      BY DEF Covers
    <2>6. x \in Nat /\ y \in Nat /\ z \in Nat /\ w \in Nat
      BY <2>2
    <2> HIDE DEF x, y, z, w
    <2>7. y <= z
      BY <2>4, <2>6
    <2>8. QED BY <2>5, <2>6, <2>7
  <1>2. i < j \/ j < i
    BY DEF Read
  <1>3. QED BY <1>1, <1>2

(* The extension records of a read, each once.                              *)
LEMMA NewExtensionsAre ==
    ASSUME NEW i \in Read, NEW found \in [Covers(i) -> {"unread", "was", "is", "torn"}]
    PROVE  \A e : e \in Range(NewExtensions(found)) <=>
             \E n \in Covers(i) : /\ n < Room /\ Record(n, found[n]).kind \notin {"nothing", "base"}
                                  /\ e = [number |-> n, base |-> Record(n, found[n]).base,
                                          file |-> Record(n, found[n]).file]
  <1> DEFINE D == Inserted(found) \ Bases(found)
             numbers == Ascending(D)
             extension(n) == [number |-> n, base |-> Record(n, found[n]).base, file |-> Record(n, found[n]).file]
             C == Cardinality(D)
  <1>1. D = {n \in Covers(i) : n < Room /\ Record(n, found[n]).kind \notin {"nothing", "base"}}
    BY DEF Inserted, Bases
  <1>2. D \in SUBSET Nat /\ IsFiniteSet(D)
    <2>1. D \subseteq Covers(i)
      BY <1>1
    <2>2. QED BY <2>1, CoversNumbers, FS_Subset
  <1>3. C \in Nat /\ numbers \in [1 .. C -> D] /\ \A n \in D : \E k \in 1 .. C : numbers[k] = n
    <2> HIDE DEF D
    <2>1. QED BY <1>2, AscendingIs
  <1>4. NewExtensions(found) = [k \in DOMAIN numbers |-> extension(numbers[k])]
    BY DEF NewExtensions
  <1> HIDE DEF numbers, extension, C, D
  <1>5. DOMAIN numbers = 1 .. C /\ \A k \in 1 .. C : numbers[k] \in D
    BY <1>3
  <1>6. Range(NewExtensions(found)) = {extension(numbers[k]) : k \in 1 .. C}
    BY <1>4, <1>5 DEF Range
  <1>7. \A e : e \in Range(NewExtensions(found)) <=> \E n \in D : e = extension(n)
    BY <1>3, <1>5, <1>6
  <1>8. QED BY <1>1, <1>7 DEF extension

LEMMA RangeConcat ==
    ASSUME NEW S, NEW s \in Seq(S), NEW u \in Seq(S)
    PROVE  \A e : e \in Range(s \o u) <=> e \in Range(s) \/ e \in Range(u)
  <1>1. /\ Len(s) \in Nat /\ Len(u) \in Nat /\ DOMAIN s = 1 .. Len(s) /\ DOMAIN u = 1 .. Len(u)
        /\ s \o u \in Seq(S) /\ DOMAIN (s \o u) = 1 .. Len(s) + Len(u)
        /\ \A k \in 1 .. Len(s) + Len(u) : (s \o u)[k] = IF k <= Len(s) THEN s[k] ELSE u[k - Len(s)]
    BY ConcatProperties, LenProperties
  <1>2. PICK w : w = s \o u
    OBVIOUS
  <1>3. ASSUME NEW e, e \in Range(w) PROVE e \in Range(s) \/ e \in Range(u)
    <2>1. PICK k \in 1 .. Len(s) + Len(u) : e = w[k]
      BY <1>1, <1>2, <1>3 DEF Range
    <2>2. CASE k <= Len(s)
      <3>1. k \in DOMAIN s /\ e = s[k]
        BY <1>1, <1>2, <2>1, <2>2
      <3>2. QED BY <3>1 DEF Range
    <2>3. CASE ~(k <= Len(s))
      <3>1. k - Len(s) \in DOMAIN u /\ e = u[k - Len(s)]
        BY <1>1, <1>2, <2>1, <2>3
      <3>2. QED BY <3>1 DEF Range
    <2>4. QED BY <2>2, <2>3
  <1>4. ASSUME NEW e, e \in Range(s) PROVE e \in Range(w)
    <2>1. PICK k \in 1 .. Len(s) : e = s[k]
      BY <1>1, <1>4 DEF Range
    <2>2. k \in DOMAIN w /\ e = w[k]
      BY <1>1, <1>2, <2>1
    <2>3. QED BY <2>2 DEF Range
  <1>5. ASSUME NEW e, e \in Range(u) PROVE e \in Range(w)
    <2>1. PICK k \in 1 .. Len(u) : e = u[k]
      BY <1>1, <1>5 DEF Range
    <2>2. Len(s) + k \in 1 .. Len(s) + Len(u) /\ ~(Len(s) + k <= Len(s)) /\ (Len(s) + k) - Len(s) = k
      BY <1>1
    <2>3. Len(s) + k \in DOMAIN w /\ e = w[Len(s) + k]
      BY <1>1, <1>2, <2>1, <2>2
    <2>4. QED BY <2>3 DEF Range
  <1>6. QED BY <1>2, <1>3, <1>4, <1>5

LEMMA InsertTableIs ==
    ASSUME GatheredOK, GotOK, TableIs, HandedOnce, NEW i \in Read, Insert(i)
    PROVE  GotOK' /\ TableIs'
  <1>1. PICK found \in MayRead(i) :
             /\ got' = [n \in Numbers |-> IF n \in Covers(i) THEN found[n] ELSE got[n]]
             /\ records' = [n \in DOMAIN records |->
                              IF n \in Bases(found) THEN Record(n, found[n]).file ELSE records[n]]
             /\ extensions' = extensions \o NewExtensions(found)
    BY DEF Insert
  <1>2. found \in [Covers(i) -> {"unread", "was", "is", "torn"}]
    BY MayReadIs
  <1>3. volume' = volume /\ volume \in DOMAIN Volumes /\ gathered' = gathered \cup {i} /\ Records(i) \in chan
    BY DEF Insert, Gather, GatheredOK
  <1>4. i \notin gathered /\ \A n \in Covers(i) : got[n] = "unread" /\ Found(n).kind = "nothing"
    BY <1>3 DEF HandedOnce, GotOK, Found, Record, Nothing
  <1>5. \A n, how : Record(n, how)' = Record(n, how)
    BY <1>3 DEF Record
  <1>6. \A n \in Covers(i) : n \in Numbers /\ Found(n)' = Record(n, found[n])
    BY <1>1, <1>3, CoversNumbers DEF Found, Record
  <1>7. \A n \in Numbers : n \notin Covers(i) => Found(n)' = Found(n)
    BY <1>1, <1>3 DEF Found, Record
  <1>8. GotOK'
    <2>1. got' \in [Numbers -> {"unread", "was", "is", "torn"}]
      BY <1>1, <1>2 DEF GotOK
    <2>2. ASSUME NEW j \in Read, j \notin gathered', NEW n \in Covers(j) PROVE got'[n] = "unread"
      <3>1. j # i /\ j \notin gathered
        BY <1>3, <2>2
      <3>2. n \notin Covers(i) /\ n \in Numbers
        BY <3>1, CoversApart, CoversNumbers
      <3>3. QED BY <1>1, <3>1, <3>2 DEF GotOK
    <2>3. QED BY <2>1, <2>2 DEF GotOK
  <1>9. ASSUME NEW n \in 0 .. Room - 1
        PROVE  records'[n] = IF n \in Numbers /\ Found(n)'.kind = "base" THEN Found(n)'.file ELSE NoFile
    <2>1. DOMAIN records = 0 .. Room - 1
      BY DEF GatheredOK, TableOf
    <2>2. records'[n] = IF n \in Bases(found) THEN Record(n, found[n]).file ELSE records[n]
      BY <1>1, <2>1
    <2>3. records[n] = IF n \in Numbers /\ Found(n).kind = "base" THEN Found(n).file ELSE NoFile
      BY DEF TableIs
    <2>4. CASE n \in Covers(i)
      <3>1. n \in Bases(found) <=> Record(n, found[n]).kind = "base"
        <4>1. n < Room /\ n \in DOMAIN found
          BY <1>2, <2>4, VolumesAssumption
        <4>2. QED BY <4>1 DEF Bases, Inserted
      <3>2. records[n] = NoFile
        BY <1>4, <2>3, <2>4
      <3>3. QED BY <1>6, <2>2, <2>4, <3>1, <3>2
    <2>5. CASE n \notin Covers(i)
      <3>1. n \notin Bases(found)
        BY <1>2, <2>5 DEF Bases, Inserted
      <3>2. QED BY <1>7, <2>2, <2>3, <2>5, <3>1
    <2>6. QED BY <2>4, <2>5
  <1>10. \A e : e \in Range(extensions') <=> \E n : Extends(n)' /\ e = Extension(n)'
    <2>1. \A e : e \in Range(extensions') <=> e \in Range(extensions) \/ e \in Range(NewExtensions(found))
      <3>1. extensions \in Seq(ExtensionOf(volume)) /\ NewExtensions(found) \in Seq(ExtensionOf(volume))
        BY <1>2, <1>3, ExtensionsAre DEF GatheredOK
      <3>2. QED BY <1>1, <3>1, RangeConcat
    <2>2. \A n : n \notin Covers(i) => (Extends(n)' <=> Extends(n))
      BY <1>7 DEF Extends
    <2>3. \A n : n \notin Covers(i) /\ Extends(n) => Extension(n)' = Extension(n)
      BY <1>7 DEF Extends, Extension
    <2>4. \A n \in Covers(i) : ~Extends(n)
      BY <1>4 DEF Extends
    <2>5. \A n \in Covers(i) : Extends(n)' <=> n < Room /\ Record(n, found[n]).kind \notin {"nothing", "base"}
      <3>1. TAKE n \in Covers(i)
      <3>2. PICK r : r = Record(n, found[n])
        OBVIOUS
      <3>3. RecordOK(volume, n, r)
        <4>1. n \in Numbers /\ found[n] \in {"unread", "was", "is", "torn"}
          BY <1>2, CoversNumbers
        <4>2. QED BY <1>3, <3>2, <4>1, RecordIs
      <3>4. r.kind \in {"nothing", "base", "extension"}
        BY <3>3 DEF RecordOK
      <3>5. Extends(n)' <=> n < Room /\ r.kind = "extension"
        BY <1>6, <3>2 DEF Extends
      <3>6. QED BY <3>2, <3>4, <3>5
    <2>6. \A n \in Covers(i) : Extension(n)' = [number |-> n, base |-> Record(n, found[n]).base,
                                                file |-> Record(n, found[n]).file]
      BY <1>6 DEF Extension
    <2>7. \A e : e \in Range(extensions) <=> \E n : Extends(n) /\ e = Extension(n)
      BY DEF TableIs
    <2>8. \A e : e \in Range(NewExtensions(found)) <=> \E n \in Covers(i) : Extends(n)' /\ e = Extension(n)'
      <3>1. \A e : e \in Range(NewExtensions(found)) <=>
             \E n \in Covers(i) : /\ n < Room /\ Record(n, found[n]).kind \notin {"nothing", "base"}
                                  /\ e = [number |-> n, base |-> Record(n, found[n]).base,
                                          file |-> Record(n, found[n]).file]
        BY <1>2, NewExtensionsAre
      <3>2. QED BY <2>5, <2>6, <3>1
    <2>9. \A n : Extends(n) => n \notin Covers(i)
      BY <2>4
    <2>10. QED BY <2>1, <2>2, <2>3, <2>7, <2>8, <2>9
  <1>11. QED BY <1>8, <1>9, <1>10 DEF TableIs

-----------------------------------------------------------------------------
(* Folding: a file's names come in the order of the records they were in.    *)

(* The extension records, by number.                                        *)
InOrder(ns, C) ==
    /\ C \in Nat /\ ns \in [1 .. C -> Nat]
    /\ \A i, j \in 1 .. C : i < j => ns[i] < ns[j]
    /\ \A n : Extends(n) <=> \E k \in 1 .. C : ns[k] = n

LEMMA FoldOrderInOrder ==
    ASSUME GatheredOK, TableIs
    PROVE  \E ns, C : InOrder(ns, C) /\ FoldOrder(extensions) = [k \in 1 .. C |-> Extension(ns[k])]
  <1> DEFINE D == {e.number : e \in Range(extensions)}
             ns == Ascending(D)
             C == Cardinality(D)
             first(k) == CHOOSE e \in Range(extensions) : e.number = ns[k]
  <1>1. \A e : e \in Range(extensions) <=> \E n : Extends(n) /\ e = Extension(n)
    BY DEF TableIs
  <1>2. \A n : Extension(n).number = n
    BY DEF Extension
  <1>3. \A n : n \in D <=> Extends(n)
    BY <1>1, <1>2
  <1>4. D \in SUBSET Nat /\ D \subseteq 0 .. Room - 1
    BY <1>3, VolumesAssumption DEF Extends, Numbers
  <1>5. IsFiniteSet(D)
    <2>1. IsFiniteSet(0 .. Room - 1)
      <3>1. 0 \in Int /\ Room - 1 \in Int
        BY VolumesAssumption
      <3>2. QED BY <3>1, FS_Interval
    <2> HIDE DEF D
    <2>2. QED BY <1>4, <2>1, FS_Subset
  <1>6. /\ C \in Nat /\ ns \in [1 .. C -> D]
        /\ \A i, j \in 1 .. C : i < j => ns[i] < ns[j]
        /\ \A n \in D : \E k \in 1 .. C : ns[k] = n
    <2> HIDE DEF D
    <2>1. QED BY <1>4, <1>5, AscendingIs
  <1>7. FoldOrder(extensions) = [k \in DOMAIN ns |-> first(k)]
    BY DEF FoldOrder
  <1> HIDE DEF D, ns, C
  <1>8. ASSUME NEW k \in 1 .. C PROVE first(k) = Extension(ns[k])
    <2>1. PICK n : n = ns[k]
      OBVIOUS
    <2>2. Extends(n)
      BY <1>3, <1>6, <2>1
    <2>3. Extension(n) \in Range(extensions) /\ Extension(n).number = n
      BY <1>1, <1>2, <2>2
    <2>4. \A e \in Range(extensions) : e.number = n => e = Extension(n)
      BY <1>1, <1>2
    <2>5. (CHOOSE e \in Range(extensions) : e.number = n) = Extension(n)
      BY <2>3, <2>4
    <2>6. QED BY <2>1, <2>5
  <1> HIDE DEF first
  <1>9. DOMAIN ns = 1 .. C /\ ns \in [1 .. C -> Nat]
    BY <1>4, <1>6
  <1>10. FoldOrder(extensions) = [k \in 1 .. C |-> Extension(ns[k])]
    BY <1>7, <1>8, <1>9
  <1>11. InOrder(ns, C)
    BY <1>3, <1>6, <1>9 DEF InOrder
  <1>12. QED BY <1>10, <1>11

LEMMA FoldAdds ==
    ASSUME NEW v, NEW t \in TableOf(v), NEW e \in ExtensionOf(v), NEW n \in 0 .. Room - 1
    PROVE  /\ Fold(t, e)[n] = NoFile <=> t[n] = NoFile
           /\ t[n] # NoFile => /\ Fold(t, e)[n].seq = t[n].seq
                               /\ Fold(t, e)[n].names = IF e.base = <<n, t[n].seq>> THEN t[n].names \o e.file.names
                                                        ELSE t[n].names
  <1>1. /\ t \in [0 .. Room - 1 -> FileRecord \cup {NoFile}]
        /\ \A m \in 0 .. Room - 1 : t[m] = NoFile \/ t[m] \in FileRecord
    BY DEF TableOf, EntryOf
  <1>2. PICK m \in Nat, s \in Nat : e.base = <<m, s>>
    BY DEF ExtensionOf, FileRef
  <1>3. \A q \in FileRecord : q # NoFile
    BY DEF FileRecord, NoFile
  <1>4. CASE Holds(t, e.base)
    <2>1. m \in 0 .. Room - 1 /\ t[m] # NoFile /\ t[m].seq = s /\ t[m] \in FileRecord
      BY <1>1, <1>2, <1>4, VolumesAssumption DEF Holds
    <2>2. PICK q : q = [t[m] EXCEPT
            !.names = @ \o e.file.names,
            !.has_data = @ \/ e.file.has_data,
            !.size = IF e.file.has_data THEN e.file.size ELSE @,
            !.allocated = IF e.file.has_data THEN e.file.allocated ELSE @,
            !.tag = IF e.file.tag # "none" THEN e.file.tag ELSE @]
      OBVIOUS
    <2>3. q.names = t[m].names \o e.file.names /\ q.seq = s /\ q.kind = "file"
      BY <2>1, <2>2 DEF FileRecord
    <2>4. q # NoFile
      BY <2>3 DEF NoFile
    <2>5. Fold(t, e) = [t EXCEPT ![m] = q]
      <3>1. e.base[1] = m
        BY <1>2
      <3>2. QED BY <1>1, <1>4, <2>1, <2>2, <3>1 DEF Fold
    <2>6. PICK u : u = [t EXCEPT ![m] = q]
      OBVIOUS
    <2>7. u[n] = IF n = m THEN q ELSE t[n]
      BY <1>1, <2>6
    <2>8. t[n] # NoFile => (e.base = <<n, t[n].seq>> <=> n = m)
      BY <1>2, <2>1
    <2>9. QED BY <2>1, <2>3, <2>4, <2>5, <2>6, <2>7, <2>8
  <1>5. CASE ~Holds(t, e.base)
    <2>1. Fold(t, e) = t
      BY <1>5 DEF Fold
    <2>2. t[n] # NoFile => e.base # <<n, t[n].seq>>
      <3>1. ASSUME t[n] # NoFile, e.base = <<n, t[n].seq>> PROVE FALSE
        <4>1. e.base[1] = n /\ e.base[2] = t[n].seq /\ n < Room
          BY <3>1, VolumesAssumption
        <4>2. QED BY <1>5, <3>1, <4>1 DEF Holds
      <3>2. QED BY <3>1
    <2>3. QED BY <2>1, <2>2
  <1>6. QED BY <1>4, <1>5

-----------------------------------------------------------------------------
(* The places of the names found: those in record m, and those that come of *)
(* file n when the first k extension records are folded in.                 *)
PlacesIn(m) == {<<m, i>> : i \in DOMAIN Found(m).file.names}
PlacesUpTo(n, ref, ns, k) ==
    PlacesIn(n) \cup UNION {PlacesIn(ns[j]) : j \in {x \in 1 .. k : Found(ns[x]).base = ref}}

(* The names are those at the places, in record order.                      *)
Laid(n, names, P, pl) ==
    /\ pl \in [1 .. Len(names) -> P]
    /\ \A p \in P : \E x \in 1 .. Len(names) : pl[x] = p
    /\ \A x \in 1 .. Len(names) : NameAt(pl[x]) = names[x]
    /\ \A x, y \in 1 .. Len(names) : x < y => Earlier(n, pl[x], pl[y])

(* What is found is a record, and a base record has no base.                *)
LEMMA FoundIs ==
    ASSUME GatheredOK, GotOK, NEW n \in Numbers
    PROVE  RecordOK(volume, n, Found(n)) /\ (Found(n).kind = "base" => Found(n).base = <<>>)
  <1>1. got[n] \in {"unread", "was", "is", "torn"} /\ volume \in DOMAIN Volumes
    BY DEF GotOK, GatheredOK
  <1>2. RecordOK(volume, n, Record(n, got[n]))
    BY <1>1, RecordIs
  <1>3. CASE got[n] = "unread"
    BY <1>2, <1>3 DEF Found, Record, Nothing
  <1>4. CASE got[n] # "unread"
    <2>1. got[n] \in {"was", "is", "torn"}
      BY <1>1, <1>4
    <2>2. PICK raw : raw = Raws(volume, n)[got[n]]
      OBVIOUS
    <2>3. Found(n) = ParseRecord(raw)
      BY <1>1, <1>4, <2>1, <2>2 DEF Found, Record, ParsedRecords
    <2>4. ParseRecord(raw).kind = "base" => ParseRecord(raw).base = <<>>
      <3>1. CASE raw.torn \/ ~raw.in_use
        BY <3>1 DEF ParseRecord, Nothing
      <3>2. CASE ~(raw.torn \/ ~raw.in_use)
        <4>1. PICK q : q = ParseRecord(raw)
          OBVIOUS
        <4>2. q.kind = (IF raw.base = <<>> THEN "base" ELSE "extension") /\ q.base = raw.base
          BY <3>2, <4>1 DEF ParseRecord
        <4>3. QED BY <4>1, <4>2
      <3>3. QED BY <3>1, <3>2
    <2>5. QED BY <1>2, <2>3, <2>4 DEF Found
  <1>5. QED BY <1>3, <1>4

(* The file's own names.                                                    *)
LEMMA OwnLaid ==
    ASSUME GatheredOK, GotOK, TableIs, NEW n \in 0 .. Room - 1, records[n] # NoFile, NEW ns
    PROVE  \E pl : Laid(n, records[n].names, PlacesUpTo(n, <<n, records[n].seq>>, ns, 0), pl)
  <1>1. n \in Numbers /\ Found(n).kind = "base" /\ records[n] = Found(n).file
    BY DEF TableIs
  <1>2. PICK names : names = Found(n).file.names
    OBVIOUS
  <1>3. names \in Seq(FileRef) /\ Len(names) \in Nat /\ DOMAIN names = 1 .. Len(names)
    <2>1. Found(n).file \in FileRecord
      BY <1>1, FoundIs DEF RecordOK, EntryOf
    <2>2. names \in Seq(FileRef)
      BY <1>2, <2>1 DEF FileRecord
    <2>3. QED BY <2>2, LenProperties
  <1>4. PICK P : P = PlacesIn(n)
    OBVIOUS
  <1>5. P = {<<n, i>> : i \in 1 .. Len(names)}
    BY <1>2, <1>3, <1>4 DEF PlacesIn
  <1>6. PlacesUpTo(n, <<n, records[n].seq>>, ns, 0) = P
    BY <1>4 DEF PlacesUpTo
  <1>7. PICK pl : pl = [x \in 1 .. Len(names) |-> <<n, x>>]
    OBVIOUS
  <1>8. pl \in [1 .. Len(names) -> P] /\ \A p \in P : \E x \in 1 .. Len(names) : pl[x] = p
    BY <1>5, <1>7
  <1>9. \A x \in 1 .. Len(names) : pl[x][1] = n /\ pl[x][2] = x
    BY <1>7
  <1>10. \A x \in 1 .. Len(names) : NameAt(pl[x]) = names[x]
    BY <1>2, <1>9 DEF NameAt, Found
  <1>11. \A x, y \in 1 .. Len(names) : x < y => Earlier(n, pl[x], pl[y])
    BY <1>9 DEF Earlier
  <1>12. Laid(n, names, P, pl)
    BY <1>8, <1>10, <1>11 DEF Laid
  <1>13. QED BY <1>1, <1>2, <1>6, <1>12

(* The names of an extension record are laid after those of the file's      *)
(* earlier records.                                                         *)
LEMMA ExtensionLaid ==
    ASSUME NEW n \in Nat, NEW m \in Nat, m # n, NEW names \in Seq(FileRef), NEW more \in Seq(FileRef),
           more = Found(m).file.names, NEW P, NEW pl, Laid(n, names, P, pl),
           \A p \in P : p[1] = n \/ (p[1] \in Nat /\ p[1] < m)
    PROVE  \E u : Laid(n, names \o more, P \cup PlacesIn(m), u)
  <1>1. /\ Len(names) \in Nat /\ Len(more) \in Nat /\ DOMAIN more = 1 .. Len(more)
    BY LenProperties
  <1>2. PICK all : all = names \o more
    OBVIOUS
  <1>3. /\ Len(all) = Len(names) + Len(more)
        /\ \A x \in 1 .. Len(all) : all[x] = IF x <= Len(names) THEN names[x] ELSE more[x - Len(names)]
    BY <1>1, <1>2, ConcatProperties
  <1>4. PICK a \in Nat, b \in Nat : a = Len(names) /\ b = Len(more)
    BY <1>1
  <1>5. PICK Q : Q = PlacesIn(m)
    OBVIOUS
  <1>6. Q = {<<m, i>> : i \in 1 .. b}
    BY <1>1, <1>4, <1>5 DEF PlacesIn
  <1>7. PICK u : u = [x \in 1 .. a + b |-> IF x <= a THEN pl[x] ELSE <<m, x - a>>]
    OBVIOUS
  <1>8. /\ pl \in [1 .. a -> P]
        /\ \A p \in P : \E x \in 1 .. a : pl[x] = p
        /\ \A x \in 1 .. a : NameAt(pl[x]) = names[x]
        /\ \A x, y \in 1 .. a : x < y => Earlier(n, pl[x], pl[y])
    BY <1>4 DEF Laid
  <1>9. \A x \in 1 .. a : x \in 1 .. a + b /\ u[x] = pl[x] /\ pl[x] \in P
    BY <1>7, <1>8
  <1>10. \A x \in 1 .. a + b : x \notin 1 .. a => x - a \in 1 .. b /\ u[x] = <<m, x - a>>
    BY <1>7
  <1>11. u \in [1 .. a + b -> P \cup Q]
    <2>1. \A x \in 1 .. a + b : u[x] \in P \cup Q
      BY <1>6, <1>9, <1>10
    <2>2. QED BY <1>7, <2>1
  <1>12. ASSUME NEW p \in P \cup Q PROVE \E x \in 1 .. a + b : u[x] = p
    <2>1. CASE p \in P
      <3>1. PICK x \in 1 .. a : pl[x] = p
        BY <1>8, <2>1
      <3>2. QED BY <1>9, <3>1
    <2>2. CASE p \in Q
      <3>1. PICK i \in 1 .. b : p = <<m, i>>
        BY <1>6, <2>2
      <3>2. a + i \in 1 .. a + b /\ a + i \notin 1 .. a /\ (a + i) - a = i
        OBVIOUS
      <3>3. u[a + i] = p
        BY <1>10, <3>1, <3>2
      <3>4. QED BY <3>2, <3>3
    <2>3. QED BY <2>1, <2>2
  <1>13. ASSUME NEW x \in 1 .. a + b PROVE NameAt(u[x]) = all[x]
    <2>1. CASE x \in 1 .. a
      BY <1>3, <1>4, <1>8, <1>9, <2>1
    <2>2. CASE x \notin 1 .. a
      <3>1. u[x] = <<m, x - a>> /\ x - a \in 1 .. b
        BY <1>10, <2>2
      <3>2. NameAt(u[x]) = more[x - a]
        BY <3>1 DEF NameAt, Found
      <3>3. all[x] = more[x - a]
        BY <1>3, <1>4, <2>2
      <3>4. QED BY <3>2, <3>3
    <2>3. QED BY <2>1, <2>2
  <1>14. ASSUME NEW x \in 1 .. a + b, NEW y \in 1 .. a + b, x < y PROVE Earlier(n, u[x], u[y])
    <2>1. CASE y \in 1 .. a
      <3>1. x \in 1 .. a
        BY <1>14, <2>1
      <3>2. QED BY <1>8, <1>9, <1>14, <2>1, <3>1
    <2>2. CASE y \notin 1 .. a /\ x \in 1 .. a
      <3>1. u[y][1] = m
        BY <1>10, <2>2
      <3>2. u[x] \in P
        BY <1>9, <2>2
      <3>3. u[x][1] = n \/ (u[x][1] \in Nat /\ u[x][1] < m)
        BY <3>2
      <3>4. QED BY <3>1, <3>3 DEF Earlier
    <2>3. CASE y \notin 1 .. a /\ x \notin 1 .. a
      <3>1. u[x][1] = m /\ u[y][1] = m /\ u[x][2] = x - a /\ u[y][2] = y - a
        BY <1>10, <2>3
      <3>2. x - a < y - a
        BY <1>14
      <3>3. QED BY <3>1, <3>2 DEF Earlier
    <2>4. QED BY <2>1, <2>2, <2>3
  <1>15. Laid(n, all, P \cup Q, u)
    BY <1>3, <1>4, <1>11, <1>12, <1>13, <1>14 DEF Laid
  <1>16. QED BY <1>2, <1>5, <1>15

(* The file in the table once k extension records are folded in.            *)
FoldedTo(n, ns, h, k) ==
    /\ h[k][n] # NoFile /\ h[k][n].seq = records[n].seq
    /\ \E pl : Laid(n, h[k][n].names, PlacesUpTo(n, <<n, records[n].seq>>, ns, k), pl)

LEMMA ExtensionsInTable ==
    ASSUME GatheredOK, GotOK, NEW ns, NEW C, InOrder(ns, C), NEW k \in 1 .. C
    PROVE  /\ Extends(ns[k]) /\ ns[k] \in Numbers /\ ns[k] \in Nat
           /\ Extension(ns[k]) \in ExtensionOf(volume)
           /\ Found(ns[k]).file.names \in Seq(FileRef)
  <1>1. PICK m : m = ns[k]
    OBVIOUS
  <1>2. Extends(m) /\ m \in Nat /\ m \in Numbers /\ Found(m).kind = "extension"
    BY <1>1 DEF InOrder, Extends
  <1>3. RecordOK(volume, m, Found(m))
    BY <1>2, FoundIs
  <1>4. /\ Found(m).base \in FileRef /\ Found(m).file \in FileRecord
        /\ \A j \in DOMAIN Found(m).file.names : HasName(volume, Found(m).base, Found(m).file.names[j])
    BY <1>2, <1>3 DEF RecordOK
  <1>5. PICK e : e = Extension(m)
    OBVIOUS
  <1>6. e.number = m /\ e.base = Found(m).base /\ e.file = Found(m).file
        /\ e \in [number : Nat, base : FileRef, file : FileRecord]
    BY <1>2, <1>4, <1>5 DEF Extension
  <1>7. e \in ExtensionOf(volume)
    BY <1>4, <1>6 DEF ExtensionOf
  <1>8. Found(m).file.names \in Seq(FileRef)
    BY <1>4 DEF FileRecord
  <1>9. QED BY <1>1, <1>2, <1>5, <1>7, <1>8

LEMMA InPlaces ==
    ASSUME NEW n, NEW ref, NEW ns, NEW k
    PROVE  \A p : p \in PlacesUpTo(n, ref, ns, k) <=>
             p \in PlacesIn(n) \/ \E x \in 1 .. k : Found(ns[x]).base = ref /\ p \in PlacesIn(ns[x])
  BY DEF PlacesUpTo

LEMMA FoldStepLaid ==
    ASSUME GatheredOK, GotOK, TableIs, NEW n \in 0 .. Room - 1, records[n] # NoFile,
           NEW ns, NEW C, InOrder(ns, C), NEW k \in 1 .. C, NEW h,
           h[k - 1] \in TableOf(volume), h[k] = Fold(h[k - 1], Extension(ns[k])),
           FoldedTo(n, ns, h, k - 1)
    PROVE  FoldedTo(n, ns, h, k)
  <1>0. C \in Nat /\ k \in Nat /\ k - 1 \in Nat
    BY DEF InOrder
  <1>1. PICK m : m = ns[k]
    OBVIOUS
  <1>2. PICK e : e = Extension(m)
    OBVIOUS
  <1>3. /\ m \in Nat /\ m \in Numbers /\ Found(m).kind = "extension"
        /\ e \in ExtensionOf(volume) /\ Found(m).file.names \in Seq(FileRef)
    BY <1>1, <1>2, ExtensionsInTable DEF Extends
  <1>4. e.base = Found(m).base /\ e.file = Found(m).file
    BY <1>2 DEF Extension
  <1>5. PICK t : t = h[k - 1]
    OBVIOUS
  <1>6. t \in TableOf(volume) /\ h[k] = Fold(t, e)
    BY <1>1, <1>2, <1>5
  <1>7. PICK ref : ref = <<n, records[n].seq>>
    OBVIOUS
  <1>8. PICK P : P = PlacesUpTo(n, ref, ns, k - 1)
    OBVIOUS
  <1>9. t[n] # NoFile /\ t[n].seq = records[n].seq
    BY <1>5 DEF FoldedTo
  <1>10. PICK pl : Laid(n, t[n].names, P, pl)
    BY <1>5, <1>7, <1>8 DEF FoldedTo
  <1>11. /\ h[k][n] # NoFile /\ h[k][n].seq = records[n].seq
         /\ h[k][n].names = IF e.base = ref THEN t[n].names \o e.file.names ELSE t[n].names
    <2>1. PICK w : w = Fold(t, e)
      OBVIOUS
    <2>2. /\ w[n] = NoFile <=> t[n] = NoFile
          /\ t[n] # NoFile => /\ w[n].seq = t[n].seq
                              /\ w[n].names = IF e.base = <<n, t[n].seq>> THEN t[n].names \o e.file.names
                                              ELSE t[n].names
      BY <1>3, <1>6, <2>1, FoldAdds
    <2>3. QED BY <1>6, <1>7, <1>9, <2>1, <2>2
  <1>12. CASE e.base = ref
    <2>1. PlacesUpTo(n, ref, ns, k) = P \cup PlacesIn(m)
      <3>1. \A p : p \in PlacesUpTo(n, ref, ns, k) <=> p \in P \/ p \in PlacesIn(m)
        <4>1. \A x \in 1 .. k : x \in 1 .. k - 1 \/ x = k
          BY <1>0
        <4>2. \A x \in 1 .. k - 1 : x \in 1 .. k
          BY <1>0
        <4>3. k \in 1 .. k /\ Found(ns[k]).base = ref /\ PlacesIn(ns[k]) = PlacesIn(m)
          BY <1>0, <1>1, <1>4, <1>12
        <4>4. QED BY <1>8, <4>1, <4>2, <4>3, InPlaces
      <3>2. QED BY <3>1
    <2>2. m # n
      BY <1>3 DEF TableIs
    <2>3. \A p \in P : p[1] = n \/ (p[1] \in Nat /\ p[1] < m)
      <3>1. \A p \in P : p[1] = n \/ \E j \in 1 .. k - 1 : p[1] = ns[j]
        BY <1>8 DEF PlacesUpTo, PlacesIn
      <3>2. \A j \in 1 .. k - 1 : ns[j] \in Nat /\ ns[j] < m
        BY <1>0, <1>1 DEF InOrder
      <3>3. QED BY <3>1, <3>2
    <2>4. t[n].names \in Seq(FileRef)
      BY <1>6, <1>9 DEF TableOf, EntryOf, FileRecord
    <2>5. n \in Nat
      BY VolumesAssumption
    <2>6. PICK names, more : names = t[n].names /\ more = Found(m).file.names
      OBVIOUS
    <2>7. \E u : Laid(n, names \o more, P \cup PlacesIn(m), u)
      BY <1>3, <1>10, <2>2, <2>3, <2>4, <2>5, <2>6, ExtensionLaid
    <2>8. h[k][n].names = names \o more
      BY <1>4, <1>11, <1>12, <2>6
    <2>9. QED BY <1>7, <1>11, <2>1, <2>7, <2>8 DEF FoldedTo
  <1>13. CASE e.base # ref
    <2>1. {x \in 1 .. k : Found(ns[x]).base = ref} = {x \in 1 .. k - 1 : Found(ns[x]).base = ref}
      BY <1>0, <1>1, <1>4, <1>13
    <2>2. PlacesUpTo(n, ref, ns, k) = P
      BY <1>8, <2>1 DEF PlacesUpTo
    <2>3. h[k][n].names = t[n].names
      BY <1>11, <1>13
    <2>4. QED BY <1>7, <1>10, <1>11, <2>2, <2>3 DEF FoldedTo
  <1>14. QED BY <1>12, <1>13

(* All the places are those of the names read.                              *)
LEMMA AllPlaces ==
    ASSUME GatheredOK, GotOK, TableIs, NEW n \in 0 .. Room - 1, records[n] # NoFile,
           NEW ns, NEW C, InOrder(ns, C)
    PROVE  PlacesUpTo(n, <<n, records[n].seq>>, ns, C) = NamesRead(n, <<n, records[n].seq>>)
  <1>1. PICK ref : ref = <<n, records[n].seq>>
    OBVIOUS
  <1>2. n \in Numbers /\ Found(n).kind = "base"
    BY DEF TableIs
  <1>3. PICK K : K = {k \in Numbers : k < Room /\ Found(k).kind # "nothing" /\ (k = n \/ Found(k).base = ref)}
    OBVIOUS
  <1>4. NamesRead(n, ref) = UNION {PlacesIn(m) : m \in K}
    BY <1>3 DEF NamesRead, PlacesIn, Found
  <1>5. PICK D : D = {x \in 1 .. C : Found(ns[x]).base = ref}
    OBVIOUS
  <1>6. PlacesUpTo(n, ref, ns, C) = PlacesIn(n) \cup UNION {PlacesIn(ns[j]) : j \in D}
    BY <1>5 DEF PlacesUpTo
  <1>7. n \in K
    BY <1>2, <1>3, VolumesAssumption
  <1>8. \A j \in D : ns[j] \in K
    <2>1. TAKE j \in D
    <2>2. Extends(ns[j]) /\ Found(ns[j]).base = ref
      BY <1>5 DEF InOrder
    <2>3. QED BY <1>3, <2>2 DEF Extends
  <1>9. ASSUME NEW m \in K, m # n PROVE \E j \in D : ns[j] = m
    <2>1. m \in Numbers /\ m < Room /\ Found(m).kind # "nothing" /\ Found(m).base = ref
      BY <1>3, <1>9
    <2>2. ref # <<>>
      BY <1>1
    <2>3. Found(m).kind \in {"nothing", "base", "extension"} /\ Found(m).kind # "base"
      BY <2>1, <2>2, FoundIs DEF RecordOK
    <2>4. Extends(m)
      BY <2>1, <2>3 DEF Extends
    <2>5. PICK j \in 1 .. C : ns[j] = m
      BY <2>4 DEF InOrder
    <2>6. QED BY <1>5, <2>1, <2>5
  <1>10. UNION {PlacesIn(m) : m \in K} = PlacesIn(n) \cup UNION {PlacesIn(ns[j]) : j \in D}
    BY <1>7, <1>8, <1>9
  <1>11. QED BY <1>1, <1>4, <1>6, <1>10

(* Completing the table gives files tags only.                              *)
LEMMA CompletedKeeps ==
    ASSUME GatheredOK, NEW t, t = Folded(records, FoldOrder(extensions)), t \in TableOf(volume),
           NEW n \in 0 .. Room - 1
    PROVE  /\ n \in DOMAIN Completed
           /\ Completed[n] = NoFile <=> t[n] = NoFile
           /\ t[n] # NoFile => Completed[n].seq = t[n].seq /\ Completed[n].names = t[n].names
  <1>1. DOMAIN t = 0 .. Room - 1 /\ (t[n] = NoFile \/ t[n] \in FileRecord)
    BY DEF TableOf, EntryOf
  <1>2. PICK q : q = [t[n] EXCEPT !.tag = TagOf(<<n, t[n].seq>>)]
    OBVIOUS
  <1>3. t[n] # NoFile => q.seq = t[n].seq /\ q.names = t[n].names /\ q.kind = "file"
    BY <1>1, <1>2 DEF FileRecord
  <1>4. n \in DOMAIN Completed /\ Completed[n] \in {q, t[n]} /\ (t[n] = NoFile => Completed[n] = t[n])
    BY <1>1, <1>2 DEF Completed
  <1>5. q.kind = "file" => q # NoFile
    BY DEF NoFile
  <1>6. QED BY <1>3, <1>4, <1>5

(* A file's names are those read of it, in record order.                    *)
LEMMA NamesLaid ==
    ASSUME GatheredOK, GotOK, TableIs, NEW n \in DOMAIN Completed, Completed[n] # NoFile
    PROVE  \E pl : Laid(n, Completed[n].names, NamesRead(n, <<n, Completed[n].seq>>), pl)
  <1>1. n \in 0 .. Room - 1
    BY CompletedIs DEF TableOf
  <1>2. PICK ns, C : InOrder(ns, C) /\ FoldOrder(extensions) = [k \in 1 .. C |-> Extension(ns[k])]
    BY FoldOrderInOrder
  <1>3. PICK all : all = FoldOrder(extensions)
    OBVIOUS
  <1>4. all \in Seq(ExtensionOf(volume)) /\ C \in Nat
    BY <1>2, <1>3, FoldOrderIs DEF GatheredOK, InOrder
  <1>5. Len(all) = C /\ \A k \in 1 .. C : all[k] = Extension(ns[k])
    <2>1. DOMAIN all = 1 .. C /\ DOMAIN all = 1 .. Len(all) /\ Len(all) \in Nat
      BY <1>2, <1>3, <1>4, LenProperties
    <2>2. QED BY <1>2, <1>3, <1>4, <2>1
  <1>6. PICK h : FoldSteps(records, all, h) /\ \A i \in 0 .. Len(all) : h[i] \in TableOf(volume)
    BY <1>4, FoldedBySteps DEF GatheredOK
  <1>7. /\ h[0] = records /\ Folded(records, all) = h[C]
        /\ \A k \in 1 .. C : h[k] = Fold(h[k - 1], Extension(ns[k])) /\ h[k - 1] \in TableOf(volume)
        /\ h[C] \in TableOf(volume)
    BY <1>4, <1>5, <1>6 DEF FoldSteps
  <1>8. Completed[n] # NoFile /\ h[C][n] # NoFile
    BY <1>1, <1>3, <1>7, CompletedKeeps
  <1>9. records[n] # NoFile
    <2> DEFINE T == {i \in 0 .. C : h[i][n] = NoFile <=> records[n] = NoFile}
    <2>1. 0 \in T
      BY <1>4, <1>7
    <2>2. ASSUME NEW i \in 1 .. C, i - 1 \in T PROVE i \in T
      <3>1. Extension(ns[i]) \in ExtensionOf(volume)
        BY <1>2, ExtensionsInTable
      <3>2. h[i][n] = NoFile <=> h[i - 1][n] = NoFile
        BY <1>1, <1>7, <3>1, FoldAdds
      <3>3. QED BY <2>2, <3>2
    <2> HIDE DEF T
    <2>3. 0 .. C \subseteq T
      BY <1>4, <2>1, <2>2, Induct
    <2>4. C \in T
      BY <1>4, <2>3
    <2>5. QED BY <1>8, <2>4 DEF T
  <1>10. FoldedTo(n, ns, h, C)
    <2> DEFINE T == {i \in 0 .. C : FoldedTo(n, ns, h, i)}
    <2>1. FoldedTo(n, ns, h, 0)
      BY <1>1, <1>7, <1>9, OwnLaid DEF FoldedTo
    <2>2. ASSUME NEW i \in 1 .. C, FoldedTo(n, ns, h, i - 1) PROVE FoldedTo(n, ns, h, i)
      BY <1>1, <1>2, <1>7, <1>9, <2>2, FoldStepLaid
    <2>3. 0 \in T /\ \A i \in 1 .. C : i - 1 \in T => i \in T
      BY <1>4, <2>1, <2>2
    <2> HIDE DEF T
    <2>4. 0 .. C \subseteq T
      BY <1>4, <2>3, Induct
    <2>5. C \in T
      BY <1>4, <2>4
    <2>6. QED BY <2>5 DEF T
  <1>11. PlacesUpTo(n, <<n, records[n].seq>>, ns, C) = NamesRead(n, <<n, records[n].seq>>)
    BY <1>1, <1>2, <1>9, AllPlaces
  <1>12. Completed[n].seq = records[n].seq /\ Completed[n].names = h[C][n].names
    <2>1. Completed[n].seq = h[C][n].seq /\ Completed[n].names = h[C][n].names
      BY <1>1, <1>3, <1>7, <1>8, CompletedKeeps
    <2>2. QED BY <1>10, <2>1 DEF FoldedTo
  <1>13. QED BY <1>10, <1>11, <1>12 DEF FoldedTo

-----------------------------------------------------------------------------
(* The first of some of a file's names is the one whose place is first.     *)
LEMMA LeastOf ==
    ASSUME NEW L, L \subseteq Nat, L # {}
    PROVE  Min(L) \in L /\ \A j \in L : Min(L) <= j
  <1>1. \E i \in L : \A j \in L : i <= j
    BY Least
  <1>2. QED BY <1>1 DEF Min

LEMMA PlacesAre ==
    ASSUME GatheredOK, GotOK, NEW n \in Nat, NEW ref
    PROVE  \A p \in NamesRead(n, ref) : p[1] \in Nat /\ p[2] \in Nat /\ NameAt(p) \in FileRef
  <1>1. TAKE p \in NamesRead(n, ref)
  <1>2. PICK m \in Numbers : /\ m < Room /\ Found(m).kind # "nothing"
                             /\ p \in {<<m, i>> : i \in DOMAIN Found(m).file.names}
    BY DEF NamesRead, Found
  <1>3. Found(m).file \in FileRecord
    BY <1>2, FoundIs DEF RecordOK, EntryOf
  <1>4. Found(m).file.names \in Seq(FileRef)
    BY <1>3 DEF FileRecord
  <1>5. DOMAIN Found(m).file.names = 1 .. Len(Found(m).file.names)
    BY <1>4, LenProperties
  <1>6. m \in Nat
    BY VolumesAssumption DEF Numbers
  <1>7. PICK i \in DOMAIN Found(m).file.names : p = <<m, i>>
    BY <1>2
  <1>8. NameAt(p) = Found(m).file.names[i] /\ Found(m).file.names[i] \in FileRef
    BY <1>4, <1>5, <1>7, ElementOfSeq DEF NameAt, Found
  <1>9. QED BY <1>5, <1>6, <1>7, <1>8

LEMMA EarlierOnce ==
    ASSUME NEW n \in Nat, NEW p, NEW q, p[1] \in Nat, p[2] \in Nat, q[1] \in Nat, q[2] \in Nat,
           Earlier(n, p, q)
    PROVE  ~Earlier(n, q, p)
  <1>1. PICK a \in Int, b \in Int : /\ a = (IF p[1] = n THEN -1 ELSE p[1])
                                    /\ b = (IF q[1] = n THEN -1 ELSE q[1])
    OBVIOUS
  <1>2. a < b \/ (p[1] = q[1] /\ p[2] < q[2])
    BY <1>1 DEF Earlier
  <1>3. p[1] = q[1] => a = b
    BY <1>1
  <1>4. ~(b < a) /\ ~(q[1] = p[1] /\ q[2] < p[2])
    BY <1>2, <1>3
  <1>5. QED BY <1>1, <1>4 DEF Earlier

PlacesOK(P) == \A p \in P : p[1] \in Nat /\ p[2] \in Nat

PlacesOf(L, names, pl, Q) ==
    /\ L \subseteq 1 .. Len(names)
    /\ \A q : q \in Q <=> \E x \in L : q = pl[x]

IsFirst(names, L, ref) == L # {} /\ names[Min(L)] = ref

LEMMA FirstOfNames ==
    ASSUME NEW n \in Nat, NEW names \in Seq(FileRef), NEW P, NEW pl, Laid(n, names, P, pl),
           PlacesOK(P), NEW L, NEW ref, NEW Q, PlacesOf(L, names, pl, Q)
    PROVE  FirstIs(n, Q, ref) <=> IsFirst(names, L, ref)
  <1>0. /\ \A p \in P : p[1] \in Nat /\ p[2] \in Nat
        /\ L \subseteq 1 .. Len(names)
        /\ \A q : q \in Q <=> \E x \in L : q = pl[x]
    BY DEF PlacesOK, PlacesOf
  <1>1. /\ \A x \in L : x \in 1 .. Len(names) /\ pl[x] \in P /\ NameAt(pl[x]) = names[x]
        /\ \A x, y \in L : x < y => Earlier(n, pl[x], pl[y])
    BY <1>0 DEF Laid
  <1>2. L \subseteq Nat
    BY <1>0, LenProperties
  <1>3. \A x, y \in L : x < y => pl[x] # pl[y] /\ ~Earlier(n, pl[y], pl[x])
    <2>1. SUFFICES ASSUME NEW x \in L, NEW y \in L, x < y PROVE ~Earlier(n, pl[y], pl[x])
      BY <1>1
    <2>2. PICK p, q : p = pl[x] /\ q = pl[y]
      OBVIOUS
    <2>3. p[1] \in Nat /\ p[2] \in Nat /\ q[1] \in Nat /\ q[2] \in Nat /\ Earlier(n, p, q)
      BY <1>0, <1>1, <2>1, <2>2
    <2>4. QED BY <2>2, <2>3, EarlierOnce
  <1>4. ASSUME FirstIs(n, Q, ref) PROVE L # {} /\ names[Min(L)] = ref
    <2>1. PICK p \in Q : NameAt(p) = ref /\ \A q \in Q \ {p} : Earlier(n, p, q)
      BY <1>4 DEF FirstIs
    <2>2. PICK x \in L : p = pl[x]
      BY <1>0, <2>1
    <2>3. PICK y : y = Min(L)
      OBVIOUS
    <2>4. y \in L /\ y <= x
      BY <1>2, <2>2, <2>3, LeastOf
    <2>5. CASE y = x
      BY <1>1, <2>1, <2>2, <2>3, <2>5
    <2>6. CASE y # x
      <3>1. y < x
        BY <1>2, <2>2, <2>4, <2>6
      <3>2. pl[y] # pl[x] /\ ~Earlier(n, pl[x], pl[y])
        BY <1>3, <2>2, <2>4, <3>1
      <3>3. pl[y] \in Q \ {p}
        BY <1>0, <2>2, <2>4, <3>2
      <3>4. QED BY <2>1, <2>2, <3>2, <3>3
    <2>7. QED BY <2>5, <2>6
  <1>5. ASSUME L # {}, names[Min(L)] = ref PROVE FirstIs(n, Q, ref)
    <2>1. PICK x : x = Min(L)
      OBVIOUS
    <2>2. x \in L /\ \A y \in L : x <= y
      BY <1>2, <1>5, <2>1, LeastOf
    <2>3. pl[x] \in Q /\ NameAt(pl[x]) = ref
      BY <1>0, <1>1, <1>5, <2>1, <2>2
    <2>4. ASSUME NEW q \in Q \ {pl[x]} PROVE Earlier(n, pl[x], q)
      <3>1. PICK y \in L : q = pl[y]
        BY <1>0, <2>4
      <3>2. y # x /\ x <= y
        BY <2>2, <2>4, <3>1
      <3>3. x < y
        BY <1>2, <2>2, <3>2
      <3>4. QED BY <1>1, <2>2, <3>1, <3>3
    <2>5. QED BY <2>3, <2>4 DEF FirstIs
  <1>6. QED BY <1>4, <1>5 DEF IsFirst

(* The names of an entry, and the first of those that meet a condition (are *)
(* in S): in the entry and at their places.                                 *)
Among(n, names, ref, S, L, Q) ==
    /\ L = {x \in DOMAIN names : names[x] \in S}
    /\ Q = {p \in NamesRead(n, ref) : NameAt(p) \in S}

LEMMA FirstAmong ==
    ASSUME GatheredOK, GotOK, TableIs, NEW n \in DOMAIN Completed, Completed[n] # NoFile, NEW d,
           NEW names, names = Completed[n].names, NEW ref, ref = <<n, Completed[n].seq>>,
           NEW S, NEW L, NEW Q, Among(n, names, ref, S, L, Q)
    PROVE  FirstIs(n, Q, d) <=> IsFirst(names, L, d)
  <1>1. /\ L = {x \in DOMAIN names : names[x] \in S}
        /\ Q = {p \in NamesRead(n, ref) : NameAt(p) \in S}
    BY DEF Among
  <1>2. PICK P : P = NamesRead(n, ref)
    OBVIOUS
  <1>3. PICK pl : Laid(n, names, P, pl)
    BY <1>2, NamesLaid
  <1>4. n \in 0 .. Room - 1 /\ n \in Nat /\ names \in Seq(FileRef)
    <2>1. n \in 0 .. Room - 1 /\ Completed[n] \in FileRecord
      BY CompletedIs DEF TableOf, EntryOf
    <2>2. QED BY <2>1, VolumesAssumption DEF FileRecord
  <1>5. DOMAIN names = 1 .. Len(names)
    BY <1>4, LenProperties
  <1>6. \A p \in P : p[1] \in Nat /\ p[2] \in Nat
    BY <1>2, <1>4, PlacesAre
  <1>7. L \subseteq 1 .. Len(names) /\ \A x \in 1 .. Len(names) : x \in L <=> names[x] \in S
    BY <1>1, <1>5
  <1>8. \A p : p \in Q <=> \E x \in L : p = pl[x]
    <2>1. /\ \A p \in P : \E x \in 1 .. Len(names) : pl[x] = p
          /\ \A x \in 1 .. Len(names) : pl[x] \in P /\ NameAt(pl[x]) = names[x]
      BY <1>3 DEF Laid
    <2>2. \A p : p \in Q <=> p \in P /\ NameAt(p) \in S
      BY <1>1, <1>2
    <2>3. QED BY <1>7, <2>1, <2>2
  <1>9. PlacesOK(P)
    BY <1>6 DEF PlacesOK
  <1>10. PlacesOf(L, names, pl, Q)
    BY <1>7, <1>8 DEF PlacesOf
  <1>11. QED BY <1>3, <1>4, <1>9, <1>10, FirstOfNames

-----------------------------------------------------------------------------
(* The order is complete: every folder in it has had its turn.              *)
HadTurns(t, o, i) ==
    \A j \in 1 .. i : j <= Len(o) => Subfolders(t, o[j]) \subseteq Range(o)

LEMMA FewFolders ==
    ASSUME NEW t, NEW r, NEW o \in OrderOf(t, r)
    PROVE  Len(o) <= Room
  <1>1. /\ o \in Seq(0 .. Room - 1) /\ Len(o) \in Nat
        /\ \A i, j \in 1 .. Len(o) : o[i] = o[j] => i = j
    BY LenProperties DEF OrderOf
  <1>2. PICK k \in Nat : k = Len(o)
    BY <1>1
  <1>3. o \in Injection(1 .. k, 0 .. Room - 1)
    <2>1. o \in [1 .. k -> 0 .. Room - 1]
      BY <1>1, <1>2, LenProperties
    <2>2. QED BY <1>1, <1>2, <2>1 DEF Injection, IsInjective
  <1>4. /\ IsFiniteSet(0 .. Room - 1) /\ Cardinality(0 .. Room - 1) = Room
        /\ Cardinality(1 .. k) = k
    <2>1. Room \in Nat /\ 0 \in Int /\ Room - 1 \in Int /\ 1 \in Int /\ k \in Int
      BY VolumesAssumption
    <2>2. Cardinality(0 .. Room - 1) = IF 0 > Room - 1 THEN 0 ELSE (Room - 1) - 0 + 1
      BY <2>1, FS_Interval
    <2>3. Cardinality(1 .. k) = IF 1 > k THEN 0 ELSE k - 1 + 1
      BY <2>1, FS_Interval
    <2>4. IsFiniteSet(0 .. Room - 1)
      BY <2>1, FS_Interval
    <2>5. QED BY <2>1, <2>2, <2>3, <2>4
  <1>5. Cardinality(1 .. k) <= Cardinality(0 .. Room - 1)
    BY <1>3, <1>4, FS_Injection
  <1>6. QED BY <1>2, <1>4, <1>5

LEMMA TurnTaken ==
    ASSUME NEW v, NEW t \in TableOf(v), NEW r, NEW o \in OrderOf(t, r), NEW i \in 1 .. Room,
           HadTurns(t, o, i - 1)
    PROVE  HadTurns(t, AddSubfolders(t, o, i), i)
  <1>1. o \in Seq(0 .. Room - 1) /\ Len(o) \in Nat /\ DOMAIN o = 1 .. Len(o)
    BY LenProperties DEF OrderOf
  <1>2. CASE i > Len(o)
    <2>1. AddSubfolders(t, o, i) = o
      BY <1>2 DEF AddSubfolders
    <2>2. \A j \in 1 .. i : j <= Len(o) => j \in 1 .. i - 1
      BY <1>1, <1>2
    <2>3. QED BY <2>1, <2>2 DEF HadTurns
  <1>3. CASE ~(i > Len(o))
    <2> DEFINE D == Subfolders(t, o[i]) \ Range(o)
               a == Ascending(D)
               C == Cardinality(D)
    <2>1. D \subseteq 0 .. Room - 1 /\ D \in SUBSET Nat
      BY SubfoldersIs, VolumesAssumption
    <2>2. IsFiniteSet(D)
      <3>1. IsFiniteSet(0 .. Room - 1)
        <4>1. 0 \in Int /\ Room - 1 \in Int
          BY VolumesAssumption
        <4>2. QED BY <4>1, FS_Interval
      <3> HIDE DEF D
      <3>2. QED BY <2>1, <3>1, FS_Subset
    <2>3. C \in Nat /\ a \in [1 .. C -> D] /\ \A m \in D : \E k \in 1 .. C : a[k] = m
      <3> HIDE DEF D
      <3>1. QED BY <2>1, <2>2, AscendingIs
    <2>4. Subfolders(t, o[i]) \subseteq Range(o) \cup D
      OBVIOUS
    <2>5. AddSubfolders(t, o, i) = o \o a
      BY <1>3 DEF AddSubfolders
    <2> HIDE DEF D, a, C
    <2>6. a \in Seq(0 .. Room - 1) /\ DOMAIN a = 1 .. C
      <3>1. a \in [1 .. C -> 0 .. Room - 1]
        BY <2>1, <2>3
      <3>2. a \in Seq(0 .. Room - 1)
        BY <2>3, <3>1, SeqDef
      <3>3. QED BY <2>3, <3>2
    <2>7. PICK q : q = o \o a
      OBVIOUS
    <2>8. \A e : e \in Range(q) <=> e \in Range(o) \/ e \in Range(a)
      BY <1>1, <2>6, <2>7, RangeConcat
    <2>9. D \subseteq Range(a)
      BY <2>3, <2>6 DEF Range
    <2>10. \A j \in 1 .. Len(o) : q[j] = o[j]
      <3>1. Len(a) \in Nat
        BY <2>6, LenProperties
      <3>2. QED BY <1>1, <2>6, <2>7, <3>1, ConcatProperties
    <2>11. ASSUME NEW j \in 1 .. i PROVE Subfolders(t, q[j]) \subseteq Range(q)
      <3>1. q[j] = o[j] /\ j <= Len(o)
        BY <1>1, <1>3, <2>10
      <3>2. CASE j = i
        BY <2>4, <2>8, <2>9, <3>1, <3>2
      <3>3. CASE j # i
        <4>1. j \in 1 .. i - 1
          BY <3>3
        <4>2. Subfolders(t, o[j]) \subseteq Range(o)
          BY <3>1, <4>1 DEF HadTurns
        <4>3. QED BY <2>8, <3>1, <4>2
      <3>4. QED BY <3>2, <3>3
    <2>12. HadTurns(t, q, i)
      BY <2>11 DEF HadTurns
    <2>13. QED BY <2>5, <2>7, <2>12
  <1>4. QED BY <1>2, <1>3

LEMMA OrderComplete ==
    ASSUME NEW v, NEW t \in TableOf(v), NEW r \in 0 .. Room - 1
    PROVE  LET o == Order(t, r)
           IN  /\ o \in OrderOf(t, r)
               /\ \A j \in 1 .. Len(o) : Subfolders(t, o[j]) \subseteq Range(o)
  <1>1. PICK h : OrderSteps(t, r, h) /\ \A i \in 0 .. Room : h[i] \in OrderOf(t, r)
    BY OrderBySteps
  <1>2. Room \in Nat
    BY VolumesAssumption
  <1> DEFINE T == {i \in 0 .. Room : HadTurns(t, h[i], i)}
  <1>3. 0 \in T
    BY <1>2 DEF HadTurns
  <1>4. ASSUME NEW i \in 1 .. Room, i - 1 \in T PROVE i \in T
    <2>1. h[i - 1] \in OrderOf(t, r) /\ h[i] = AddSubfolders(t, h[i - 1], i) /\ HadTurns(t, h[i - 1], i - 1)
      BY <1>1, <1>2, <1>4 DEF OrderSteps
    <2>2. HadTurns(t, h[i], i)
      BY <2>1, TurnTaken
    <2>3. QED BY <1>2, <2>2
  <1> HIDE DEF T
  <1>5. 0 .. Room \subseteq T
    BY <1>2, <1>3, <1>4, Induct
  <1>6. HadTurns(t, h[Room], Room) /\ h[Room] \in OrderOf(t, r)
    BY <1>1, <1>2, <1>5 DEF T
  <1>7. PICK o : o = Order(t, r)
    OBVIOUS
  <1>8. o \in OrderOf(t, r) /\ HadTurns(t, o, Room)
    BY <1>1, <1>6, <1>7 DEF OrderSteps
  <1>9. Len(o) <= Room /\ Len(o) \in Nat
    BY <1>8, FewFolders, LenProperties DEF OrderOf
  <1>10. \A j \in 1 .. Len(o) : Subfolders(t, o[j]) \subseteq Range(o)
    BY <1>2, <1>8, <1>9 DEF HadTurns
  <1>11. QED BY <1>7, <1>8, <1>10

-----------------------------------------------------------------------------
(* What is sent of the completed table                                      *)
AllSent == gather = "sending" =>
    \/ sent \o plan = <<>>
    \/ Folder(Completed, root) /\ sent \o plan = Events(Completed, Order(Completed, root[1]))

(* The whole of it was sent.                                                *)
Whole(t, o) ==
    /\ t = Completed /\ t \in TableOf(volume)
    /\ o \in OrderOf(t, root[1])
    /\ \A j \in 1 .. Len(o) : Subfolders(t, o[j]) \subseteq Range(o)
    /\ Folder(t, root) /\ root \in FileRef
    /\ sent = Events(t, o)

LEMMA WholeSent ==
    ASSUME GatheredOK, Folder(Completed, root), sent = Events(Completed, Order(Completed, root[1]))
    PROVE  \E t, o : Whole(t, o)
  <1>1. PICK t : t = Completed
    OBVIOUS
  <1>2. PICK a \in Nat, b \in Nat : root = <<a, b>>
    BY VolumesAssumption DEF GatheredOK, root, FileRef
  <1>3. root[1] \in 0 .. Room - 1
    BY <1>2, VolumesAssumption DEF Folder, Holds
  <1>4. t \in TableOf(volume)
    BY <1>1, CompletedIs
  <1>5. PICK o : o = Order(t, root[1])
    OBVIOUS
  <1>6. o \in OrderOf(t, root[1]) /\ \A j \in 1 .. Len(o) : Subfolders(t, o[j]) \subseteq Range(o)
    BY <1>3, <1>4, <1>5, OrderComplete
  <1>7. root \in FileRef
    BY VolumesAssumption DEF GatheredOK, root
  <1>8. Whole(t, o)
    BY <1>1, <1>4, <1>5, <1>6, <1>7 DEF Whole
  <1>9. QED BY <1>8

(* The folders sent are those in order.                                     *)
LEMMA SentIs ==
    ASSUME NEW t, NEW o, Whole(t, o)
    PROVE  /\ DOMAIN o = 1 .. Len(o) /\ DOMAIN sent = 1 .. Len(o)
           /\ \A j \in 1 .. Len(o) : /\ sent[j].dir = Place(t, o, j)
                                     /\ sent[j].files = CountedIn(t, o, Place(t, o, j))
                                     /\ o[j] \in 0 .. Room - 1 /\ Folder(t, Place(t, o, j))
           /\ \A ref : ref \in Sent <=> \E j \in 1 .. Len(o) : ref = Place(t, o, j)
  <1>1. /\ o \in Seq(0 .. Room - 1) /\ Len(o) \in Nat /\ DOMAIN o = 1 .. Len(o)
        /\ \A j \in 1 .. Len(o) : o[j] \in 0 .. Room - 1
        /\ o[1] = root[1] /\ \A j \in 2 .. Len(o) : FoundEarlier(t, o, j)
    BY LenProperties, ElementOfSeq DEF Whole, OrderOf
  <1>2. DOMAIN sent = 1 .. Len(o) /\ \A j \in 1 .. Len(o) : /\ sent[j].dir = Place(t, o, j)
                                                            /\ sent[j].files = CountedIn(t, o, Place(t, o, j))
    <2>1. PICK n \in Nat : n = Len(o)
      BY <1>1
    <2>2. sent = Events(t, o) /\ DOMAIN o = 1 .. n
      BY <1>1, <2>1 DEF Whole
    <2>3. QED BY <2>1, <2>2 DEF Events, Place
  <1>3. ASSUME NEW j \in 1 .. Len(o) PROVE Folder(t, Place(t, o, j))
    <2>1. t[o[j]] # NoFile /\ t[o[j]].dir
      <3>1. CASE j = 1
        BY <1>1, <3>1 DEF Whole, Folder, Holds
      <3>2. CASE j # 1
        <4>1. j \in 2 .. Len(o)
          BY <3>2
        <4>2. QED BY <1>1, <4>1 DEF FoundEarlier
      <3>3. QED BY <3>1, <3>2
    <2>2. o[j] < Room
      BY <1>1, VolumesAssumption
    <2>3. QED BY <2>1, <2>2 DEF Folder, Holds, Place
  <1>4. \A ref : ref \in Sent <=> \E j \in 1 .. Len(o) : ref = Place(t, o, j)
    BY <1>2 DEF Sent
  <1>5. QED BY <1>1, <1>2, <1>3, <1>4

LEMMA EntryNames ==
    ASSUME NEW t, t \in TableOf(volume), NEW n \in Files(t)
    PROVE  /\ n \in DOMAIN t /\ n \in 0 .. Room - 1 /\ n \in Nat /\ t[n] # NoFile
           /\ t[n].seq \in Nat /\ t[n].names \in Seq(FileRef)
           /\ Len(t[n].names) \in Nat /\ DOMAIN t[n].names = 1 .. Len(t[n].names)
           /\ \A x \in DOMAIN t[n].names : t[n].names[x] \in FileRef
  <1>1. n \in DOMAIN t /\ n \in 0 .. Room - 1 /\ t[n] # NoFile /\ t[n] \in FileRecord
    BY DEF Files, TableOf, EntryOf
  <1>2. t[n].seq \in Nat /\ t[n].names \in Seq(FileRef)
    BY <1>1 DEF FileRecord
  <1>3. QED BY <1>1, <1>2, LenProperties, ElementOfSeq, VolumesAssumption

(* A folder is sent if the first of its names is in one that is.            *)
LEMMA FolderSent ==
    ASSUME GatheredOK, GotOK, TableIs, NEW t, NEW o, Whole(t, o), NEW n \in Files(t),
           NEW ref, ref = <<n, t[n].seq>>, Kind(t[n]) = "Directory", ref # root
    PROVE  ref \in Sent <=> \E d \in Sent : FirstIs(n, NamesRead(n, ref), d)
  <1>1. t = Completed /\ t \in TableOf(volume)
    BY DEF Whole
  <1>2. PICK names : names = t[n].names
    OBVIOUS
  <1>3. /\ n \in DOMAIN t /\ n \in Nat /\ t[n] # NoFile
        /\ Len(names) \in Nat /\ DOMAIN names = 1 .. Len(names) /\ names \in Seq(FileRef)
        /\ \A x \in DOMAIN names : names[x] \in FileRef
    BY <1>1, <1>2, EntryNames
  <1>4. PICK L : L = {x \in DOMAIN names : names[x] \in FileRef}
    OBVIOUS
  <1>5. PICK Q : Q = {p \in NamesRead(n, ref) : NameAt(p) \in FileRef}
    OBVIOUS
  <1>6. Q = NamesRead(n, ref)
    <2>1. \A p \in NamesRead(n, ref) : NameAt(p) \in FileRef
      BY <1>3, PlacesAre
    <2>2. QED BY <1>5, <2>1
  <1>7. \A d : FirstIs(n, Q, d) <=> L # {} /\ names[Min(L)] = d
    <2>1. TAKE d
    <2>2. Among(n, names, ref, FileRef, L, Q)
      BY <1>4, <1>5 DEF Among
    <2>3. FirstIs(n, Q, d) <=> IsFirst(names, L, d)
      BY <1>1, <1>2, <1>3, <2>2, FirstAmong
    <2>4. QED BY <2>3 DEF IsFirst
  <1>8. L # {} <=> names # <<>>
    BY <1>3, <1>4
  <1>9. L # {} => Min(L) = 1
    <2>1. SUFFICES ASSUME L # {} PROVE Min(L) = 1
      OBVIOUS
    <2>2. L = 1 .. Len(names)
      BY <1>3, <1>4
    <2>3. 1 \in L /\ L \subseteq Nat
      BY <1>3, <2>1, <2>2
    <2>4. Min(L) \in L /\ Min(L) <= 1
      BY <2>1, <2>3, LeastOf
    <2>5. QED BY <2>2, <2>4
  <1>10. \A d : FirstIs(n, NamesRead(n, ref), d) <=> names # <<>> /\ names[1] = d
    BY <1>6, <1>7, <1>8, <1>9
  <1>11. ASSUME ref \in Sent PROVE \E d \in Sent : FirstIs(n, NamesRead(n, ref), d)
    <2>1. PICK j \in 1 .. Len(o) : ref = Place(t, o, j)
      BY <1>11, SentIs
    <2>2. o[j] = n
      BY <2>1 DEF Place
    <2>3. j # 1
      <3>1. SUFFICES ASSUME j = 1 PROVE FALSE
        OBVIOUS
      <3>2. o[1] = root[1] /\ t[root[1]].seq = root[2] /\ root \in FileRef
        BY DEF Whole, OrderOf, Folder, Holds
      <3>3. root = <<root[1], root[2]>>
        BY <3>2 DEF FileRef
      <3>4. QED BY <2>2, <3>1, <3>2, <3>3
    <2>4. FoundEarlier(t, o, j)
      <3>1. j \in 2 .. Len(o)
        BY <2>3
      <3>2. QED BY <3>1 DEF Whole, OrderOf
    <2>5. PICK i \in 1 .. j - 1 : names # <<>> /\ names[1] = Place(t, o, i)
      BY <1>2, <2>2, <2>4 DEF FoundEarlier
    <2>6. Place(t, o, i) \in Sent
      <3>1. Len(o) \in Nat
        BY LenProperties DEF Whole, OrderOf
      <3>2. i \in 1 .. Len(o)
        BY <3>1
      <3>3. QED BY <3>2, SentIs
    <2>7. QED BY <1>10, <2>5, <2>6
  <1>12. ASSUME NEW d \in Sent, FirstIs(n, NamesRead(n, ref), d) PROVE ref \in Sent
    <2>1. PICK j \in 1 .. Len(o) : d = Place(t, o, j)
      BY SentIs
    <2>2. names # <<>> /\ names[1] = d
      BY <1>10, <1>12
    <2>3. Folder(t, d) /\ d[1] = o[j] /\ DOMAIN o = 1 .. Len(o)
      BY <2>1, SentIs DEF Place
    <2>4. n \in Subfolders(t, o[j])
      BY <1>2, <2>2, <2>3 DEF Subfolders
    <2>5. n \in Range(o)
      BY <2>4 DEF Whole
    <2>6. PICK i \in 1 .. Len(o) : o[i] = n
      BY <2>3, <2>5 DEF Range
    <2>7. ref = Place(t, o, i)
      BY <2>6 DEF Place
    <2>8. QED BY <2>7, SentIs
  <1>13. QED BY <1>11, <1>12

(* A file is counted in the first of its folders that are sent.             *)
LEMMA FileCounted ==
    ASSUME GatheredOK, GotOK, TableIs, NEW t, NEW o, Whole(t, o), NEW n \in Files(t),
           NEW ref, ref = <<n, t[n].seq>>, NEW i \in DOMAIN sent,
           NEW Q, Q = {p \in NamesRead(n, ref) : NameAt(p) \in Sent}
    PROVE  [file |-> ref, size |-> CountedSize(t[n])] \in sent[i].files
             <=> Kind(t[n]) = "File" /\ CountedSize(t[n]) > 0 /\ FirstIs(n, Q, sent[i].dir)
  <1>1. t = Completed /\ t \in TableOf(volume)
    BY DEF Whole
  <1>2. PICK names : names = t[n].names
    OBVIOUS
  <1>3. n \in DOMAIN t /\ t[n] # NoFile
    BY <1>1, EntryNames
  <1>4. i \in 1 .. Len(o) /\ sent[i].dir = Place(t, o, i) /\ sent[i].files = CountedIn(t, o, Place(t, o, i))
    BY SentIs
  <1>5. PICK L : L = {x \in DOMAIN names : names[x] \in Sent}
    OBVIOUS
  <1>6. Leading(t, o, n) = L
    <2>1. \A name : Leads(t, o, name) <=> name \in Sent
      BY SentIs DEF Leads, Place
    <2>2. QED BY <1>2, <1>5, <2>1 DEF Leading
  <1>7. PICK d : d = sent[i].dir
    OBVIOUS
  <1>8. FirstIs(n, Q, d) <=> L # {} /\ names[Min(L)] = d
    <2>1. PICK S : S = Sent
      OBVIOUS
    <2>2. Among(n, names, ref, S, L, Q)
      BY <1>5, <2>1 DEF Among
    <2>3. FirstIs(n, Q, d) <=> IsFirst(names, L, d)
      BY <1>1, <1>2, <1>3, <2>2, FirstAmong
    <2>4. QED BY <2>3 DEF IsFirst
  <1>9. FirstIs(n, Q, d) <=> FirstLeads(t, o, n, d)
    BY <1>2, <1>6, <1>8 DEF FirstLeads
  <1>10. PICK c : c = [file |-> ref, size |-> CountedSize(t[n])]
    OBVIOUS
  <1>11. ASSUME c \in CountedIn(t, o, d)
         PROVE  Kind(t[n]) = "File" /\ CountedSize(t[n]) > 0 /\ FirstLeads(t, o, n, d)
    <2>1. PICK m \in {k \in Files(t) : /\ Kind(t[k]) = "File"
                                       /\ CountedSize(t[k]) > 0
                                       /\ FirstLeads(t, o, k, d)} :
             c = [file |-> <<m, t[m].seq>>, size |-> CountedSize(t[m])]
      BY <1>11 DEF CountedIn
    <2>2. c.file = ref /\ c.file = <<m, t[m].seq>>
      BY <1>10, <2>1
    <2>3. m = n
      BY <2>2
    <2>4. QED BY <2>1, <2>3
  <1>12. ASSUME Kind(t[n]) = "File", CountedSize(t[n]) > 0, FirstLeads(t, o, n, d)
         PROVE  c \in CountedIn(t, o, d)
    BY <1>10, <1>12 DEF CountedIn
  <1>13. QED BY <1>4, <1>7, <1>9, <1>10, <1>11, <1>12

LEMMA TreeOfTable ==
    ASSUME GatheredOK, GotOK, TableIs, NEW t, NEW o, Whole(t, o)
    PROVE  TreeOfWhatWasRead
  <1>1. t = Completed
    BY DEF Whole
  <1>2. PICK folders : folders = Sent
    OBVIOUS
  <1>3. ASSUME NEW n \in Files(t)
        PROVE  LET ref == <<n, t[n].seq>>
                   size == CountedSize(t[n])
                   names == NamesRead(n, ref)
                   leading == {p \in names : NameAt(p) \in folders}
               IN IF Kind(t[n]) = "Directory"
                  THEN ref # root => (ref \in folders <=> \E d \in folders : FirstIs(n, names, d))
                  ELSE \A i \in DOMAIN sent :
                         [file |-> ref, size |-> size] \in sent[i].files
                           <=> Kind(t[n]) = "File" /\ size > 0 /\ FirstIs(n, leading, sent[i].dir)
    <2>1. PICK ref : ref = <<n, t[n].seq>>
      OBVIOUS
    <2>2. PICK Q : Q = {p \in NamesRead(n, ref) : NameAt(p) \in folders}
      OBVIOUS
    <2>3. Kind(t[n]) = "Directory" /\ ref # root =>
            (ref \in folders <=> \E d \in folders : FirstIs(n, NamesRead(n, ref), d))
      BY <1>2, <2>1, FolderSent
    <2>4. \A i \in DOMAIN sent :
            [file |-> ref, size |-> CountedSize(t[n])] \in sent[i].files
              <=> Kind(t[n]) = "File" /\ CountedSize(t[n]) > 0 /\ FirstIs(n, Q, sent[i].dir)
      BY <1>2, <2>1, <2>2, FileCounted
    <2>5. QED BY <2>1, <2>2, <2>3, <2>4
  <1>4. QED BY <1>1, <1>2, <1>3 DEF TreeOfWhatWasRead

RanOK == Ran => gather = "sending" /\ plan = <<>> /\ sent # <<>>

TIInv == /\ IInv /\ HandedOnce /\ SIInv
         /\ GotOK /\ TableIs /\ AllSent /\ RanOK

LEMMA TIInvTree == TIInv => TreeOfWhatWasRead
  <1> SUFFICES ASSUME TIInv PROVE TreeOfWhatWasRead
    OBVIOUS
  <1>1. CASE ~Ran
    BY <1>1 DEF TreeOfWhatWasRead
  <1>2. CASE Ran
    <2>1. gather = "sending" /\ plan = <<>> /\ sent # <<>>
      BY <1>2 DEF TIInv, RanOK
    <2>2. PICK S : sent \in Seq(S)
      BY DEF TIInv, SIInv, SendingOK
    <2>3. sent \o plan = sent
      BY <2>1, <2>2, ConcatEmptySeq
    <2>4. Folder(Completed, root) /\ sent = Events(Completed, Order(Completed, root[1]))
      BY <2>1, <2>3 DEF TIInv, AllSent
    <2>5. PICK t, o : Whole(t, o)
      BY <2>4, WholeSent DEF TIInv, SIInv
    <2>6. QED BY <2>5, TreeOfTable DEF TIInv, SIInv
  <1>3. QED BY <1>1, <1>2

LEMMA ScanInitTIInv == ScanInit => TIInv
  <1> SUFFICES ASSUME ScanInit PROVE TIInv
    OBVIOUS
  <1>1. Init /\ got = Unread /\ extensions = <<>> /\ gathered = {}
        /\ records = [n \in 0 .. Room - 1 |-> NoFile] /\ gather = "gathering" /\ outcome = "none"
    BY DEF ScanInit, Init
  <1>2. GotOK
    <2>1. \A n \in Numbers : got[n] = "unread"
      BY <1>1 DEF Unread
    <2>2. got \in [Numbers -> {"unread", "was", "is", "torn"}]
      BY <1>1 DEF Unread
    <2>3. QED BY <2>1, <2>2, CoversNumbers DEF GotOK
  <1>3. TableIs
    <2>1. \A n \in Numbers : Found(n).kind = "nothing"
      BY <1>1 DEF Unread, Found, Record, Nothing
    <2>2. Range(extensions) = {}
      BY <1>1 DEF Range
    <2>3. QED BY <1>1, <2>1, <2>2 DEF TableIs, Extends
  <1>4. QED BY <1>1, <1>2, <1>3, InitIInv, InitHandedOnce, ScanInitSIInv DEF TIInv, AllSent, RanOK, Ran

(* Steps that leave the table alone.                                        *)
LEMMA TableStays ==
    ASSUME TIInv, UNCHANGED <<volume, got, records, extensions>>, gathered' = gathered
    PROVE  GotOK' /\ TableIs' /\ Completed' = Completed /\ root' = root
  <1>1. GotOK'
    BY DEF TIInv, GotOK
  <1>2. \A n : Found(n)' = Found(n)
    BY DEF Found, Record
  <1>3. TableIs'
    BY <1>2 DEF TIInv, TableIs, Extends, Extension
  <1>4. \A ref : TagOf(ref)' = TagOf(ref)
    BY DEF TagOf, after
  <1>5. Completed' = Completed
    BY <1>4 DEF Completed
  <1>6. QED BY <1>1, <1>3, <1>5 DEF root

LEMMA TreeStays ==
    ASSUME TIInv, UNCHANGED tableVars, gathered' = gathered,
           gather' = "sending" => gather = "sending", outcome' \in {"Complete", "Incomplete"} =>
             \/ outcome' = outcome /\ gather' = gather
             \/ gather' = "sending" /\ plan = <<>> /\ sent # <<>>
    PROVE  GotOK' /\ TableIs' /\ AllSent' /\ RanOK'
  <1>1. GotOK' /\ TableIs' /\ Completed' = Completed /\ root' = root
    BY TableStays DEF tableVars
  <1>2. AllSent'
    BY <1>1 DEF TIInv, AllSent, tableVars
  <1>3. RanOK'
    BY DEF TIInv, RanOK, Ran, tableVars
  <1>4. QED BY <1>1, <1>2, <1>3

LEMMA OtherStepsGathered ==
    /\ GatherFails \/ GatherEnds \/ Fail \/ Decide \/ Conclude \/ SetCancel => gathered' = gathered
    /\ \A r : ReaderStep(r) => gathered' = gathered
  <1>1. \A r : ReaderStep(r) => gathered' = gathered
    BY DEF ReaderStep, Open, Fails, Take, ReadWhole, ReadTorn, Send, gatherVars
  <1>2. QED BY <1>1 DEF GatherFails, GatherEnds, Fail, Decide, Conclude, SetCancel, gatherVars

LEMMA ScanNextTIInv ==
    ASSUME TIInv, [ScanNext]_scanVars
    PROVE  TIInv'
  <1>0. IInv /\ HandedOnce /\ SIInv /\ RanOK /\ AllSent
    BY DEF TIInv
  <1>1. IInv' /\ HandedOnce' /\ SIInv'
    <2>1. [Next]_vars
      BY ScanSteps DEF scanVars
    <2>2. QED BY <1>0, <2>1, NextIInv, NextHandedOnce, ScanNextSIInv
  <1>2. SUFFICES GotOK' /\ TableIs' /\ AllSent' /\ RanOK'
    BY <1>1 DEF TIInv
  <1>3. CASE (GatherFails \/ GatherEnds \/ Fail) /\ UNCHANGED tableVars
    <2>1. gathered' = gathered
      BY <1>3, OtherStepsGathered
    <2>2. gather' = "sending" => gather = "sending"
      BY <1>3, OtherSteps
    <2>3. outcome' \in {"Complete", "Incomplete"} => outcome' = outcome /\ gather' = gather
      BY <1>0, <1>3, OtherSteps DEF RanOK, Ran
    <2>4. QED BY <1>3, <2>1, <2>2, <2>3, TreeStays
  <1>4. ASSUME NEW i \in Read, Insert(i) PROVE GotOK' /\ TableIs' /\ AllSent' /\ RanOK'
    <2>1. GotOK' /\ TableIs'
      BY <1>0, <1>4, InsertTableIs DEF TIInv, SIInv
    <2>2. gather' = gather /\ gather = "gathering" /\ outcome' = outcome
      BY <1>4, OtherSteps DEF Insert
    <2>3. QED BY <1>0, <2>1, <2>2 DEF AllSent, RanOK, Ran
  <1>5. CASE BeginSending
    <2>1. UNCHANGED <<volume, got, records, extensions, sent>> /\ gathered' = gathered
      BY <1>5, OtherStepsGathered DEF BeginSending
    <2>2. GotOK' /\ TableIs' /\ Completed' = Completed /\ root' = root
      BY <2>1, TableStays
    <2>3. gather = "gathered" /\ outcome = "none" /\ outcome' \in {"none", "Cancelled"}
      BY <1>5 DEF BeginSending, Decide, Ended
    <2>4. RanOK'
      BY <2>3 DEF RanOK, Ran
    <2>5. sent' = <<>>
      BY <1>0, <2>1, <2>3 DEF SIInv, SendingOK
    <2>6. AllSent'
      <3>1. CASE plan' = <<>>
        <4>1. <<>> \o <<>> = <<>>
          OBVIOUS
        <4>2. QED BY <2>5, <3>1, <4>1 DEF AllSent
      <3>2. CASE plan' # <<>>
        <4>1. Folder(Completed, root) /\ plan' = Events(Completed, Order(Completed, root[1]))
          BY <1>5, <3>2 DEF BeginSending
        <4>2. sent' \o plan' = plan'
          <5>1. PICK S : plan' \in Seq(S)
            BY <1>1 DEF SIInv, SendingOK
          <5>2. QED BY <2>5, <5>1, ConcatEmptySeq
        <4>3. QED BY <2>2, <4>1, <4>2 DEF AllSent
      <3>3. QED BY <3>1, <3>2
    <2>7. QED BY <2>2, <2>4, <2>6
  <1>6. CASE SendEvent
    <2>1. /\ UNCHANGED <<volume, got, records, extensions>> /\ gathered' = gathered
          /\ gather' = gather /\ outcome' = outcome
          /\ sent' = Append(sent, Head(plan)) /\ plan' = Tail(plan) /\ plan # <<>>
      BY <1>6 DEF SendEvent, vars
    <2>2. GotOK' /\ TableIs' /\ Completed' = Completed /\ root' = root
      BY <2>1, TableStays
    <2>3. sent' \o plan' = sent \o plan
      <3>1. PICK S : sent \in Seq(S) /\ plan \in Seq(S)
        BY <1>0 DEF SIInv, SendingOK
      <3>2. QED BY <2>1, <3>1, SendsNext
    <2>4. AllSent'
      BY <1>0, <2>1, <2>2, <2>3 DEF AllSent
    <2>5. RanOK'
      BY <1>0, <2>1 DEF RanOK, Ran
    <2>6. QED BY <2>2, <2>4, <2>5
  <1>7. CASE EndScan
    <2>1. UNCHANGED tableVars /\ plan = <<>> /\ (outcome' \in {"walk", "error"}) = (sent = <<>>)
          /\ gather' = gather /\ gather = "sending" /\ gathered' = gathered
      BY <1>7, OtherSteps, OtherStepsGathered DEF EndScan
    <2>2. outcome' \in {"Complete", "Incomplete"} => sent # <<>>
      BY <2>1
    <2>3. QED BY <2>1, <2>2, TreeStays
  <1>8. ASSUME NEW r \in Reader, ReaderRuns(r) PROVE GotOK' /\ TableIs' /\ AllSent' /\ RanOK'
    <2>1. UNCHANGED tableVars /\ gather' = gather /\ outcome' = outcome /\ gathered' = gathered
      BY <1>8, OtherSteps, OtherStepsGathered DEF ReaderRuns
    <2>2. QED BY <2>1, TreeStays
  <1>9. CASE SetCancel /\ UNCHANGED tableVars
    <2>1. gather' = gather /\ outcome' = outcome /\ gathered' = gathered
      BY <1>9, OtherSteps, OtherStepsGathered
    <2>2. QED BY <1>9, <2>1, TreeStays
  <1>10. CASE UNCHANGED scanVars
    <2>1. UNCHANGED tableVars /\ gather' = gather /\ outcome' = outcome /\ gathered' = gathered
      BY <1>10 DEF scanVars, vars
    <2>2. QED BY <2>1, TreeStays
  <1>11. QED BY <1>3, <1>4, <1>5, <1>6, <1>7, <1>8, <1>9, <1>10 DEF ScanNext, GatherRuns

(* The tree sent is that of what was read (ntfs.rs, Mft::insert,             *)
(* complete_records, send_scan): in whatever order the reads come in, and    *)
(* however files and their records change meanwhile, a folder is sent if the *)
(* first of its names, in record order, is in one that is, and a file is     *)
(* counted once, in the first of its folders that are sent.                  *)
THEOREM MftScanTreeOfWhatWasRead == ScanSpec => []TreeOfWhatWasRead
  BY ScanInitTIInv, ScanNextTIInv, TIInvTree, PTL DEF ScanSpec

-----------------------------------------------------------------------------
(* What the records say of the files on the volume: the tree sent is that   *)
(* of the folders' listings.                                                *)

(* What a record says of the file it is of.                                 *)
HasAttribute(f, n, e) ==
    \/ n = f.number /\ e = InfoOf(f)
    \/ \E i \in NamesIn(f, n) : e = NameOf(f, i)
    \/ ~f.dir /\ e \in {DataOf(f, n), StreamOf(f, n)}
    \/ n = f.number /\ f.tag # "none" /\ f.tag_fits /\ e = TagAttribute(f)

LEMMA AttributesHave ==
    ASSUME NEW f \in FileOnDisk, NEW n \in Nat
    PROVE  \A e : e \in Range(Attributes(f, n)) <=> HasAttribute(f, n, e)
  <1> DEFINE here == Ascending(NamesIn(f, n))
             C == Cardinality(NamesIn(f, n))
             A == AttributeOf(f)
             info == IF n # f.number THEN <<>> ELSE <<InfoOf(f)>>
             names == [i \in DOMAIN here |-> NameOf(f, here[i])]
             data == IF f.dir THEN <<>> ELSE <<DataOf(f, n), StreamOf(f, n)>>
             tag == IF n = f.number /\ f.tag # "none" /\ f.tag_fits THEN <<TagAttribute(f)>> ELSE <<>>
  <1>1. Attributes(f, n) = info \o names \o data \o tag
    BY DEF Attributes, InfoOf, NameOf, DataOf, StreamOf, TagAttribute, NamesIn
  <1>2. C \in Nat /\ here \in [1 .. C -> NamesIn(f, n)] /\ \A i \in NamesIn(f, n) : \E k \in 1 .. C : here[k] = i
    <2>1. f.names \in Seq([parent : FileRef, dos : BOOLEAN, in : Nat])
      BY FileTypes
    <2>2. DOMAIN f.names = 1 .. Len(f.names) /\ Len(f.names) \in Nat
      BY <2>1, LenProperties
    <2>3. IsFiniteSet(DOMAIN f.names)
      BY <2>2, FS_Interval
    <2>4. NamesIn(f, n) \in SUBSET Nat /\ NamesIn(f, n) \subseteq DOMAIN f.names
      BY <2>2 DEF NamesIn
    <2>5. IsFiniteSet(NamesIn(f, n))
      BY <2>3, <2>4, FS_Subset
    <2>6. QED BY <2>4, <2>5, AscendingIs
  <1>3. /\ InfoOf(f) \in A /\ DataOf(f, n) \in A /\ StreamOf(f, n) \in A /\ TagAttribute(f) \in A
        /\ \A i \in NamesIn(f, n) : NameOf(f, i) \in A
    BY OneAttribute DEF NamesIn
  <1> HIDE DEF A, here, C
  <1>4. /\ names \in Seq(A) /\ \A e : e \in Range(names) <=> \E i \in NamesIn(f, n) : e = NameOf(f, i)
    <2>1. names \in [1 .. C -> A] /\ DOMAIN here = 1 .. C
      BY <1>2, <1>3
    <2>2. names \in Seq(A)
      BY <1>2, <2>1, SeqDef
    <2>3. Range(names) = {NameOf(f, here[k]) : k \in 1 .. C}
      BY <2>1 DEF Range
    <2> HIDE DEF names
    <2>4. QED BY <1>2, <2>2, <2>3
  <1>5. info \in Seq(A) /\ \A e : e \in Range(info) <=> n = f.number /\ e = InfoOf(f)
    BY <1>3 DEF Range
  <1>6. data \in Seq(A) /\ \A e : e \in Range(data) <=> ~f.dir /\ e \in {DataOf(f, n), StreamOf(f, n)}
    <2>1. CASE f.dir
      BY <2>1 DEF Range
    <2>2. CASE ~f.dir
      <3>1. PICK x, y : x = DataOf(f, n) /\ y = StreamOf(f, n)
        OBVIOUS
      <3>2. data = <<x, y>> /\ x \in A /\ y \in A
        BY <1>3, <2>2, <3>1
      <3>3. Range(<<x, y>>) = {x, y} /\ <<x, y>> \in Seq(A)
        BY <3>2 DEF Range
      <3>4. QED BY <2>2, <3>1, <3>2, <3>3
    <2>3. QED BY <2>1, <2>2
  <1>7. tag \in Seq(A) /\ \A e : e \in Range(tag) <=> /\ n = f.number /\ f.tag # "none" /\ f.tag_fits
                                                      /\ e = TagAttribute(f)
    BY <1>3 DEF Range
  <1> HIDE DEF info, names, data, tag
  <1>8. info \o names \in Seq(A) /\ info \o names \o data \in Seq(A)
    BY <1>4, <1>5, <1>6
  <1>9. \A e : e \in Range(info \o names) <=> e \in Range(info) \/ e \in Range(names)
    BY <1>4, <1>5, RangeConcat
  <1>10. \A e : e \in Range(info \o names \o data) <=> e \in Range(info \o names) \/ e \in Range(data)
    BY <1>6, <1>8, RangeConcat
  <1>11. \A e : e \in Range(info \o names \o data \o tag) <=> e \in Range(info \o names \o data) \/ e \in Range(tag)
    <2>1. PICK w \in Seq(A) : w = info \o names \o data
      BY <1>8
    <2>2. \A e : e \in Range(w \o tag) <=> e \in Range(w) \/ e \in Range(tag)
      BY <1>7, RangeConcat
    <2>3. QED BY <2>1, <2>2
  <1>12. QED BY <1>1, <1>4, <1>5, <1>6, <1>7, <1>9, <1>10, <1>11 DEF HasAttribute

(* What is known of a file once the attributes in P are parsed.             *)
Allocated(f) == IF f.sparse THEN f.on_disk ELSE f.size

Says(r, f, P) ==
    /\ r \in FileRecord
    /\ \A d : d \in Range(r.names) <=> \E e \in P : e.type = "name" /\ ~e.dos /\ e.parent = d
    /\ InfoOf(f) \in P => r.mtime = f.mtime /\ r.recall = f.recall /\ r.reparse = (f.tag # "none")
    /\ r.has_data <=> \E e \in P : e.type = "data" /\ e.unnamed /\ e.first
    /\ r.has_data => r.size = f.size /\ r.allocated = Allocated(f)
    /\ TagAttribute(f) \in P => r.tag = f.tag
    /\ r.tag # "none" => TagAttribute(f) \in P

LEMMA RangeAppend ==
    ASSUME NEW S, NEW s \in Seq(S), NEW x \in S
    PROVE  \A e : e \in Range(Append(s, x)) <=> e \in Range(s) \/ e = x
  <1>1. PICK u : u = Append(s, x)
    OBVIOUS
  <1>2. PICK l \in Nat : l = Len(s)
    BY LenProperties
  <1>3. DOMAIN s = 1 .. l /\ DOMAIN u = 1 .. l + 1 /\ u[l + 1] = x /\ \A k \in 1 .. l : u[k] = s[k]
    BY <1>1, <1>2, AppendProperties, LenProperties
  <1>4. \A k \in 1 .. l + 1 : k \in 1 .. l \/ k = l + 1
    OBVIOUS
  <1>5. 1 .. l \subseteq 1 .. l + 1 /\ l + 1 \in 1 .. l + 1
    OBVIOUS
  <1>6. QED BY <1>1, <1>3, <1>4, <1>5 DEF Range

LEMMA SaysMore ==
    ASSUME NEW f \in FileOnDisk, NEW n \in Nat, NEW P, NEW r, Says(r, f, P), NEW a, HasAttribute(f, n, a)
    PROVE  Says(Attribute(r, a), f, P \cup {a})
  <1>1. PICK Q : Q = P \cup {a}
    OBVIOUS
  <1>2. PICK q : q = Attribute(r, a)
    OBVIOUS
  <1>3. a \in AttributeOf(f) /\ a \in AttributeRecord
    BY OneAttribute DEF HasAttribute, NamesIn, AttributeOf
  <1>4. q \in FileRecord
    BY <1>2, <1>3, AttributeReads DEF Says, Reads1
  <1>5. InfoOf(f).type = "info" /\ TagAttribute(f).type = "reparse"
    BY DEF InfoOf, TagAttribute
  <1>6. CASE n = f.number /\ a = InfoOf(f)
    <2>1. a.mtime = f.mtime /\ a.recall = f.recall /\ a.reparse = (f.tag # "none") /\ a.type = "info"
      BY <1>6 DEF InfoOf
    <2>2. q = [r EXCEPT !.mtime = a.mtime, !.recall = a.recall, !.reparse = a.reparse]
      BY <1>2, <2>1 DEF Attribute
    <2>3. /\ q.mtime = f.mtime /\ q.recall = f.recall /\ q.reparse = (f.tag # "none")
          /\ q.names = r.names /\ q.has_data = r.has_data /\ q.size = r.size /\ q.allocated = r.allocated
          /\ q.tag = r.tag
      BY <2>1, <2>2 DEF Says, FileRecord
    <2>4. QED BY <1>1, <1>2, <1>4, <1>5, <2>1, <2>3 DEF Says
  <1>7. CASE \E i \in NamesIn(f, n) : a = NameOf(f, i)
    <2>1. a.type = "name" /\ a.parent \in FileRef /\ a.dos \in BOOLEAN
      BY <1>3, <1>7 DEF NameOf, AttributeRecord
    <2>2. q = IF a.dos THEN r ELSE [r EXCEPT !.names = Append(@, a.parent)]
      BY <1>2, <2>1 DEF Attribute
    <2>3. /\ q.mtime = r.mtime /\ q.recall = r.recall /\ q.reparse = r.reparse
          /\ q.has_data = r.has_data /\ q.size = r.size /\ q.allocated = r.allocated /\ q.tag = r.tag
          /\ q.names = IF a.dos THEN r.names ELSE Append(r.names, a.parent)
      BY <2>2 DEF Says, FileRecord
    <2>4. r.names \in Seq(FileRef)
      BY DEF Says, FileRecord
    <2>5. \A d : d \in Range(q.names) <=> d \in Range(r.names) \/ (~a.dos /\ a.parent = d)
      <3>1. CASE a.dos
        BY <2>3, <3>1
      <3>2. CASE ~a.dos
        <4>1. \A d : d \in Range(Append(r.names, a.parent)) <=> d \in Range(r.names) \/ d = a.parent
          BY <2>1, <2>4, RangeAppend
        <4>2. QED BY <2>3, <3>2, <4>1
      <3>3. QED BY <3>1, <3>2
    <2>6. \A d : d \in Range(q.names) <=> \E e \in Q : e.type = "name" /\ ~e.dos /\ e.parent = d
      BY <1>1, <2>1, <2>5 DEF Says
    <2>7. /\ InfoOf(f) \in Q <=> InfoOf(f) \in P
          /\ TagAttribute(f) \in Q <=> TagAttribute(f) \in P
      BY <1>1, <1>5, <2>1
    <2>8. (\E e \in Q : e.type = "data" /\ e.unnamed /\ e.first)
            <=> \E e \in P : e.type = "data" /\ e.unnamed /\ e.first
      BY <1>1, <2>1
    <2>9. QED BY <1>1, <1>2, <1>4, <2>3, <2>6, <2>7, <2>8 DEF Says
  <1>8. CASE ~f.dir /\ a \in {DataOf(f, n), StreamOf(f, n)}
    <2>1. a.type = "data" /\ a.unnamed \in BOOLEAN /\ a.first \in BOOLEAN
      BY <1>3, <1>8 DEF DataOf, StreamOf, AttributeRecord
    <2>2. a.unnamed => a.size = f.size /\ (IF a.sparse THEN a.on_disk ELSE a.reserved) = Allocated(f)
      <3>1. CASE a = DataOf(f, n)
        BY <3>1 DEF DataOf, Allocated
      <3>2. CASE a = StreamOf(f, n)
        <4>1. StreamOf(f, n).unnamed = FALSE
          BY DEF StreamOf, DataOf
        <4>2. QED BY <3>2, <4>1
      <3>3. QED BY <1>8, <3>1, <3>2
    <2>3. q = IF a.unnamed /\ a.first
              THEN [r EXCEPT !.has_data = TRUE, !.size = a.size,
                             !.allocated = IF a.sparse THEN a.on_disk ELSE a.reserved]
              ELSE r
      BY <1>2, <2>1 DEF Attribute
    <2>4. /\ q.mtime = r.mtime /\ q.recall = r.recall /\ q.reparse = r.reparse /\ q.names = r.names
          /\ q.tag = r.tag
      BY <2>3 DEF Says, FileRecord
    <2>5. /\ InfoOf(f) \in Q <=> InfoOf(f) \in P
          /\ TagAttribute(f) \in Q <=> TagAttribute(f) \in P
      BY <1>1, <1>5, <2>1
    <2>6. \A d : (\E e \in Q : e.type = "name" /\ ~e.dos /\ e.parent = d)
                   <=> \E e \in P : e.type = "name" /\ ~e.dos /\ e.parent = d
      BY <1>1, <2>1
    <2>7. /\ q.has_data <=> \E e \in Q : e.type = "data" /\ e.unnamed /\ e.first
          /\ q.has_data => q.size = f.size /\ q.allocated = Allocated(f)
      <3>1. CASE a.unnamed /\ a.first
        <4>1. q.has_data = TRUE /\ q.size = f.size /\ q.allocated = Allocated(f)
          BY <2>2, <2>3, <3>1 DEF Says, FileRecord
        <4>2. QED BY <1>1, <2>1, <3>1, <4>1
      <3>2. CASE ~(a.unnamed /\ a.first)
        BY <1>1, <2>3, <3>2 DEF Says
      <3>3. QED BY <3>1, <3>2
    <2>8. QED BY <1>1, <1>2, <1>4, <2>4, <2>5, <2>6, <2>7 DEF Says
  <1>9. CASE n = f.number /\ f.tag # "none" /\ f.tag_fits /\ a = TagAttribute(f)
    <2>1. a.type = "reparse" /\ a.tag = f.tag
      BY <1>9 DEF TagAttribute
    <2>2. q = [r EXCEPT !.tag = a.tag]
      BY <1>2, <2>1 DEF Attribute
    <2>3. /\ q.mtime = r.mtime /\ q.recall = r.recall /\ q.reparse = r.reparse /\ q.names = r.names
          /\ q.has_data = r.has_data /\ q.size = r.size /\ q.allocated = r.allocated /\ q.tag = f.tag
      BY <2>1, <2>2 DEF Says, FileRecord
    <2>4. QED BY <1>1, <1>2, <1>4, <1>5, <1>9, <2>1, <2>3 DEF Says
  <1>10. QED BY <1>6, <1>7, <1>8, <1>9 DEF HasAttribute

(* What is known of a file of which record n is parsed.                     *)
OfRecord(r, f, n) ==
    /\ r \in FileRecord /\ r.dir = (n = f.number /\ f.dir) /\ r.seq = f.seq
    /\ \A d : d \in Range(r.names) <=>
         \E i \in DOMAIN f.names : f.names[i].in = n /\ ~f.names[i].dos /\ f.names[i].parent = d
    /\ n = f.number => r.mtime = f.mtime /\ r.recall = f.recall /\ r.reparse = (f.tag # "none")
    /\ r.has_data <=> ~f.dir /\ n = f.data_in
    /\ r.has_data => r.size = f.size /\ r.allocated = Allocated(f)
    /\ r.tag = IF n = f.number /\ f.tag_fits THEN f.tag ELSE "none"

LEMMA ParsedSays ==
    ASSUME NEW f \in FileOnDisk, NEW n \in Nat, NEW raw, raw = Raw(f, n)
    PROVE  OfRecord(Parsed(raw), f, n)
  <1>1. PICK a : a = Attributes(f, n)
    OBVIOUS
  <1>2. /\ raw.dir = (n = f.number /\ f.dir) /\ raw.seq = f.seq /\ raw.attributes = a
    BY <1>1 DEF Raw
  <1>3. a \in Seq(AttributeOf(f)) /\ a \in Seq(AttributeRecord)
    BY <1>1, AttributesAre, SeqMonotonic DEF AttributeOf
  <1>4. raw.dir \in BOOLEAN /\ raw.seq \in Nat /\ raw.attributes \in Seq(AttributeRecord)
    BY <1>2, <1>3, FileTypes
  <1>5. PICK h : ParseSteps(raw, h)
    BY <1>4, ParsedBySteps
  <1>6. PICK l \in Nat : l = Len(a)
    BY <1>3, LenProperties
  <1>7. /\ h[0] = Blank(raw) /\ Parsed(raw) = h[l]
        /\ \A i \in 1 .. l : h[i] = Attribute(h[i - 1], a[i])
        /\ DOMAIN a = 1 .. l
    BY <1>2, <1>3, <1>5, <1>6, LenProperties DEF ParseSteps
  <1>8. \A i \in 1 .. l : HasAttribute(f, n, a[i])
    BY <1>1, <1>7, AttributesHave DEF Range
  <1> DEFINE P(i) == {a[j] : j \in 1 .. i}
             T == {i \in 0 .. l : Says(h[i], f, P(i))}
  <1>9. 0 \in T
    <2>1. P(0) = {}
      OBVIOUS
    <2>2. Blank(raw) \in FileRecord
      BY <1>4 DEF Blank, FileRecord, Tag
    <2>3. Blank(raw).names = <<>> /\ Blank(raw).has_data = FALSE /\ Blank(raw).tag = "none"
      BY DEF Blank
    <2>4. Range(<<>>) = {}
      BY DEF Range
    <2> HIDE DEF P
    <2>5. Says(h[0], f, P(0))
      BY <1>7, <2>1, <2>2, <2>3, <2>4 DEF Says
    <2>6. QED BY <2>5
  <1>10. ASSUME NEW i \in 1 .. l, i - 1 \in T PROVE i \in T
    <2>1. P(i) = P(i - 1) \cup {a[i]}
      <3>1. \A j \in 1 .. i : j \in 1 .. i - 1 \/ j = i
        OBVIOUS
      <3>2. 1 .. i - 1 \subseteq 1 .. i /\ i \in 1 .. i
        OBVIOUS
      <3>3. QED BY <3>1, <3>2
    <2> HIDE DEF P
    <2>2. Says(Attribute(h[i - 1], a[i]), f, P(i - 1) \cup {a[i]})
      BY <1>8, <1>10, SaysMore
    <2>3. Says(h[i], f, P(i))
      BY <1>7, <2>1, <2>2
    <2>4. QED BY <2>3
  <1>11. Says(h[l], f, Range(a))
    <2>1. Range(a) = P(l)
      BY <1>7 DEF Range
    <2> HIDE DEF T
    <2>2. 0 .. l \subseteq T
      BY <1>9, <1>10, Induct
    <2>3. l \in T
      BY <2>2
    <2>4. QED BY <2>1, <2>3 DEF T
  <1> HIDE DEF P, T
  <1>12. PICK r : r = Parsed(raw)
    OBVIOUS
  <1>13. r.dir = raw.dir /\ r.seq = raw.seq
    BY <1>4, <1>12, ParsedIs DEF ReadOf
  <1>14. \A e : e \in Range(a) <=> HasAttribute(f, n, e)
    BY <1>1, AttributesHave
  <1>15. Says(r, f, Range(a))
    BY <1>7, <1>11, <1>12
  <1>16. /\ InfoOf(f).type = "info" /\ TagAttribute(f).type = "reparse"
         /\ DataOf(f, n).type = "data" /\ StreamOf(f, n).type = "data" /\ \A i : NameOf(f, i).type = "name"
    BY DEF InfoOf, TagAttribute, DataOf, StreamOf, NameOf
  <1>17. \A d : d \in Range(r.names) <=>
           \E i \in DOMAIN f.names : f.names[i].in = n /\ ~f.names[i].dos /\ f.names[i].parent = d
    <2>1. \A e : e \in Range(a) /\ e.type = "name" <=> \E i \in NamesIn(f, n) : e = NameOf(f, i)
      BY <1>14, <1>16 DEF HasAttribute
    <2>2. \A i : NameOf(f, i).dos = f.names[i].dos /\ NameOf(f, i).parent = f.names[i].parent
      BY DEF NameOf
    <2>3. \A d : d \in Range(r.names) <=> \E e \in Range(a) : e.type = "name" /\ ~e.dos /\ e.parent = d
      BY <1>15 DEF Says
    <2>4. \A d : d \in Range(r.names) <=> \E i \in NamesIn(f, n) : ~f.names[i].dos /\ f.names[i].parent = d
      BY <2>1, <2>2, <2>3
    <2>5. QED BY <2>4 DEF NamesIn
  <1>18. n = f.number => r.mtime = f.mtime /\ r.recall = f.recall /\ r.reparse = (f.tag # "none")
    BY <1>14, <1>15 DEF Says, HasAttribute
  <1>19. /\ r.has_data <=> ~f.dir /\ n = f.data_in
         /\ r.has_data => r.size = f.size /\ r.allocated = Allocated(f)
    <2>1. \A e : e \in Range(a) /\ e.type = "data" <=> ~f.dir /\ e \in {DataOf(f, n), StreamOf(f, n)}
      BY <1>14, <1>16 DEF HasAttribute
    <2>2. DataOf(f, n).unnamed = TRUE /\ DataOf(f, n).first = (n = f.data_in) /\ StreamOf(f, n).unnamed = FALSE
      BY DEF DataOf, StreamOf
    <2>3. (\E e \in Range(a) : e.type = "data" /\ e.unnamed /\ e.first) <=> ~f.dir /\ n = f.data_in
      BY <2>1, <2>2
    <2>4. QED BY <1>15, <2>3 DEF Says
  <1>20. r.tag = IF n = f.number /\ f.tag_fits THEN f.tag ELSE "none"
    <2>1. TagAttribute(f) \in Range(a) <=> n = f.number /\ f.tag # "none" /\ f.tag_fits
      BY <1>14, <1>16 DEF HasAttribute
    <2>2. QED BY <1>15, <2>1 DEF Says
  <1>21. r \in FileRecord
    BY <1>15 DEF Says
  <1>22. QED BY <1>2, <1>12, <1>13, <1>17, <1>18, <1>19, <1>20, <1>21 DEF OfRecord

-----------------------------------------------------------------------------
(* A volume nobody changed, all of which was read.                          *)
AllRead ==
    /\ GatheredOK /\ GotOK /\ TableIs
    /\ before = after
    /\ \A n \in Numbers : got[n] \in {"was", "is"}

LEMMA VolumeIs ==
    ASSUME AllRead
    PROVE  /\ Consistent(before) /\ root \in FileRef
           /\ \A f \in before : /\ f \in FileOnDisk
                                /\ \A n \in RecordNumbers(f) : n \in Numbers /\ n \in 0 .. Room - 1
                                /\ f.number \in RecordNumbers(f) /\ f.data_in \in RecordNumbers(f)
                                /\ \A i \in DOMAIN f.names : f.names[i].in \in RecordNumbers(f)
  <1>1. volume \in DOMAIN Volumes /\ Volumes[volume].before = Volumes[volume].after
    BY DEF AllRead, GatheredOK, before, after
  <1>2. Consistent(before)
    BY <1>1, ConsistentAssumption DEF before
  <1>3. before \subseteq FileOnDisk /\ root \in FileRef
    BY <1>1, VolumesAssumption DEF before, root
  <1>4. \A f \in before : \A n \in RecordNumbers(f) : n \in Numbers /\ n \in 0 .. Room - 1
    BY <1>2 DEF Consistent
  <1>5. QED BY <1>2, <1>3, <1>4 DEF RecordNumbers

(* A record is what its file has in it.                                     *)
RecordOf(r, f, n) ==
    /\ r.kind = IF n = f.number THEN "base" ELSE "extension"
    /\ r.base = IF n = f.number THEN <<>> ELSE Reference(f)
    /\ OfRecord(r.file, f, n)

LEMMA FoundSays ==
    ASSUME AllRead, NEW n \in Numbers
    PROVE  /\ \A f \in before : n \in RecordNumbers(f) => RecordOf(Found(n), f, n)
           /\ Found(n).kind # "nothing" => \E f \in before : n \in RecordNumbers(f)
  <1>1. PICK raw : raw = OnDisk(before, n)
    OBVIOUS
  <1>2. n \in Nat
    BY VolumesAssumption DEF Numbers
  <1>3. Found(n) = ParseRecord(raw)
    <2>1. got[n] \in {"was", "is"} /\ Volumes[volume].before = Volumes[volume].after
      BY DEF AllRead, before, after
    <2>2. volume \in DOMAIN Volumes
      BY DEF AllRead, GatheredOK
    <2>3. Found(n) = ParseRecord(Raws(volume, n)[got[n]])
      BY <2>1, <2>2 DEF Found, Record, ParsedRecords
    <2>4. Raws(volume, n)[got[n]] = raw
      BY <1>1, <2>1 DEF Raws, before
    <2>5. QED BY <2>3, <2>4
  <1>4. ASSUME NEW f \in before, n \in RecordNumbers(f) PROVE RecordOf(Found(n), f, n)
    <2>1. \A g \in before : n \in RecordNumbers(g) => g = f
      BY <1>4, VolumeIs DEF Consistent
    <2>2. raw = Raw(f, n)
      BY <1>1, <1>4, <2>1 DEF OnDisk
    <2>3. f \in FileOnDisk
      BY VolumeIs
    <2>4. OfRecord(Parsed(raw), f, n)
      BY <1>2, <2>2, <2>3, ParsedSays
    <2>5. raw.torn = FALSE /\ raw.in_use = TRUE /\ raw.base = (IF n = f.number THEN <<>> ELSE <<f.number, f.seq>>)
      BY <2>2 DEF Raw
    <2>6. PICK r : r = ParseRecord(raw)
      OBVIOUS
    <2>7. /\ r.kind = (IF raw.base = <<>> THEN "base" ELSE "extension") /\ r.base = raw.base
          /\ r.file = Parsed(raw)
      BY <2>5, <2>6 DEF ParseRecord
    <2>8. QED BY <1>3, <2>4, <2>5, <2>6, <2>7 DEF RecordOf, Reference
  <1>5. ASSUME ~ \E f \in before : n \in RecordNumbers(f) PROVE Found(n).kind = "nothing"
    <2>1. raw = Free
      BY <1>1, <1>5 DEF OnDisk
    <2>2. QED BY <1>3, <2>1 DEF ParseRecord, Free, Nothing
  <1>6. QED BY <1>4, <1>5

(* What folding an extension record in says of a file.                      *)
LEMMA FoldTells ==
    ASSUME NEW v, NEW t \in TableOf(v), NEW e \in ExtensionOf(v), NEW n \in 0 .. Room - 1, t[n] # NoFile,
           NEW q, q = t[n], NEW u, u = Fold(t, e)[n]
    PROVE  /\ e.base # <<n, q.seq>> => u = q
           /\ e.base = <<n, q.seq>> =>
                /\ u # NoFile /\ u.seq = q.seq /\ u.dir = q.dir /\ u.mtime = q.mtime
                /\ u.recall = q.recall /\ u.reparse = q.reparse
                /\ u.has_data <=> q.has_data \/ e.file.has_data
                /\ u.size = IF e.file.has_data THEN e.file.size ELSE q.size
                /\ u.allocated = IF e.file.has_data THEN e.file.allocated ELSE q.allocated
                /\ u.tag = IF e.file.tag # "none" THEN e.file.tag ELSE q.tag
  <1>1. t \in [0 .. Room - 1 -> FileRecord \cup {NoFile}] /\ q \in FileRecord /\ e.base \in FileRef
    BY DEF TableOf, EntryOf, ExtensionOf
  <1>2. PICK m \in Nat, s \in Nat : e.base = <<m, s>>
    BY <1>1 DEF FileRef
  <1>3. ASSUME e.base = <<n, q.seq>>
        PROVE  /\ u # NoFile /\ u.seq = q.seq /\ u.dir = q.dir /\ u.mtime = q.mtime
               /\ u.recall = q.recall /\ u.reparse = q.reparse
               /\ u.has_data <=> q.has_data \/ e.file.has_data
               /\ u.size = IF e.file.has_data THEN e.file.size ELSE q.size
               /\ u.allocated = IF e.file.has_data THEN e.file.allocated ELSE q.allocated
               /\ u.tag = IF e.file.tag # "none" THEN e.file.tag ELSE q.tag
    <2>1. e.base[1] = n /\ e.base[2] = q.seq /\ n < Room
      BY <1>3, VolumesAssumption
    <2>2. Holds(t, e.base)
      BY <2>1 DEF Holds
    <2>3. PICK w : w = [q EXCEPT
            !.names = @ \o e.file.names,
            !.has_data = @ \/ e.file.has_data,
            !.size = IF e.file.has_data THEN e.file.size ELSE @,
            !.allocated = IF e.file.has_data THEN e.file.allocated ELSE @,
            !.tag = IF e.file.tag # "none" THEN e.file.tag ELSE @]
      OBVIOUS
    <2>4. Fold(t, e) = [t EXCEPT ![n] = w]
      BY <1>1, <2>1, <2>2, <2>3 DEF Fold
    <2>5. u = w
      BY <1>1, <2>4
    <2>6. /\ w.seq = q.seq /\ w.dir = q.dir /\ w.mtime = q.mtime /\ w.kind = "file"
          /\ w.recall = q.recall /\ w.reparse = q.reparse
          /\ w.has_data = (q.has_data \/ e.file.has_data)
          /\ w.size = IF e.file.has_data THEN e.file.size ELSE q.size
          /\ w.allocated = IF e.file.has_data THEN e.file.allocated ELSE q.allocated
          /\ w.tag = IF e.file.tag # "none" THEN e.file.tag ELSE q.tag
      BY <1>1, <2>3 DEF FileRecord
    <2>7. w # NoFile
      BY <2>6 DEF NoFile
    <2>8. QED BY <2>5, <2>6, <2>7
  <1>4. ASSUME e.base # <<n, q.seq>> PROVE u = q
    <2>1. CASE Holds(t, e.base)
      <3>1. t[m].seq = s /\ m \in 0 .. Room - 1
        BY <1>2, <2>1, VolumesAssumption DEF Holds
      <3>2. m # n
        BY <1>2, <1>4, <3>1
      <3>3. PICK w : w = [t[m] EXCEPT
              !.names = @ \o e.file.names,
              !.has_data = @ \/ e.file.has_data,
              !.size = IF e.file.has_data THEN e.file.size ELSE @,
              !.allocated = IF e.file.has_data THEN e.file.allocated ELSE @,
              !.tag = IF e.file.tag # "none" THEN e.file.tag ELSE @]
        OBVIOUS
      <3>4. Fold(t, e) = [t EXCEPT ![m] = w]
        <4>1. e.base[1] = m
          BY <1>2
        <4>2. QED BY <1>1, <2>1, <3>1, <3>3, <4>1 DEF Fold
      <3>5. QED BY <1>1, <3>2, <3>4
    <2>2. CASE ~Holds(t, e.base)
      BY <2>2 DEF Fold
    <2>3. QED BY <2>1, <2>2
  <1>5. QED BY <1>3, <1>4

(* What the first base record and the extension records in ns say of file f *)
(* in entry q of the table.                                                 *)
EntryTells(q, f) ==
    /\ q # NoFile /\ q.seq = f.seq /\ q.dir = f.dir /\ q.mtime = f.mtime /\ q.recall = f.recall
    /\ q.reparse = (f.tag # "none")
    /\ q.tag = IF f.tag_fits THEN f.tag ELSE "none"
    /\ q.has_data => q.size = f.size /\ q.allocated = Allocated(f)

SizeIn(f, ns, k) == ~f.dir /\ (f.data_in = f.number \/ \E j \in 1 .. k : ns[j] = f.data_in)

LEMMA TagsAre ==
    ASSUME AllRead, NEW f \in before
    PROVE  TagOf(Reference(f)) = f.tag
  <1>1. f \in after /\ after = before
    BY DEF AllRead
  <1>2. ASSUME NEW g \in after, Reference(g) = Reference(f) PROVE g = f
    <2>1. g.number = f.number
      BY <1>2 DEF Reference
    <2>2. f.number \in RecordNumbers(f) \cap RecordNumbers(g)
      BY <1>1, <2>1, VolumeIs
    <2>3. QED BY <1>1, <2>2, VolumeIs DEF Consistent
  <1>3. (CHOOSE g \in after : Reference(g) = Reference(f)) = f
    BY <1>1, <1>2
  <1>4. QED BY <1>1, <1>3 DEF TagOf

(* An extension record folded into a file is one of its own.                *)
LEMMA ExtensionSays ==
    ASSUME AllRead, NEW f \in before, NEW m \in Numbers, Extends(m), Found(m).base = Reference(f)
    PROVE  OfRecord(Found(m).file, f, m) /\ m # f.number
  <1>1. Found(m).kind = "extension"
    BY DEF Extends
  <1>2. PICK g \in before : m \in RecordNumbers(g)
    BY <1>1, FoundSays
  <1>3. RecordOf(Found(m), g, m)
    BY <1>2, FoundSays
  <1>4. m # g.number /\ Reference(g) = Reference(f)
    BY <1>1, <1>3 DEF RecordOf
  <1>5. g.number = f.number
    BY <1>4 DEF Reference
  <1>6. g = f
    BY <1>5, VolumeIs DEF Consistent
  <1>7. QED BY <1>3, <1>4, <1>6 DEF RecordOf

LEMMA FoldedTells ==
    ASSUME AllRead, NEW f \in before
    PROVE  LET q == Folded(records, FoldOrder(extensions))[f.number]
           IN  EntryTells(q, f) /\ (~f.dir => q.has_data)
  <1>0. GatheredOK /\ GotOK /\ TableIs
    BY DEF AllRead
  <1>1. PICK n : n = f.number
    OBVIOUS
  <1>2. /\ n \in Numbers /\ n \in 0 .. Room - 1 /\ n \in RecordNumbers(f) /\ f \in FileOnDisk
        /\ f.data_in \in Numbers /\ f.data_in \in RecordNumbers(f) /\ f.data_in \in 0 .. Room - 1
    BY <1>1, VolumeIs
  <1>3. records[n] = Found(n).file /\ OfRecord(Found(n).file, f, n)
    <2>1. RecordOf(Found(n), f, n)
      BY <1>2, FoundSays
    <2>2. QED BY <1>0, <1>1, <1>2, <2>1 DEF RecordOf, TableIs
  <1>4. PICK ns, C : InOrder(ns, C) /\ FoldOrder(extensions) = [k \in 1 .. C |-> Extension(ns[k])]
    BY <1>0, FoldOrderInOrder
  <1>5. PICK all : all = FoldOrder(extensions)
    OBVIOUS
  <1>6. all \in Seq(ExtensionOf(volume)) /\ C \in Nat
    BY <1>0, <1>4, <1>5, FoldOrderIs DEF GatheredOK, InOrder
  <1>7. Len(all) = C /\ \A k \in 1 .. C : all[k] = Extension(ns[k])
    <2>1. DOMAIN all = 1 .. C /\ DOMAIN all = 1 .. Len(all) /\ Len(all) \in Nat
      BY <1>4, <1>5, <1>6, LenProperties
    <2>2. QED BY <1>4, <1>5, <1>6, <2>1
  <1>8. PICK h : FoldSteps(records, all, h) /\ \A i \in 0 .. Len(all) : h[i] \in TableOf(volume)
    BY <1>0, <1>6, FoldedBySteps DEF GatheredOK
  <1>9. /\ h[0] = records /\ Folded(records, all) = h[C]
        /\ \A k \in 1 .. C : h[k] = Fold(h[k - 1], Extension(ns[k])) /\ h[k - 1] \in TableOf(volume)
    BY <1>6, <1>7, <1>8 DEF FoldSteps
  <1> DEFINE Told(k) == EntryTells(h[k][n], f) /\ (SizeIn(f, ns, k) => h[k][n].has_data)
             T == {k \in 0 .. C : Told(k)}
  <1>10. Told(0)
    <2>1. PICK q : q = records[n]
      OBVIOUS
    <2>2. /\ q \in FileRecord /\ q.seq = f.seq /\ q.dir = f.dir /\ q.mtime = f.mtime /\ q.recall = f.recall
          /\ q.reparse = (f.tag # "none") /\ q.tag = (IF f.tag_fits THEN f.tag ELSE "none")
          /\ q.has_data => q.size = f.size /\ q.allocated = Allocated(f)
          /\ q.has_data <=> ~f.dir /\ n = f.data_in
      <3>1. f.dir \in BOOLEAN
        BY <1>2, FileTypes
      <3>2. QED BY <1>1, <1>3, <2>1, <3>1 DEF OfRecord
    <2>3. q # NoFile
      BY <2>2 DEF FileRecord, NoFile
    <2>4. SizeIn(f, ns, 0) => q.has_data
      BY <1>1, <2>2 DEF SizeIn
    <2>5. QED BY <1>9, <2>1, <2>2, <2>3, <2>4 DEF EntryTells
  <1>11. ASSUME NEW k \in 1 .. C, Told(k - 1) PROVE Told(k)
    <2>1. PICK m : m = ns[k]
      OBVIOUS
    <2>2. PICK e : e = Extension(m)
      OBVIOUS
    <2>3. /\ Extends(m) /\ m \in Numbers /\ e \in ExtensionOf(volume)
          /\ e.base = Found(m).base /\ e.file = Found(m).file
      <3>1. Extends(m) /\ m \in Numbers /\ e \in ExtensionOf(volume)
        BY <1>0, <1>4, <2>1, <2>2, ExtensionsInTable
      <3>2. QED BY <2>2, <3>1 DEF Extension
    <2>4. PICK t : t = h[k - 1]
      OBVIOUS
    <2>5. PICK q, u : q = t[n] /\ u = Fold(t, e)[n]
      OBVIOUS
    <2>6. t \in TableOf(volume) /\ h[k][n] = u /\ h[k - 1][n] = q
      BY <1>9, <2>1, <2>2, <2>4, <2>5
    <2>7. EntryTells(q, f) /\ (SizeIn(f, ns, k - 1) => q.has_data)
      BY <1>11, <2>6
    <2>8. t[n] # NoFile /\ q.seq = f.seq
      BY <2>5, <2>7 DEF EntryTells
    <2>9. SizeIn(f, ns, k) => SizeIn(f, ns, k - 1) \/ (~f.dir /\ m = f.data_in)
      <3>1. \A j \in 1 .. k : j \in 1 .. k - 1 \/ j = k
        BY <1>6
      <3>2. QED BY <2>1, <3>1 DEF SizeIn
    <2>10. CASE e.base # <<n, q.seq>>
      <3>1. u = q
        BY <1>2, <2>3, <2>5, <2>6, <2>8, <2>10, FoldTells
      <3>2. m # f.data_in \/ f.data_in = n
        <4>1. ASSUME m = f.data_in, f.data_in # n PROVE FALSE
          <5>1. RecordOf(Found(m), f, m)
            BY <1>2, <4>1, FoundSays
          <5>2. e.base = Reference(f)
            BY <1>1, <2>3, <4>1, <5>1 DEF RecordOf
          <5>3. QED BY <1>1, <2>8, <2>10, <5>2 DEF Reference
        <4>2. QED BY <4>1
      <3>3. SizeIn(f, ns, k) => SizeIn(f, ns, k - 1)
        BY <1>1, <2>9, <3>2 DEF SizeIn
      <3>4. QED BY <2>6, <2>7, <3>1, <3>3
    <2>11. CASE e.base = <<n, q.seq>>
      <3>1. /\ u # NoFile /\ u.seq = q.seq /\ u.dir = q.dir /\ u.mtime = q.mtime
            /\ u.recall = q.recall /\ u.reparse = q.reparse
            /\ u.has_data <=> q.has_data \/ e.file.has_data
            /\ u.size = IF e.file.has_data THEN e.file.size ELSE q.size
            /\ u.allocated = IF e.file.has_data THEN e.file.allocated ELSE q.allocated
            /\ u.tag = IF e.file.tag # "none" THEN e.file.tag ELSE q.tag
        BY <1>2, <2>3, <2>5, <2>6, <2>8, <2>11, FoldTells
      <3>2. OfRecord(e.file, f, m) /\ m # n
        <4>1. Found(m).base = Reference(f)
          BY <1>1, <2>3, <2>8, <2>11 DEF Reference
        <4>2. QED BY <1>1, <2>3, <4>1, ExtensionSays
      <3>3. /\ e.file.tag = "none"
            /\ e.file.has_data <=> ~f.dir /\ m = f.data_in
            /\ e.file.has_data => e.file.size = f.size /\ e.file.allocated = Allocated(f)
        BY <1>1, <3>2 DEF OfRecord
      <3>4. EntryTells(u, f)
        BY <2>7, <3>1, <3>3 DEF EntryTells
      <3>5. SizeIn(f, ns, k) => u.has_data
        BY <2>7, <2>9, <3>1, <3>3
      <3>6. QED BY <2>6, <3>4, <3>5
    <2>12. QED BY <2>10, <2>11
  <1>12. Told(C)
    <2>1. 0 \in T /\ \A k \in 1 .. C : k - 1 \in T => k \in T
      <3> HIDE DEF Told
      <3>1. QED BY <1>6, <1>10, <1>11
    <2> HIDE DEF T, Told
    <2>2. 0 .. C \subseteq T
      BY <1>6, <2>1, Induct
    <2>3. C \in T
      BY <1>6, <2>2
    <2>4. QED BY <2>3 DEF T
  <1>13. ~f.dir => SizeIn(f, ns, C)
    <2>1. CASE f.data_in = n
      BY <1>1, <2>1 DEF SizeIn
    <2>2. CASE f.data_in # n
      <3>1. RecordOf(Found(f.data_in), f, f.data_in)
        BY <1>2, FoundSays
      <3>2. Extends(f.data_in)
        BY <1>1, <1>2, <2>2, <3>1, VolumesAssumption DEF Extends, RecordOf
      <3>3. \E j \in 1 .. C : ns[j] = f.data_in
        BY <1>4, <3>2 DEF InOrder
      <3>4. QED BY <3>3 DEF SizeIn
    <2>3. QED BY <2>1, <2>2
  <1>14. QED BY <1>1, <1>5, <1>9, <1>12, <1>13

(* Completing the table: the tags that did not fit are asked for.           *)
LEMMA CompletedTells ==
    ASSUME AllRead, NEW f \in before, NEW q, q = Completed[f.number]
    PROVE  /\ f.number \in DOMAIN Completed
           /\ q # NoFile /\ q.seq = f.seq /\ q.dir = f.dir /\ q.mtime = f.mtime /\ q.recall = f.recall
           /\ f.number >= FirstUser => q.tag = f.tag
           /\ ~f.dir => q.size = f.size /\ q.allocated = Allocated(f)
  <1>1. PICK t : t = Folded(records, FoldOrder(extensions))
    OBVIOUS
  <1>2. GatheredOK
    BY DEF AllRead
  <1>3. t \in TableOf(volume)
    <2>1. FoldOrder(extensions) \in Seq(ExtensionOf(volume))
      BY <1>2, FoldOrderIs DEF GatheredOK
    <2>2. QED BY <1>1, <1>2, <2>1, FoldedIs DEF GatheredOK
  <1>4. PICK n : n = f.number
    OBVIOUS
  <1>5. n \in 0 .. Room - 1 /\ n \in Nat
    <2>1. n \in 0 .. Room - 1
      BY <1>4, VolumeIs
    <2>2. QED BY <2>1, VolumesAssumption
  <1>6. PICK e : e = t[n]
    OBVIOUS
  <1>7. EntryTells(e, f) /\ (~f.dir => e.has_data)
    BY <1>1, <1>4, <1>6, FoldedTells
  <1>8. e \in FileRecord /\ DOMAIN t = 0 .. Room - 1
    BY <1>3, <1>5, <1>6, <1>7 DEF TableOf, EntryOf, EntryTells
  <1>9. <<n, e.seq>> = Reference(f)
    BY <1>4, <1>7 DEF EntryTells, Reference
  <1>10. TagOf(<<n, e.seq>>) = f.tag
    BY <1>9, TagsAre
  <1>11. PICK u : u = [e EXCEPT !.tag = TagOf(<<n, e.seq>>)]
    OBVIOUS
  <1>12. q = IF n >= FirstUser /\ e # NoFile /\ e.tag = "none" /\ e.reparse THEN u ELSE e
    <2>1. q = Completed[n]
      BY <1>4
    <2>2. QED BY <1>1, <1>5, <1>6, <1>8, <1>11, <2>1 DEF Completed
  <1>13. /\ u.seq = e.seq /\ u.dir = e.dir /\ u.mtime = e.mtime /\ u.recall = e.recall /\ u.size = e.size
         /\ u.allocated = e.allocated /\ u.kind = "file" /\ u.tag = f.tag
    BY <1>8, <1>10, <1>11 DEF FileRecord
  <1>14. u # NoFile
    BY <1>13 DEF NoFile
  <1>15. n \in DOMAIN Completed
    BY <1>2, <1>5, CompletedIs DEF TableOf
  <1>16. n >= FirstUser => q.tag = f.tag
    <2>1. CASE e.tag = "none" /\ e.reparse
      BY <1>7, <1>12, <1>13, <2>1 DEF EntryTells
    <2>2. CASE ~(e.tag = "none" /\ e.reparse)
      <3>1. e.tag = f.tag
        BY <1>7, <2>2 DEF EntryTells
      <3>2. QED BY <1>12, <2>2, <3>1
    <2>3. QED BY <2>1, <2>2
  <1>17. q # NoFile /\ q.seq = e.seq /\ q.dir = e.dir /\ q.mtime = e.mtime /\ q.recall = e.recall
         /\ q.size = e.size /\ q.allocated = e.allocated
    BY <1>7, <1>12, <1>13, <1>14 DEF EntryTells
  <1>18. QED BY <1>4, <1>7, <1>15, <1>16, <1>17 DEF EntryTells

(* A file's names, but for its DOS names.                                   *)
ListedIn(f, d) == \E i \in DOMAIN f.names : ~f.names[i].dos /\ f.names[i].parent = d

LEMMA NamesTell ==
    ASSUME AllRead, NEW f \in before
    PROVE  \A d : d \in Range(Completed[f.number].names) <=> ListedIn(f, d)
  <1>0. GatheredOK /\ GotOK /\ TableIs
    BY DEF AllRead
  <1>1. PICK n, q, ref : n = f.number /\ q = Completed[n] /\ ref = Reference(f)
    OBVIOUS
  <1>2. n \in DOMAIN Completed /\ q # NoFile /\ ref = <<n, q.seq>> /\ n \in Numbers /\ n \in 0 .. Room - 1
    <2>1. n \in DOMAIN Completed /\ q # NoFile /\ q.seq = f.seq
      BY <1>1, CompletedTells
    <2>2. QED BY <1>1, <2>1, VolumeIs DEF Reference
  <1>3. PICK pl : Laid(n, q.names, NamesRead(n, ref), pl)
    BY <1>0, <1>1, <1>2, NamesLaid
  <1>4. q.names \in Seq(FileRef) /\ DOMAIN q.names = 1 .. Len(q.names)
    <2>1. q \in FileRecord
      BY <1>0, <1>1, <1>2, CompletedIs DEF TableOf, EntryOf
    <2>2. QED BY <2>1, LenProperties DEF FileRecord
  <1>5. \A d : d \in Range(q.names) <=> \E p \in NamesRead(n, ref) : NameAt(p) = d
    <2>1. /\ \A p \in NamesRead(n, ref) : \E x \in 1 .. Len(q.names) : pl[x] = p
          /\ \A x \in 1 .. Len(q.names) : pl[x] \in NamesRead(n, ref) /\ NameAt(pl[x]) = q.names[x]
      BY <1>3 DEF Laid
    <2>2. QED BY <1>4, <2>1 DEF Range
  <1>6. ASSUME NEW p \in NamesRead(n, ref) PROVE ListedIn(f, NameAt(p))
    <2>1. PICK m \in Numbers : /\ m < Room /\ Found(m).kind # "nothing" /\ (m = n \/ Found(m).base = ref)
                               /\ p \in {<<m, i>> : i \in DOMAIN Found(m).file.names}
      BY <1>6 DEF NamesRead, Found
    <2>2. OfRecord(Found(m).file, f, m)
      <3>1. CASE m = n
        BY <1>1, <1>2, <3>1, FoundSays, VolumeIs DEF RecordOf
      <3>2. CASE m # n
        <4>1. Found(m).base = ref /\ ref # <<>>
          BY <1>2, <2>1, <3>2
        <4>2. PICK g \in before : m \in RecordNumbers(g) /\ RecordOf(Found(m), g, m)
          BY <2>1, FoundSays
        <4>3. Extends(m)
          BY <2>1, <4>1, <4>2 DEF RecordOf, Extends
        <4>4. QED BY <1>1, <4>1, <4>3, ExtensionSays
      <3>3. QED BY <3>1, <3>2
    <2>3. NameAt(p) \in Range(Found(m).file.names)
      BY <2>1 DEF NameAt, Found, Range
    <2>4. QED BY <2>2, <2>3 DEF OfRecord, ListedIn
  <1>7. ASSUME NEW d, ListedIn(f, d) PROVE \E p \in NamesRead(n, ref) : NameAt(p) = d
    <2>1. PICK i \in DOMAIN f.names : ~f.names[i].dos /\ f.names[i].parent = d
      BY <1>7 DEF ListedIn
    <2>2. PICK m : m = f.names[i].in
      OBVIOUS
    <2>3. m \in RecordNumbers(f) /\ m \in Numbers /\ m \in 0 .. Room - 1
      BY <2>1, <2>2, VolumeIs
    <2>4. RecordOf(Found(m), f, m)
      BY <2>3, FoundSays
    <2>5. d \in Range(Found(m).file.names)
      BY <2>1, <2>2, <2>4 DEF RecordOf, OfRecord
    <2>6. PICK j \in DOMAIN Found(m).file.names : Found(m).file.names[j] = d
      BY <2>5 DEF Range
    <2>7. Found(m).kind # "nothing" /\ (m = n \/ Found(m).base = ref) /\ m < Room
      BY <1>1, <2>3, <2>4, VolumesAssumption DEF RecordOf
    <2>8. <<m, j>> \in NamesRead(n, ref)
      BY <2>3, <2>6, <2>7 DEF NamesRead, Found
    <2>9. NameAt(<<m, j>>) = d
      BY <2>6 DEF NameAt, Found
    <2>10. QED BY <2>8, <2>9
  <1>8. QED BY <1>1, <1>5, <1>6, <1>7

(* An entry of the table is counted as its file is listed.                  *)
LEMMA EntryCounted ==
    ASSUME AllRead, NEW f \in before, f.number >= FirstUser, NEW q, q = Completed[f.number]
    PROVE  /\ Kind(q) = Kind(Listed(f))
           /\ Kind(q) = "File" => CountedSize(q) = CountedSize(Listed(f))
  <1>1. /\ q.dir = f.dir /\ q.recall = f.recall /\ q.tag = f.tag
        /\ ~f.dir => q.size = f.size /\ q.allocated = Allocated(f)
    BY CompletedTells
  <1>2. PICK l : l = Listed(f)
    OBVIOUS
  <1>3. l.dir = f.dir /\ l.tag = f.tag /\ l.recall = f.recall /\ l.size = f.size /\ l.allocated = Allocated(f)
    BY <1>2 DEF Listed, Allocated
  <1>4. Kind(q) = Kind(l)
    BY <1>1, <1>3 DEF Kind, IsSurrogate
  <1>5. Kind(q) = "File" => ~f.dir
    <2>1. f.dir \in BOOLEAN
      BY VolumeIs, FileTypes
    <2>2. CASE IsSurrogate(q)
      BY <2>2 DEF Kind
    <2>3. CASE ~IsSurrogate(q) /\ q.dir
      BY <2>3 DEF Kind
    <2>4. QED BY <1>1, <2>1, <2>2, <2>3
  <1>6. Kind(q) = "File" => CountedSize(q) = CountedSize(l)
    BY <1>1, <1>3, <1>5 DEF CountedSize, NotHere
  <1>7. QED BY <1>2, <1>4, <1>6

(* Whatever is in the table is a file's.                                    *)
LEMMA EntryOfFile ==
    ASSUME AllRead, NEW n \in Files(Completed)
    PROVE  \E f \in before : n = f.number /\ n >= FirstUser /\ Reference(f) = <<n, Completed[n].seq>>
  <1>1. n \in DOMAIN Completed /\ n >= FirstUser /\ Completed[n] # NoFile
    BY DEF Files
  <1>2. Completed[n] \in EntryOf(volume, n)
    BY <1>1, CompletedIs DEF TableOf, AllRead
  <1>3. FilesEver(volume) = before
    BY DEF AllRead, FilesEver, before, after
  <1>4. PICK f \in before : Reference(f) = <<n, Completed[n].seq>>
    BY <1>2, <1>3 DEF EntryOf
  <1>5. n = f.number
    BY <1>4 DEF Reference
  <1>6. QED BY <1>1, <1>4, <1>5

-----------------------------------------------------------------------------
(* The folders the walk of a volume's listings looks into, step by step.    *)
WalksTo(files, r, h) ==
    h = [i \in 0 .. Room |-> IF i = 0 THEN {r} ELSE LookedInto(files, h[i - 1])]

WalkSteps(files, r, h) ==
    /\ h[0] = {r}
    /\ \A i \in 1 .. Room : h[i] = LookedInto(files, h[i - 1])
    /\ Walked(files, r) = h[Room]

LEMMA WalkedBySteps ==
    ASSUME NEW files, files \subseteq FileOnDisk, NEW r \in FileRef
    PROVE  \E h : WalkSteps(files, r, h)
  <1> DEFINE n == Room
             S == SUBSET FileRef
             step == [s \in S |-> [i \in 1 .. n |-> LookedInto(files, s)]]
  <1>1. n \in Nat
    BY VolumesAssumption
  <1>2. \A s \in S : LookedInto(files, s) \in S
    <2>1. \A f \in files : Reference(f) \in FileRef
      BY FileTypes DEF Reference, FileRef
    <2>2. ASSUME NEW s \in S, NEW d \in LookedInto(files, s) PROVE d \in FileRef
      <3>1. d \in s \/ \E f \in files : d = Reference(f)
        BY DEF LookedInto, Listing
      <3>2. QED BY <2>1, <3>1
    <2>3. QED BY <2>2
  <1>5. {r} \in S
    OBVIOUS
  <1> HIDE DEF S, n
  <1>3. step \in [S -> [1 .. n -> S]]
    BY <1>2
  <1>4. \A s \in S, i \in 1 .. n : step[s][i] = LookedInto(files, s)
    OBVIOUS
  <1> HIDE DEF step
  <1>6. \E h : WalksTo(files, r, h)
    <2>1. PICK h : Stepped(h, S, {r}, n, step)
      BY <1>1, <1>3, <1>5, Steps
    <2>2. h \in [0 .. n -> S] /\ h[0] = {r} /\ \A i \in 1 .. n : h[i] = step[h[i - 1]][i]
      BY <2>1 DEF Stepped
    <2>3. ASSUME NEW i \in 0 .. n
          PROVE  h[i] = IF i = 0 THEN {r} ELSE LookedInto(files, h[i - 1])
      <3>1. CASE i = 0
        BY <2>2, <3>1
      <3>2. CASE i # 0
        <4>1. i \in 1 .. n /\ i - 1 \in 0 .. n
          BY <1>1, <3>2
        <4>2. h[i - 1] \in S
          BY <2>2, <4>1
        <4>3. QED BY <1>4, <2>2, <3>2, <4>1, <4>2
      <3>3. QED BY <3>1, <3>2
    <2>4. h = [i \in 0 .. n |-> h[i]]
      BY <2>2
    <2>5. WalksTo(files, r, h)
      BY <2>3, <2>4 DEF WalksTo, n
    <2>6. QED BY <2>5
  <1> DEFINE h == CHOOSE h : WalksTo(files, r, h)
  <1>7. WalksTo(files, r, h)
    BY <1>6
  <1>8. Walked(files, r) = h[n]
    BY DEF Walked, WalksTo, n
  <1> HIDE DEF h
  <1>9. h[0] = {r} /\ \A i \in 1 .. n : h[i] = LookedInto(files, h[i - 1])
    <2>1. \A i \in 0 .. n : h[i] = IF i = 0 THEN {r} ELSE LookedInto(files, h[i - 1])
      BY <1>7 DEF WalksTo, n
    <2>2. QED BY <1>1, <2>1
  <1>10. WalkSteps(files, r, h)
    BY <1>8, <1>9 DEF WalkSteps, n
  <1>11. QED BY <1>10

(* What is reached stays reached.                                           *)
LEMMA StaysReached ==
    ASSUME NEW files, NEW r, NEW h, WalkSteps(files, r, h), NEW i \in 0 .. Room, NEW d \in h[i]
    PROVE  d \in Walked(files, r)
  <1> DEFINE T == {k \in 0 .. Room - i : d \in h[i + k]}
  <1>1. Room \in Nat /\ Room - i \in Nat
    BY VolumesAssumption
  <1>2. 0 \in T
    BY <1>1
  <1>3. ASSUME NEW k \in 1 .. Room - i, k - 1 \in T PROVE k \in T
    <2>1. i + k \in 1 .. Room /\ (i + k) - 1 = i + (k - 1)
      BY <1>1
    <2>2. d \in h[(i + k) - 1]
      BY <1>3, <2>1
    <2>3. h[i + k] = LookedInto(files, h[(i + k) - 1])
      BY <2>1 DEF WalkSteps
    <2>4. d \in h[i + k]
      BY <2>2, <2>3 DEF LookedInto
    <2>5. QED BY <1>1, <2>4
  <1>4. 0 .. Room - i \subseteq T
    <2> HIDE DEF T
    <2>1. QED BY <1>1, <1>2, <1>3, Induct
  <1>5. d \in h[i + (Room - i)]
    BY <1>1, <1>4
  <1>6. QED BY <1>1, <1>5 DEF WalkSteps

(* The walk looks into the folders that are sent.                           *)
LEMMA SentWalked ==
    ASSUME AllRead, NEW t, NEW o, Whole(t, o)
    PROVE  Sent \subseteq Walked(before, root)
  <1>1. before \subseteq FileOnDisk /\ root \in FileRef
    BY VolumeIs
  <1>2. PICK h : WalkSteps(before, root, h)
    BY <1>1, WalkedBySteps
  <1>3. Len(o) \in Nat /\ Len(o) <= Room /\ Room \in Nat /\ o[1] = root[1] /\ t = Completed
    BY FewFolders, LenProperties, VolumesAssumption DEF Whole, OrderOf
  <1>4. PICK m \in Nat : m = Len(o)
    BY <1>3
  <1> DEFINE T == {i \in 0 .. m : \A j \in 1 .. i : Place(t, o, j) \in h[i]}
  <1>5. 0 \in T
    OBVIOUS
  <1>6. ASSUME NEW i \in 1 .. m, i - 1 \in T PROVE i \in T
    <2>1. h[i] = LookedInto(before, h[i - 1])
      BY <1>2, <1>3, <1>4 DEF WalkSteps
    <2>2. \A j \in 1 .. i - 1 : Place(t, o, j) \in h[i - 1]
      BY <1>6
    <2>3. \A j \in 1 .. i - 1 : Place(t, o, j) \in h[i]
      BY <2>1, <2>2 DEF LookedInto
    <2>4. Place(t, o, i) \in h[i]
      <3>1. CASE i = 1
        <4>1. Place(t, o, 1) = root
          <5>1. t[root[1]].seq = root[2] /\ root = <<root[1], root[2]>>
            BY <1>1 DEF Whole, Folder, Holds, FileRef
          <5>2. QED BY <1>3, <5>1 DEF Place
        <4>2. root \in h[0]
          BY <1>2 DEF WalkSteps
        <4>3. QED BY <2>1, <3>1, <4>1, <4>2 DEF LookedInto
      <3>2. CASE i # 1
        <4>1. FoundEarlier(t, o, i)
          <5>1. i \in 2 .. Len(o)
            BY <1>4, <3>2
          <5>2. QED BY <5>1 DEF Whole, OrderOf
        <4>2. PICK j \in 1 .. i - 1 : t[o[i]].names[1] = Place(t, o, j)
          BY <4>1 DEF FoundEarlier
        <4>3. PICK n : n = o[i]
          OBVIOUS
        <4>4. n \in Files(Completed) /\ Kind(t[n]) = "Directory" /\ t[n].names # <<>>
          BY <1>3, <4>1, <4>3 DEF FoundEarlier
        <4>5. PICK f \in before : n = f.number /\ n >= FirstUser /\ Reference(f) = <<n, t[n].seq>>
          BY <1>3, <4>4, EntryOfFile
        <4>6. Kind(Listed(f)) = "Directory"
          BY <1>3, <4>4, <4>5, EntryCounted
        <4>7. ListedIn(f, Place(t, o, j))
          <5>1. DOMAIN t[n].names = 1 .. Len(t[n].names) /\ Len(t[n].names) \in Nat /\ t[n].names \in Seq(FileRef)
            BY <1>3, <4>4, EntryNames DEF Whole
          <5>2. 1 \in DOMAIN t[n].names
            BY <4>4, <5>1
          <5>3. Place(t, o, j) \in Range(t[n].names)
            BY <4>2, <4>3, <5>2 DEF Range
          <5>4. QED BY <1>3, <4>5, <5>3, NamesTell
        <4>8. f \in Listing(before, Place(t, o, j))
          BY <4>7 DEF Listing, ListedIn
        <4>9. Reference(f) \in h[i]
          BY <2>1, <2>2, <4>6, <4>8 DEF LookedInto
        <4>10. QED BY <4>3, <4>5, <4>9 DEF Place
      <3>3. QED BY <3>1, <3>2
    <2>5. \A j \in 1 .. i : j \in 1 .. i - 1 \/ j = i
      OBVIOUS
    <2>6. QED BY <2>3, <2>4, <2>5
  <1>7. m \in T
    <2> HIDE DEF T
    <2>1. 0 .. m \subseteq T
      BY <1>5, <1>6, Induct
    <2>2. QED BY <2>1
  <1>8. ASSUME NEW ref \in Sent PROVE ref \in Walked(before, root)
    <2>1. PICK j \in 1 .. m : ref = Place(t, o, j)
      BY <1>4, SentIs
    <2>2. ref \in h[m]
      BY <1>7, <2>1
    <2>3. QED BY <1>2, <1>3, <1>4, <2>2, StaysReached
  <1>9. QED BY <1>8

(* It looks into no other.                                                  *)
LEMMA WalkedSent ==
    ASSUME AllRead, NEW t, NEW o, Whole(t, o)
    PROVE  Walked(before, root) \subseteq Sent
  <1>1. before \subseteq FileOnDisk /\ root \in FileRef /\ Consistent(before) /\ t = Completed
    BY VolumeIs DEF Whole
  <1>2. PICK h : WalkSteps(before, root, h)
    BY <1>1, WalkedBySteps
  <1>3. root \in Sent
    <2>1. t[root[1]].seq = root[2] /\ root = <<root[1], root[2]>> /\ o[1] = root[1]
      BY <1>1 DEF Whole, OrderOf, Folder, Holds, FileRef
    <2>2. Len(o) \in Nat /\ Len(o) >= 1
      BY LenProperties DEF Whole, OrderOf
    <2>3. 1 \in 1 .. Len(o) /\ root = Place(t, o, 1)
      BY <2>1, <2>2 DEF Place
    <2>4. QED BY <2>3, SentIs
  <1>4. ASSUME NEW d \in Sent, NEW g \in Listing(before, d), Kind(Listed(g)) = "Directory"
        PROVE  Reference(g) \in Sent
    <2>1. g \in before /\ ListedIn(g, d)
      BY DEF Listing, ListedIn
    <2>2. PICK i \in DOMAIN g.names : ~g.names[i].dos /\ g.names[i].parent = d
      BY <2>1 DEF ListedIn
    <2>3. CASE g.number < FirstUser
      BY <1>1, <1>4, <2>1, <2>2, <2>3 DEF Consistent
    <2>4. CASE ~(g.number < FirstUser)
      <3>1. PICK n, q : n = g.number /\ q = t[n]
        OBVIOUS
      <3>2. n >= FirstUser /\ n \in DOMAIN t /\ q # NoFile /\ Reference(g) = <<n, q.seq>>
        <4>1. n \in Nat /\ FirstUser \in Nat
          BY <1>1, <2>1, <3>1, FileTypes, VolumesAssumption
        <4>2. n \in DOMAIN t /\ q # NoFile /\ q.seq = g.seq
          BY <1>1, <2>1, <3>1, CompletedTells
        <4>3. QED BY <2>4, <3>1, <4>1, <4>2 DEF Reference
      <3>3. n \in Files(t) /\ Kind(q) = "Directory"
        <4>1. n \in Files(t)
          BY <3>1, <3>2 DEF Files
        <4>2. Kind(q) = Kind(Listed(g))
          BY <1>1, <2>1, <3>1, <3>2, EntryCounted
        <4>3. QED BY <1>4, <4>1, <4>2
      <3>4. q.names \in Seq(FileRef) /\ Len(q.names) \in Nat /\ DOMAIN q.names = 1 .. Len(q.names)
        BY <3>1, <3>3, EntryNames DEF Whole
      <3>5. \A e : e \in Range(q.names) <=> ListedIn(g, e)
        BY <1>1, <2>1, <3>1, NamesTell
      <3>6. g.dir
        <4>1. Listed(g).dir = g.dir /\ g.dir \in BOOLEAN
          BY <1>1, <2>1, FileTypes DEF Listed
        <4>2. CASE IsSurrogate(Listed(g))
          BY <1>4, <4>2 DEF Kind
        <4>3. CASE ~IsSurrogate(Listed(g)) /\ ~g.dir
          BY <1>4, <4>1, <4>3 DEF Kind
        <4>4. QED BY <4>1, <4>2, <4>3
      <3>7. \A e : ListedIn(g, e) => e = d
        BY <1>1, <2>1, <2>2, <3>6 DEF Consistent, ListedIn
      <3>8. q.names # <<>> /\ q.names[1] = d
        <4>1. PICK x \in DOMAIN q.names : q.names[x] = d
          BY <2>1, <3>5 DEF Range
        <4>2. 1 \in DOMAIN q.names
          BY <3>4, <4>1
        <4>3. q.names[1] \in Range(q.names)
          BY <4>2 DEF Range
        <4>4. q.names # <<>>
          BY <3>4, <4>2
        <4>5. QED BY <3>5, <3>7, <4>3, <4>4
      <3>9. PICK j \in 1 .. Len(o) : d = Place(t, o, j)
        BY SentIs
      <3>10. Folder(t, d) /\ d[1] = o[j] /\ DOMAIN o = 1 .. Len(o)
        BY <3>9, SentIs DEF Place
      <3>11. n \in Subfolders(t, o[j])
        BY <3>1, <3>3, <3>8, <3>10 DEF Subfolders
      <3>12. n \in Range(o)
        BY <3>11 DEF Whole
      <3>13. PICK k \in 1 .. Len(o) : o[k] = n
        BY <3>10, <3>12 DEF Range
      <3>14. Reference(g) = Place(t, o, k)
        BY <3>1, <3>2, <3>13 DEF Place
      <3>15. QED BY <3>14, SentIs
    <2>5. QED BY <2>3, <2>4
  <1> DEFINE T == {i \in 0 .. Room : h[i] \subseteq Sent}
  <1>5. Room \in Nat
    BY VolumesAssumption
  <1>6. 0 \in T
    BY <1>2, <1>3, <1>5 DEF WalkSteps
  <1>7. ASSUME NEW i \in 1 .. Room, i - 1 \in T PROVE i \in T
    <2>1. h[i] = LookedInto(before, h[i - 1]) /\ h[i - 1] \subseteq Sent
      BY <1>2, <1>7 DEF WalkSteps
    <2>2. h[i] \subseteq Sent
      BY <1>4, <2>1 DEF LookedInto
    <2>3. QED BY <1>5, <2>2
  <1>8. Room \in T
    <2> HIDE DEF T
    <2>1. 0 .. Room \subseteq T
      BY <1>5, <1>6, <1>7, Induct
    <2>2. QED BY <1>5, <2>1
  <1>9. QED BY <1>2, <1>8 DEF WalkSteps

-----------------------------------------------------------------------------
(* Folder for folder, file for file and date for date.                      *)
LEMMA FolderListed ==
    ASSUME AllRead, NEW t, NEW o, Whole(t, o)
    PROVE  Sent = Walked(before, root)
  BY SentWalked, WalkedSent

(* A file of the table, and the file of the volume it stands for.           *)
Stands(t, n, f) ==
    /\ n \in Files(t) /\ Kind(t[n]) = "File"
    /\ f \in before /\ Kind(Listed(f)) = "File"
    /\ n = f.number /\ Reference(f) = <<n, t[n].seq>> /\ t[n].mtime = f.mtime
    /\ CountedSize(t[n]) = CountedSize(Listed(f))
    /\ \A d : (\E x \in DOMAIN t[n].names : t[n].names[x] = d) <=> f \in Listing(before, d)

LEMMA FilesStand ==
    ASSUME AllRead, NEW t, t = Completed
    PROVE  /\ \A n \in Files(t) : Kind(t[n]) = "File" => \E f \in before : Stands(t, n, f)
           /\ \A f \in before : Kind(Listed(f)) = "File" => \E n \in Files(t) : Stands(t, n, f)
  <1>1. Consistent(before) /\ before \subseteq FileOnDisk
    BY VolumeIs
  <1>2. ASSUME NEW f \in before, f.number >= FirstUser, NEW n, n = f.number,
               Kind(t[n]) = "File" \/ Kind(Listed(f)) = "File"
        PROVE  Stands(t, n, f)
    <2>1. PICK q : q = t[n]
      OBVIOUS
    <2>2. n \in DOMAIN t /\ q # NoFile /\ q.seq = f.seq /\ q.mtime = f.mtime
      BY <1>2, <2>1, CompletedTells
    <2>3. n \in Files(t) /\ Reference(f) = <<n, q.seq>>
      BY <1>2, <2>1, <2>2 DEF Files, Reference
    <2>4. Kind(q) = Kind(Listed(f)) /\ (Kind(q) = "File" => CountedSize(q) = CountedSize(Listed(f)))
      BY <1>2, <2>1, EntryCounted
    <2>5. \A d : d \in Range(q.names) <=> ListedIn(f, d)
      BY <1>2, <2>1, NamesTell
    <2>6. \A d : (\E x \in DOMAIN q.names : q.names[x] = d) <=> f \in Listing(before, d)
      BY <2>5 DEF Range, ListedIn, Listing
    <2>7. QED BY <1>2, <2>1, <2>2, <2>3, <2>4, <2>6 DEF Stands
  <1>3. ASSUME NEW n \in Files(t), Kind(t[n]) = "File" PROVE \E f \in before : Stands(t, n, f)
    <2>1. PICK f \in before : n = f.number /\ n >= FirstUser
      BY EntryOfFile
    <2>2. QED BY <1>2, <1>3, <2>1
  <1>4. ASSUME NEW f \in before, Kind(Listed(f)) = "File" PROVE \E n \in Files(t) : Stands(t, n, f)
    <2>1. ~f.dir
      <3>1. Listed(f).dir = f.dir /\ f.dir \in BOOLEAN
        BY <1>1, FileTypes DEF Listed
      <3>2. CASE IsSurrogate(Listed(f))
        BY <1>4, <3>2 DEF Kind
      <3>3. CASE ~IsSurrogate(Listed(f)) /\ f.dir
        BY <1>4, <3>1, <3>3 DEF Kind
      <3>4. QED BY <3>1, <3>2, <3>3
    <2>2. ~(f.number < FirstUser) /\ f.number \in Nat /\ FirstUser \in Nat
      BY <1>1, <2>1, FileTypes, VolumesAssumption DEF Consistent
    <2>3. f.number >= FirstUser
      BY <2>2
    <2>4. Stands(t, f.number, f)
      BY <1>2, <1>4, <2>3
    <2>5. QED BY <2>4 DEF Stands
  <1>5. QED BY <1>3, <1>4

LEMMA FilesCounted ==
    ASSUME AllRead, NEW t, NEW o, Whole(t, o)
    PROVE  UNION {sent[i].files : i \in DOMAIN sent} =
             {[file |-> Reference(f), size |-> CountedSize(Listed(f))] :
                f \in {g \in WalkedFiles(before, root) : CountedSize(Listed(g)) > 0}}
  <1>1. t = Completed
    BY DEF Whole
  <1>2. PICK W : W = WalkedFiles(before, root)
    OBVIOUS
  <1>3. \A f : f \in W <=> (\E d \in Sent : f \in Listing(before, d)) /\ Kind(Listed(f)) = "File"
    BY <1>2, FolderListed DEF WalkedFiles
  <1>4. \A name : Leads(t, o, name) <=> name \in Sent
    BY SentIs DEF Leads, Place
  <1>5. ASSUME NEW i \in DOMAIN sent, NEW c \in sent[i].files
        PROVE  \E f \in W : /\ CountedSize(Listed(f)) > 0
                            /\ c = [file |-> Reference(f), size |-> CountedSize(Listed(f))]
    <2>1. PICK ref : ref = sent[i].dir
      OBVIOUS
    <2>2. ref \in Sent /\ c \in CountedIn(t, o, ref)
      BY <1>5, <2>1, SentIs DEF Sent
    <2>3. PICK n \in Files(t) : /\ Kind(t[n]) = "File" /\ CountedSize(t[n]) > 0 /\ FirstLeads(t, o, n, ref)
                                /\ c = [file |-> <<n, t[n].seq>>, size |-> CountedSize(t[n])]
      BY <2>2 DEF CountedIn
    <2>4. PICK f \in before : Stands(t, n, f)
      BY <1>1, <2>3, FilesStand
    <2>5. PICK L : L = Leading(t, o, n)
      OBVIOUS
    <2>6. L # {} /\ L \subseteq DOMAIN t[n].names /\ t[n].names[Min(L)] = ref
      BY <2>3, <2>5 DEF FirstLeads, Leading
    <2>7. L \subseteq Nat
      BY <1>1, <2>3, <2>6, EntryNames DEF Whole
    <2>8. Min(L) \in DOMAIN t[n].names
      BY <2>6, <2>7, LeastOf
    <2>9. f \in Listing(before, ref)
      BY <2>4, <2>6, <2>8 DEF Stands
    <2>10. f \in W
      BY <1>3, <2>2, <2>4, <2>9 DEF Stands
    <2>11. QED BY <2>3, <2>4, <2>10 DEF Stands
  <1>6. ASSUME NEW f \in W, CountedSize(Listed(f)) > 0
        PROVE  \E i \in DOMAIN sent :
                 [file |-> Reference(f), size |-> CountedSize(Listed(f))] \in sent[i].files
    <2>1. PICK d \in Sent : f \in Listing(before, d)
      BY <1>3
    <2>2. f \in before /\ Kind(Listed(f)) = "File"
      BY <1>3, <2>1 DEF Listing
    <2>3. PICK n \in Files(t) : Stands(t, n, f)
      BY <1>1, <2>2, FilesStand
    <2>4. PICK L : L = Leading(t, o, n)
      OBVIOUS
    <2>5. PICK x \in DOMAIN t[n].names : t[n].names[x] = d
      BY <2>1, <2>3 DEF Stands
    <2>6. x \in L
      BY <1>4, <2>4, <2>5 DEF Leading
    <2>7. L \subseteq Nat
      BY <1>1, <2>4, EntryNames DEF Whole, Leading
    <2>8. Min(L) \in L
      BY <2>6, <2>7, LeastOf
    <2>9. PICK ref : ref = t[n].names[Min(L)]
      OBVIOUS
    <2>10. ref \in Sent
      BY <1>4, <2>4, <2>8, <2>9 DEF Leading
    <2>11. FirstLeads(t, o, n, ref)
      BY <2>4, <2>6, <2>9 DEF FirstLeads
    <2>12. PICK i \in DOMAIN sent : sent[i].dir = ref
      BY <2>10 DEF Sent
    <2>13. sent[i].files = CountedIn(t, o, ref)
      BY <2>12, SentIs
    <2>14. [file |-> <<n, t[n].seq>>, size |-> CountedSize(t[n])] \in CountedIn(t, o, ref)
      BY <1>6, <2>3, <2>11 DEF CountedIn, Stands
    <2>15. QED BY <2>3, <2>13, <2>14 DEF Stands
  <1>7. UNION {sent[i].files : i \in DOMAIN sent} =
          {[file |-> Reference(f), size |-> CountedSize(Listed(f))] :
             f \in {g \in W : CountedSize(Listed(g)) > 0}}
    <2>1. ASSUME NEW c
          PROVE  c \in UNION {sent[i].files : i \in DOMAIN sent} <=>
                 c \in {[file |-> Reference(f), size |-> CountedSize(Listed(f))] :
                          f \in {g \in W : CountedSize(Listed(g)) > 0}}
      BY <1>5, <1>6
    <2>2. QED BY <2>1
  <1>8. QED BY <1>2, <1>7

LEMMA FoldersDated ==
    ASSUME AllRead, NEW t, NEW o, Whole(t, o)
    PROVE  [ref \in Sent |-> SentOf(ref).mtime] =
             [ref \in Walked(before, root) |->
                Newest({f.mtime : f \in Listing(before, ref) \cap WalkedFiles(before, root)})]
  <1>1. t = Completed
    BY DEF Whole
  <1>2. PICK W : W = WalkedFiles(before, root)
    OBVIOUS
  <1>3. \A f : f \in W <=> (\E d \in Sent : f \in Listing(before, d)) /\ Kind(Listed(f)) = "File"
    BY <1>2, FolderListed DEF WalkedFiles
  <1>4. \A name : Leads(t, o, name) <=> name \in Sent
    BY SentIs DEF Leads, Place
  <1>5. ASSUME NEW ref \in Sent PROVE SentOf(ref).mtime = Dated(t, o, ref)
    <2>1. \E i \in DOMAIN sent : sent[i].dir = ref
      BY DEF Sent
    <2>2. PICK i : i = CHOOSE j \in DOMAIN sent : sent[j].dir = ref
      OBVIOUS
    <2>3. i \in DOMAIN sent /\ sent[i].dir = ref /\ SentOf(ref) = sent[i]
      BY <2>1, <2>2 DEF SentOf
    <2>4. sent[i].mtime = Dated(t, o, Place(t, o, i))
      <3>1. PICK m \in Nat : m = Len(o)
        BY LenProperties DEF Whole, OrderOf
      <3>2. DOMAIN o = 1 .. m /\ i \in 1 .. m
        BY <2>3, <3>1, SentIs
      <3>3. sent = Events(t, o)
        BY DEF Whole
      <3>4. QED BY <3>2, <3>3 DEF Events, Place
    <2>5. Place(t, o, i) = ref
      BY <2>3, SentIs
    <2>6. QED BY <2>3, <2>4, <2>5
  <1>6. ASSUME NEW ref \in Sent
        PROVE  Dated(t, o, ref) = Newest({f.mtime : f \in Listing(before, ref) \cap W})
    <2> DEFINE M == {m \in Files(t) : Kind(t[m]) = "File" /\ \E i \in Leading(t, o, m) : t[m].names[i] = ref}
               A == {t[n].mtime : n \in M}
               B == {f.mtime : f \in Listing(before, ref) \cap W}
    <2>1. Dated(t, o, ref) = Newest(A)
      BY DEF Dated
    <2>2. ASSUME NEW n \in M PROVE t[n].mtime \in B
      <3>1. PICK f \in before : Stands(t, n, f)
        BY <1>1, FilesStand
      <3>2. PICK x \in DOMAIN t[n].names : t[n].names[x] = ref
        BY <2>2 DEF Leading
      <3>3. f \in Listing(before, ref)
        BY <3>1, <3>2 DEF Stands
      <3>4. f \in W /\ t[n].mtime = f.mtime
        BY <1>3, <3>1, <3>3 DEF Stands
      <3>5. QED BY <3>3, <3>4
    <2>3. ASSUME NEW f \in Listing(before, ref) \cap W PROVE f.mtime \in A
      <3>1. f \in before /\ Kind(Listed(f)) = "File"
        BY <1>3 DEF Listing
      <3>2. PICK n \in Files(t) : Stands(t, n, f)
        BY <1>1, <3>1, FilesStand
      <3>3. PICK x \in DOMAIN t[n].names : t[n].names[x] = ref
        BY <2>3, <3>2 DEF Stands
      <3>4. x \in Leading(t, o, n)
        BY <1>4, <3>3 DEF Leading
      <3>5. n \in M /\ t[n].mtime = f.mtime
        BY <3>2, <3>3, <3>4 DEF Stands
      <3>6. QED BY <3>5
    <2>4. A = B
      <3>1. A \subseteq B
        BY <2>2
      <3>2. B \subseteq A
        BY <2>3
      <3>3. QED BY <3>1, <3>2
    <2>5. QED BY <2>1, <2>4
  <1>7. PICK R : R = Walked(before, root)
    OBVIOUS
  <1>8. Sent = R
    BY <1>7, FolderListed
  <1>9. [ref \in Sent |-> SentOf(ref).mtime] =
          [ref \in R |-> Newest({f.mtime : f \in Listing(before, ref) \cap W})]
    <2>1. \A ref \in R : SentOf(ref).mtime = Newest({f.mtime : f \in Listing(before, ref) \cap W})
      BY <1>5, <1>6, <1>8
    <2>2. QED BY <1>8, <2>1
  <1>10. QED BY <1>2, <1>7, <1>9

LEMMA TreeWalked ==
    ASSUME AllRead, NEW t, NEW o, Whole(t, o)
    PROVE  /\ [ref \in Sent |-> SentOf(ref).mtime] = WalkSends[volume].folders
           /\ UNION {sent[i].files : i \in DOMAIN sent} = WalkSends[volume].files
  <1>1. volume \in DOMAIN Volumes
    BY DEF AllRead, GatheredOK
  <1>2. PICK folders, files :
          /\ folders = [ref \in Walked(before, root) |->
                          Newest({f.mtime : f \in Listing(before, ref) \cap WalkedFiles(before, root)})]
          /\ files = {[file |-> Reference(f), size |-> CountedSize(Listed(f))] :
                        f \in {g \in WalkedFiles(before, root) : CountedSize(Listed(g)) > 0}}
    OBVIOUS
  <1>3. WalkSends[volume] = [folders |-> folders, files |-> files]
    BY <1>1, <1>2 DEF WalkSends, before, root
  <1>4. WalkSends[volume].folders = folders /\ WalkSends[volume].files = files
    BY <1>3
  <1>5. QED BY <1>2, <1>4, FilesCounted, FoldersDated

-----------------------------------------------------------------------------
(* What a read that isn't torn found is whole.                              *)
GotWhole == \A i \in gathered : i \notin torn => \A n \in Covers(i) : got[n] \in {"was", "is"}

(* The reads cover every record there is.                                   *)
LEMMA ReadsCover ==
    ASSUME NEW n \in Numbers
    PROVE  \E i \in Read : n \in Covers(i)
  <1> DEFINE T == {k \in 0 .. Reads : n < k * PerRead => \E i \in 0 .. k - 1 : n \in Covers(i)}
  <1>1. Reads \in Nat /\ PerRead \in Nat /\ Reads * PerRead \in Nat
    BY VolumesAssumption, ReadersAssumption
  <1>2. n \in Nat /\ n < Reads * PerRead
    BY <1>1 DEF Numbers
  <1>3. 0 \in T
    <2>1. 0 * PerRead = 0
      BY <1>1
    <2>2. QED BY <1>1, <1>2, <2>1
  <1>4. ASSUME NEW k \in 1 .. Reads, k - 1 \in T PROVE k \in T
    <2>1. PICK j \in Nat : j = k - 1
      BY <1>1
    <2>2. k = j + 1 /\ j \in 0 .. k - 1 /\ k \in 0 .. Reads
      BY <1>1, <2>1
    <2>3. CASE n < j * PerRead
      <3>1. PICK i \in 0 .. j - 1 : n \in Covers(i)
        BY <1>4, <2>1, <2>3
      <3>2. i \in 0 .. k - 1
        BY <2>2
      <3>3. QED BY <2>2, <3>1, <3>2
    <2>4. CASE ~(n < j * PerRead)
      <3>1. Covers(j) = j * PerRead .. k * PerRead - 1
        BY <2>2 DEF Covers
      <3>2. j * PerRead \in Nat /\ k * PerRead \in Nat
        BY <1>1, <2>1
      <3>3. n < k * PerRead => n \in Covers(j)
        BY <1>2, <2>4, <3>1, <3>2
      <3>4. QED BY <2>2, <3>3
    <2>5. QED BY <2>3, <2>4
  <1>5. 0 .. Reads \subseteq T
    <2> HIDE DEF T
    <2>1. QED BY <1>1, <1>3, <1>4, Induct
  <1>6. \E i \in 0 .. Reads - 1 : n \in Covers(i)
    BY <1>1, <1>2, <1>5
  <1>7. QED BY <1>6 DEF Read

(* What is gathered of a read keeps what the read found.                    *)
LEMMA InsertGotWhole ==
    ASSUME GotWhole, GotOK, IInv, NEW i \in Read, Insert(i)
    PROVE  GotWhole'
  <1>1. PICK found \in MayRead(i) : got' = [n \in Numbers |-> IF n \in Covers(i) THEN found[n] ELSE got[n]]
    BY DEF Insert
  <1>2. gathered' = gathered \cup {i} /\ torn' = torn /\ gathered \subseteq Read
    BY DEF Insert, Gather, IInv, TableOK
  <1>3. ASSUME NEW j \in gathered', j \notin torn', NEW n \in Covers(j) PROVE got'[n] \in {"was", "is"}
    <2>1. j \in Read /\ j \notin torn
      BY <1>2, <1>3
    <2>2. n \in Numbers
      BY <2>1, CoversNumbers
    <2>3. CASE j = i
      <3>1. found \in [Covers(i) -> {"was", "is"}]
        BY <2>1, <2>3 DEF MayRead
      <3>2. got'[n] = found[n] /\ n \in Covers(i)
        BY <1>1, <1>3, <2>2, <2>3
      <3>3. QED BY <3>1, <3>2
    <2>4. CASE j # i
      <3>1. n \notin Covers(i) /\ j \in gathered
        BY <1>2, <1>3, <2>1, <2>4, CoversApart
      <3>2. got'[n] = got[n]
        BY <1>1, <2>2, <3>1
      <3>3. QED BY <1>3, <2>1, <3>1, <3>2 DEF GotWhole
    <2>5. QED BY <2>3, <2>4
  <1>4. QED BY <1>3 DEF GotWhole

(* A read that is torn stays so.                                            *)
LEMMA TornGrows ==
    /\ GatherFails \/ GatherEnds \/ Fail \/ Decide \/ Conclude \/ SetCancel => torn' = torn
    /\ \A r : ReaderStep(r) => torn \subseteq torn'
  <1>1. \A r : ReaderStep(r) => torn \subseteq torn'
    BY DEF ReaderStep, Open, Fails, Take, ReadWhole, ReadTorn, Send, gatherVars
  <1>2. QED BY <1>1 DEF GatherFails, GatherEnds, Fail, Decide, Conclude, SetCancel, gatherVars

LEMMA ScanNextGotWhole ==
    ASSUME TIInv, GotWhole, [ScanNext]_scanVars
    PROVE  GotWhole'
  <1>1. ASSUME got' = got, gathered' = gathered, torn \subseteq torn' PROVE GotWhole'
    BY <1>1 DEF GotWhole
  <1>2. ASSUME NEW i \in Read, Insert(i) PROVE GotWhole'
    BY <1>2, InsertGotWhole DEF TIInv
  <1>3. CASE (GatherFails \/ GatherEnds \/ Fail) /\ UNCHANGED tableVars
    BY <1>1, <1>3, OtherStepsGathered, TornGrows DEF tableVars
  <1>4. CASE BeginSending
    BY <1>1, <1>4, OtherStepsGathered, TornGrows DEF BeginSending
  <1>5. CASE SendEvent
    BY <1>1, <1>5 DEF SendEvent, vars
  <1>6. CASE EndScan
    BY <1>1, <1>6, OtherStepsGathered, TornGrows DEF EndScan, tableVars
  <1>7. ASSUME NEW r \in Reader, ReaderRuns(r) PROVE GotWhole'
    BY <1>1, <1>7, OtherStepsGathered, TornGrows DEF ReaderRuns, tableVars
  <1>8. CASE SetCancel /\ UNCHANGED tableVars
    BY <1>1, <1>8, OtherStepsGathered, TornGrows DEF tableVars
  <1>9. CASE UNCHANGED scanVars
    BY <1>1, <1>9 DEF scanVars, vars, tableVars
  <1>10. QED BY <1>2, <1>3, <1>4, <1>5, <1>6, <1>7, <1>8, <1>9 DEF ScanNext, GatherRuns

LEMMA GotWholeSame == TIInv /\ GotWhole => SameAsWalk
  <1> SUFFICES ASSUME TIInv, GotWhole, outcome = "Complete", before = after
               PROVE  /\ [ref \in Sent |-> SentOf(ref).mtime] = WalkSends[volume].folders
                      /\ UNION {sent[i].files : i \in DOMAIN sent} = WalkSends[volume].files
    BY DEF SameAsWalk
  <1>1. gather = "sending" /\ plan = <<>> /\ sent # <<>>
    BY DEF TIInv, RanOK, Ran
  <1>2. gathered = Read /\ torn = {}
    BY DEF TIInv, IInv, VerdictSound
  <1>3. \A n \in Numbers : got[n] \in {"was", "is"}
    BY <1>2, ReadsCover DEF GotWhole
  <1>4. AllRead
    BY <1>3 DEF AllRead, TIInv, SIInv
  <1>5. PICK t, o : Whole(t, o)
    <2>1. PICK S : sent \in Seq(S)
      BY DEF TIInv, SIInv, SendingOK
    <2>2. sent \o plan = sent
      BY <1>1, <2>1, ConcatEmptySeq
    <2>3. Folder(Completed, root) /\ sent = Events(Completed, Order(Completed, root[1]))
      BY <1>1, <2>2 DEF TIInv, AllSent
    <2>4. QED BY <2>3, WholeSent DEF TIInv, SIInv
  <1>6. QED BY <1>4, <1>5, TreeWalked

LEMMA InitGotWhole == ScanInit => GotWhole
  BY DEF ScanInit, Init, GotWhole

(* A scan by the MFT counts what the folder walk counts (windows/src/ntfs.rs, *)
(* module comment; windows/src/scan.rs, read_dir): if it is Complete and     *)
(* nobody changed the volume, it sent the folders the walk looks into, each  *)
(* as new, and the files the walk counts, each as large; whatever the order  *)
(* the reads came in, and however a file's attributes are spread over its    *)
(* records.                                                                 *)
THEOREM MftScanSameAsWalk == ScanSpec => []SameAsWalk
  <1>1. ScanInit => TIInv /\ GotWhole
    BY ScanInitTIInv, InitGotWhole
  <1>2. TIInv /\ GotWhole /\ [ScanNext]_scanVars => (TIInv /\ GotWhole)'
    BY ScanNextTIInv, ScanNextGotWhole
  <1>3. QED BY <1>1, <1>2, GotWholeSame, PTL DEF ScanSpec
=============================================================================
