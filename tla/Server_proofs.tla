--------------------------- MODULE Server_proofs ----------------------------
(***************************************************************************)
(* Scans never overlap, a server that is Done holds its scan's tree, and a  *)
(* page that says a scan is finished with nothing missing is of a scan      *)
(* whose ScanDone said so: for any number of scans, tabs and directories.   *)
(*                                                                         *)
(* The first invariant follows each relay.  While it has work to do the     *)
(* phase is its scan's, which one relay at most can be; and by the time it  *)
(* reads on past its first event, the ScanStart, the tree is its scan's.    *)
(***************************************************************************)
EXTENDS Server, TLAPS

Working == {"opening", "reading", "batch", "applying", "applied", "to_picker"}
Relays == Working \cup {"none", "signal_tree", "signal_picker", "gone"}
Scanners == {"none", "opening", "reading", "gone"}

ScanType == [scanner : Scanners, found : Nat, chan : Seq(Events),
             relay : Relays, batch : Seq(Events), cancel : BOOLEAN, complete : BOOLEAN]
TreeType == [scans : Nat, scan : Nat, dirs : Nat, complete : BOOLEAN, final : BOOLEAN]
Kinds == {"AwaitingPath", "AwaitingStart", "Running", "Done"}

Shapes ==
    /\ phase \in [kind : Kinds, scan : Nat]
    /\ starts \in Nat
    /\ scan \in [Scan -> ScanType]
    /\ tree \in TreeType

(* A scan that hasn't started has nothing yet.                              *)
Unstarted == \A s \in Scan : s > starts => scan[s] = NoScan

(* A relay with work to do has the phase.                                   *)
OwnsPhase == \A s \in Scan : scan[s].relay \in Working => phase = Phase("Running", s)

(* What the relay of s, in state r, can count on of its stream and the tree *)
(* of scan `held`: a ScanStart comes first, and then the tree is its own.   *)
InStream(s, r, held) ==
    /\ r.relay = "opening" /\ r.scanner = "reading" => r.chan # <<>>
    /\ r.relay = "opening" /\ r.chan # <<>> => Head(r.chan).kind = "ScanStart"
    /\ r.relay = "batch" => r.batch # <<>> /\ (held = s \/ Head(r.batch).kind = "ScanStart")
    /\ r.relay = "applying" => r.batch # <<>>
    /\ r.relay \in {"reading", "applied", "applying"} => held = s

StreamsOK == \A s \in Scan : InStream(s, scan[s], tree.scan)

IInv == Shapes /\ Unstarted /\ OwnsPhase /\ StreamsOK /\ DoneHoldsItsScan

-----------------------------------------------------------------------------
LEMMA InitIInv == Init => IInv
<1> SUFFICES ASSUME Init PROVE IInv
  OBVIOUS
<1> USE DEF Init
<1>0. NoScan \in ScanType BY DEF NoScan, ScanType, Scanners, Relays
<1>1. Shapes
  <2>1. phase \in [kind : Kinds, scan : Nat] BY DEF Phase, Kinds
  <2>2. tree \in TreeType BY DEF NoTree, TreeType
  <2> QED BY <1>0, <2>1, <2>2 DEF Shapes
<1>2. \A s \in Scan : scan[s] = NoScan OBVIOUS
<1>3. Unstarted BY <1>2 DEF Unstarted
<1>4. OwnsPhase BY <1>2 DEF OwnsPhase, NoScan, Working
<1>5. StreamsOK BY <1>2 DEF StreamsOK, InStream, NoScan
<1>6. DoneHoldsItsScan BY DEF DoneHoldsItsScan, Phase
<1> QED BY <1>1, <1>3, <1>4, <1>5, <1>6 DEF IInv

(* A step that leaves phase, tree and the other scans alone.                *)
LEMMA LocalStep ==
  ASSUME IInv, NEW s \in Scan, s <= starts, NEW r \in ScanType,
         scan' = [scan EXCEPT ![s] = r], UNCHANGED <<phase, starts, tree>>,
         r.relay \in Working => scan[s].relay \in Working,
         InStream(s, r, tree.scan)
  PROVE  IInv'
<1> USE DEF IInv
<1>1. scan' \in [Scan -> ScanType] BY DEF Shapes
<1>2. \A x \in Scan : scan'[x] = IF x = s THEN r ELSE scan[x] BY DEF Shapes
<1>3. Shapes' BY <1>1 DEF Shapes
<1>4. Unstarted' BY <1>2 DEF Unstarted, Shapes, Scan
<1>5. OwnsPhase' BY <1>2 DEF OwnsPhase
<1>6. StreamsOK' BY <1>2 DEF StreamsOK
<1>7. DoneHoldsItsScan' BY DEF DoneHoldsItsScan
<1> QED BY <1>3, <1>4, <1>5, <1>6, <1>7

(* Only a scan that has started does anything.                              *)
LEMMA Started ==
  ASSUME IInv, NEW s \in Scan, scan[s].scanner # "none" \/ scan[s].relay # "none"
  PROVE  s <= starts
  BY DEF IInv, Unstarted, Shapes, NoScan, Scan

(* The scanner's steps.                                                     *)
LEMMA EmitStep ==
  ASSUME IInv, NEW s \in Scan, NEW event \in Events, NEW next \in Scanners,
         scan[s].scanner \in {"opening", "reading"},
         scan[s].scanner = "opening" => event.kind = "ScanStart",
         Emit(s, event, next)
  PROVE  IInv'
<1> DEFINE r == [scan[s] EXCEPT !.scanner = next,
                     !.chan = IF scan[s].relay = "gone" THEN @ ELSE Append(@, event),
                     !.found = IF event.kind = "Dir" THEN @ + 1 ELSE @,
                     !.complete = event.complete]
<1>0. scan \in [Scan -> ScanType] BY DEF IInv, Shapes
<1>1. scan' = [scan EXCEPT ![s] = r] BY <1>0 DEF Emit, ScanType
<1>2. r \in ScanType
  <2> DEFINE chan == IF scan[s].relay = "gone" THEN scan[s].chan ELSE Append(scan[s].chan, event)
             found == IF event.kind = "Dir" THEN scan[s].found + 1 ELSE scan[s].found
  <2>1. scan[s].chan \in Seq(Events) /\ scan[s].found \in Nat BY <1>0 DEF ScanType
  <2>2. chan \in Seq(Events) /\ found \in Nat BY <2>1
  <2>3. event.complete \in BOOLEAN BY DEF Events
  <2>4. r = [scan[s] EXCEPT !.scanner = next, !.chan = chan, !.found = found,
                            !.complete = event.complete]
    BY <1>0 DEF ScanType
  <2> HIDE DEF chan, found, r
  <2> QED BY <1>0, <2>2, <2>3, <2>4 DEF ScanType
<1>3. UNCHANGED <<phase, starts, tree>> BY DEF Emit
<1>4. s <= starts BY Started
<1>5. r.relay = scan[s].relay /\ r.batch = scan[s].batch BY <1>0 DEF ScanType
<1>6. InStream(s, scan[s], tree.scan) BY DEF IInv, StreamsOK
<1>7. ASSUME r.relay = "opening" PROVE r.chan # <<>> /\ Head(r.chan).kind = "ScanStart"
  <2>1. r.chan = Append(scan[s].chan, event) BY <1>0, <1>5, <1>7 DEF ScanType
  <2>2. scan[s].chan \in Seq(Events) BY <1>0 DEF ScanType
  <2>3. CASE scan[s].chan = <<>>
    <3>1. event.kind = "ScanStart" BY <1>5, <1>6, <1>7, <2>3 DEF InStream
    <3> HIDE DEF r
    <3> QED BY <2>1, <2>2, <2>3, <3>1
  <2>4. CASE scan[s].chan # <<>>
    <3>1. Head(scan[s].chan).kind = "ScanStart" BY <1>5, <1>6, <1>7, <2>4 DEF InStream
    <3> HIDE DEF r
    <3>2. Head(r.chan) = Head(scan[s].chan) /\ r.chan # <<>> BY <2>1, <2>2, <2>4
    <3> QED BY <3>1, <3>2
  <2> QED BY <2>3, <2>4
<1>8. InStream(s, r, tree.scan)
  <2> HIDE DEF r
  <2> QED BY <1>5, <1>6, <1>7 DEF InStream
<1> HIDE DEF r
<1> QED BY <1>1, <1>2, <1>3, <1>4, <1>5, <1>8, LocalStep

LEMMA ScannerStep ==
  ASSUME IInv, NEW s \in Scan, Opens(s) \/ Reads(s) \/ Finishes(s) \/ Stops(s)
  PROVE  IInv'
<1>1. CASE Opens(s)
  BY <1>1, EmitStep DEF Opens, Event, Events, Scanners
<1>2. CASE Reads(s)
  BY <1>2, EmitStep DEF Reads, Event, Events, Scanners
<1>3. CASE Finishes(s)
  <2>1. PICK complete \in BOOLEAN : Emit(s, Event("ScanDone", complete), "gone")
    BY <1>3 DEF Finishes
  <2>2. Event("ScanDone", complete) \in Events BY DEF Event, Events
  <2>3. scan[s].scanner = "reading" BY <1>3 DEF Finishes
  <2> QED BY <2>1, <2>2, <2>3, EmitStep DEF Scanners
<1>4. CASE Stops(s)
  <2> DEFINE r == [scan[s] EXCEPT !.scanner = "gone"]
  <2>0. scan \in [Scan -> ScanType] BY DEF IInv, Shapes
  <2>1. scan' = [scan EXCEPT ![s] = r] BY <1>4, <2>0 DEF Stops, ScanType
  <2>2. r \in ScanType BY <2>0 DEF ScanType, Scanners
  <2>3. s <= starts BY <1>4, Started DEF Stops
  <2>4. InStream(s, r, tree.scan) BY <2>0 DEF IInv, StreamsOK, InStream, ScanType
  <2>5. r.relay = scan[s].relay BY <2>0 DEF ScanType
  <2>6. UNCHANGED <<phase, starts, tree>> BY <1>4 DEF Stops
  <2> HIDE DEF r
  <2> QED BY <2>1, <2>2, <2>3, <2>4, <2>5, <2>6, LocalStep
<1> QED BY <1>1, <1>2, <1>3, <1>4

-----------------------------------------------------------------------------
(* A relay's record with its batch let go, or taken.                        *)
LEMMA Cleared ==
  ASSUME NEW q \in ScanType, NEW to \in Relays
  PROVE  LET r == [q EXCEPT !.relay = to, !.batch = <<>>]
         IN  r \in ScanType /\ r.relay = to
<1>1. <<>> \in Seq(Events) OBVIOUS
<1> QED BY <1>1 DEF ScanType

LEMMA Drained ==
  ASSUME NEW q \in ScanType
  PROVE  [q EXCEPT !.relay = "batch", !.batch = q.chan, !.chan = <<>>] \in ScanType
<1>1. <<>> \in Seq(Events) OBVIOUS
<1> QED BY <1>1 DEF ScanType, Relays, Working

(* The relay's steps that leave the tree and the phase alone.               *)
LEMMA WaitStep ==
  ASSUME IInv, NEW s \in Scan,
         GiveUp(s) \/ NeverOpened(s) \/ Drain(s) \/ SignalTree(s) \/ SignalPicker(s)
  PROVE  IInv'
<1>0. scan \in [Scan -> ScanType] /\ InStream(s, scan[s], tree.scan)
  BY DEF IInv, Shapes, StreamsOK
<1>1. s <= starts
  BY Started DEF GiveUp, NeverOpened, Drain, SignalTree, SignalPicker
<1>2. CASE GiveUp(s)
  <2> DEFINE r == [scan[s] EXCEPT !.relay = "to_picker", !.cancel = TRUE]
  <2>1. scan' = [scan EXCEPT ![s] = r] BY <1>2, <1>0 DEF GiveUp, ScanType
  <2>2. r \in ScanType BY <1>0 DEF ScanType, Relays, Working
  <2>3. r.relay = "to_picker" BY <1>0 DEF ScanType
  <2>4. scan[s].relay = "opening" /\ UNCHANGED <<phase, starts, tree>> BY <1>2 DEF GiveUp
  <2> HIDE DEF r
  <2> QED BY <1>1, <2>1, <2>2, <2>3, <2>4, LocalStep DEF InStream, Working
<1>3. ASSUME NEW to \in Relays, RelayGoes(s, to), UNCHANGED <<phase, starts, tree>>,
             to \in Working => scan[s].relay \in Working,
             to \notin {"opening", "batch", "applying", "applied"},
             to = "reading" => tree.scan = s
      PROVE  IInv'
  <2> DEFINE r == [scan[s] EXCEPT !.relay = to, !.batch = <<>>]
  <2>1. scan' = [scan EXCEPT ![s] = r] BY <1>3, <1>0 DEF RelayGoes, ScanType
  <2>2. r \in ScanType /\ r.relay = to BY <1>0, Cleared
  <2> HIDE DEF r
  <2> QED BY <1>1, <1>3, <2>1, <2>2, LocalStep DEF InStream
<1>4. CASE NeverOpened(s)
  BY <1>3, <1>4 DEF NeverOpened, Relays, Working
<1>5. CASE SignalTree(s)
  <2>1. CASE scan[s].relay = "applied"
    BY <1>0, <1>3, <1>5, <2>1 DEF SignalTree, Relays, Working, InStream
  <2>2. CASE scan[s].relay = "signal_tree"
    BY <1>3, <1>5, <2>2 DEF SignalTree, Relays, Working
  <2> QED BY <1>5, <2>1, <2>2 DEF SignalTree
<1>6. CASE SignalPicker(s)
  BY <1>3, <1>6 DEF SignalPicker, Relays, Working
<1>7. CASE Drain(s)
  <2> DEFINE r == [scan[s] EXCEPT !.relay = "batch", !.batch = scan[s].chan, !.chan = <<>>]
  <2>1. scan' = [scan EXCEPT ![s] = r] BY <1>7, <1>0 DEF Drain, ScanType
  <2>2. r \in ScanType BY <1>0, Drained
  <2>3. r.relay = "batch" /\ r.batch = scan[s].chan BY <1>0 DEF ScanType
  <2>4. scan[s].relay \in {"opening", "reading"} /\ scan[s].chan # <<>>
        /\ UNCHANGED <<phase, starts, tree>>
    BY <1>7 DEF Drain
  <2> HIDE DEF r
  <2>5. InStream(s, r, tree.scan) BY <1>0, <2>3, <2>4 DEF InStream
  <2>6. scan[s].relay \in Working BY <2>4 DEF Working
  <2> QED BY <1>1, <2>1, <2>2, <2>4, <2>5, <2>6, LocalStep
<1> QED BY <1>2, <1>4, <1>5, <1>6, <1>7

(* A step of the relay of s, which has work to do, that may change the tree *)
(* and end the phase.                                                       *)
LEMMA OwnerStep ==
  ASSUME IInv, NEW s \in Scan, scan[s].relay \in Working,
         NEW r \in ScanType, scan' = [scan EXCEPT ![s] = r],
         UNCHANGED starts, phase' \in [kind : Kinds, scan : Nat], tree' \in TreeType,
         r.relay \in Working => phase' = phase,
         InStream(s, r, tree'.scan),
         DoneHoldsItsScan'
  PROVE  IInv'
<1> USE DEF IInv
<1>1. scan' \in [Scan -> ScanType] BY DEF Shapes
<1>2. \A x \in Scan : scan'[x] = IF x = s THEN r ELSE scan[x] BY DEF Shapes
<1>3. s <= starts BY Started DEF Working
<1>4. phase = Phase("Running", s) BY DEF OwnsPhase
<1>5. \A x \in Scan : x # s => scan[x].relay \notin Working
  <2>1. \A x \in Scan : x # s => Phase("Running", x) # Phase("Running", s) BY DEF Phase
  <2> QED BY <1>4, <2>1 DEF OwnsPhase
<1>6. Shapes' BY <1>1 DEF Shapes
<1>7. Unstarted' BY <1>2, <1>3 DEF Unstarted, Shapes, Scan
<1>8. OwnsPhase' BY <1>2, <1>4, <1>5 DEF OwnsPhase
<1>9. StreamsOK' BY <1>2, <1>5 DEF StreamsOK, InStream, Working
<1> QED BY <1>6, <1>7, <1>8, <1>9

(* What an event leaves of the tree is scan s's.                            *)
LEMMA AppliedOwn ==
  ASSUME IInv, NEW s \in Scan, scan[s].relay \in {"batch", "applying"},
         NEW event, event = Head(scan[s].batch)
  PROVE  /\ event \in Events
         /\ Applied(s, tree, event) \in TreeType
         /\ Applied(s, tree, event).scan = s
<1>0. scan[s] \in ScanType /\ tree \in TreeType /\ InStream(s, scan[s], tree.scan)
  BY DEF IInv, Shapes, StreamsOK
<1>1. scan[s].batch \in Seq(Events) /\ scan[s].batch # <<>> BY <1>0 DEF ScanType, InStream
<1>2. event \in Events BY <1>1
<1>3. s \in Nat BY DEF Scan
<1> DEFINE next == Applied(s, tree, event)
<1>4. ASSUME event.kind = "ScanStart" PROVE next \in TreeType /\ next.scan = s
  <2>1. next = [NoTree EXCEPT !.scans = tree.scans + 1, !.scan = s]
    BY <1>4 DEF Applied
  <2>2. next = [scans |-> tree.scans + 1, scan |-> s, dirs |-> 0,
                complete |-> FALSE, final |-> FALSE]
    BY <2>1 DEF NoTree
  <2>3. tree.scans + 1 \in Nat BY <1>0 DEF TreeType
  <2> HIDE DEF next
  <2> QED BY <1>3, <2>2, <2>3 DEF TreeType
<1>5. ASSUME event.kind # "ScanStart" PROVE next \in TreeType /\ next.scan = s
  <2>1. tree.scan = s BY <1>0, <1>5 DEF InStream
  <2>2. event.kind \in {"Dir", "ScanDone"} /\ event.complete \in BOOLEAN
    BY <1>2, <1>5 DEF Events
  <2>3. CASE event.kind = "Dir"
    BY <1>0, <2>1, <2>3 DEF Applied, TreeType
  <2>4. CASE event.kind = "ScanDone" BY <1>0, <2>1, <2>2, <2>4 DEF Applied, TreeType
  <2> QED BY <2>2, <2>3, <2>4
<1> QED BY <1>2, <1>4, <1>5

(* The end of a scan: its tree is shown, or the picker.                     *)
LEMMA EndStep ==
  ASSUME IInv, NEW s \in Scan, scan[s].relay \in Working,
         NEW tr \in TreeType, tr.scan = s, EndReading(s, tr)
  PROVE  IInv'
<1>0. scan \in [Scan -> ScanType] /\ phase = Phase("Running", s)
  BY DEF IInv, Shapes, OwnsPhase
<1>1. tree' \in TreeType /\ tree'.scan = s /\ tree'.final /\ tree'.dirs = tr.dirs
  BY DEF EndReading, TreeType
<1> DEFINE to == IF tr.dirs = 0 THEN "to_picker" ELSE "signal_tree"
           r == [scan[s] EXCEPT !.relay = to, !.batch = <<>>]
<1>2. to \in Relays BY DEF Relays, Working
<1>3. scan' = [scan EXCEPT ![s] = r] BY <1>0 DEF EndReading, RelayGoes, ScanType
<1>4. r \in ScanType /\ r.relay = to
  <2> HIDE DEF to
  <2> QED BY <1>0, <1>2, Cleared
<1>5. phase' = IF tr.dirs = 0 THEN phase ELSE Phase("Done", s)
  BY <1>0 DEF EndReading, EndPhase, Running
<1>6. phase' \in [kind : Kinds, scan : Nat] BY <1>0, <1>5 DEF Phase, Kinds, Scan
<1>7. DoneHoldsItsScan'
  BY <1>0, <1>1, <1>5 DEF DoneHoldsItsScan, Phase, TreeType
<1>8. r.relay \in Working => phase' = phase BY <1>4, <1>5 DEF Working
<1>9. InStream(s, r, tree'.scan) BY <1>1, <1>4 DEF InStream
<1>10. UNCHANGED starts BY DEF EndReading
<1> HIDE DEF r, to
<1> QED BY <1>1, <1>3, <1>4, <1>6, <1>7, <1>8, <1>9, <1>10, OwnerStep

LEMMA ApplyStep ==
  ASSUME IInv, NEW s \in Scan, ApplyEvent(s)
  PROVE  IInv'
<1> DEFINE event == Head(scan[s].batch)
           rest == Tail(scan[s].batch)
<1>0. scan \in [Scan -> ScanType] /\ InStream(s, scan[s], tree.scan)
  BY DEF IInv, Shapes, StreamsOK
<1>1. scan[s].relay \in {"batch", "applying"} BY DEF ApplyEvent
<1>2. Applied(s, tree, event) \in TreeType /\ Applied(s, tree, event).scan = s
  BY <1>1, AppliedOwn
<1>3. scan[s].relay \in Working BY <1>1 DEF Working
<1>4. CASE event.kind = "ScanDone"
  <2>1. EndReading(s, Applied(s, tree, event)) BY <1>4 DEF ApplyEvent
  <2> QED BY <1>2, <1>3, <2>1, EndStep
<1>5. CASE event.kind # "ScanDone"
  <2> DEFINE to == IF rest = <<>> THEN "applied" ELSE "applying"
             r == [scan[s] EXCEPT !.batch = rest, !.relay = to]
  <2>1. tree' = Applied(s, tree, event) /\ UNCHANGED <<phase, starts>>
        /\ scan' = [scan EXCEPT ![s].batch = rest, ![s].relay = to]
    BY <1>5 DEF ApplyEvent
  <2>2. scan' = [scan EXCEPT ![s] = r] BY <1>0, <2>1 DEF ScanType
  <2>3. rest \in Seq(Events)
    <3>1. scan[s].batch \in Seq(Events) /\ scan[s].batch # <<>>
      BY <1>0, <1>1 DEF ScanType, InStream
    <3> QED BY <3>1
  <2>4. to \in Relays BY DEF Relays, Working
  <2>5. r \in ScanType /\ r.relay = to /\ r.batch = rest BY <1>0, <2>3, <2>4 DEF ScanType
  <2>6. InStream(s, r, tree'.scan) BY <1>2, <2>1, <2>5 DEF InStream
  <2>7. phase = Phase("Running", s) BY <1>3 DEF IInv, OwnsPhase
  <2>8. DoneHoldsItsScan' BY <2>1, <2>7 DEF DoneHoldsItsScan, Phase
  <2>9. phase' \in [kind : Kinds, scan : Nat] BY <2>1 DEF IInv, Shapes
  <2> HIDE DEF r, to, rest, event
  <2> QED BY <1>2, <1>3, <2>1, <2>2, <2>5, <2>6, <2>8, <2>9, OwnerStep
<1> QED BY <1>4, <1>5

LEMMA GoneStep ==
  ASSUME IInv, NEW s \in Scan, ScannerGone(s)
  PROVE  IInv'
<1>1. scan[s].relay = "reading" /\ EndReading(s, tree) BY DEF ScannerGone
<1>2. tree \in TreeType /\ tree.scan = s
  BY <1>1 DEF IInv, Shapes, StreamsOK, InStream
<1> QED BY <1>1, <1>2, EndStep DEF Working

LEMMA PickerStep ==
  ASSUME IInv, NEW s \in Scan, ToPicker(s)
  PROVE  IInv'
<1>0. scan \in [Scan -> ScanType] /\ tree \in TreeType BY DEF IInv, Shapes
<1>1. scan[s].relay = "to_picker" BY DEF ToPicker
<1>2. phase = Phase("Running", s) BY <1>1 DEF IInv, OwnsPhase, Working
<1> DEFINE r == [scan[s] EXCEPT !.relay = "signal_picker", !.batch = <<>>]
<1>3. scan' = [scan EXCEPT ![s] = r] BY <1>0, <1>2 DEF ToPicker, RelayGoes, Running, ScanType
<1>4. r \in ScanType /\ r.relay = "signal_picker"
  <2>1. "signal_picker" \in Relays BY DEF Relays
  <2> QED BY <1>0, <2>1, Cleared
<1>5. phase' = Phase("AwaitingPath", s) /\ UNCHANGED <<starts, tree>>
  BY <1>2 DEF ToPicker, EndPhase, Running
<1>6. phase' \in [kind : Kinds, scan : Nat] BY <1>5 DEF Phase, Kinds, Scan
<1>7. DoneHoldsItsScan' BY <1>5 DEF DoneHoldsItsScan, Phase
<1>8. InStream(s, r, tree'.scan) BY <1>4 DEF InStream
<1>9. scan[s].relay \in Working /\ r.relay \notin Working BY <1>1, <1>4 DEF Working
<1> HIDE DEF r
<1> QED BY <1>0, <1>3, <1>4, <1>5, <1>6, <1>7, <1>8, <1>9, OwnerStep

-----------------------------------------------------------------------------
(* A scan starts only when no relay has work to do: none has the phase.     *)
LEMMA StartStep ==
  ASSUME IInv, Requests
  PROVE  IInv'
<1> DEFINE s == starts + 1
           r == [scan[s] EXCEPT !.scanner = "opening", !.relay = "opening"]
<1>1. PICK allowed \in {{"AwaitingStart"}, {"Done"}, {"AwaitingPath", "Done"}} : StartScan(allowed)
  BY DEF Requests, Start, Rescan, ScanPath
<1>2. phase.kind # "Running" BY <1>1 DEF StartScan
<1>3. s \in Scan /\ s \in Nat /\ starts \in Nat
  BY <1>1, BoundsAssumption DEF StartScan, IInv, Shapes, Scan
<1>4. scan \in [Scan -> ScanType] BY DEF IInv, Shapes
<1>5. scan[s] = NoScan BY <1>3 DEF IInv, Unstarted
<1>6. scan' = [scan EXCEPT ![s] = r] BY <1>1, <1>3, <1>4 DEF StartScan, ScanType
<1>7. r \in ScanType BY <1>3, <1>4 DEF ScanType, Scanners, Relays, Working
<1>8. r.relay = "opening" /\ r.scanner = "opening" /\ r.chan = <<>>
  BY <1>5 DEF NoScan
<1>9. starts' = s /\ phase' = Phase("Running", s) /\ tree' = tree BY <1>1 DEF StartScan
<1> HIDE DEF r
<1>10. \A x \in Scan : scan'[x] = IF x = s THEN r ELSE scan[x] BY <1>4, <1>6
<1>11. \A x \in Scan : scan[x].relay \notin Working
  BY <1>2 DEF IInv, OwnsPhase, Phase
<1>12. Shapes'
  <2>1. phase' \in [kind : Kinds, scan : Nat] BY <1>3, <1>9 DEF Phase, Kinds
  <2> QED BY <1>3, <1>4, <1>6, <1>7, <1>9, <2>1 DEF IInv, Shapes
<1>13. Unstarted' BY <1>3, <1>9, <1>10 DEF IInv, Unstarted, Scan
<1>14. OwnsPhase' BY <1>9, <1>10, <1>11 DEF OwnsPhase
<1>15. StreamsOK' BY <1>8, <1>9, <1>10 DEF IInv, StreamsOK, InStream
<1>16. DoneHoldsItsScan' BY <1>9 DEF DoneHoldsItsScan, Phase
<1> QED BY <1>12, <1>13, <1>14, <1>15, <1>16 DEF IInv

(* A tab only looks.                                                        *)
LEMMA TabsOnlyLook ==
  ASSUME NEW t \in Tab,
         \/ Connect(t) \/ Leave(t) \/ Serve(t)
         \/ \E look \in Look : SetView(t, look)
  PROVE  UNCHANGED <<phase, starts, scan, tree>>
  BY DEF Connect, Leave, Serve, SetView, Greet, Send, HearPicker, HearTree, LayoutDue, UpdateTab,
         TabStep

LEMMA StutterStep == IInv /\ UNCHANGED <<phase, starts, scan, tree>> => IInv'
  BY DEF IInv, Shapes, Unstarted, OwnsPhase, StreamsOK, DoneHoldsItsScan

LEMMA NextIInv == IInv /\ [Next]_vars => IInv'
<1> SUFFICES ASSUME IInv, [Next]_vars PROVE IInv'
  OBVIOUS
<1>1. CASE Requests BY <1>1, StartStep
<1>2. ASSUME NEW s \in Scan, Opens(s) \/ Reads(s) \/ Finishes(s) \/ Stops(s) PROVE IInv'
  BY <1>2, ScannerStep
<1>3. ASSUME NEW s \in Scan, Relay(s) PROVE IInv'
  BY <1>3, WaitStep, ApplyStep, GoneStep, PickerStep DEF Relay
<1>4. ASSUME NEW t \in Tab,
             \/ Connect(t) \/ Leave(t) \/ Serve(t)
             \/ \E look \in Look : SetView(t, look)
      PROVE IInv'
  BY <1>4, TabsOnlyLook, StutterStep
<1>5. CASE UNCHANGED vars BY <1>5, StutterStep DEF vars
<1> QED BY <1>1, <1>2, <1>3, <1>4, <1>5 DEF Next

LEMMA Inductive == Spec => []IInv
  BY InitIInv, NextIInv, PTL DEF Spec

(* A server that is Done holds the whole of what that scan found, its root  *)
(* at least (ScanPhase::Done).                                              *)
THEOREM ServerDoneHoldsItsScan == Spec => []DoneHoldsItsScan
<1>1. IInv => DoneHoldsItsScan BY DEF IInv
<1> QED BY <1>1, Inductive, PTL

(* Only the scan the server is running writes the tree (start_scan,         *)
(* relay_scan).                                                             *)
THEOREM ServerScansNeverOverlap == Spec => ScansNeverOverlap
<1>1. IInv /\ [Next]_vars =>
        [tree' # tree => phase.kind = "Running" /\ tree'.scan = phase.scan]_vars
  <2> SUFFICES ASSUME IInv, Next, tree' # tree
               PROVE  phase.kind = "Running" /\ tree'.scan = phase.scan
    OBVIOUS
  <2>1. PICK s \in Scan : ApplyEvent(s) \/ ScannerGone(s)
    <3>1. ~Requests BY DEF Requests, Start, Rescan, ScanPath, StartScan
    <3>2. \A s \in Scan : ~(Opens(s) \/ Reads(s) \/ Finishes(s) \/ Stops(s))
      BY DEF Opens, Reads, Finishes, Stops, Emit
    <3>3. \A s \in Scan : Relay(s) => ApplyEvent(s) \/ ScannerGone(s)
      BY DEF Relay, GiveUp, NeverOpened, Drain, SignalTree, ToPicker, SignalPicker
    <3> QED BY <3>1, <3>2, <3>3, TabsOnlyLook DEF Next
  <2>2. scan[s].relay \in Working
    BY <2>1 DEF ApplyEvent, ScannerGone, Working
  <2>3. phase = Phase("Running", s) BY <2>2 DEF IInv, OwnsPhase
  <2>4. tree'.scan = s
    <3>1. CASE ApplyEvent(s)
      <4> DEFINE event == Head(scan[s].batch)
      <4>1. scan[s].relay \in {"batch", "applying"} BY <3>1 DEF ApplyEvent
      <4>2. Applied(s, tree, event) \in TreeType /\ Applied(s, tree, event).scan = s
        BY <4>1, AppliedOwn
      <4>3. \/ tree' = Applied(s, tree, event)
            \/ tree' = [Applied(s, tree, event) EXCEPT !.final = TRUE]
        BY <3>1 DEF ApplyEvent, EndReading
      <4> HIDE DEF event
      <4> QED BY <4>2, <4>3 DEF TreeType
    <3>2. CASE ScannerGone(s)
      <4>1. tree \in TreeType /\ tree.scan = s
        BY <3>2 DEF ScannerGone, IInv, Shapes, StreamsOK, InStream
      <4> QED BY <3>2, <4>1 DEF ScannerGone, EndReading, TreeType
    <3> QED BY <2>1, <3>1, <3>2
  <2> QED BY <2>3, <2>4 DEF Phase
<1> QED BY <1>1, Inductive, PTL DEF Spec, ScansNeverOverlap

-----------------------------------------------------------------------------
(* The second invariant follows the word "complete" from the scanner to the *)
(* page: through the channel and the batch, the tree, the messages a tab's  *)
(* task has yet to send, and the page.  At each place it is the scan's own  *)
(* word, which nothing takes back: a scanner that gave it is gone.          *)
(*                                                                          *)
(* And a page hears of a scan before it is shown it: InOrder, below, says   *)
(* the same of the order of a tab's messages.                               *)

(* Events that claim no more than their scan does.                          *)
TrueEvents(complete) == {e \in Events : e.complete => complete}

StreamTold(r) ==
    /\ r.complete => r.scanner = "gone"
    /\ r.chan \in Seq(TrueEvents(r.complete))
    /\ r.batch \in Seq(TrueEvents(r.complete))

StreamsTold == \A s \in Scan : StreamTold(scan[s])

TreeTold == tree.complete => tree.scan \in Scan /\ scan[tree.scan].complete

Looks == Look \cup {NoLook}

Message ==
    [kind : {"none", "AwaitingStart"}]
        \cup [kind : {"PickerMode", "ScanStart"}, scan : Nat]
        \cup [kind : {"Layout"}, scan : Nat, dirs : Nat, look : Looks,
              done : BOOLEAN, partial : BOOLEAN, final : BOOLEAN]

Claims(m) == m.kind = "Layout" /\ m.done /\ ~m.partial

(* The messages that claim no more than the scan they are of.               *)
Honest == {m \in Message : Claims(m) => m.scan \in Scan /\ scan[m.scan].complete}

TabOf(messages) ==
    [pc : {"off", "subscribed", "select", "drawing"}, picker : Nat, tree : BOOLEAN,
     stale : BOOLEAN, scan : Nat, look : Looks,
     shown : {<<>>} \cup (Nat \X Nat \X Looks \X BOOLEAN),
     out : Seq(messages), page : messages, picking : BOOLEAN]

TabsTold == tab \in [Tab -> TabOf(Honest)]

Told == StreamsTold /\ TreeTold /\ TabsTold

-----------------------------------------------------------------------------
LEMMA EmptySeq == ASSUME NEW S PROVE <<>> \in Seq(S)
  OBVIOUS

LEMMA OneSeq == ASSUME NEW S, NEW x \in S PROVE <<x>> \in Seq(S)
  OBVIOUS

LEMMA LongerSeq ==
  ASSUME NEW S, NEW q \in Seq(S), NEW x \in S PROVE Append(q, x) \in Seq(S)
  OBVIOUS

LEMMA ShorterSeq ==
  ASSUME NEW S, NEW q \in Seq(S), q # <<>> PROVE Head(q) \in S /\ Tail(q) \in Seq(S)
  OBVIOUS

LEMMA WiderSeq == ASSUME NEW S, NEW T, S \subseteq T PROVE Seq(S) \subseteq Seq(T)
<1> SUFFICES ASSUME NEW q \in Seq(S) PROVE q \in Seq(T)
  OBVIOUS
<1>1. q \in [1 .. Len(q) -> S] /\ Len(q) \in Nat OBVIOUS
<1>2. q \in [1 .. Len(q) -> T] BY <1>1
<1> QED BY <1>1, <1>2

LEMMA NoMessageHonest == NoMessage \in Honest
  BY DEF NoMessage, Honest, Message, Claims

LEMMA NoTabTold == NoTab \in TabOf(Honest)
  BY NoMessageHonest, EmptySeq DEF NoTab, TabOf, Looks

LEMMA InitTold == Init => Told
<1> SUFFICES ASSUME Init PROVE Told
  OBVIOUS
<1>1. StreamTold(NoScan) BY EmptySeq DEF StreamTold, NoScan
<1>2. StreamsTold BY <1>1 DEF Init, StreamsTold
<1>3. TreeTold BY DEF Init, TreeTold, NoTree
<1>4. TabsTold BY NoTabTold DEF Init, TabsTold
<1> QED BY <1>2, <1>3, <1>4 DEF Told

LEMMA WiderTab ==
  ASSUME NEW S, NEW T, S \subseteq T PROVE [Tab -> TabOf(S)] \subseteq [Tab -> TabOf(T)]
<1>1. Seq(S) \subseteq Seq(T) BY WiderSeq
<1>2. TabOf(S) \subseteq TabOf(T) BY <1>1 DEF TabOf
<1> QED BY <1>2

(* What a scan said it doesn't take back, so what was honest stays so.      *)
LEMMA HonestStays ==
  ASSUME TabsTold, \A s \in Scan : scan[s].complete => scan'[s].complete
  PROVE  tab \in [Tab -> TabOf(Honest')]
<1>1. Honest \subseteq Honest' BY DEF Honest, Claims
<1> QED BY <1>1, WiderTab DEF TabsTold

(* A step of scan s, its scanner's or its relay's.                          *)
LEMMA ScanMoves ==
  ASSUME IInv, Told, NEW s \in Scan, NEW r,
         scan' = [scan EXCEPT ![s] = r], StreamTold(r),
         scan[s].complete => r.complete,
         tree' = tree \/ TreeTold'
  PROVE  StreamsTold' /\ TreeTold' /\ tab \in [Tab -> TabOf(Honest')]
<1>1. \A x \in Scan : scan'[x] = IF x = s THEN r ELSE scan[x] BY DEF IInv, Shapes
<1>2. \A x \in Scan : scan[x].complete => scan'[x].complete BY <1>1
<1>3. StreamsTold' BY <1>1 DEF Told, StreamsTold
<1>4. TreeTold' BY <1>2 DEF Told, TreeTold
<1> QED BY <1>2, <1>3, <1>4, HonestStays DEF Told

LEMMA EmitTold ==
  ASSUME IInv, Told, NEW s \in Scan, NEW event \in Events, NEW next,
         scan[s].scanner \in {"opening", "reading"},
         event.complete => next = "gone",
         Emit(s, event, next)
  PROVE  Told'
<1> DEFINE chan == IF scan[s].relay = "gone" THEN scan[s].chan ELSE Append(scan[s].chan, event)
           r == [scan[s] EXCEPT !.scanner = next, !.chan = chan,
                     !.found = IF event.kind = "Dir" THEN @ + 1 ELSE @,
                     !.complete = event.complete]
<1>0. scan \in [Scan -> ScanType] /\ StreamTold(scan[s])
  BY DEF IInv, Shapes, Told, StreamsTold
<1>1. scan' = [scan EXCEPT ![s] = r] /\ UNCHANGED <<tree, tab>> BY <1>0 DEF Emit, ScanType
<1>2. ~scan[s].complete BY <1>0 DEF StreamTold
<1>3. r.scanner = next /\ r.chan = chan /\ r.batch = scan[s].batch /\ r.complete = event.complete
  BY <1>0 DEF ScanType
<1>4. TrueEvents(scan[s].complete) \subseteq TrueEvents(event.complete)
  BY <1>2 DEF TrueEvents
<1>5. event \in TrueEvents(event.complete) BY DEF TrueEvents
<1>6. /\ scan[s].chan \in Seq(TrueEvents(event.complete))
      /\ scan[s].batch \in Seq(TrueEvents(event.complete))
  BY <1>0, <1>4, WiderSeq DEF StreamTold
<1>7. chan \in Seq(TrueEvents(event.complete)) BY <1>5, <1>6, LongerSeq
<1>8. StreamTold(r)
  <2> HIDE DEF r, chan
  <2> QED BY <1>3, <1>6, <1>7 DEF StreamTold
<1> HIDE DEF r
<1> QED BY <1>1, <1>2, <1>8, ScanMoves DEF Told, TabsTold

LEMMA ScannerTold ==
  ASSUME IInv, Told, NEW s \in Scan, Opens(s) \/ Reads(s) \/ Finishes(s) \/ Stops(s)
  PROVE  Told'
<1>1. CASE Opens(s) BY <1>1, EmitTold DEF Opens, Event, Events
<1>2. CASE Reads(s) BY <1>2, EmitTold DEF Reads, Event, Events
<1>3. CASE Finishes(s)
  <2>1. PICK complete \in BOOLEAN : Emit(s, Event("ScanDone", complete), "gone")
    BY <1>3 DEF Finishes
  <2>2. Event("ScanDone", complete) \in Events BY DEF Event, Events
  <2>3. scan[s].scanner = "reading" BY <1>3 DEF Finishes
  <2> QED BY <2>1, <2>2, <2>3, EmitTold
<1>4. CASE Stops(s)
  <2> DEFINE r == [scan[s] EXCEPT !.scanner = "gone"]
  <2>0. scan \in [Scan -> ScanType] /\ StreamTold(scan[s])
    BY DEF IInv, Shapes, Told, StreamsTold
  <2>1. scan' = [scan EXCEPT ![s] = r] /\ UNCHANGED <<tree, tab>>
    BY <1>4, <2>0 DEF Stops, ScanType
  <2>2. r.scanner = "gone" /\ r.chan = scan[s].chan /\ r.batch = scan[s].batch
        /\ r.complete = scan[s].complete
    BY <2>0 DEF ScanType
  <2> HIDE DEF r
  <2>3. StreamTold(r) BY <2>0, <2>2 DEF StreamTold
  <2> QED BY <2>1, <2>2, <2>3, ScanMoves DEF Told, TabsTold
<1> QED BY <1>1, <1>2, <1>3, <1>4

-----------------------------------------------------------------------------
(* Waking the tabs changes nothing of what they say.                        *)
LEMMA NotifiedTold ==
  ASSUME NEW M, tab \in [Tab -> TabOf(M)]
  PROVE  /\ Notified("tree", TRUE) \in [Tab -> TabOf(M)]
         /\ \A s \in Nat : Notified("picker", s) \in [Tab -> TabOf(M)]
<1>1. ASSUME NEW t \in Tab PROVE [tab[t] EXCEPT !["tree"] = TRUE] \in TabOf(M)
  BY ZenonT(40) DEF TabOf
<1>2. ASSUME NEW t \in Tab, NEW s \in Nat PROVE [tab[t] EXCEPT !["picker"] = s] \in TabOf(M)
  BY ZenonT(40) DEF TabOf
<1> QED BY <1>1, <1>2 DEF Notified

(* A relay that lets its batch go.                                          *)
LEMMA RelayTold ==
  ASSUME IInv, Told, NEW s \in Scan, NEW to, RelayGoes(s, to),
         tree' = tree \/ TreeTold'
  PROVE  StreamsTold' /\ TreeTold' /\ tab \in [Tab -> TabOf(Honest')]
<1> DEFINE r == [scan[s] EXCEPT !.relay = to, !.batch = <<>>]
<1>0. scan \in [Scan -> ScanType] /\ StreamTold(scan[s])
  BY DEF IInv, Shapes, Told, StreamsTold
<1>1. scan' = [scan EXCEPT ![s] = r] BY <1>0 DEF RelayGoes, ScanType
<1>2. r.scanner = scan[s].scanner /\ r.chan = scan[s].chan /\ r.batch = <<>>
      /\ r.complete = scan[s].complete
  BY <1>0 DEF ScanType
<1> HIDE DEF r
<1>3. StreamTold(r) BY <1>0, <1>2, EmptySeq DEF StreamTold
<1> QED BY <1>1, <1>2, <1>3, ScanMoves

(* What the tree says after an event of the relay's batch.                  *)
LEMMA AppliedTold ==
  ASSUME IInv, Told, NEW s \in Scan, scan[s].relay \in {"batch", "applying"}
  PROVE  LET tr == Applied(s, tree, Head(scan[s].batch))
         IN  tr \in TreeType /\ tr.scan = s /\ (tr.complete => scan[s].complete)
<1> DEFINE event == Head(scan[s].batch)
           tr == Applied(s, tree, event)
<1>0. /\ scan[s] \in ScanType /\ tree \in TreeType
      /\ InStream(s, scan[s], tree.scan) /\ StreamTold(scan[s])
  BY DEF IInv, Shapes, StreamsOK, Told, StreamsTold
<1>1. event \in Events /\ tr \in TreeType /\ tr.scan = s BY AppliedOwn
<1>2. event \in TrueEvents(scan[s].complete)
  <2>1. scan[s].batch \in Seq(TrueEvents(scan[s].complete)) /\ scan[s].batch # <<>>
    BY <1>0 DEF StreamTold, InStream
  <2> QED BY <2>1
<1>3. ASSUME tr.complete PROVE scan[s].complete
  <2>1. CASE event.kind = "ScanStart"
    <3>1. tr = [NoTree EXCEPT !.scans = tree.scans + 1, !.scan = s] BY <2>1 DEF Applied
    <3>2. ~tr.complete
      <4> HIDE DEF tr
      <4> QED BY <3>1 DEF NoTree
    <3> QED BY <1>3, <3>2
  <2>2. CASE event.kind = "Dir"
    <3>1. tr = [tree EXCEPT !.dirs = @ + 1] BY <2>2 DEF Applied
    <3>2. tree.scan = s BY <1>0, <2>2 DEF InStream
    <3>3. tr.complete = tree.complete
      <4> HIDE DEF tr
      <4> QED BY <1>0, <3>1 DEF TreeType
    <3> QED BY <1>3, <3>2, <3>3 DEF Told, TreeTold
  <2>3. CASE event.kind = "ScanDone"
    <3>1. tr = [tree EXCEPT !.complete = event.complete] BY <2>3 DEF Applied
    <3>2. tr.complete = event.complete
      <4> HIDE DEF tr, event
      <4> QED BY <1>0, <3>1 DEF TreeType
    <3> QED BY <1>2, <1>3, <3>2 DEF TrueEvents
  <2> QED BY <1>1, <2>1, <2>2, <2>3 DEF Events
<1> QED BY <1>1, <1>3

(* The end of a scan.                                                       *)
LEMMA EndTold ==
  ASSUME IInv, Told, NEW s \in Scan, NEW tr \in TreeType, tr.scan = s,
         tr.complete => scan[s].complete, EndReading(s, tr)
  PROVE  Told'
<1>0. scan \in [Scan -> ScanType] BY DEF IInv, Shapes
<1>1. PICK to : RelayGoes(s, to) BY DEF EndReading
<1>2. tree'.scan = s /\ tree'.complete = tr.complete BY DEF EndReading, TreeType
<1>3. scan'[s].complete = scan[s].complete BY <1>0, <1>1 DEF RelayGoes, ScanType
<1>4. TreeTold' BY <1>2, <1>3 DEF TreeTold
<1>5. tab' = tab BY DEF EndReading
<1> QED BY <1>1, <1>4, <1>5, RelayTold DEF Told, TabsTold

LEMMA RelayStepTold ==
  ASSUME IInv, Told, NEW s \in Scan, Relay(s)
  PROVE  Told'
<1>0. scan \in [Scan -> ScanType] /\ StreamTold(scan[s]) /\ s \in Nat
  BY DEF IInv, Shapes, Told, StreamsTold, Scan
<1>1. CASE GiveUp(s)
  <2> DEFINE r == [scan[s] EXCEPT !.relay = "to_picker", !.cancel = TRUE]
  <2>1. scan' = [scan EXCEPT ![s] = r] /\ UNCHANGED <<tree, tab>>
    BY <1>0, <1>1 DEF GiveUp, ScanType
  <2>2. r.scanner = scan[s].scanner /\ r.chan = scan[s].chan /\ r.batch = scan[s].batch
        /\ r.complete = scan[s].complete
    BY <1>0 DEF ScanType
  <2> HIDE DEF r
  <2>3. StreamTold(r) BY <1>0, <2>2 DEF StreamTold
  <2> QED BY <2>1, <2>2, <2>3, ScanMoves DEF Told, TabsTold
<1>2. CASE Drain(s)
  <2> DEFINE r == [scan[s] EXCEPT !.relay = "batch", !.batch = scan[s].chan, !.chan = <<>>]
  <2>1. scan' = [scan EXCEPT ![s] = r] /\ UNCHANGED <<tree, tab>>
    BY <1>0, <1>2 DEF Drain, ScanType
  <2>2. r.scanner = scan[s].scanner /\ r.chan = <<>> /\ r.batch = scan[s].chan
        /\ r.complete = scan[s].complete
    BY <1>0 DEF ScanType
  <2> HIDE DEF r
  <2>3. StreamTold(r) BY <1>0, <2>2, EmptySeq DEF StreamTold
  <2> QED BY <2>1, <2>2, <2>3, ScanMoves DEF Told, TabsTold
<1>3. CASE NeverOpened(s) \/ ToPicker(s)
  <2>1. PICK to : RelayGoes(s, to) BY <1>3 DEF NeverOpened, ToPicker
  <2>2. UNCHANGED <<tree, tab>> BY <1>3 DEF NeverOpened, ToPicker
  <2> QED BY <2>1, <2>2, RelayTold DEF Told, TabsTold
<1>4. CASE SignalTree(s) \/ SignalPicker(s)
  <2>1. PICK to : RelayGoes(s, to) BY <1>4 DEF SignalTree, SignalPicker
  <2>2. tree' = tree BY <1>4 DEF SignalTree, SignalPicker
  <2>3. tab' = Notified("tree", TRUE) \/ tab' = Notified("picker", s)
    BY <1>4 DEF SignalTree, SignalPicker
  <2>4. StreamsTold' /\ TreeTold' /\ tab \in [Tab -> TabOf(Honest')]
    BY <2>1, <2>2, RelayTold
  <2>5. TabsTold' BY <1>0, <2>3, <2>4, NotifiedTold DEF TabsTold
  <2> QED BY <2>4, <2>5 DEF Told
<1>5. CASE ScannerGone(s)
  <2>1. tree \in TreeType /\ tree.scan = s
    BY <1>5 DEF ScannerGone, IInv, Shapes, StreamsOK, InStream
  <2>2. tree.complete => scan[s].complete BY <2>1 DEF Told, TreeTold
  <2> QED BY <1>5, <2>1, <2>2, EndTold DEF ScannerGone
<1>6. CASE ApplyEvent(s)
  <2> DEFINE event == Head(scan[s].batch)
             rest == Tail(scan[s].batch)
             tr == Applied(s, tree, event)
             to == IF rest = <<>> THEN "applied" ELSE "applying"
             r == [scan[s] EXCEPT !.batch = rest, !.relay = to]
  <2>1. scan[s].relay \in {"batch", "applying"} BY <1>6 DEF ApplyEvent
  <2>2. tr \in TreeType /\ tr.scan = s /\ (tr.complete => scan[s].complete)
    BY <2>1, AppliedTold
  <2>3. CASE event.kind = "ScanDone"
    <3>1. EndReading(s, tr) BY <1>6, <2>3 DEF ApplyEvent
    <3> QED BY <2>2, <3>1, EndTold
  <2>4. CASE event.kind # "ScanDone"
    <3>1. tree' = tr /\ tab' = tab /\ scan' = [scan EXCEPT ![s] = r]
      BY <1>0, <1>6, <2>4 DEF ApplyEvent, ScanType
    <3>2. r.scanner = scan[s].scanner /\ r.chan = scan[s].chan /\ r.batch = rest
          /\ r.complete = scan[s].complete
      BY <1>0 DEF ScanType
    <3>3. rest \in Seq(TrueEvents(scan[s].complete))
      <4>1. scan[s].batch \in Seq(TrueEvents(scan[s].complete)) /\ scan[s].batch # <<>>
        BY <1>0, <2>1 DEF StreamTold, IInv, StreamsOK, InStream
      <4> QED BY <4>1, ShorterSeq
    <3>4. scan'[s] = r BY <1>0, <3>1
    <3> HIDE DEF r, tr, rest
    <3>5. StreamTold(r) BY <1>0, <3>2, <3>3 DEF StreamTold
    <3>6. TreeTold' BY <2>2, <3>1, <3>2, <3>4 DEF TreeTold
    <3> QED BY <3>1, <3>2, <3>5, <3>6, ScanMoves DEF Told, TabsTold
  <2> QED BY <2>3, <2>4
<1> QED BY <1>1, <1>2, <1>3, <1>4, <1>5, <1>6 DEF Relay

-----------------------------------------------------------------------------
(* The tabs.                                                                *)
LEMMA TabStepTold ==
  ASSUME Told, NEW t \in Tab, NEW new \in TabOf(Honest), TabStep(t, new)
  PROVE  Told'
<1>1. UNCHANGED <<scan, tree>> BY DEF TabStep
<1>2. Honest' = Honest BY <1>1 DEF Honest
<1>3. tab' \in [Tab -> TabOf(Honest)] BY DEF Told, TabsTold, TabStep
<1> QED BY <1>1, <1>2, <1>3 DEF Told, StreamsTold, TreeTold, TabsTold

LEMMA OtherMessagesHonest ==
  ASSUME IInv, NEW s \in Nat
  PROVE  PickerMode(s) \in Honest /\ ScanStart \in Honest /\ [kind |-> "AwaitingStart"] \in Honest
<1>1. tree.scan \in Nat BY DEF IInv, Shapes, TreeType
<1> QED BY <1>1 DEF PickerMode, ScanStart, Honest, Message, Claims

(* A layout says of its scan what the tree does.                            *)
LEMMA LayoutHonest ==
  ASSUME IInv, Told, NEW t \in Tab
  PROVE  LayoutOf(t) \in Honest
<1>1. tree \in TreeType /\ tab[t] \in TabOf(Honest) BY DEF IInv, Shapes, Told, TabsTold
<1>2. LayoutOf(t) \in Message BY <1>1 DEF LayoutOf, Message, TreeType, TabOf
<1>3. Claims(LayoutOf(t)) => tree.complete BY <1>1 DEF Claims, LayoutOf, TreeType
<1>4. LayoutOf(t).scan = tree.scan BY DEF LayoutOf
<1> QED BY <1>2, <1>3, <1>4 DEF Honest, Told, TreeTold

LEMMA TabTold ==
  ASSUME IInv, Told, NEW t \in Tab,
         \/ Connect(t) \/ Leave(t) \/ Serve(t)
         \/ \E look \in Look : SetView(t, look)
  PROVE  Told'
<1>0. /\ tab[t] \in TabOf(Honest) /\ tree \in TreeType /\ starts \in Nat
      /\ tree.scans \in Nat /\ tree.dirs \in Nat
  BY DEF Told, TabsTold, IInv, Shapes, TreeType
<1>1. CASE Connect(t)
  <2>1. [NoTab EXCEPT !.pc = "subscribed"] \in TabOf(Honest) BY NoTabTold DEF TabOf
  <2> QED BY <1>1, <2>1, TabStepTold DEF Connect
<1>2. CASE Leave(t) BY <1>2, NoTabTold, TabStepTold DEF Leave
<1>3. CASE Greet(t)
  <2>1. Greeting \in Seq(Honest)
    BY <1>0, OtherMessagesHonest, EmptySeq DEF Greeting
  <2>2. [tab[t] EXCEPT !.pc = "select", !.scan = tree.scans, !.out = Greeting] \in TabOf(Honest)
    BY <1>0, <2>1 DEF TabOf
  <2> QED BY <1>3, <2>2, TabStepTold DEF Greet
<1>4. CASE Send(t)
  <2> DEFINE m == Head(tab[t].out)
             rest == Tail(tab[t].out)
             up == PickerUp(m, tab[t].picking)
  <2>1. tab[t].out \in Seq(Honest) /\ tab[t].out # <<>> BY <1>0, <1>4 DEF TabOf, Send
  <2>2. m \in Honest /\ rest \in Seq(Honest) BY <2>1
  <2>3. up \in BOOLEAN BY DEF PickerUp
  <2>4. TabStep(t, [tab[t] EXCEPT !.page = m, !.out = rest, !.picking = up])
    BY <1>0, <1>4 DEF Send, TabOf
  <2> HIDE DEF m, rest, up
  <2>5. [tab[t] EXCEPT !.page = m, !.out = rest, !.picking = up] \in TabOf(Honest)
    BY <1>0, <2>2, <2>3 DEF TabOf
  <2> QED BY <2>4, <2>5, TabStepTold
<1>5. CASE HearPicker(t)
  <2>1. tab[t].picker \in Nat BY <1>0 DEF TabOf
  <2>2. <<PickerMode(tab[t].picker)>> \in Seq(Honest) BY <2>1, OtherMessagesHonest
  <2>3. [tab[t] EXCEPT !.picker = 0, !.out = <<PickerMode(tab[t].picker)>>] \in TabOf(Honest)
    BY <1>0, <2>2 DEF TabOf
  <2> QED BY <1>5, <2>3, TabStepTold DEF HearPicker
<1>6. CASE \E look \in Look : SetView(t, look)
  <2>1. PICK look \in Look : SetView(t, look) BY <1>6
  <2>2. [tab[t] EXCEPT !.look = look, !.stale = TRUE] \in TabOf(Honest)
    BY <1>0 DEF TabOf, Looks
  <2> QED BY <2>1, <2>2, TabStepTold DEF SetView
<1>7. CASE HearTree(t)
  <2>1. [tab[t] EXCEPT !.tree = FALSE, !.stale = TRUE] \in TabOf(Honest) BY <1>0 DEF TabOf
  <2> QED BY <1>7, <2>1, TabStepTold DEF HearTree
<1>8. CASE LayoutDue(t)
  <2>1. [tab[t] EXCEPT !.pc = "drawing", !.stale = FALSE, !.tree = FALSE] \in TabOf(Honest)
    BY <1>0 DEF TabOf
  <2> QED BY <1>8, <2>1, TabStepTold DEF LayoutDue
<1>9. CASE UpdateTab(t)
  <2> DEFINE shown == IF NothingToShow(t) THEN tab[t].shown ELSE Key(t)
             drawn == IF NothingToShow(t) THEN <<>> ELSE <<LayoutOf(t)>>
             out == NewScan(t) \o drawn
  <2>1. [tab[t] EXCEPT !.pc = "select"] \in TabOf(Honest) BY <1>0 DEF TabOf
  <2>2. drawn \in Seq(Honest) BY LayoutHonest, EmptySeq
  <2>3. NewScan(t) \in Seq(Honest) BY <1>0, OtherMessagesHonest, EmptySeq DEF NewScan
  <2>4. out \in Seq(Honest)
    <3> HIDE DEF drawn
    <3> QED BY <2>2, <2>3
  <2>5. shown \in {<<>>} \cup (Nat \X Nat \X Looks \X BOOLEAN)
    <3>1. tab[t].shown \in {<<>>} \cup (Nat \X Nat \X Looks \X BOOLEAN) BY <1>0 DEF TabOf
    <3>2. tab[t].look \in Looks BY <1>0 DEF TabOf
    <3>3. Key(t) \in Nat \X Nat \X Looks \X BOOLEAN BY <1>0, <3>2 DEF Key
    <3> QED BY <3>1, <3>3
  <2>6. \/ TabStep(t, [tab[t] EXCEPT !.pc = "select"])
        \/ TabStep(t, [tab[t] EXCEPT !.pc = "select", !.scan = tree.scans,
                                     !.shown = shown, !.out = out])
    BY <1>0, <1>9 DEF UpdateTab, TabOf
  <2> HIDE DEF shown, out
  <2>7. [tab[t] EXCEPT !.pc = "select", !.scan = tree.scans,
                       !.shown = shown, !.out = out] \in TabOf(Honest)
    BY <1>0, <2>4, <2>5 DEF TabOf
  <2> QED BY <2>1, <2>6, <2>7, TabStepTold
<1> QED BY <1>1, <1>2, <1>3, <1>4, <1>5, <1>6, <1>7, <1>8, <1>9 DEF Serve

-----------------------------------------------------------------------------
LEMMA StartTold == ASSUME IInv, Told, Requests PROVE Told'
<1> DEFINE s == starts + 1
           r == [scan[s] EXCEPT !.scanner = "opening", !.relay = "opening"]
<1>1. PICK allowed \in {{"AwaitingStart"}, {"Done"}, {"AwaitingPath", "Done"}} : StartScan(allowed)
  BY DEF Requests, Start, Rescan, ScanPath
<1>2. s \in Scan /\ s > starts
  BY <1>1, BoundsAssumption DEF StartScan, IInv, Shapes, Scan
<1>3. scan \in [Scan -> ScanType] BY DEF IInv, Shapes
<1>4. scan[s] = NoScan BY <1>2 DEF IInv, Unstarted
<1>5. scan' = [scan EXCEPT ![s] = r] /\ UNCHANGED <<tree, tab>>
  BY <1>1, <1>2, <1>3 DEF StartScan, ScanType
<1>6. ~scan[s].complete /\ ~r.complete /\ r.chan = <<>> /\ r.batch = <<>>
  BY <1>4 DEF NoScan
<1> HIDE DEF r
<1>7. StreamTold(r) BY <1>6, EmptySeq DEF StreamTold
<1> QED BY <1>2, <1>5, <1>6, <1>7, ScanMoves DEF Told, TabsTold

LEMMA NextTold == IInv /\ Told /\ [Next]_vars => Told'
<1> SUFFICES ASSUME IInv, Told, [Next]_vars PROVE Told'
  OBVIOUS
<1>1. CASE Requests BY <1>1, StartTold
<1>2. ASSUME NEW s \in Scan, Opens(s) \/ Reads(s) \/ Finishes(s) \/ Stops(s) PROVE Told'
  BY <1>2, ScannerTold
<1>3. ASSUME NEW s \in Scan, Relay(s) PROVE Told'
  BY <1>3, RelayStepTold
<1>4. ASSUME NEW t \in Tab,
             \/ Connect(t) \/ Leave(t) \/ Serve(t)
             \/ \E look \in Look : SetView(t, look)
      PROVE Told'
  BY <1>4, TabTold
<1>5. CASE UNCHANGED vars
  <2>1. UNCHANGED <<scan, tree, tab>> BY <1>5 DEF vars
  <2>2. Honest' = Honest BY <2>1 DEF Honest
  <2> QED BY <2>1, <2>2 DEF Told, StreamsTold, TreeTold, TabsTold
<1> QED BY <1>1, <1>2, <1>3, <1>4, <1>5 DEF Next

LEMMA AlwaysTold == Spec => []Told
  BY Inductive, InitTold, NextTold, PTL DEF Spec

(* A page shown as finished, with nothing missing, is of a scan whose       *)
(* ScanDone said so: not of one that broke off (DirTree::complete,          *)
(* relay_scan, update_tab).                                                 *)
THEOREM ServerCompleteIsComplete == Spec => []CompleteIsComplete
<1>1. Told => CompleteIsComplete
  <2> SUFFICES ASSUME Told, NEW t \in Tab, Claims(tab[t].page)
               PROVE  scan[tab[t].page.scan].complete
    BY DEF CompleteIsComplete, Claims
  <2>1. tab[t].page \in Honest BY DEF Told, TabsTold, TabOf
  <2> QED BY <2>1 DEF Honest
<1> QED BY <1>1, AlwaysTold, PTL

-----------------------------------------------------------------------------
(* The messages on their way to a page, and the last one it got, are of one *)
(* scan, but for a page owed a ScanStart that is first among them; and that *)
(* scan is the tree's while the tab is up to its ScanStarts.                *)
Of(m, s) == m.kind \in {"ScanStart", "Layout"} => m.scan = s

About(s) == {m \in Message : Of(m, s)}

AllOf(r, s) ==
    /\ r.out \in Seq(About(s))
    /\ r.out = <<>> \/ Head(r.out).kind # "ScanStart" => Of(r.page, s)

TabInOrder(r, tr) ==
    /\ r.scan <= tr.scans
    /\ r.pc \in {"off", "subscribed"} => r.page.kind = "none" /\ r.out = <<>>
    /\ r.pc = "drawing" => r.out = <<>>
    /\ \E s \in Nat : AllOf(r, s) /\ (r.scan = tr.scans => s = tr.scan)

InOrder == \A t \in Tab : TabInOrder(tab[t], tree)

LEMMA NewTabInOrder ==
  ASSUME NEW tr \in TreeType
  PROVE  TabInOrder(NoTab, tr) /\ TabInOrder([NoTab EXCEPT !.pc = "subscribed"], tr)
<1>1. tr.scans \in Nat /\ tr.scan \in Nat /\ tr.scans >= 0 BY DEF TreeType
<1>2. Of(NoMessage, tr.scan) BY DEF Of, NoMessage
<1>3. \A r : r.out = <<>> /\ r.page = NoMessage => AllOf(r, tr.scan)
  BY <1>2, EmptySeq DEF AllOf
<1>4. NoTab.out = <<>> /\ NoTab.page = NoMessage /\ NoTab.scan = 0 /\ NoTab.pc = "off"
  BY DEF NoTab
<1> DEFINE sub == [NoTab EXCEPT !.pc = "subscribed"]
<1>5. sub.out = <<>> /\ sub.page = NoMessage /\ sub.scan = 0 /\ sub.pc = "subscribed"
  BY DEF NoTab
<1>6. NoMessage.kind = "none" BY DEF NoMessage
<1> HIDE DEF sub
<1>7. AllOf(NoTab, tr.scan) /\ AllOf(sub, tr.scan) BY <1>3, <1>4, <1>5
<1>8. TabInOrder(NoTab, tr) BY <1>1, <1>4, <1>6, <1>7 DEF TabInOrder
<1>9. TabInOrder(sub, tr) BY <1>1, <1>5, <1>6, <1>7 DEF TabInOrder
<1> QED BY <1>8, <1>9 DEF sub

LEMMA InitInOrder == Init => InOrder
<1> SUFFICES ASSUME Init PROVE InOrder
  OBVIOUS
<1>1. tree \in TreeType BY DEF Init, NoTree, TreeType
<1> QED BY <1>1, NewTabInOrder DEF Init, InOrder

(* A tree that goes on, or is another scan's.                               *)
LEMMA TreeMoves ==
  ASSUME InOrder, TabsTold, tree \in TreeType, tree' \in TreeType,
         \/ tree'.scans = tree.scans /\ tree'.scan = tree.scan
         \/ tree'.scans = tree.scans + 1
  PROVE  \A t \in Tab : TabInOrder(tab[t], tree')
<1> SUFFICES ASSUME NEW t \in Tab PROVE TabInOrder(tab[t], tree')
  OBVIOUS
<1>1. tab[t].scan \in Nat /\ tree.scans \in Nat /\ tree'.scans \in Nat
  BY DEF TabsTold, TabOf, TreeType
<1>2. TabInOrder(tab[t], tree) BY DEF InOrder
<1> QED BY <1>1, <1>2 DEF TabInOrder

LEMMA NotifiedInOrder ==
  ASSUME TabsTold, NEW s \in Nat, NEW tr,
         \A t \in Tab : TabInOrder(tab[t], tr),
         tab' = Notified("tree", TRUE) \/ tab' = Notified("picker", s)
  PROVE  \A t \in Tab : TabInOrder(tab'[t], tr)
<1> SUFFICES ASSUME NEW t \in Tab PROVE TabInOrder(tab'[t], tr)
  OBVIOUS
<1>1. tab[t] \in TabOf(Honest) BY DEF TabsTold
<1>2. tab'[t] \in {tab[t], [tab[t] EXCEPT !["tree"] = TRUE], [tab[t] EXCEPT !["picker"] = s]}
  BY DEF Notified
<1>3. /\ tab'[t].pc = tab[t].pc /\ tab'[t].scan = tab[t].scan
      /\ tab'[t].page = tab[t].page /\ tab'[t].out = tab[t].out
  BY <1>1, <1>2 DEF TabOf
<1>4. TabInOrder(tab[t], tr) OBVIOUS
<1>5. \A x : AllOf(tab[t], x) => AllOf(tab'[t], x) BY <1>3 DEF AllOf
<1> QED BY <1>3, <1>4, <1>5 DEF TabInOrder

(* What the server's own steps do to the tree, and to the tabs.             *)
LEMMA ServerInOrder ==
  ASSUME IInv, IInv', TabsTold, InOrder,
         \/ Requests
         \/ \E s \in Scan : Opens(s) \/ Reads(s) \/ Finishes(s) \/ Stops(s)
         \/ \E s \in Scan : Relay(s)
  PROVE  InOrder'
<1>0. tree \in TreeType /\ tree' \in TreeType BY DEF IInv, Shapes
<1>1. ASSUME tree' = tree, tab' = tab PROVE InOrder'
  BY <1>1 DEF InOrder
<1>2. CASE Requests
  BY <1>1, <1>2 DEF Requests, Start, Rescan, ScanPath, StartScan
<1>3. ASSUME NEW s \in Scan, Opens(s) \/ Reads(s) \/ Finishes(s) \/ Stops(s) PROVE InOrder'
  BY <1>1, <1>3 DEF Opens, Reads, Finishes, Stops, Emit
<1>4. ASSUME NEW s \in Scan, GiveUp(s) \/ NeverOpened(s) \/ Drain(s) \/ ToPicker(s)
      PROVE InOrder'
  BY <1>1, <1>4 DEF GiveUp, NeverOpened, Drain, ToPicker
<1>5. ASSUME NEW s \in Scan, SignalTree(s) \/ SignalPicker(s) PROVE InOrder'
  <2>1. s \in Nat BY DEF Scan
  <2>2. tree' = tree /\ (tab' = Notified("tree", TRUE) \/ tab' = Notified("picker", s))
    BY <1>5 DEF SignalTree, SignalPicker
  <2>3. \A t \in Tab : TabInOrder(tab'[t], tree) BY <2>1, <2>2, NotifiedInOrder DEF InOrder
  <2> QED BY <2>2, <2>3 DEF InOrder
<1>6. ASSUME tab' = tab,
             \/ tree'.scans = tree.scans /\ tree'.scan = tree.scan
             \/ tree'.scans = tree.scans + 1
      PROVE InOrder'
  BY <1>0, <1>6, TreeMoves DEF InOrder
<1>7. ASSUME NEW s \in Scan, NEW tr \in TreeType, EndReading(s, tr)
      PROVE  tab' = tab /\ tree'.scans = tr.scans /\ tree'.scan = tr.scan
  BY <1>7 DEF EndReading, TreeType
<1>8. ASSUME NEW s \in Scan, ScannerGone(s) PROVE InOrder'
  BY <1>0, <1>6, <1>7, <1>8 DEF ScannerGone
<1>9. ASSUME NEW s \in Scan, ApplyEvent(s) PROVE InOrder'
  <2> DEFINE event == Head(scan[s].batch)
             tr == Applied(s, tree, event)
  <2>1. scan[s].relay \in {"batch", "applying"} BY <1>9 DEF ApplyEvent
  <2>2. tr \in TreeType /\ event \in Events BY <2>1, AppliedOwn
  <2>3. \/ tr.scans = tree.scans /\ tr.scan = tree.scan
        \/ tr.scans = tree.scans + 1
    <3>1. CASE event.kind = "ScanStart"
      <4>1. tr = [NoTree EXCEPT !.scans = tree.scans + 1, !.scan = s] BY <3>1 DEF Applied
      <4> HIDE DEF tr
      <4> QED BY <4>1 DEF NoTree
    <3>2. CASE event.kind \in {"Dir", "ScanDone"}
      <4>1. \/ tr = [tree EXCEPT !.dirs = @ + 1]
            \/ tr = [tree EXCEPT !.complete = event.complete]
        BY <3>2 DEF Applied
      <4> HIDE DEF tr, event
      <4> QED BY <1>0, <4>1 DEF TreeType
    <3> QED BY <2>2, <3>1, <3>2 DEF Events
  <2>4. CASE event.kind = "ScanDone"
    <3>1. EndReading(s, tr) BY <1>9, <2>4 DEF ApplyEvent
    <3> QED BY <1>6, <1>7, <2>2, <2>3, <3>1
  <2>5. CASE event.kind # "ScanDone"
    <3>1. tree' = tr /\ tab' = tab BY <1>9, <2>5 DEF ApplyEvent
    <3> QED BY <1>6, <2>3, <3>1
  <2> QED BY <2>4, <2>5
<1> QED BY <1>2, <1>3, <1>4, <1>5, <1>8, <1>9 DEF Relay

-----------------------------------------------------------------------------
LEMMA TabStepInOrder ==
  ASSUME InOrder, TabsTold, NEW t \in Tab, NEW new, TabStep(t, new), TabInOrder(new, tree)
  PROVE  InOrder'
  BY DEF InOrder, TabsTold, TabStep

(* A step that sends a page nothing and gives it nothing to come.           *)
LEMMA SilentStep ==
  ASSUME InOrder, TabsTold, NEW t \in Tab, NEW new, TabStep(t, new),
         new.scan = tab[t].scan, new.page = tab[t].page, new.out = tab[t].out,
         tab[t].pc \notin {"off", "subscribed"}, new.pc \notin {"off", "subscribed"},
         new.pc = "drawing" => new.out = <<>>
  PROVE  InOrder'
<1>1. TabInOrder(tab[t], tree) BY DEF InOrder
<1>2. \A x : AllOf(tab[t], x) => AllOf(new, x) BY DEF AllOf
<1>3. TabInOrder(new, tree) BY <1>1, <1>2 DEF TabInOrder
<1> QED BY <1>3, TabStepInOrder

LEMMA TabStaysInOrder ==
  ASSUME IInv, Told, InOrder, NEW t \in Tab,
         \/ Connect(t) \/ Leave(t) \/ Serve(t)
         \/ \E look \in Look : SetView(t, look)
  PROVE  InOrder'
<1> DEFINE r == tab[t]
<1>0. /\ TabsTold /\ r \in TabOf(Honest) /\ tree \in TreeType
      /\ tree.scans \in Nat /\ tree.scan \in Nat /\ r.scan \in Nat
  BY DEF Told, TabsTold, IInv, Shapes, TreeType, TabOf
<1>1. PICK s \in Nat : AllOf(r, s) /\ (r.scan = tree.scans => s = tree.scan)
  BY DEF InOrder, TabInOrder
<1>2. /\ r.scan <= tree.scans
      /\ r.pc \in {"off", "subscribed"} => r.page.kind = "none" /\ r.out = <<>>
      /\ r.pc = "drawing" => r.out = <<>>
  BY DEF InOrder, TabInOrder
<1>3. CASE Connect(t) \/ Leave(t)
  BY <1>0, <1>3, NewTabInOrder, TabStepInOrder DEF Connect, Leave
<1>4. CASE Greet(t)
  <2> DEFINE new == [r EXCEPT !.pc = "select", !.scan = tree.scans, !.out = Greeting]
  <2>1. TabStep(t, new) /\ r.pc = "subscribed" BY <1>4 DEF Greet
  <2>2. Greeting \in Seq(About(tree.scan))
    <3>1. \A x \in {PickerMode(starts), [kind |-> "AwaitingStart"], ScanStart} :
            x \in About(tree.scan)
      BY <1>0 DEF IInv, Shapes, PickerMode, ScanStart, About, Of, Message
    <3> QED BY <3>1, EmptySeq, OneSeq DEF Greeting
  <2>3. /\ new.pc = "select" /\ new.scan = tree.scans /\ new.out = Greeting
        /\ new.page = r.page
    BY <1>0 DEF TabOf
  <2>4. Of(r.page, tree.scan) BY <1>2, <2>1 DEF Of
  <2> HIDE DEF new, r
  <2>5. AllOf(new, tree.scan) BY <2>2, <2>3, <2>4 DEF AllOf
  <2>6. TabInOrder(new, tree) BY <1>0, <2>3, <2>5 DEF TabInOrder
  <2> QED BY <1>0, <2>1, <2>6, TabStepInOrder
<1>5. CASE Send(t)
  <2> DEFINE m == Head(r.out)
             rest == Tail(r.out)
             up == PickerUp(m, r.picking)
             new == [r EXCEPT !.page = m, !.out = rest, !.picking = up]
  <2>1. r.out # <<>> /\ r.out \in Seq(About(s)) BY <1>1, <1>5 DEF Send, AllOf
  <2>2. m \in About(s) /\ rest \in Seq(About(s)) BY <2>1, ShorterSeq
  <2>3. TabStep(t, new) BY <1>0, <1>5 DEF Send, TabOf
  <2>4. new.page = m /\ new.out = rest /\ new.scan = r.scan /\ new.pc = r.pc
    BY <1>0 DEF TabOf
  <2>5. r.pc \notin {"off", "subscribed", "drawing"} BY <1>2, <2>1
  <2> HIDE DEF new, r, m, rest
  <2>6. AllOf(new, s) BY <2>2, <2>4 DEF AllOf, About
  <2>7. TabInOrder(new, tree) BY <1>1, <1>2, <2>4, <2>5, <2>6 DEF TabInOrder
  <2> QED BY <1>0, <2>3, <2>7, TabStepInOrder
<1>6. CASE HearPicker(t)
  <2> DEFINE m == PickerMode(r.picker)
             new == [r EXCEPT !.picker = 0, !.out = <<m>>]
  <2>1. TabStep(t, new) /\ r.pc = "select" /\ r.out = <<>> BY <1>6 DEF HearPicker, Selects
  <2>2. new.out = <<m>> /\ new.page = r.page /\ new.scan = r.scan /\ new.pc = r.pc
    BY <1>0 DEF TabOf
  <2>3. m \in About(s)
    <3>1. r.picker \in Nat BY <1>0 DEF TabOf
    <3> QED BY <3>1 DEF PickerMode, About, Of, Message
  <2>4. Of(r.page, s) BY <1>1, <2>1 DEF AllOf
  <2> HIDE DEF new, r, m
  <2>5. <<m>> \in Seq(About(s)) BY <2>3
  <2>6. AllOf(new, s) BY <2>2, <2>4, <2>5 DEF AllOf
  <2>7. TabInOrder(new, tree) BY <1>1, <1>2, <2>1, <2>2, <2>6 DEF TabInOrder
  <2> QED BY <1>0, <2>1, <2>7, TabStepInOrder
<1>7. CASE HearTree(t) \/ LayoutDue(t) \/ \E look \in Look : SetView(t, look)
  <2>1. PICK new : /\ TabStep(t, new) /\ r.pc = "select" /\ r.out = <<>>
                   /\ new.scan = r.scan /\ new.page = r.page /\ new.out = r.out
                   /\ new.pc \in {"select", "drawing"}
    <3>1. CASE HearTree(t)
      <4> WITNESS [r EXCEPT !.tree = FALSE, !.stale = TRUE]
      <4> QED BY <1>0, <3>1 DEF HearTree, Selects, TabOf
    <3>2. CASE LayoutDue(t)
      <4> WITNESS [r EXCEPT !.pc = "drawing", !.stale = FALSE, !.tree = FALSE]
      <4> QED BY <1>0, <3>2 DEF LayoutDue, Selects, TabOf
    <3>3. CASE \E look \in Look : SetView(t, look)
      <4>1. PICK look \in Look : SetView(t, look) BY <3>3
      <4> WITNESS [r EXCEPT !.look = look, !.stale = TRUE]
      <4> QED BY <1>0, <4>1 DEF SetView, Selects, TabOf
    <3> QED BY <1>7, <3>1, <3>2, <3>3
  <2> HIDE DEF r
  <2> QED BY <1>0, <2>1, SilentStep DEF r
<1>8. CASE UpdateTab(t)
  <2>1. r.pc = "drawing" /\ r.out = <<>> BY <1>2, <1>8 DEF UpdateTab
  <2>2. CASE TabStep(t, [r EXCEPT !.pc = "select"])
    <3> DEFINE new == [r EXCEPT !.pc = "select"]
    <3>1. new.pc = "select" /\ new.scan = r.scan /\ new.page = r.page /\ new.out = r.out
      BY <1>0 DEF TabOf
    <3> HIDE DEF new
    <3> QED BY <1>0, <2>1, <2>2, <3>1, SilentStep DEF new
  <2>3. CASE ~TabStep(t, [r EXCEPT !.pc = "select"])
    <3> DEFINE shown == IF NothingToShow(t) THEN r.shown ELSE Key(t)
               drawn == IF NothingToShow(t) THEN <<>> ELSE <<LayoutOf(t)>>
               out == NewScan(t) \o drawn
               new == [r EXCEPT !.pc = "select", !.scan = tree.scans,
                                !.shown = shown, !.out = out]
    <3>1. TabStep(t, new) BY <1>0, <1>8, <2>3 DEF UpdateTab, TabOf
    <3>2. new.pc = "select" /\ new.scan = tree.scans /\ new.page = r.page /\ new.out = out
      BY <1>0 DEF TabOf
    <3>3. LayoutOf(t) \in About(tree.scan)
      <4>1. LayoutOf(t) \in Message BY LayoutHonest DEF Honest
      <4> QED BY <4>1 DEF About, Of, LayoutOf
    <3>4. ScanStart \in About(tree.scan) BY <1>0 DEF ScanStart, About, Of, Message
    <3>5. drawn \in Seq(About(tree.scan)) BY <3>3, EmptySeq, OneSeq
    <3>6. NewScan(t) \in Seq(About(tree.scan)) BY <3>4, EmptySeq, OneSeq DEF NewScan
    <3>7. out \in Seq(About(tree.scan))
      <4> HIDE DEF drawn
      <4> QED BY <3>5, <3>6
    <3>8. out = <<>> \/ Head(out).kind # "ScanStart" => Of(r.page, tree.scan)
      <4>1. CASE r.scan = tree.scans BY <1>1, <2>1, <4>1 DEF AllOf
      <4>2. CASE r.scan # tree.scans
        <5>1. NewScan(t) = <<ScanStart>> BY <4>2 DEF NewScan
        <5>2. out = <<ScanStart>> \o drawn BY <5>1
        <5> HIDE DEF drawn, out
        <5>3. out # <<>> /\ Head(out) = ScanStart BY <3>4, <3>5, <5>2
        <5> QED BY <5>3 DEF ScanStart
      <4> QED BY <4>1, <4>2
    <3> HIDE DEF new, out, r
    <3>9. AllOf(new, tree.scan) BY <3>2, <3>7, <3>8 DEF AllOf
    <3>10. TabInOrder(new, tree) BY <1>0, <3>2, <3>9 DEF TabInOrder
    <3> QED BY <1>0, <3>1, <3>10, TabStepInOrder
  <2> QED BY <2>2, <2>3
<1> QED BY <1>3, <1>4, <1>5, <1>6, <1>7, <1>8 DEF Serve

LEMMA NextInOrder == IInv /\ IInv' /\ Told /\ InOrder /\ [Next]_vars => InOrder'
<1> SUFFICES ASSUME IInv, IInv', Told, InOrder, [Next]_vars PROVE InOrder'
  OBVIOUS
<1>1. TabsTold BY DEF Told
<1>2. CASE UNCHANGED vars BY <1>2 DEF InOrder, vars
<1>3. ASSUME NEW t \in Tab,
             \/ Connect(t) \/ Leave(t) \/ Serve(t)
             \/ \E look \in Look : SetView(t, look)
      PROVE InOrder'
  BY <1>3, TabStaysInOrder
<1> QED BY <1>1, <1>2, <1>3, ServerInOrder DEF Next

LEMMA AlwaysInOrder == Spec => []InOrder
  BY Inductive, AlwaysTold, InitInOrder, NextInOrder, PTL DEF Spec

(* The types, and that no tab has been told of more scans than the tree has *)
(* held (start_scan, relay_scan, handle_ws).                                *)
THEOREM ServerTypeOK == Spec => []TypeOK
<1>1. IInv /\ Told /\ InOrder => TypeOK
  <2> SUFFICES ASSUME IInv, Told, InOrder PROVE TypeOK
    OBVIOUS
  <2>1. /\ phase \in [kind : Kinds, scan : Nat] /\ starts \in Nat
        /\ scan \in [Scan -> ScanType] /\ tree \in TreeType /\ Unstarted
    BY DEF IInv, Shapes
  <2>2. ASSUME NEW s \in Scan
        PROVE  /\ scan[s].scanner \in Scanners /\ scan[s].relay \in Relays
               /\ {scan[s].chan, scan[s].batch} \subseteq Seq(Events)
               /\ s > starts => scan[s] = NoScan
    BY <2>1 DEF ScanType, Unstarted
  <2>3. ASSUME NEW t \in Tab
        PROVE  /\ tab[t].pc \in {"off", "subscribed", "select", "drawing"}
               /\ tab[t].picker \in Nat /\ tab[t].scan \in 0 .. tree.scans
               /\ tab[t].look \in Look \cup {NoLook}
    <3>1. tab[t] \in TabOf(Honest) BY DEF Told, TabsTold
    <3>2. tab[t].scan <= tree.scans BY DEF InOrder, TabInOrder
    <3> QED BY <2>1, <3>1, <3>2 DEF TabOf, Looks, TreeType
  <2> QED BY <2>1, <2>2, <2>3 DEF TypeOK, Kinds, Scanners, Relays, Working, TreeType
<1> QED BY <1>1, Inductive, AlwaysTold, AlwaysInOrder, PTL

(* A page that shows a scan hears of the next one before it gets a layout   *)
(* of it (update_tab, handle_ws).                                           *)
THEOREM ServerStartBeforeLayout == Spec => StartBeforeLayout
<1>1. IInv /\ Told /\ InOrder /\ [Next]_vars =>
        [\A t \in Tab :
           LET old == tab[t].page
               new == tab'[t].page
           IN  old.kind \in {"ScanStart", "Layout"} /\ new.kind = "Layout" =>
                   new.scan = old.scan]_vars
  <2> SUFFICES ASSUME IInv, Told, InOrder, Next, NEW t \in Tab,
                      tab[t].page.kind \in {"ScanStart", "Layout"},
                      tab'[t].page.kind = "Layout", tab'[t].page # tab[t].page
               PROVE  tab'[t].page.scan = tab[t].page.scan
    OBVIOUS
  <2>0. tab \in [Tab -> TabOf(Honest)] BY DEF Told, TabsTold
  <2>1. Send(t)
    <3>1. ~Requests BY DEF Requests, Start, Rescan, ScanPath, StartScan
    <3>2. \A s \in Scan : ~(Opens(s) \/ Reads(s) \/ Finishes(s) \/ Stops(s))
      BY ZenonT(40) DEF Opens, Reads, Finishes, Stops, Emit
    <3>3. ASSUME NEW field \in {"tree", "picker"}, NEW value, tab' = Notified(field, value)
          PROVE  FALSE
      BY <2>0, <3>3 DEF Notified, TabOf
    <3>4. ASSUME NEW s \in Scan, Relay(s) PROVE FALSE
      <4>1. tab' = tab \/ tab' = Notified("tree", TRUE) \/ tab' = Notified("picker", s)
        BY <3>4 DEF Relay, GiveUp, NeverOpened, Drain, ApplyEvent, EndReading, ScannerGone,
                    SignalTree, ToPicker, SignalPicker
      <4> QED BY <3>3, <4>1
    <3>5. PICK u \in Tab : \/ Connect(u) \/ Leave(u) \/ Serve(u)
                           \/ \E look \in Look : SetView(u, look)
      BY <3>1, <3>2, <3>4 DEF Next
    <3>6. u = t
      BY <2>0, <3>5 DEF Connect, Leave, Serve, SetView, Greet, Send, HearPicker, HearTree,
                        LayoutDue, UpdateTab, TabStep
    <3>7. ~Connect(t) /\ ~Leave(t)
      BY <2>0 DEF Connect, Leave, TabStep, NoTab, NoMessage
    <3>8. ASSUME NEW new, TabStep(t, new), new.page = tab[t].page PROVE FALSE
      BY <2>0, <3>8 DEF TabStep
    <3>9. ~Greet(t) BY <2>0, <3>8 DEF Greet, TabOf
    <3>10. ~HearPicker(t) BY <2>0, <3>8 DEF HearPicker, TabOf
    <3>11. ~HearTree(t) /\ ~LayoutDue(t) BY <2>0, <3>8 DEF HearTree, LayoutDue, TabOf
    <3>12. ~\E look \in Look : SetView(t, look) BY <2>0, <3>8 DEF SetView, TabOf
    <3>13. ~UpdateTab(t)
      <4> SUFFICES ASSUME UpdateTab(t) PROVE FALSE
        OBVIOUS
      <4>1. CASE phase.kind \in {"AwaitingPath", "AwaitingStart"}
        BY <2>0, <3>8, <4>1 DEF UpdateTab, TabOf
      <4>2. CASE phase.kind \notin {"AwaitingPath", "AwaitingStart"}
        <5>1. PICK shown, out :
                TabStep(t, [tab[t] EXCEPT !.pc = "select", !.scan = tree.scans,
                                          !.shown = shown, !.out = out])
          BY <2>0, <4>2 DEF UpdateTab, TabOf
        <5> QED BY <2>0, <3>8, <5>1 DEF TabOf
      <4> QED BY <4>1, <4>2
    <3> QED BY <3>5, <3>6, <3>7, <3>9, <3>10, <3>11, <3>12, <3>13 DEF Serve
  <2>2. tab[t].out # <<>> /\ tab'[t].page = Head(tab[t].out)
    BY <2>0, <2>1 DEF Send, TabStep, TabOf
  <2>3. PICK s \in Nat : AllOf(tab[t], s) BY DEF InOrder, TabInOrder
  <2>4. tab'[t].page \in About(s) BY <2>2, <2>3, ShorterSeq DEF AllOf
  <2>5. tab'[t].page.scan = s BY <2>4 DEF About, Of
  <2>6. Of(tab[t].page, s) BY <2>2, <2>3 DEF AllOf
  <2> QED BY <2>5, <2>6 DEF Of
<1> QED BY <1>1, Inductive, AlwaysTold, AlwaysInOrder, PTL DEF Spec, StartBeforeLayout
=============================================================================
