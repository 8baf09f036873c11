------------------------------- MODULE Server -------------------------------
(***************************************************************************)
(* The scans a server runs and the tabs that watch them                     *)
(* (rsdirstat/src/main.rs): start_scan, one relay_scan task per scan that    *)
(* feeds the shared tree and ends the scan's phase, and one handle_ws task  *)
(* per tab, woken by the `picker` and `tree_changes` watches, that lays out *)
(* the tree with update_tab.                                                *)
(*                                                                         *)
(* A scan is known by the order it started in, as its `cancel` flag's       *)
(* address tells it from the others.  The tree keeps whose events it holds  *)
(* and how many directories; DirTree has the rest.  A scanner is what a     *)
(* relay can see of it: its events, and that it is gone.  Paths and every   *)
(* setting of a view (its `look`) are opaque.                               *)
(***************************************************************************)
EXTENDS Naturals, Sequences

CONSTANTS
    Tab,
    Look, NoLook,  \* settings of a view; those of a tab yet to send its viewport
    MaxScans,      \* bound: scans started
    MaxDirs        \* bound: directories a scan reads

ASSUME BoundsAssumption == MaxScans \in Nat /\ MaxDirs \in Nat
ASSUME LookAssumption == NoLook \notin Look

VARIABLES
    phase,   \* ScanState::phase, and whose: [kind, scan]
    starts,  \* scans started
    scan,    \* each scan's scanner, channel and relay
    tree,    \* ScanState::tree
    tab      \* each tab's handle_ws task, and its page

vars == <<phase, starts, scan, tree, tab>>

Scan == 1 .. MaxScans
Phase(kind, s) == [kind |-> kind, scan |-> s]
Running(s) == phase = Phase("Running", s)

NoScan == [scanner |-> "none", found |-> 0, chan |-> <<>>,
           relay |-> "none", batch |-> <<>>, cancel |-> FALSE, complete |-> FALSE]

(* final (history): the scan whose events these are has ended.              *)
NoTree == [scans |-> 0, scan |-> 0, dirs |-> 0, complete |-> FALSE, final |-> FALSE]

(* picker and tree: what changed() has yet to report (picker: which scan    *)
(* sent the tab there); page: the last message the page got; picking: it    *)
(* has the picker up.                                                       *)
NoMessage == [kind |-> "none"]
NoTab == [pc |-> "off", picker |-> 0, tree |-> FALSE, stale |-> FALSE, scan |-> 0,
          look |-> NoLook, shown |-> <<>>, out |-> <<>>, page |-> NoMessage, picking |-> FALSE]

Init ==
    /\ phase \in {Phase("AwaitingPath", 0), Phase("AwaitingStart", 0)}
    /\ starts = 0
    /\ scan = [s \in Scan |-> NoScan]
    /\ tree = NoTree
    /\ tab = [t \in Tab |-> NoTab]

Connected(t) == tab[t].pc # "off"

(* watch::Sender::send_replace, to the tabs that have subscribed.           *)
Notified(field, value) ==
    [t \in Tab |-> IF Connected(t) THEN [tab[t] EXCEPT ![field] = value] ELSE tab[t]]

-----------------------------------------------------------------------------
(* start_scan: the check and the move to Running are one step.  Mutant: no  *)
(* check.                                                                   *)
StartScanAnyway(allowed) ==
    /\ starts < MaxScans
    /\ starts' = starts + 1
    /\ phase' = Phase("Running", starts')
    /\ scan' = [scan EXCEPT ![starts'].scanner = "opening", ![starts'].relay = "opening"]
    /\ UNCHANGED <<tree, tab>>

StartScan(allowed) ==
    /\ starts < MaxScans
    /\ phase.kind \in allowed
    /\ starts' = starts + 1
    /\ phase' = Phase("Running", starts')
    /\ scan' = [scan EXCEPT ![starts'].scanner = "opening", ![starts'].relay = "opening"]
    /\ UNCHANGED <<tree, tab>>

(* A page's requests reach the server at any time, whatever the page shows  *)
(* by then.                                                                 *)
Start == StartScan({"AwaitingStart"})
Rescan == StartScan({"Done"})
ScanPath == StartScan({"AwaitingPath", "Done"})

-----------------------------------------------------------------------------
(* The scanner.  What it sends goes nowhere once its relay has returned.    *)
(* `complete` is ScanDone's alone.                                          *)
Event(kind, complete) == [kind |-> kind, complete |-> complete]

Emit(s, event, next) ==
    /\ scan' = [scan EXCEPT ![s].scanner = next,
                            ![s].chan = IF scan[s].relay = "gone" THEN @ ELSE Append(@, event),
                            ![s].found = IF event.kind = "Dir" THEN @ + 1 ELSE @,
                            ![s].complete = event.complete]
    /\ UNCHANGED <<phase, starts, tree, tab>>

Opens(s) ==
    /\ scan[s].scanner = "opening"
    /\ Emit(s, Event("ScanStart", FALSE), "reading")

Reads(s) ==
    /\ scan[s].scanner = "reading"
    /\ scan[s].found < MaxDirs
    /\ Emit(s, Event("Dir", FALSE), "reading")

Finishes(s) ==
    /\ scan[s].scanner = "reading"
    /\ \E complete \in BOOLEAN :
         /\ complete => scan[s].found > 0
         /\ Emit(s, Event("ScanDone", complete), "gone")

(* It couldn't open the root, or it panicked: the channel closes.           *)
Stops(s) ==
    /\ scan[s].scanner \in {"opening", "reading"}
    /\ scan' = [scan EXCEPT ![s].scanner = "gone"]
    /\ UNCHANGED <<phase, starts, tree, tab>>

-----------------------------------------------------------------------------
(* relay_scan *)
Closed(s) == scan[s].scanner = "gone" /\ scan[s].chan = <<>>

RelayGoes(s, to) == scan' = [scan EXCEPT ![s].relay = to, ![s].batch = <<>>]

(* Nothing came within OPEN_TIMEOUT.                                        *)
GiveUp(s) ==
    /\ scan[s].relay = "opening"
    /\ scan[s].chan = <<>>
    /\ scan[s].scanner # "gone"
    /\ scan' = [scan EXCEPT ![s].relay = "to_picker", ![s].cancel = TRUE]
    /\ UNCHANGED <<phase, starts, tree, tab>>

(* Mutant: a relay that returns when the scanner is gone.                   *)
NeverOpenedIgnored(s) ==
    /\ scan[s].relay = "opening"
    /\ Closed(s)
    /\ RelayGoes(s, "gone")
    /\ UNCHANGED <<phase, starts, tree, tab>>

NeverOpened(s) ==
    /\ scan[s].relay = "opening"
    /\ Closed(s)
    /\ RelayGoes(s, "to_picker")
    /\ UNCHANGED <<phase, starts, tree, tab>>

(* The events that have come so far become one batch.                       *)
Drain(s) ==
    /\ scan[s].relay \in {"opening", "reading"}
    /\ scan[s].chan # <<>>
    /\ scan' = [scan EXCEPT ![s].relay = "batch", ![s].batch = scan[s].chan, ![s].chan = <<>>]
    /\ UNCHANGED <<phase, starts, tree, tab>>

(* DirTree::apply.  Mutant: a new scan's tree keeps the last one's word     *)
(* that it was complete.                                                    *)
AppliedOver(s, tr, event) ==
    CASE event.kind = "ScanStart" ->
           [tr EXCEPT !.scans = @ + 1, !.scan = s, !.dirs = 0, !.final = FALSE]
      [] event.kind = "Dir" -> [tr EXCEPT !.dirs = @ + 1]
      [] event.kind = "ScanDone" -> [tr EXCEPT !.complete = event.complete]

Applied(s, tr, event) ==
    CASE event.kind = "ScanStart" -> [NoTree EXCEPT !.scans = tr.scans + 1, !.scan = s]
      [] event.kind = "Dir" -> [tr EXCEPT !.dirs = @ + 1]
      [] event.kind = "ScanDone" -> [tr EXCEPT !.complete = event.complete]

(* end_phase: only the scan's own relay may.                                *)
EndPhase(s, kind) == phase' = IF Running(s) THEN Phase(kind, s) ELSE phase

(* The scan is over, and the relay still holds the tree's lock.  Mutant:    *)
(* the phase is ended whether or not a root was read.                       *)
EndReadingAnyhow(s, tr) ==
    /\ tree' = [tr EXCEPT !.final = TRUE]
    /\ EndPhase(s, "Done")
    /\ RelayGoes(s, "signal_tree")
    /\ UNCHANGED <<starts, tab>>

EndReading(s, tr) ==
    /\ tree' = [tr EXCEPT !.final = TRUE]
    /\ IF tr.dirs = 0
       THEN RelayGoes(s, "to_picker") /\ UNCHANGED phase
       ELSE RelayGoes(s, "signal_tree") /\ EndPhase(s, "Done")
    /\ UNCHANGED <<starts, tab>>

(* A batch is applied under the tree's write lock, and whatever follows its *)
(* ScanDone is dropped.                                                     *)
ApplyEvent(s) ==
    LET event == Head(scan[s].batch)
        rest == Tail(scan[s].batch)
    IN  /\ scan[s].relay \in {"batch", "applying"}
        /\ IF event.kind = "ScanDone"
           THEN EndReading(s, Applied(s, tree, event))
           ELSE /\ tree' = Applied(s, tree, event)
                /\ scan' = [scan EXCEPT ![s].batch = rest,
                                        ![s].relay = IF rest = <<>> THEN "applied" ELSE "applying"]
                /\ UNCHANGED <<phase, starts, tab>>

TreeFree == \A s \in Scan : scan[s].relay # "applying"

ScannerGone(s) ==
    /\ scan[s].relay = "reading"
    /\ Closed(s)
    /\ EndReading(s, tree)

(* tree_changed, once the lock is let go.                                   *)
SignalTree(s) ==
    /\ scan[s].relay \in {"applied", "signal_tree"}
    /\ RelayGoes(s, IF scan[s].relay = "applied" THEN "reading" ELSE "gone")
    /\ tab' = Notified("tree", TRUE)
    /\ UNCHANGED <<phase, starts, tree>>

ToPicker(s) ==
    /\ scan[s].relay = "to_picker"
    /\ RelayGoes(s, IF Running(s) THEN "signal_picker" ELSE "gone")
    /\ EndPhase(s, "AwaitingPath")
    /\ UNCHANGED <<starts, tree, tab>>

SignalPicker(s) ==
    /\ scan[s].relay = "signal_picker"
    /\ RelayGoes(s, "gone")
    /\ tab' = Notified("picker", s)
    /\ UNCHANGED <<phase, starts, tree>>

-----------------------------------------------------------------------------
(* handle_ws *)
TabStep(t, new) ==
    /\ tab' = [tab EXCEPT ![t] = new]
    /\ UNCHANGED <<phase, starts, scan, tree>>

PickerMode(s) == [kind |-> "PickerMode", scan |-> s]
ScanStart == [kind |-> "ScanStart", scan |-> tree.scan]

Connect(t) ==
    /\ ~Connected(t)
    /\ TabStep(t, [NoTab EXCEPT !.pc = "subscribed"])

(* The message a new tab starts with, read under both locks.                *)
Greeting ==
    CASE phase.kind = "AwaitingPath" -> <<PickerMode(starts)>>
      [] phase.kind = "AwaitingStart" -> <<[kind |-> "AwaitingStart"]>>
      [] phase.kind = "Running" /\ tree.dirs = 0 -> <<ScanStart>>
      [] OTHER -> <<>>

Greet(t) ==
    /\ tab[t].pc = "subscribed"
    /\ TreeFree
    /\ TabStep(t, [tab[t] EXCEPT !.pc = "select", !.scan = tree.scans, !.out = Greeting])

(* Of the messages a page gets only a ScanStart takes the picker down: a    *)
(* layout stays behind it.                                                  *)
PickerUp(message, up) == message.kind = "PickerMode" \/ (up /\ message.kind # "ScanStart")

(* The task sends before it selects again.  Mutant: changes are marked seen *)
(* after a layout, not before it.                                           *)
SendMarking(t) ==
    /\ tab[t].out # <<>>
    /\ TabStep(t, [tab[t] EXCEPT !.page = Head(tab[t].out), !.out = Tail(@), !.tree = FALSE,
                                 !.picking = PickerUp(Head(tab[t].out), @)])

Send(t) ==
    /\ tab[t].out # <<>>
    /\ TabStep(t, [tab[t] EXCEPT !.page = Head(tab[t].out), !.out = Tail(@),
                                 !.picking = PickerUp(Head(tab[t].out), @)])

Selects(t) == tab[t].pc = "select" /\ tab[t].out = <<>>

HearPicker(t) ==
    /\ Selects(t)
    /\ tab[t].picker # 0
    /\ TabStep(t, [tab[t] EXCEPT !.picker = 0, !.out = <<PickerMode(tab[t].picker)>>])

(* A message that sets the view: one that changes it makes the tab stale.   *)
SetView(t, look) ==
    /\ Selects(t)
    /\ tab[t].picker = 0
    /\ look # tab[t].look
    /\ TabStep(t, [tab[t] EXCEPT !.look = look, !.stale = TRUE])

HearTree(t) ==
    /\ Selects(t)
    /\ tab[t].picker = 0
    /\ tab[t].tree /\ ~tab[t].stale
    /\ TabStep(t, [tab[t] EXCEPT !.tree = FALSE, !.stale = TRUE])

(* A layout is due: the changes until now are marked seen before laying out.*)
LayoutDue(t) ==
    /\ Selects(t)
    /\ tab[t].picker = 0
    /\ tab[t].stale
    /\ TabStep(t, [tab[t] EXCEPT !.pc = "drawing", !.stale = FALSE, !.tree = FALSE])

(* update_tab: the ScanStart a tab of an earlier scan is owed, and its      *)
(* layout, unless there is nothing to show or nothing new.                  *)
NewScan(t) == IF tab[t].scan # tree.scans THEN <<ScanStart>> ELSE <<>>

Key(t) == <<tree.scans, tree.dirs, tab[t].look, phase.kind = "Done">>

LayoutOf(t) ==
    [kind |-> "Layout", scan |-> tree.scan, dirs |-> tree.dirs, look |-> tab[t].look,
     done |-> phase.kind = "Done", partial |-> phase.kind = "Done" /\ ~tree.complete,
     final |-> tree.final]

NothingToShow(t) == tree.dirs = 0 \/ tab[t].look = NoLook \/ tab[t].shown = Key(t)

(* Mutant: a new scan that isn't announced.                                 *)
UpdateTabUnannounced(t) ==
    /\ tab[t].pc = "drawing"
    /\ TreeFree
    /\ TabStep(t,
         IF phase.kind \in {"AwaitingPath", "AwaitingStart"}
         THEN [tab[t] EXCEPT !.pc = "select"]
         ELSE [tab[t] EXCEPT
                 !.pc = "select", !.scan = tree.scans,
                 !.shown = IF NothingToShow(t) THEN @ ELSE Key(t),
                 !.out = IF NothingToShow(t) THEN <<>> ELSE <<LayoutOf(t)>>])

UpdateTab(t) ==
    /\ tab[t].pc = "drawing"
    /\ TreeFree
    /\ TabStep(t,
         IF phase.kind \in {"AwaitingPath", "AwaitingStart"}
         THEN [tab[t] EXCEPT !.pc = "select"]
         ELSE [tab[t] EXCEPT
                 !.pc = "select", !.scan = tree.scans,
                 !.shown = IF NothingToShow(t) THEN @ ELSE Key(t),
                 !.out = NewScan(t) \o IF NothingToShow(t) THEN <<>> ELSE <<LayoutOf(t)>>])

(* The page goes away, or is reloaded; the task notices when it next        *)
(* receives or sends.                                                       *)
Leave(t) ==
    /\ Selects(t) \/ tab[t].out # <<>>
    /\ TabStep(t, NoTab)

-----------------------------------------------------------------------------
Requests == Start \/ Rescan \/ ScanPath

Relay(s) ==
    \/ GiveUp(s) \/ NeverOpened(s)
    \/ Drain(s) \/ ApplyEvent(s) \/ ScannerGone(s)
    \/ SignalTree(s) \/ ToPicker(s) \/ SignalPicker(s)

Serve(t) == Greet(t) \/ Send(t) \/ HearPicker(t) \/ HearTree(t) \/ LayoutDue(t) \/ UpdateTab(t)

Next ==
    \/ Requests
    \/ \E s \in Scan : Opens(s) \/ Reads(s) \/ Finishes(s) \/ Stops(s)
    \/ \E s \in Scan : Relay(s)
    \/ \E t \in Tab : Connect(t) \/ Leave(t) \/ Serve(t)
    \/ \E t \in Tab, look \in Look : SetView(t, look)

Spec == Init /\ [][Next]_vars

(* A relay is a thread that only waits for its scanner, and no longer than  *)
(* OPEN_TIMEOUT; a scan that has begun to read ends or is stopped (Scan);   *)
(* a tab's task runs when it has something to do.  Nothing makes a scanner  *)
(* open its root, or a page send anything.                                  *)
EndsReading(s) == scan[s].scanner = "reading" /\ (Finishes(s) \/ Stops(s))

Fairness ==
    /\ \A s \in Scan : WF_vars(Relay(s)) /\ WF_vars(EndsReading(s))
    /\ \A t \in Tab : WF_vars(Serve(t))

-----------------------------------------------------------------------------
Events == [kind : {"ScanStart", "Dir", "ScanDone"}, complete : BOOLEAN]

(* What the parts of the server and its tabs can be; a tab has heard of no  *)
(* more scans than the tree has held.                                       *)
TypeOK ==
    /\ phase \in [kind : {"AwaitingPath", "AwaitingStart", "Running", "Done"}, scan : Nat]
    /\ starts \in Nat
    /\ \A s \in Scan :
         /\ scan[s].scanner \in {"none", "opening", "reading", "gone"}
         /\ scan[s].relay \in {"none", "opening", "reading", "batch", "applying", "applied",
                               "signal_tree", "to_picker", "signal_picker", "gone"}
         /\ {scan[s].chan, scan[s].batch} \subseteq Seq(Events)
         /\ s > starts => scan[s] = NoScan
    /\ tree \in [scans : Nat, scan : Nat, dirs : Nat, complete : BOOLEAN, final : BOOLEAN]
    /\ \A t \in Tab :
         /\ tab[t].pc \in {"off", "subscribed", "select", "drawing"}
         /\ tab[t].picker \in Nat
         /\ tab[t].scan \in 0 .. tree.scans
         /\ tab[t].look \in Look \cup {NoLook}

(* Scans never overlap: only the scan the server is running writes the      *)
(* tree, however late the scanner or the relay of another one is            *)
(* (ScanPhase, start_scan, relay_scan).                                     *)
ScansNeverOverlap ==
    [][tree' # tree => phase.kind = "Running" /\ tree'.scan = phase.scan]_vars

(* A server that is Done holds the whole of what that scan found, its root  *)
(* at least (ScanPhase::Done).                                              *)
DoneHoldsItsScan ==
    phase.kind = "Done" => tree.scan = phase.scan /\ tree.final /\ tree.dirs > 0

(* A page that shows a scan hears of the next one before it gets a layout   *)
(* of it (update_tab).                                                      *)
StartBeforeLayout ==
    [][\A t \in Tab :
         LET old == tab[t].page
             new == tab'[t].page
         IN  old.kind \in {"ScanStart", "Layout"} /\ new.kind = "Layout" =>
                 new.scan = old.scan]_vars

(* A page shown as finished, with nothing missing, is of a scan whose       *)
(* ScanDone said so: not of one that broke off (DirTree::complete).         *)
CompleteIsComplete ==
    \A t \in Tab :
        LET page == tab[t].page
        IN  page.kind = "Layout" /\ page.done /\ ~page.partial => scan[page.scan].complete

(* Every scan's phase ends, even of one that never opens its root, dies or  *)
(* is given up on: the server is ready for the next (relay_scan).           *)
PhaseEnds == \A s \in Scan : Running(s) ~> ~Running(s)

(* What a page should show once nothing more happens.                       *)
UpToDate(t) ==
    CASE phase.kind = "Done" -> tab[t].page = LayoutOf(t) /\ ~tab[t].picking
      [] phase.kind = "AwaitingPath" -> tab[t].page.kind = "PickerMode"
      [] phase.kind = "AwaitingStart" -> tab[t].page.kind = "AwaitingStart"
      [] OTHER -> FALSE

(* A tab that stays, with its viewport sent and its settings left alone,    *)
(* comes to show where the server is: no change of tree or phase is lost    *)
(* between the watches, the marks and the layouts not sent (handle_ws).     *)
PagesSettle ==
    \A t \in Tab : \A look \in Look :
        <>[](Connected(t) /\ tab[t].look = look) => <>[]UpToDate(t)

(* "no tab lays out the final tree still marked as running"                 *)
FinalNeverRunning ==
    \A t \in Tab : tab[t].page.kind = "Layout" /\ tab[t].page.final => tab[t].page.done

(* "a trip to the picker reaches the page before any later scan's layouts"  *)
PickerBeforeLaterScans ==
    [][\A t \in Tab :
         LET old == tab[t].page
             new == tab'[t].page
         IN  old.kind = "Layout" /\ new.kind = "PickerMode" => old.scan <= new.scan]_vars
=============================================================================
