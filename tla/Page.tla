-------------------------------- MODULE Page --------------------------------
(***************************************************************************)
(* One page (crates/wasm/src/app) for as long as it is loaded: its socket   *)
(* and reconnections, the toolbar and its debounced filter, the picker, and *)
(* the snapshot of rects a zoom starts from; with what the server of module *)
(* Server can do to it over one connection after another.                   *)
(*                                                                          *)
(* Every handler of the page runs to its end before another does.  The      *)
(* toolbar is a setting sent at once (depth, colours) and one sent after a  *)
(* pause (the filter); what is drawn is known by the scan and folder it is  *)
(* of.                                                                      *)
(***************************************************************************)
EXTENDS Naturals, Sequences, SequencesExt

CONSTANTS
    Folder, Top,          \* folders a view can be of; the scan's root
    Setting, Default,     \* values of a toolbar control; the server's own
    MaxAttempts,          \* MAX_ATTEMPTS
    MaxEdits,             \* bound: changes of the toolbar, and navigations
    MaxLosses,            \* bound: connections lost
    MaxScans,             \* bound: scans the server runs
    MaxDown               \* bound: messages on their way to the page

ASSUME PageAssumption ==
    /\ Top \in Folder
    /\ Default \in Setting
    /\ MaxAttempts \in Nat

VARIABLES
    ws,            \* SessionState::ws: "none", "connecting", "open"
    attempts,      \* reconnect_attempts
    retry,         \* whether the reconnect timeout is set
    toolbar,       \* [depth, filter]
    filter_timer,  \* filter_timer_id
    scan_timer,    \* scan_timer_id
    picker,        \* whether the picker is shown
    treemap,       \* whether the treemap view is
    rects, armed,  \* ViewState::rects, pending_old_rects
    zoom,          \* zoom_anim: where from
    scan_done,
    up, down,      \* messages on their way to the server, to the page
    conn,          \* the server's end of the connection, and the tab's view
    server,        \* ScanPhase, the scan whose tree it holds, if it can be reached
    edits, losses  \* bounded by MaxEdits and MaxLosses

sessionVars == <<ws, attempts, retry, scan_timer>>
toolbarVars == <<toolbar, filter_timer>>
viewVars    == <<picker, treemap, rects, armed, zoom, scan_done>>
serverVars  == <<conn, server, losses>>
vars == <<sessionVars, toolbarVars, viewVars, serverVars, up, down, edits>>

NoRects == [scan |-> 0, folder |-> Top]
NoConn == [kind |-> "none"]

(* ViewConfig::default(), for a tab told of `scan`.                         *)
NewConn(scan) ==
    [kind |-> "some", depth |-> Default, filter |-> Default, viewport |-> FALSE,
     folder |-> Top, scan |-> scan]

Init ==
    /\ ws = "connecting" /\ attempts = 0 /\ retry = FALSE
    /\ toolbar \in [depth : Setting, filter : Setting]
    /\ filter_timer = FALSE /\ scan_timer = FALSE
    /\ picker = FALSE /\ treemap = FALSE
    /\ rects = NoRects /\ armed = NoRects /\ zoom = NoRects
    /\ scan_done = FALSE
    /\ up = <<>> /\ down = <<>>
    /\ conn = NoConn
    /\ server \in [phase : {"AwaitingPath", "AwaitingStart"}, scans : {0}, tree : {0},
                   rooted : {FALSE}, reachable : {TRUE}]
    /\ edits = 0 /\ losses = 0

-----------------------------------------------------------------------------
(* send_message: dropped unless the socket is open, and lost if the other   *)
(* end has gone.                                                            *)
Message(kind, value) == [kind |-> kind, value |-> value]
Sent(messages) == IF ws = "open" /\ conn # NoConn THEN up \o messages ELSE up

(* connect, from the reconnect timeout.  Mutant: the attempts are forgotten *)
(* before one has succeeded.                                                *)
ConnectAfresh ==
    /\ retry
    /\ retry' = FALSE
    /\ ws' = "connecting"
    /\ attempts' = 0
    /\ UNCHANGED <<scan_timer, toolbarVars, viewVars, serverVars, up, down, edits>>

Connect ==
    /\ retry
    /\ retry' = FALSE
    /\ ws' = "connecting"
    /\ UNCHANGED <<attempts, scan_timer, toolbarVars, viewVars, serverVars,
                   up, down, edits>>

(* What the server greets a tab with (Server's Greeting).                   *)
Greeting ==
    CASE server.phase = "AwaitingPath" -> <<[kind |-> "PickerMode"]>>
      [] server.phase = "AwaitingStart" -> <<[kind |-> "AwaitingStart"]>>
      [] server.phase = "Running" /\ ~server.rooted -> <<[kind |-> "ScanStart"]>>
      [] OTHER -> <<>>

(* The connection is made, and handle_ws_open sends the toolbar.  Mutant:   *)
(* without the filter.                                                      *)
HandleOpenUnfiltered ==
    /\ ws = "connecting" /\ server.reachable
    /\ ws' = "open" /\ attempts' = 0
    /\ conn' = NewConn(server.tree)
    /\ down' = Greeting
    /\ filter_timer' = FALSE
    /\ up' = <<Message("Depth", toolbar.depth), Message("Viewport", TRUE)>>
    /\ UNCHANGED <<retry, scan_timer, toolbar, viewVars, server, losses, edits>>

HandleOpen ==
    /\ ws = "connecting" /\ server.reachable
    /\ ws' = "open" /\ attempts' = 0
    /\ conn' = NewConn(server.tree)
    /\ down' = Greeting
    /\ filter_timer' = FALSE
    /\ up' = <<Message("Depth", toolbar.depth), Message("Filter", toolbar.filter),
               Message("Viewport", TRUE)>>
    /\ UNCHANGED <<retry, scan_timer, toolbar, viewVars, server, losses, edits>>

(* The connection is lost: what was on its way up is, what was on its way   *)
(* down may yet come.                                                       *)
Lose ==
    /\ conn # NoConn
    /\ losses < MaxLosses
    /\ losses' = losses + 1
    /\ conn' = NoConn
    /\ up' = <<>>
    /\ UNCHANGED <<sessionVars, toolbarVars, viewVars, server, down, edits>>

(* A socket that closes, or that never opened.                              *)
Closing == ws # "none" /\ (ws = "open" => conn = NoConn) /\ (ws = "connecting" => ~server.reachable)

GaveUp == ws = "none" /\ ~retry

(* handle_ws_close *)
HandleClose ==
    /\ Closing
    /\ ws' = "none"
    /\ scan_timer' = FALSE
    /\ IF attempts >= MaxAttempts THEN UNCHANGED <<attempts, retry>>
       ELSE attempts' = attempts + 1 /\ retry' = TRUE
    /\ down' = <<>>
    /\ UNCHANGED <<toolbarVars, viewVars, serverVars, up, edits>>

-----------------------------------------------------------------------------
(* handle_ws_message *)
Receives(kind) == ws = "open" /\ down # <<>> /\ Head(down).kind = kind /\ down' = Tail(down)

ShowPicker == picker' = TRUE /\ treemap' = FALSE
HidePicker == picker' = FALSE /\ treemap' = TRUE

PickerMode ==
    /\ Receives("PickerMode")
    /\ ShowPicker
    /\ UNCHANGED <<sessionVars, toolbarVars, rects, armed, zoom, scan_done, serverVars, up, edits>>

AwaitingStart ==
    /\ Receives("AwaitingStart")
    /\ treemap' = TRUE
    /\ UNCHANGED <<sessionVars, toolbarVars, picker, rects, armed, zoom, scan_done, serverVars,
                   up, edits>>

(* hide_picker resizes the canvas, which sends the viewport.                *)
ScanStart ==
    /\ Receives("ScanStart")
    /\ HidePicker
    /\ rects' = NoRects /\ armed' = NoRects /\ zoom' = NoRects
    /\ scan_done' = FALSE
    /\ scan_timer' = TRUE
    /\ up' = Sent(<<Message("Viewport", TRUE)>>)
    /\ UNCHANGED <<ws, attempts, retry, toolbarVars, serverVars, edits>>

(* handle_layout *)
Shows(layout) ==
    /\ rects' = [scan |-> layout.scan, folder |-> layout.folder]
    /\ armed' = NoRects
    /\ zoom' = IF armed # NoRects THEN armed ELSE zoom
    /\ scan_done' = layout.done
    /\ scan_timer' = ~layout.done
    /\ UNCHANGED <<ws, attempts, retry, toolbarVars, serverVars, up, edits>>

Layout ==
    /\ Receives("Layout")
    /\ treemap' = IF picker THEN treemap ELSE TRUE
    /\ UNCHANGED picker
    /\ Shows(Head(down))

-----------------------------------------------------------------------------
(* What the user does. *)
Edit == edits < MaxEdits /\ edits' = edits + 1

(* handle_depth_change, handle_color_mode_change *)
ChangeDepth(value) ==
    /\ Edit
    /\ value # toolbar.depth
    /\ toolbar' = [toolbar EXCEPT !.depth = value]
    /\ up' = Sent(<<Message("Depth", value)>>)
    /\ UNCHANGED <<sessionVars, filter_timer, viewVars, serverVars, down>>

(* Typing in the filter: schedule_filter_send.                              *)
EditFilter(value) ==
    /\ Edit
    /\ value # toolbar.filter
    /\ toolbar' = [toolbar EXCEPT !.filter = value]
    /\ filter_timer' = TRUE
    /\ UNCHANGED <<sessionVars, viewVars, serverVars, up, down>>

(* send_filter_now, from the timer.                                         *)
FilterTimer ==
    /\ filter_timer
    /\ filter_timer' = FALSE
    /\ up' = Sent(<<Message("Filter", toolbar.filter)>>)
    /\ UNCHANGED <<sessionVars, toolbar, viewVars, serverVars, down, edits>>

ClearFilter ==
    /\ Edit
    /\ toolbar.filter # Default
    /\ toolbar' = [toolbar EXCEPT !.filter = Default]
    /\ filter_timer' = FALSE
    /\ up' = Sent(<<Message("Filter", Default)>>)
    /\ UNCHANGED <<sessionVars, viewVars, serverVars, down>>

(* A click on a folder or the breadcrumb: begin_navigation.                 *)
Navigate(folder) ==
    /\ Edit
    /\ treemap /\ rects # NoRects /\ folder # rects.folder
    /\ zoom = NoRects
    /\ armed' = IF scan_done THEN rects ELSE armed
    /\ up' = Sent(<<Message("Navigate", folder)>>)
    /\ UNCHANGED <<sessionVars, toolbarVars, picker, treemap, rects, zoom, scan_done, serverVars,
                   down>>

(* The Change button, there once a scan is done.                            *)
Change ==
    /\ treemap /\ scan_done
    /\ Edit
    /\ ShowPicker
    /\ UNCHANGED <<sessionVars, toolbarVars, rects, armed, zoom, scan_done, serverVars, up, down>>

(* scan_path; the server's side of it is NewScan.                           *)
PickPath ==
    /\ picker
    /\ Edit
    /\ HidePicker
    /\ up' = Sent(<<Message("Viewport", TRUE)>>)
    /\ UNCHANGED <<sessionVars, toolbarVars, rects, armed, zoom, scan_done, serverVars, down>>

(* tick: the zoom has run its time.                                         *)
ZoomEnds ==
    /\ zoom # NoRects
    /\ zoom' = NoRects
    /\ UNCHANGED <<sessionVars, toolbarVars, picker, treemap, rects, armed, scan_done, serverVars,
                   up, down, edits>>

-----------------------------------------------------------------------------
(* The server *)
PageUnmoved == UNCHANGED <<sessionVars, toolbarVars, viewVars, edits, losses>>

(* handle_client_message *)
ServerReceives ==
    /\ conn # NoConn /\ up # <<>>
    /\ up' = Tail(up)
    /\ conn' = LET m == Head(up)
               IN  CASE m.kind = "Depth"    -> [conn EXCEPT !.depth = m.value]
                     [] m.kind = "Filter"   -> [conn EXCEPT !.filter = m.value]
                     [] m.kind = "Viewport" -> [conn EXCEPT !.viewport = TRUE]
                     [] m.kind = "Navigate" -> [conn EXCEPT !.folder = m.value]
    /\ UNCHANGED <<server, down>> /\ PageUnmoved

(* Some page asks for a scan.  The tree is still the last one's.            *)
NewScan ==
    /\ server.phase # "Running"
    /\ server.scans < MaxScans
    /\ server' = [server EXCEPT !.phase = "Running", !.scans = @ + 1]
    /\ UNCHANGED <<conn, up, down>> /\ PageUnmoved

(* Its relay applies its events: the ScanStart; the root's Dir; the end.    *)
TreeReplaced ==
    /\ server.phase = "Running"
    /\ server.tree # server.scans
    /\ server' = [server EXCEPT !.tree = server.scans, !.rooted = FALSE]
    /\ UNCHANGED <<conn, up, down>> /\ PageUnmoved

RootRead ==
    /\ server.phase = "Running"
    /\ server.tree = server.scans /\ ~server.rooted
    /\ server' = [server EXCEPT !.rooted = TRUE]
    /\ UNCHANGED <<conn, up, down>> /\ PageUnmoved

ScanEnds ==
    /\ server.phase = "Running"
    /\ server.tree = server.scans /\ server.rooted
    /\ server' = [server EXCEPT !.phase = "Done"]
    /\ UNCHANGED <<conn, up, down>> /\ PageUnmoved

(* The scan failed without a root, and the tabs are sent to the picker.     *)
ScanFails ==
    /\ server.phase = "Running"
    /\ server.tree = server.scans => ~server.rooted
    /\ Len(down) < MaxDown
    /\ server' = [server EXCEPT !.phase = "AwaitingPath"]
    /\ down' = IF conn = NoConn THEN down ELSE Append(down, [kind |-> "PickerMode"])
    /\ UNCHANGED <<conn, up>> /\ PageUnmoved

(* update_tab: a new scan is announced, and takes the view to its root.     *)
ServerSends ==
    LET fresh == conn.scan # server.tree
        folder == IF fresh THEN Top ELSE conn.folder
        start == IF fresh THEN <<[kind |-> "ScanStart"]>> ELSE <<>>
        layout == [kind |-> "Layout", scan |-> server.tree, folder |-> folder,
                   done |-> server.phase = "Done"]
    IN  /\ conn # NoConn
        /\ server.phase \in {"Running", "Done"}
        /\ Len(down) < MaxDown
        /\ down' = down \o start \o IF server.rooted /\ conn.viewport THEN <<layout>> ELSE <<>>
        /\ conn' = [conn EXCEPT !.scan = server.tree, !.folder = folder]
        /\ UNCHANGED <<server, up>> /\ PageUnmoved

(* The server goes away for good, or the network for a while.               *)
Unreachable ==
    /\ conn = NoConn
    /\ server' = [server EXCEPT !.reachable = ~@]
    /\ UNCHANGED <<conn, up, down>> /\ PageUnmoved

-----------------------------------------------------------------------------
Session == Connect \/ HandleOpen \/ HandleClose \/ PickerMode \/ AwaitingStart \/ ScanStart \/ Layout

User ==
    \/ \E value \in Setting : ChangeDepth(value) \/ EditFilter(value)
    \/ \E folder \in Folder : Navigate(folder)
    \/ ClearFilter \/ Change \/ PickPath

Browser == FilterTimer \/ ZoomEnds

ServerSide ==
    \/ ServerReceives \/ ServerSends
    \/ NewScan \/ TreeReplaced \/ RootRead \/ ScanEnds \/ ScanFails
    \/ Lose \/ Unreachable

Next == Session \/ User \/ Browser \/ ServerSide

(* The browser runs the page's callbacks, and an attempt to connect ends.   *)
Spec == Init /\ [][Next]_vars /\ WF_vars(Session)

-----------------------------------------------------------------------------
Rects == [scan : 0 .. MaxScans, folder : Folder]

(* What the toolbar shows reaches the server, whatever was typed while the  *)
(* socket was closed, lost or still connecting: once every message sent has *)
(* arrived and no timer is set the two agree, and the server knows the      *)
(* viewport without which it sends no layout (handle_ws_open).              *)
SettingsReach ==
    conn # NoConn /\ up = <<>> =>
        /\ conn.depth = toolbar.depth
        /\ filter_timer \/ conn.filter = toolbar.filter
        /\ conn.viewport

(* A page whose server is gone for good stops asking for it.                *)
StopsAsking == <>[](~server.reachable) => <>[]GaveUp

(* "Only arm the zoom animation once the scan is done", or a progress       *)
(* layout "would consume this one-shot snapshot and animate against the     *)
(* wrong (non-navigation) target": no layout of another, running scan       *)
(* starts a zoom.                                                           *)
ProgressNeverZooms ==
    [][zoom = NoRects /\ zoom' # NoRects => scan_done' \/ zoom'.scan = rects'.scan]_vars
=============================================================================
