------------------------------- MODULE Canvas -------------------------------
(***************************************************************************)
(* How the page draws its treemap (wasm/src/app/render.rs, network.rs's     *)
(* handle_layout), and what the pointer does on it (interaction.rs, with    *)
(* logic.rs's hit tests and zoom).  Page has the page's connection.         *)
(*                                                                         *)
(* A frame is asked for at most once at a time, and draws what is dirty by  *)
(* then: the treemap into a buffer, the buffer and the hover overlay on the *)
(* canvas; while a zoom runs, its rects on the canvas instead.              *)
(***************************************************************************)
EXTENDS Treemap, FiniteSets

CONSTANTS
    Point,      \* where the pointer can be
    ZoomFrames  \* bound: instants of a zoom that frames can draw

ASSUME CanvasAssumption == Point \subseteq [x : Int, y : Int] /\ ZoomFrames \in Nat \ {0}

VARIABLES
    rects,        \* View::rects
    scanDone,     \* View::scan_done
    lastMouse,    \* View::last_mouse, a set of one point at most
    hover,        \* View::hover
    pendingOld,   \* View::pending_old_rects, a sequence of one at most
    zoomAnim,     \* View::zoom_anim: [from, to, at], likewise
    bufferDirty, dirty,
    rafPending,   \* Surface::raf_pending
    buffer,       \* what the buffer shows
    screen        \* what the canvas shows: [map, overlay]

canvasVars == <<rects, scanDone, lastMouse, hover, pendingOld, zoomAnim, bufferDirty, dirty,
                rafPending, buffer, screen>>

-----------------------------------------------------------------------------
HitTest(r, p) ==
    p.x >= r.box.x /\ p.x < r.box.x + r.box.w /\ p.y >= r.box.y /\ p.y < r.box.y + r.box.h

(* topmost: the last of those the pointer is on, or 0.                      *)
Topmost(rs, S) == IF S = {} THEN 0 ELSE CHOOSE i \in S : \A j \in S : j <= i
FindRect(rs, p) == Topmost(rs, {i \in 1 .. Len(rs) : HitTest(rs[i], p)})
FindNavigable(rs, p) == Topmost(rs, {i \in 1 .. Len(rs) : IsDir(rs[i]) /\ HitTest(rs[i], p)})

(* build_hover_state: the containers around a rect, innermost first.        *)
IndexOf(rs, id) == Topmost(rs, {i \in 1 .. Len(rs) : IsDir(rs[i]) /\ rs[i].id = id})

Ancestors(rs, id) ==
    LET around[i \in 0 .. Len(rs)] ==
            IF i = 0 THEN <<>>
            ELSE (IF rs[i].kind = "Container" THEN <<i>> ELSE <<>>) \o around[IndexOf(rs, rs[i].parent)]
    IN  around[IndexOf(rs, id)]

NoHover == [index |-> 0, ancestors |-> <<>>]
HoverAt(rs, i) ==
    IF i = 0 THEN NoHover ELSE [index |-> i, ancestors |-> Ancestors(rs, rs[i].parent)]

(* recompute_hover.  Mutant: what was hovered stays so while it is there.   *)
KeptHover(rs) == IF hover.index <= Len(rs) THEN hover ELSE NoHover

RecomputedHover(rs) ==
    IF lastMouse = {} THEN NoHover ELSE HoverAt(rs, FindRect(rs, CHOOSE p \in lastMouse : TRUE))

-----------------------------------------------------------------------------
(* InterpolationPlan: a rect goes to the one of the same key; the others    *)
(* grow from their middles, or shrink to them.  Mutant: files are told      *)
(* apart by an id none of them has.                                         *)
KeyById(r) == <<r.id, "">>
Key(r) == IF IsDir(r) THEN <<r.id, "">> ELSE <<r.parent, r.name>>

Between(a, b, at) == a + ((b - a) * at) \div ZoomFrames
Middle(b, share) == Box(b.x + (b.w * (ZoomFrames - share)) \div (2 * ZoomFrames),
                        b.y + (b.h * (ZoomFrames - share)) \div (2 * ZoomFrames),
                        (b.w * share) \div ZoomFrames, (b.h * share) \div ZoomFrames)

(* What is drawn of a rect, in a box.                                       *)
Drawn(r, b) == [parent |-> r.parent, id |-> r.id, name |-> r.name, box |-> b]
Picture(rs) == {Drawn(r, r.box) : r \in Range(rs)}

(* A zoom's picture at an instant, without what has no size.                *)
Interpolate(zoom, at) ==
    LET KeysOf(rs) == {Key(rs[i]) : i \in 1 .. Len(rs)}
        of(rs, k) == rs[Topmost(rs, {i \in 1 .. Len(rs) : Key(rs[i]) = k})].box
        matched(b, k) == LET a == of(zoom.from, k)
                         IN  Box(Between(a.x, b.x, at), Between(a.y, b.y, at),
                                 Between(a.w, b.w, at), Between(a.h, b.h, at))
        coming == {Drawn(r, IF Key(r) \in KeysOf(zoom.from) THEN matched(r.box, Key(r)) ELSE Middle(r.box, at)) :
                       r \in Range(zoom.to)}
        going == {Drawn(r, Middle(r.box, ZoomFrames - at)) :
                      r \in {x \in Range(zoom.from) : Key(x) \notin KeysOf(zoom.to)}}
    IN  {d \in coming \cup going : d.box.w > 0 /\ d.box.h > 0}

-----------------------------------------------------------------------------
Blank == [map |-> {}, overlay |-> NoHover]

CanvasInit ==
    /\ rects = <<>> /\ scanDone = FALSE
    /\ lastMouse = {} /\ hover = NoHover
    /\ pendingOld = <<>> /\ zoomAnim = <<>>
    /\ bufferDirty = TRUE /\ dirty = TRUE /\ rafPending = TRUE
    /\ buffer = {} /\ screen = Blank

(* redraw and schedule_tick.                                                *)
Redraw(withBuffer) ==
    /\ bufferDirty' = (bufferDirty \/ withBuffer)
    /\ dirty' = TRUE
    /\ rafPending' = TRUE

HandleLayout(new, done) ==
    /\ zoomAnim' = IF pendingOld = <<>> THEN zoomAnim
                   ELSE <<[from |-> pendingOld[1], to |-> new, at |-> 0]>>
    /\ pendingOld' = <<>>
    /\ rects' = new
    /\ hover' = RecomputedHover(new)
    /\ scanDone' = done
    /\ Redraw(TRUE)
    /\ UNCHANGED <<lastMouse, buffer, screen>>

(* A pointer that stays on a rect draws nothing.                            *)
MouseMove(p) ==
    /\ zoomAnim = <<>>
    /\ lastMouse' = {p}
    /\ IF FindRect(rects, p) = hover.index
       THEN UNCHANGED <<hover, bufferDirty, dirty, rafPending>>
       ELSE hover' = HoverAt(rects, FindRect(rects, p)) /\ Redraw(FALSE)
    /\ UNCHANGED <<rects, scanDone, pendingOld, zoomAnim, buffer, screen>>

MouseLeave ==
    /\ lastMouse' = {}
    /\ hover' = NoHover
    /\ Redraw(FALSE)
    /\ UNCHANGED <<rects, scanDone, pendingOld, zoomAnim, buffer, screen>>

(* begin_navigation, which draws nothing itself.                            *)
BeginNavigation ==
    /\ zoomAnim = <<>>
    /\ hover' = NoHover
    /\ pendingOld' = IF scanDone THEN <<rects>> ELSE pendingOld
    /\ UNCHANGED <<rects, scanDone, lastMouse, zoomAnim, bufferDirty, dirty, rafPending, buffer, screen>>

(* Where a click leads: to the topmost folder there (handle_canvas_click),  *)
(* or to a folder of the breadcrumb but its last (handle_breadcrumb_click). *)
ClickTargets(p) == IF FindNavigable(rects, p) = 0 THEN {} ELSE {rects[FindNavigable(rects, p)].id}
BreadcrumbTargets(breadcrumb) == {breadcrumb[i] : i \in 1 .. Len(breadcrumb) - 1}

Resize ==
    /\ buffer' = {}
    /\ screen' = Blank
    /\ Redraw(TRUE)
    /\ UNCHANGED <<rects, scanDone, lastMouse, hover, pendingOld, zoomAnim>>

(* A new scan's page, with hide_picker's resize.                            *)
ScanStart ==
    /\ rects' = <<>> /\ scanDone' = FALSE
    /\ zoomAnim' = <<>> /\ pendingOld' = <<>>
    /\ hover' = NoHover
    /\ buffer' = {} /\ screen' = Blank
    /\ Redraw(TRUE)
    /\ UNCHANGED lastMouse

(* tick and render.  A zoom's frame is at a later instant than the last,    *)
(* and the last one leaves the buffer to draw.  Mutant: it is as if drawn.  *)
ZoomFrameLast(at) ==
    /\ screen' = [map |-> Interpolate(zoomAnim[1], at), overlay |-> NoHover]
    /\ zoomAnim' = IF at = ZoomFrames THEN <<>> ELSE <<[zoomAnim[1] EXCEPT !.at = at]>>
    /\ bufferDirty' = FALSE
    /\ UNCHANGED buffer

ZoomFrame(at) ==
    /\ screen' = [map |-> Interpolate(zoomAnim[1], at), overlay |-> NoHover]
    /\ zoomAnim' = IF at = ZoomFrames THEN <<>> ELSE <<[zoomAnim[1] EXCEPT !.at = at]>>
    /\ bufferDirty' = (bufferDirty \/ at = ZoomFrames)
    /\ UNCHANGED buffer

Frame ==
    /\ buffer' = IF bufferDirty THEN Picture(rects) ELSE buffer
    /\ bufferDirty' = FALSE
    /\ screen' = [map |-> buffer', overlay |-> hover]
    /\ UNCHANGED zoomAnim

Tick ==
    /\ rafPending
    /\ IF zoomAnim # <<>> THEN \E at \in zoomAnim[1].at + 1 .. ZoomFrames : ZoomFrame(at)
       ELSE IF dirty THEN Frame
       ELSE UNCHANGED <<screen, zoomAnim, bufferDirty, buffer>>
    /\ dirty' = IF zoomAnim # <<>> \/ dirty THEN bufferDirty' ELSE dirty
    /\ rafPending' = (zoomAnim' # <<>> \/ dirty')
    /\ UNCHANGED <<rects, scanDone, lastMouse, hover, pendingOld>>

-----------------------------------------------------------------------------
(* draw_rects: bodies go in the order of their depth, so the last one over  *)
(* a point is the deepest.                                                  *)
Over(p) == {i \in 1 .. Len(rects) : HitTest(rects[i], p)}
OnTop(p) == CHOOSE i \in Over(p) : \A j \in Over(p) : rects[j].depth <= rects[i].depth

(* What is hovered is the rect drawn on top under the pointer in the        *)
(* current layout, however many came since the pointer moved, and the path  *)
(* it shows goes through all the rects drawn below it there (set_hover,     *)
(* recompute_hover, build_hover_state).                                     *)
HoverIsCurrent ==
    hover # NoHover =>
        \E p \in lastMouse :
            /\ Over(p) # {} /\ hover.index = OnTop(p)
            /\ Range(hover.ancestors) = Over(p) \ {hover.index}
            /\ \A i, j \in 1 .. Len(hover.ancestors) :
                 i < j => rects[hover.ancestors[i]].depth > rects[hover.ancestors[j]].depth

(* Unless a frame is on its way the canvas shows the current layout, no     *)
(* zoom is left half way and the rect that is hovered is outlined: no       *)
(* change, of whatever came while another was drawn, is never drawn (tick). *)
DrawnIsCurrent ==
    ~rafPending =>
        /\ screen.map = Picture(rects)
        /\ zoomAnim = <<>>
        /\ hover # NoHover => screen.overlay = hover

(* A zoom starts from the picture it leaves and ends at the one it goes to, *)
(* with no rect of either lost (InterpolationPlan).                         *)
ZoomsBetween ==
    zoomAnim # <<>> =>
        /\ Interpolate(zoomAnim[1], 0) = Picture(zoomAnim[1].from)
        /\ Interpolate(zoomAnim[1], ZoomFrames) = Picture(zoomAnim[1].to)
=============================================================================
