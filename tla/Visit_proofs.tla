----------------------------- MODULE Visit_proofs -----------------------------
(***************************************************************************)
(* What holds on a visit's page (MC_Visit), whatever is scanned, laid out,  *)
(* pointed at and clicked on.                                               *)
(***************************************************************************)
EXTENDS MC_Visit, Platform_proofs

-----------------------------------------------------------------------------
(* What a visit may do to the canvas: lay it out anew, one of the person's  *)
(* or the browser's own, or nothing.                                        *)
CanvasMoves ==
    \/ \E new, done : HandleLayout(new, done)
    \/ \E p \in Point : MouseMove(p)
    \/ MouseLeave \/ BeginNavigation \/ Resize \/ ScanStart \/ Tick
    \/ UNCHANGED canvasVars

LEMMA VisitMovesCanvas == [Next]_vars => CanvasMoves
  <1>1. SUFFICES ASSUME [Next]_vars PROVE CanvasMoves
    OBVIOUS
  <1>2. CASE Layouts \/ Surveys
    BY <1>2 DEF Layouts, Surveys, Answers, CanvasMoves
  <1>3. CASE Points \/ Draws \/ Navigates
    BY <1>3 DEF Points, Draws, Navigates, CanvasMoves
  <1>4. CASE Filters \/ Resizes \/ Rescans
    BY <1>4 DEF Filters, Resizes, Rescans, CanvasMoves
  <1>5. CASE Lists \/ (\E w \in Worlds : Pick(w)) \/ CommandLine \/ Scans \/ UNCHANGED vars
    BY <1>5 DEF Lists, Pick, CommandLine, Scans, CanvasMoves, vars, canvasVars
  <1>6. QED BY <1>1, <1>2, <1>3, <1>4, <1>5 DEF Next

-----------------------------------------------------------------------------
(* What is stale is marked so, and what is marked has a frame coming.       *)
DrawnInv ==
    /\ bufferDirty \in BOOLEAN /\ dirty \in BOOLEAN
    /\ zoomAnim # <<>> => rafPending
    /\ dirty => rafPending
    /\ bufferDirty => dirty \/ zoomAnim # <<>>
    /\ ~bufferDirty => buffer = Picture(rects)
    /\ ~dirty /\ zoomAnim = <<>> =>
         /\ screen.map = Picture(rects)
         /\ hover # NoHover => screen.overlay = hover

LEMMA DrawnKept ==
    ASSUME DrawnInv, CanvasMoves
    PROVE  DrawnInv'
  <1>1. ASSUME NEW new, NEW done, HandleLayout(new, done) PROVE DrawnInv'
    BY <1>1 DEF DrawnInv, HandleLayout, Redraw
  <1>2. ASSUME NEW p, MouseMove(p) PROVE DrawnInv'
    BY <1>2 DEF DrawnInv, MouseMove, Redraw, Picture
  <1>3. CASE MouseLeave
    BY <1>3 DEF DrawnInv, MouseLeave, Redraw, Picture
  <1>4. CASE BeginNavigation
    BY <1>4 DEF DrawnInv, BeginNavigation, Picture
  <1>5. CASE Resize \/ ScanStart
    BY <1>5 DEF DrawnInv, Resize, ScanStart, Redraw, Picture
  <1>6. CASE Tick
    <2>1. ASSUME NEW at, ZoomFrame(at), zoomAnim # <<>> PROVE DrawnInv'
      BY <1>6, <2>1 DEF DrawnInv, Tick, ZoomFrame, Picture
    <2>2. CASE zoomAnim = <<>> /\ dirty
      <3>1. Picture(rects)' = Picture(rects)
        BY <1>6 DEF Tick, Picture
      <3>2. /\ bufferDirty' = FALSE /\ dirty' = FALSE /\ hover' = hover
            /\ zoomAnim' = <<>>
            /\ screen'.map = buffer' /\ screen'.overlay = hover
        BY <1>6, <2>2 DEF Tick, Frame
      <3>3. buffer' = Picture(rects)
        BY <1>6, <2>2 DEF DrawnInv, Tick, Frame
      <3>4. QED BY <3>1, <3>2, <3>3 DEF DrawnInv
    <2>3. CASE zoomAnim = <<>> /\ ~dirty
      BY <1>6, <2>3 DEF DrawnInv, Tick, Picture
    <2>4. QED BY <1>6, <2>1, <2>2, <2>3 DEF Tick
  <1>7. CASE UNCHANGED canvasVars
    BY <1>7 DEF DrawnInv, canvasVars, Picture
  <1>8. QED BY <1>1, <1>2, <1>3, <1>4, <1>5, <1>6, <1>7 DEF CanvasMoves

(* No change is never drawn: on any visit, unless a frame is on its way the *)
(* canvas shows the current layout and outlines what is hovered (tick).     *)
THEOREM VisitDrawnIsCurrent == Spec => []DrawnIsCurrent
  <1>1. Init => DrawnInv
    BY DEF Init, CanvasInit, DrawnInv
  <1>2. DrawnInv /\ [Next]_vars => DrawnInv'
    BY VisitMovesCanvas, DrawnKept
  <1>3. DrawnInv => DrawnIsCurrent
    BY DEF DrawnInv, DrawnIsCurrent
  <1>4. QED BY <1>1, <1>2, <1>3, PTL DEF Spec

-----------------------------------------------------------------------------
(* What a treemap is to a pointer: rects in their containers, those of one  *)
(* container apart, and no folder twice.                                    *)
LaidOut(root, rs) ==
    /\ Len(rs) \in Nat
    /\ \A i \in 1 .. Len(rs) : rs[i].box \in Boxes /\ rs[i].depth \in Nat
    /\ \A i, j \in 1 .. Len(rs) : IsDir(rs[i]) /\ IsDir(rs[j]) /\ rs[i].id = rs[j].id => i = j
    /\ \A i \in 1 .. Len(rs) : IsDir(rs[i]) => rs[i].id # root
    /\ \A i \in 1 .. Len(rs) :
          rs[i].parent = root
            \/ \E j \in 1 .. i - 1 : /\ rs[j].id = rs[i].parent /\ rs[j].kind = "Container"
                                     /\ rs[i].depth = rs[j].depth + 1
                                     /\ Inside(rs[i].box, rs[j].box)
    /\ \A i \in 1 .. Len(rs) : \A j \in 1 .. i - 1 :
          rs[i].parent = rs[j].parent => Apart(rs[i].box, rs[j].box)

(* The container a rect is in, or 0.                                        *)
Up(rs, i) == IndexOf(rs, rs[i].parent)

LEMMA UpIs ==
    ASSUME NEW root, NEW rs, LaidOut(root, rs), NEW i \in 1 .. Len(rs)
    PROVE  /\ Up(rs, i) \in 0 .. i - 1
           /\ rs[i].parent = root <=> Up(rs, i) = 0
           /\ Up(rs, i) # 0 => /\ rs[Up(rs, i)].id = rs[i].parent
                               /\ rs[Up(rs, i)].kind = "Container"
                               /\ rs[i].depth = rs[Up(rs, i)].depth + 1
                               /\ Inside(rs[i].box, rs[Up(rs, i)].box)
  <1> DEFINE S == {j \in 1 .. Len(rs) : IsDir(rs[j]) /\ rs[j].id = rs[i].parent}
  <1>1. Up(rs, i) = Topmost(rs, S)
    BY DEF Up, IndexOf
  <1>2. CASE rs[i].parent = root
    <2>1. S = {}
      BY <1>2 DEF LaidOut
    <2>2. Up(rs, i) = 0
      BY <1>1, <2>1 DEF Topmost
    <2>3. 0 \in 0 .. i - 1
      BY DEF LaidOut
    <2>4. QED BY <1>2, <2>2, <2>3
  <1>3. CASE rs[i].parent # root
    <2>1. PICK j \in 1 .. i - 1 : /\ rs[j].id = rs[i].parent /\ rs[j].kind = "Container"
                                  /\ rs[i].depth = rs[j].depth + 1
                                  /\ Inside(rs[i].box, rs[j].box)
      BY <1>3 DEF LaidOut
    <2>2. j \in 1 .. Len(rs) /\ j \in 0 .. i - 1 /\ j # 0
      BY DEF LaidOut
    <2>3. S = {j}
      BY <2>1, <2>2 DEF LaidOut, IsDir
    <2>4. Topmost(rs, S) = j
      <3>1. j <= j
        BY <2>2
      <3>2. QED BY <2>3, <3>1 DEF Topmost
    <2>5. QED BY <1>1, <1>3, <2>1, <2>2, <2>4
  <1>4. QED BY <1>2, <1>3

(* Ancestors is computed up from the root.                                  *)
Around(rs, n, f) ==
    f = [i \in 0 .. n |-> IF i = 0 THEN <<>>
                          ELSE (IF rs[i].kind = "Container" THEN <<i>> ELSE <<>>)
                                 \o f[IndexOf(rs, rs[i].parent)]]

LEMMA AncestorsIs ==
    ASSUME NEW rs, NEW id
    PROVE  Ancestors(rs, id) = (CHOOSE f : Around(rs, Len(rs), f))[IndexOf(rs, id)]
  BY DEF Ancestors, Around

LEMMA AroundExists ==
    ASSUME NEW root, NEW rs, LaidOut(root, rs)
    PROVE  \E f : Around(rs, Len(rs), f)
  <1> DEFINE T == {n \in 0 .. Len(rs) : \E f : Around(rs, n, f)}
             own(i) == IF rs[i].kind = "Container" THEN <<i>> ELSE <<>>
  <1>0. Len(rs) \in Nat
    BY DEF LaidOut
  <1>1. 0 \in T
    <2> DEFINE g == [i \in 0 .. 0 |-> <<>>]
    <2>1. g = [i \in 0 .. 0 |-> IF i = 0 THEN <<>> ELSE own(i) \o g[Up(rs, i)]]
      OBVIOUS
    <2> HIDE DEF g
    <2>2. Around(rs, 0, g)
      BY <2>1 DEF Around, Up
    <2>3. QED BY <1>0, <2>2
  <1>2. ASSUME NEW n \in 1 .. Len(rs), n - 1 \in T PROVE n \in T
    <2>1. PICK f : Around(rs, n - 1, f)
      BY <1>2
    <2>2. f = [i \in 0 .. n - 1 |-> IF i = 0 THEN <<>> ELSE own(i) \o f[Up(rs, i)]]
      BY <2>1 DEF Around, Up
    <2> DEFINE g == [i \in 0 .. n |-> IF i = 0 THEN <<>> ELSE own(i) \o f[Up(rs, i)]]
    <2>3. ASSUME NEW i \in 0 .. n - 1 PROVE g[i] = f[i]
      <3>1. i \in 0 .. n
        BY <1>0
      <3>2. QED BY <2>2, <3>1
    <2>4. \A i \in 1 .. n : Up(rs, i) \in 0 .. n - 1
      <3>1. TAKE i \in 1 .. n
      <3>2. i \in 1 .. Len(rs)
        BY <1>0
      <3>3. Up(rs, i) \in 0 .. i - 1
        BY <3>2, UpIs
      <3>4. QED BY <3>3, <1>0
    <2>5. g = [i \in 0 .. n |-> IF i = 0 THEN <<>> ELSE own(i) \o g[Up(rs, i)]]
      <3>1. ASSUME NEW i \in 0 .. n
            PROVE  (IF i = 0 THEN <<>> ELSE own(i) \o f[Up(rs, i)])
                     = IF i = 0 THEN <<>> ELSE own(i) \o g[Up(rs, i)]
        <4>1. CASE i = 0
          BY <4>1
        <4>2. CASE i # 0
          <5>1. i \in 1 .. n
            BY <4>2
          <5>2. g[Up(rs, i)] = f[Up(rs, i)]
            BY <5>1, <2>3, <2>4
          <5>3. QED BY <4>2, <5>2
        <4>3. QED BY <4>1, <4>2
      <3>2. QED BY <3>1, Zenon
    <2> HIDE DEF g
    <2>6. Around(rs, n, g)
      BY <2>5 DEF Around, Up
    <2>7. QED BY <2>6
  <1>3. 0 .. Len(rs) \subseteq T
    <2> HIDE DEF T
    <2>1. QED BY <1>0, <1>1, <1>2, Induct
  <1>4. Len(rs) \in T
    BY <1>0, <1>3
  <1>5. QED BY <1>4

(* On the way up: containers, each less deep than the one before, and each  *)
(* under the pointer if the first is.                                       *)
Spots == [x : Int, y : Int]

Chain(rs, i, s) ==
    /\ s \in Seq(1 .. Len(rs))
    /\ \A m \in 1 .. Len(s) :
         /\ s[m] <= i /\ rs[s[m]].kind = "Container"
         /\ s[m] = i \/ rs[s[m]].depth < rs[i].depth
         /\ \A p \in Spots : HitTest(rs[i], p) => HitTest(rs[s[m]], p)
    /\ \A m, n \in 1 .. Len(s) : m < n => rs[s[m]].depth > rs[s[n]].depth

LEMMA InsideHit ==
    ASSUME NEW r, NEW q, r.box \in Boxes, q.box \in Boxes, Inside(r.box, q.box),
           NEW p \in Spots, HitTest(r, p)
    PROVE  HitTest(q, p)
  BY DEF Inside, Boxes, Spots, HitTest

LEMMA ChainIs ==
    ASSUME NEW root, NEW rs, LaidOut(root, rs), NEW f, Around(rs, Len(rs), f)
    PROVE  /\ f[0] = <<>>
           /\ \A i \in 0 .. Len(rs) : Chain(rs, i, f[i])
           /\ \A i \in 1 .. Len(rs) :
                /\ \A k \in 1 .. Len(rs) : k \in Range(f[Up(rs, i)]) => k \in Range(f[i])
                /\ rs[i].kind = "Container" => i \in Range(f[i])
  <1> DEFINE own(i) == IF rs[i].kind = "Container" THEN <<i>> ELSE <<>>
             T == {i \in 0 .. Len(rs) : \A j \in 0 .. i : Chain(rs, j, f[j])}
  <1>0. Len(rs) \in Nat
    BY DEF LaidOut
  <1>1. /\ f[0] = <<>>
        /\ \A i \in 1 .. Len(rs) : f[i] = own(i) \o f[Up(rs, i)]
    <2> DEFINE e(i) == IF i = 0 THEN <<>> ELSE own(i) \o f[Up(rs, i)]
    <2>1. f = [i \in 0 .. Len(rs) |-> e(i)]
      BY DEF Around, Up
    <2>2. e(0) = <<>> /\ \A i \in 1 .. Len(rs) : e(i) = own(i) \o f[Up(rs, i)]
      <3>1. \A i \in 1 .. Len(rs) : i # 0
        BY <1>0
      <3> HIDE DEF own
      <3>2. QED BY <3>1
    <2> HIDE DEF e
    <2>3. 0 \in 0 .. Len(rs) /\ \A i \in 1 .. Len(rs) : i \in 0 .. Len(rs)
      BY <1>0
    <2>4. f[0] = e(0) /\ \A i \in 1 .. Len(rs) : f[i] = e(i)
      BY <2>1, <2>3
    <2>5. QED BY <2>2, <2>4
  <1>2. Chain(rs, 0, f[0])
    BY <1>1 DEF Chain
  <1>3. ASSUME NEW i \in 1 .. Len(rs), Chain(rs, Up(rs, i), f[Up(rs, i)])
        PROVE  /\ Chain(rs, i, f[i])
               /\ \A k \in 1 .. Len(rs) : k \in Range(f[Up(rs, i)]) => k \in Range(f[i])
               /\ rs[i].kind = "Container" => i \in Range(f[i])
    <2>0. PICK j, t, o : j = Up(rs, i) /\ t = f[j] /\ o = own(i)
      OBVIOUS
    <2>1. /\ j \in 0 .. i - 1
          /\ j # 0 => /\ rs[i].depth = rs[j].depth + 1 /\ Inside(rs[i].box, rs[j].box)
                     /\ rs[j].kind = "Container"
      BY <2>0, UpIs
    <2>2. /\ f[i] = o \o t
          /\ o \in Seq(1 .. Len(rs)) /\ t \in Seq(1 .. Len(rs))
          /\ Chain(rs, j, t)
      <3>1. o \in Seq(1 .. Len(rs))
        <4>1. <<i>> \in Seq(1 .. Len(rs)) /\ <<>> \in Seq(1 .. Len(rs))
          OBVIOUS
        <4>2. QED BY <2>0, <4>1
      <3>2. QED BY <1>1, <1>3, <2>0, <3>1 DEF Chain
    <2>3. /\ Len(o) \in Nat /\ (Len(o) = 0 \/ Len(o) = 1) /\ Len(t) \in Nat
          /\ o # <<>> => /\ rs[i].kind = "Container" /\ o[1] = i /\ Len(o) = 1
          /\ o = <<>> => Len(o) = 0
          /\ rs[i].kind = "Container" => o # <<>>
          /\ j = 0 => t = <<>> /\ Len(t) = 0
      BY <2>0, <2>2, <1>1
    <2>4. /\ f[i] \in Seq(1 .. Len(rs)) /\ Len(f[i]) = Len(o) + Len(t)
          /\ \A m \in 1 .. Len(o) + Len(t) : f[i][m] = IF m <= Len(o) THEN o[m] ELSE t[m - Len(o)]
      BY <2>2, ConcatProperties
    <2>5. \A m \in 1 .. Len(f[i]) :
             \/ m = 1 /\ Len(o) = 1 /\ f[i][m] = i /\ rs[i].kind = "Container"
             \/ m - Len(o) \in 1 .. Len(t) /\ f[i][m] = t[m - Len(o)] /\ j # 0
      <3>1. TAKE m \in 1 .. Len(f[i])
      <3>2. CASE m <= Len(o)
        <4>1. m = 1 /\ Len(o) = 1 /\ o # <<>>
          BY <2>3, <2>4, <3>2
        <4>2. QED BY <2>3, <2>4, <3>2, <4>1
      <3>3. CASE ~(m <= Len(o))
        <4>1. m - Len(o) \in 1 .. Len(t) /\ f[i][m] = t[m - Len(o)]
          BY <2>3, <2>4, <3>3
        <4>2. QED BY <2>3, <4>1
      <3>4. QED BY <3>2, <3>3
    <2>6. /\ rs[i].depth \in Nat /\ rs[i].box \in Boxes
          /\ j # 0 => rs[j].depth \in Nat /\ rs[j].box \in Boxes
      BY <1>0, <2>1 DEF LaidOut
    <2>7. \A m \in 1 .. Len(t) : j # 0 =>
             /\ t[m] \in 1 .. Len(rs) /\ t[m] < i /\ rs[t[m]].kind = "Container"
             /\ rs[t[m]].depth \in Nat /\ rs[t[m]].depth < rs[i].depth
      <3>1. TAKE m \in 1 .. Len(t)
      <3>2. HAVE j # 0
      <3>3. t[m] \in 1 .. Len(rs) /\ t[m] <= j /\ rs[t[m]].kind = "Container"
            /\ (t[m] = j \/ rs[t[m]].depth < rs[j].depth)
        BY <2>2, ElementOfSeq DEF Chain
      <3>4. rs[t[m]].depth \in Nat
        BY <3>3 DEF LaidOut
      <3>5. QED BY <1>0, <2>1, <2>6, <3>2, <3>3, <3>4
    <2>8. \A m \in 1 .. Len(t) : j # 0 => \A p \in Spots : HitTest(rs[i], p) => HitTest(rs[t[m]], p)
      <3>1. TAKE m \in 1 .. Len(t)
      <3>2. HAVE j # 0
      <3>3. TAKE p \in Spots
      <3>4. HAVE HitTest(rs[i], p)
      <3>5. HitTest(rs[j], p)
        BY <2>1, <2>6, <3>2, <3>4, InsideHit
      <3>6. QED BY <2>2, <3>5 DEF Chain
    <2>9. Chain(rs, i, f[i])
      <3>1. \A m \in 1 .. Len(f[i]) :
              /\ f[i][m] <= i /\ rs[f[i][m]].kind = "Container"
              /\ f[i][m] = i \/ rs[f[i][m]].depth < rs[i].depth
              /\ \A p \in Spots : HitTest(rs[i], p) => HitTest(rs[f[i][m]], p)
        <4>1. TAKE m \in 1 .. Len(f[i])
        <4>2. CASE f[i][m] = i /\ rs[i].kind = "Container"
          BY <4>2
        <4>3. CASE m - Len(o) \in 1 .. Len(t) /\ f[i][m] = t[m - Len(o)] /\ j # 0
          <5>1. PICK n \in 1 .. Len(t) : f[i][m] = t[n]
            BY <4>3
          <5>2. t[n] <= i
            BY <2>7, <4>3, <1>0
          <5>3. QED BY <2>7, <2>8, <4>3, <5>1, <5>2
        <4>4. QED BY <2>5, <4>2, <4>3
      <3>2. ASSUME NEW m \in 1 .. Len(f[i]), NEW n \in 1 .. Len(f[i]), m < n
            PROVE  rs[f[i][m]].depth > rs[f[i][n]].depth
        <4>1. n # 1 /\ n - Len(o) \in 1 .. Len(t) /\ f[i][n] = t[n - Len(o)] /\ j # 0
          BY <2>4, <2>5, <3>2
        <4>2. CASE f[i][m] = i /\ m = 1
          BY <4>1, <4>2, <2>6, <2>7
        <4>3. CASE m - Len(o) \in 1 .. Len(t) /\ f[i][m] = t[m - Len(o)]
          <5>1. m - Len(o) < n - Len(o)
            BY <2>3, <3>2
          <5>2. QED BY <2>2, <4>1, <4>3, <5>1 DEF Chain
        <4>4. QED BY <2>5, <4>2, <4>3
      <3>3. QED BY <2>4, <3>1, <3>2 DEF Chain
    <2>10. ASSUME NEW k \in 1 .. Len(rs), k \in Range(t) PROVE k \in Range(f[i])
      <3>1. PICK m \in 1 .. Len(t) : t[m] = k
        BY <2>2, <2>10, LenProperties DEF Range
      <3>2. m + Len(o) \in 1 .. Len(f[i]) /\ f[i][m + Len(o)] = k
        <4>1. PICK n : n = m + Len(o)
          OBVIOUS
        <4>2. n \in 1 .. Len(o) + Len(t) /\ ~(n <= Len(o)) /\ n - Len(o) = m
          BY <2>3, <4>1
        <4>3. QED BY <2>4, <3>1, <4>1, <4>2
      <3>3. QED BY <2>4, <3>2, LenProperties DEF Range
    <2>11. ASSUME rs[i].kind = "Container" PROVE i \in Range(f[i])
      <3>1. 1 \in 1 .. Len(f[i]) /\ f[i][1] = i
        BY <2>3, <2>4, <2>11
      <3>2. QED BY <2>4, <3>1, LenProperties DEF Range
    <2>12. QED BY <2>0, <2>9, <2>10, <2>11
  <1>4. 0 .. Len(rs) \subseteq T
    <2>1. 0 \in T
      BY <1>0, <1>2
    <2>2. ASSUME NEW i \in 1 .. Len(rs), i - 1 \in T PROVE i \in T
      <3>1. Up(rs, i) \in 0 .. i - 1
        BY UpIs
      <3>2. Chain(rs, i, f[i])
        BY <1>3, <2>2, <3>1
      <3>3. \A j \in 0 .. i : j = i \/ j \in 0 .. i - 1
        OBVIOUS
      <3>4. QED BY <1>0, <2>2, <3>2, <3>3
    <2> HIDE DEF T
    <2>3. QED BY <1>0, <2>1, <2>2, Induct
  <1>5. \A i \in 0 .. Len(rs) : Chain(rs, i, f[i])
    BY <1>0, <1>4
  <1>6. \A i \in 1 .. Len(rs) : Chain(rs, Up(rs, i), f[Up(rs, i)])
    <2>1. TAKE i \in 1 .. Len(rs)
    <2>2. Up(rs, i) \in 0 .. i - 1
      BY UpIs
    <2>3. QED BY <1>0, <1>5, <2>2
  <1>7. QED BY <1>1, <1>3, <1>5, <1>6

LEMMA ApartHit ==
    ASSUME NEW r, NEW q, r.box \in Boxes, q.box \in Boxes, Apart(r.box, q.box), NEW p \in Spots
    PROVE  ~(HitTest(r, p) /\ HitTest(q, p))
  BY DEF Apart, Boxes, Spots, HitTest

(* Two rects under the pointer: one is in the other.                        *)
LEMMA OneInTheOther ==
    ASSUME NEW root, NEW rs, LaidOut(root, rs), NEW f, Around(rs, Len(rs), f), NEW p \in Spots
    PROVE  \A i \in 1 .. Len(rs) : \A j \in 1 .. i - 1 :
             HitTest(rs[i], p) /\ HitTest(rs[j], p) => j \in Range(f[Up(rs, i)])
  <1> DEFINE Wrong(i) == {j \in 1 .. i - 1 : /\ HitTest(rs[i], p) /\ HitTest(rs[j], p)
                                              /\ j \notin Range(f[Up(rs, i)])}
             Bad == {i \in 1 .. Len(rs) : Wrong(i) # {}}
  <1>0. Len(rs) \in Nat
    BY DEF LaidOut
  <1>1. SUFFICES ASSUME Bad # {} PROVE FALSE
    OBVIOUS
  <1>2. PICK i \in Bad : \A k \in Bad : i <= k
    <2>1. Bad \subseteq Nat
      OBVIOUS
    <2> HIDE DEF Bad
    <2>2. QED BY <1>1, <2>1, Least
  <1>3. i \in 1 .. Len(rs) /\ Wrong(i) # {}
    BY <1>2
  <1>4. PICK j \in Wrong(i) : \A k \in Wrong(i) : j <= k
    <2>1. Wrong(i) \subseteq Nat
      OBVIOUS
    <2> HIDE DEF Wrong
    <2>2. QED BY <1>3, <2>1, Least
  <1>5. /\ j \in 1 .. i - 1 /\ j \in 1 .. Len(rs)
        /\ HitTest(rs[i], p) /\ HitTest(rs[j], p) /\ j \notin Range(f[Up(rs, i)])
    BY <1>0, <1>3, <1>4
  <1>6. PICK u, b : u = Up(rs, i) /\ b = Up(rs, j)
    OBVIOUS
  <1>7. /\ u \in 0 .. i - 1 /\ b \in 0 .. j - 1
        /\ u # 0 => u \in 1 .. Len(rs) /\ rs[u].kind = "Container" /\ HitTest(rs[u], p)
        /\ b # 0 => b \in 1 .. Len(rs) /\ HitTest(rs[b], p)
        /\ u = b => rs[i].parent = rs[j].parent
    <2>1. /\ u \in 0 .. i - 1 /\ b \in 0 .. j - 1
          /\ u # 0 => u \in 1 .. Len(rs) /\ rs[u].kind = "Container" /\ Inside(rs[i].box, rs[u].box)
          /\ b # 0 => b \in 1 .. Len(rs) /\ Inside(rs[j].box, rs[b].box)
          /\ u = b => rs[i].parent = rs[j].parent
      <3>1. /\ u \in 0 .. i - 1
            /\ rs[i].parent = root <=> u = 0
            /\ u # 0 => /\ rs[u].id = rs[i].parent /\ rs[u].kind = "Container"
                        /\ Inside(rs[i].box, rs[u].box)
        BY <1>3, <1>6, UpIs
      <3>2. /\ b \in 0 .. j - 1
            /\ rs[j].parent = root <=> b = 0
            /\ b # 0 => /\ rs[b].id = rs[j].parent
                        /\ Inside(rs[j].box, rs[b].box)
        BY <1>5, <1>6, UpIs
      <3>3. (u # 0 => u \in 1 .. Len(rs)) /\ (b # 0 => b \in 1 .. Len(rs))
        BY <1>0, <1>3, <1>5, <3>1, <3>2
      <3>4. QED BY <3>1, <3>2, <3>3
    <2>2. \A k \in 1 .. Len(rs) : rs[k].box \in Boxes
      BY DEF LaidOut
    <2>3. QED BY <1>3, <1>5, <2>1, <2>2, InsideHit
  <1>8. \A k \in 1 .. Len(rs) : k \notin Bad => Wrong(k) = {}
    OBVIOUS
  <1>9. \A k \in 0 .. Len(rs) : \A l \in Range(f[k]) : l <= k
    <2>1. TAKE k \in 0 .. Len(rs)
    <2>2. Chain(rs, k, f[k])
      BY ChainIs
    <2>3. TAKE l \in Range(f[k])
    <2>4. PICK m \in 1 .. Len(f[k]) : f[k][m] = l
      BY <2>2, LenProperties DEF Range, Chain
    <2>5. QED BY <2>2, <2>4 DEF Chain
  <1>10. \A k \in 1 .. Len(rs) :
           /\ rs[k].kind = "Container" => k \in Range(f[k])
           /\ \A l \in 1 .. Len(rs) : l \in Range(f[Up(rs, k)]) => l \in Range(f[k])
    BY ChainIs
  <1>11. j # u
    BY <1>5, <1>6, <1>7, <1>10
  <1>12. ~(j < u)
    <2>1. SUFFICES ASSUME j < u PROVE FALSE
      OBVIOUS
    <2>2. u \in 1 .. Len(rs) /\ HitTest(rs[u], p) /\ u < i /\ j \in 1 .. u - 1
      BY <1>5, <1>7, <2>1
    <2>3. u \notin Bad
      BY <1>2, <2>2, <1>3, <1>0
    <2>4. j \in Range(f[Up(rs, u)])
      BY <1>5, <1>8, <2>2, <2>3
    <2>5. QED BY <1>5, <1>6, <1>10, <2>2, <2>4
  <1>13. u # b
    <2>1. SUFFICES ASSUME u = b PROVE FALSE
      OBVIOUS
    <2>2. Apart(rs[i].box, rs[j].box)
      BY <1>3, <1>5, <1>7, <2>1 DEF LaidOut
    <2>3. QED BY <1>3, <1>5, <2>2, ApartHit DEF LaidOut
  <1>14. ~(b > u)
    <2>1. SUFFICES ASSUME b > u PROVE FALSE
      OBVIOUS
    <2>2. b \in 1 .. i - 1 /\ HitTest(rs[b], p) /\ b < j /\ b # 0
      BY <1>5, <1>7, <2>1
    <2>3. b \notin Wrong(i)
      BY <1>4, <1>5, <2>2
    <2>4. b \in Range(f[u])
      BY <1>5, <1>6, <2>2, <2>3
    <2>5. b <= u
      BY <1>0, <1>3, <1>7, <1>9, <2>4
    <2>6. QED BY <1>7, <2>1, <2>5
  <1>15. ~(b < u)
    <2>1. SUFFICES ASSUME b < u PROVE FALSE
      OBVIOUS
    <2>2. u \in 1 .. j - 1 /\ HitTest(rs[u], p) /\ j < i
      BY <1>5, <1>7, <1>11, <1>12, <2>1
    <2>3. j \notin Bad
      BY <1>2, <1>3, <1>5, <2>2, <1>0
    <2>4. u \in Range(f[b])
      BY <1>5, <1>6, <1>8, <2>2, <2>3
    <2>5. u <= b
      BY <1>0, <1>5, <1>7, <1>9, <2>4
    <2>6. QED BY <1>7, <2>1, <2>5
  <1>16. QED BY <1>7, <1>13, <1>14, <1>15

LEMMA Greatest ==
    ASSUME NEW n \in Nat, NEW T \in SUBSET (1 .. n), T # {}
    PROVE  \E i \in T : \A j \in T : j <= i
  <1> DEFINE U == {n - i : i \in T}
  <1>1. U \subseteq Nat /\ U # {}
    <2>1. \A i \in T : i \in Int /\ n - i \in Nat
      OBVIOUS
    <2>2. QED BY <2>1
  <1>2. PICK u \in U : \A v \in U : u <= v
    <2> HIDE DEF U
    <2>1. QED BY <1>1, Least
  <1>3. PICK i \in T : u = n - i
    OBVIOUS
  <1>4. ASSUME NEW j \in T PROVE j <= i
    <2>1. n - j \in U /\ j \in Int /\ i \in Int
      OBVIOUS
    <2>2. n - i <= n - j
      BY <1>2, <1>3, <2>1
    <2>3. QED BY <2>1, <2>2
  <1>5. QED BY <1>4

(* The last rect under the pointer is the deepest there, and those it is in *)
(* are the others there.                                                    *)
LEMMA FoundIs ==
    ASSUME NEW root, NEW rs, LaidOut(root, rs), NEW p \in Spots, FindRect(rs, p) # 0
    PROVE  LET i == FindRect(rs, p)
               over == {k \in 1 .. Len(rs) : HitTest(rs[k], p)}
               around == Ancestors(rs, rs[i].parent)
           IN  /\ i \in over /\ \A k \in over : rs[k].depth <= rs[i].depth
               /\ \A k \in over : rs[k].depth = rs[i].depth => k = i
               /\ Range(around) = over \ {i}
               /\ \A m, n \in 1 .. Len(around) : m < n => rs[around[m]].depth > rs[around[n]].depth
  <1> DEFINE over == {k \in 1 .. Len(rs) : HitTest(rs[k], p)}
  <1>0. Len(rs) \in Nat
    BY DEF LaidOut
  <1>1. PICK i : i = FindRect(rs, p)
    OBVIOUS
  <1>2. i \in over /\ \A k \in over : k <= i
    <2>1. i = Topmost(rs, over)
      BY <1>1 DEF FindRect
    <2>2. over # {}
      BY <1>1, <2>1 DEF Topmost
    <2>3. \E k \in over : \A l \in over : l <= k
      <3>1. over \in SUBSET (1 .. Len(rs))
        OBVIOUS
      <3> HIDE DEF over
      <3>2. QED BY <1>0, <2>2, <3>1, Greatest
    <2> HIDE DEF over
    <2>4. i = CHOOSE k \in over : \A l \in over : l <= k
      BY <2>1, <2>2 DEF Topmost
    <2>5. QED BY <2>3, <2>4
  <1>3. PICK f : f = CHOOSE g : Around(rs, Len(rs), g)
    OBVIOUS
  <1>4. Around(rs, Len(rs), f)
    BY <1>3, AroundExists
  <1>5. PICK u, around : u = Up(rs, i) /\ around = f[u]
    OBVIOUS
  <1>6. around = Ancestors(rs, rs[i].parent)
    BY <1>3, <1>5, AncestorsIs DEF Up
  <1>7. /\ i \in 1 .. Len(rs) /\ HitTest(rs[i], p)
        /\ u \in 0 .. i - 1
        /\ u # 0 => /\ u \in 1 .. Len(rs) /\ rs[i].depth = rs[u].depth + 1
                    /\ Inside(rs[i].box, rs[u].box)
    <2>1. /\ u \in 0 .. i - 1
          /\ u # 0 => /\ rs[i].depth = rs[u].depth + 1
                      /\ Inside(rs[i].box, rs[u].box)
      BY <1>2, <1>5, UpIs
    <2>2. u # 0 => u \in 1 .. Len(rs)
      BY <1>0, <1>2, <2>1
    <2>3. QED BY <1>2, <2>1, <2>2
  <1>8. Chain(rs, u, around) /\ f[0] = <<>>
    <2>1. u \in 0 .. Len(rs)
      BY <1>0, <1>7
    <2>2. QED BY <1>4, <1>5, <2>1, ChainIs
  <1>9. \A k \in 1 .. Len(rs) : rs[k].box \in Boxes /\ rs[k].depth \in Nat
    BY DEF LaidOut
  <1>10. ASSUME NEW k \in Range(around)
         PROVE  k \in over /\ k # i /\ rs[k].depth < rs[i].depth
    <2>1. PICK m \in 1 .. Len(around) : around[m] = k
      BY <1>8, LenProperties DEF Range, Chain
    <2>2. u # 0
      BY <1>5, <1>8, <2>1, EmptySeq
    <2>3. HitTest(rs[u], p)
      BY <1>7, <1>9, <2>2, InsideHit
    <2>4. k \in 1 .. Len(rs) /\ k <= u /\ HitTest(rs[k], p) /\ (k = u \/ rs[k].depth < rs[u].depth)
      BY <1>8, <2>1, <2>3, ElementOfSeq DEF Chain
    <2>5. rs[k].depth \in Nat /\ rs[u].depth \in Nat /\ rs[i].depth = rs[u].depth + 1
      BY <1>7, <1>9, <2>2, <2>4
    <2>6. QED BY <1>7, <2>4, <2>5
  <1>11. ASSUME NEW k \in over, k # i PROVE k \in Range(around)
    <2>1. k \in 1 .. i - 1 /\ HitTest(rs[k], p)
      BY <1>0, <1>2, <1>7, <1>11
    <2>2. QED BY <1>4, <1>5, <1>7, <2>1, OneInTheOther
  <1>12. Range(around) = over \ {i}
    BY <1>10, <1>11
  <1>13. \A k \in over : k = i \/ rs[k].depth < rs[i].depth
    BY <1>10, <1>11
  <1>14. \A k \in over : rs[k].depth \in Nat
    BY <1>9
  <1>15. \A m, n \in 1 .. Len(around) : m < n => rs[around[m]].depth > rs[around[n]].depth
    BY <1>8 DEF Chain
  <1>16. /\ \A k \in over : rs[k].depth <= rs[i].depth
         /\ \A k \in over : rs[k].depth = rs[i].depth => k = i
    <2> HIDE DEF over
    <2>1. QED BY <1>2, <1>13, <1>14
  <1>17. QED BY <1>1, <1>2, <1>6, <1>12, <1>15, <1>16

-----------------------------------------------------------------------------
(* What is hovered was found where the pointer is, in the current layout.   *)
HoverInv ==
    /\ lastMouse = {} \/ \E p \in Spots : lastMouse = {p}
    /\ hover # NoHover =>
         \E p \in Spots : /\ lastMouse = {p} /\ FindRect(rects, p) # 0
                           /\ hover = HoverAt(rects, FindRect(rects, p))

LEMMA HoverShows ==
    ASSUME HoverInv, NEW root, LaidOut(root, rects)
    PROVE  HoverIsCurrent
  <1>1. SUFFICES ASSUME hover # NoHover
                 PROVE  \E p \in lastMouse :
                          /\ Over(p) # {} /\ hover.index = OnTop(p)
                          /\ Range(hover.ancestors) = Over(p) \ {hover.index}
                          /\ \A i, j \in 1 .. Len(hover.ancestors) :
                               i < j => rects[hover.ancestors[i]].depth > rects[hover.ancestors[j]].depth
    BY DEF HoverIsCurrent
  <1>2. PICK p \in Spots : /\ lastMouse = {p} /\ FindRect(rects, p) # 0
                            /\ hover = HoverAt(rects, FindRect(rects, p))
    BY <1>1 DEF HoverInv
  <1>3. PICK i, around : i = FindRect(rects, p) /\ around = Ancestors(rects, rects[i].parent)
    OBVIOUS
  <1>4. hover.index = i /\ hover.ancestors = around
    BY <1>2, <1>3 DEF HoverAt
  <1>5. /\ i \in Over(p) /\ \A k \in Over(p) : rects[k].depth <= rects[i].depth
        /\ \A k \in Over(p) : rects[k].depth = rects[i].depth => k = i
        /\ Range(around) = Over(p) \ {i}
        /\ \A m, n \in 1 .. Len(around) : m < n => rects[around[m]].depth > rects[around[n]].depth
    BY <1>2, <1>3, FoundIs DEF Over
  <1>6. \A k \in Over(p) : rects[k].depth \in Nat
    BY DEF Over, LaidOut
  <1>7. OnTop(p) = i
    <2>1. PICK k : k = OnTop(p)
      OBVIOUS
    <2>2. k \in Over(p) /\ \A j \in Over(p) : rects[j].depth <= rects[k].depth
      BY <1>5, <2>1 DEF OnTop
    <2>3. rects[k].depth = rects[i].depth
      BY <1>5, <1>6, <2>2
    <2>4. QED BY <1>5, <2>1, <2>2, <2>3
  <1>8. QED BY <1>2, <1>4, <1>5, <1>7

LEMMA HoverKept ==
    ASSUME HoverInv,
           CanvasMoves
    PROVE  HoverInv'
  <1>1. ASSUME NEW new, NEW done, HandleLayout(new, done) PROVE HoverInv'
    <2>1. /\ lastMouse' = lastMouse /\ rects' = new
          /\ hover' = RecomputedHover(new)
      BY <1>1 DEF HandleLayout
    <2>2. CASE lastMouse = {}
      BY <2>1, <2>2 DEF HoverInv, RecomputedHover
    <2>3. ASSUME NEW p \in Spots, lastMouse = {p} PROVE HoverInv'
      <3>1. (CHOOSE q \in lastMouse : TRUE) = p /\ lastMouse # {}
        BY <2>3
      <3>2. hover' = HoverAt(rects', FindRect(rects', p))
        BY <2>1, <3>1 DEF RecomputedHover
      <3>3. FindRect(rects', p) = 0 => hover' = NoHover
        BY <3>2 DEF HoverAt
      <3>4. QED BY <2>1, <2>3, <3>2, <3>3 DEF HoverInv
    <2>4. QED BY <2>2, <2>3 DEF HoverInv
  <1>2. ASSUME NEW p \in Point, MouseMove(p) PROVE HoverInv'
    <2>1. lastMouse' = {p} /\ rects' = rects /\ p \in Spots
      BY <1>2, CanvasAssumption DEF MouseMove, Spots
    <2>2. hover' = HoverAt(rects, FindRect(rects, p))
      <3>1. CASE FindRect(rects, p) # hover.index
        BY <1>2, <3>1 DEF MouseMove
      <3>2. CASE FindRect(rects, p) = hover.index
        <4>1. hover' = hover
          BY <1>2, <3>2 DEF MouseMove
        <4>2. CASE hover = NoHover
          BY <3>2, <4>1, <4>2 DEF NoHover, HoverAt
        <4>3. CASE hover # NoHover
          <5>1. PICK q : FindRect(rects, q) # 0 /\ hover = HoverAt(rects, FindRect(rects, q))
            BY <4>3 DEF HoverInv
          <5>2. hover.index = FindRect(rects, q)
            BY <5>1 DEF HoverAt
          <5>3. QED BY <3>2, <4>1, <5>1, <5>2
        <4>4. QED BY <4>2, <4>3
      <3>3. QED BY <3>1, <3>2
    <2>3. FindRect(rects, p) = 0 => hover' = NoHover
      BY <2>2 DEF HoverAt
    <2>4. QED BY <2>1, <2>2, <2>3 DEF HoverInv
  <1>3. CASE MouseLeave
    BY <1>3 DEF HoverInv, MouseLeave
  <1>4. CASE BeginNavigation
    BY <1>4 DEF HoverInv, BeginNavigation
  <1>5. CASE ScanStart
    BY <1>5 DEF HoverInv, ScanStart
  <1>6. CASE Resize \/ Tick \/ UNCHANGED canvasVars
    <2>1. UNCHANGED <<rects, lastMouse, hover>>
      BY <1>6 DEF Resize, Tick, canvasVars
    <2>2. QED BY <2>1 DEF HoverInv
  <1>7. QED BY <1>1, <1>2, <1>3, <1>4, <1>5, <1>6 DEF CanvasMoves

-----------------------------------------------------------------------------
(* On a visit a walk starts when a volume is picked, and again on a rescan. *)
VisitWalkInv ==
    /\ WalkInv
    /\ stage = "picker" => filesSeen = {} /\ sent = {} /\ troubled = FALSE

LEMMA VisitWalkInit == Init => VisitWalkInv
  BY WalkInvInit DEF Init, CliInit, VisitWalkInv, WalkInit

LEMMA WalkBegins == WalkInit' => WalkInv'
  BY WalkInvInit, PTL

LEMMA VisitWalks ==
    ASSUME VisitWalkInv, [Next]_vars
    PROVE  /\ WalkInit' \/ [WalkNext]_walkVars
           /\ stage' = "picker" => stage = "picker" /\ UNCHANGED walkVars
  <1>1. CASE UNCHANGED walkVars /\ UNCHANGED stage
    BY <1>1
  <1>2. CASE Lists \/ UNCHANGED vars
    BY <1>1, <1>2 DEF Lists, vars, cliVars
  <1>3. CASE \E w \in Worlds : Pick(w)
    <2>1. WalkInit' /\ stage' = "page"
      BY <1>3 DEF Pick, WalkInit, VisitWalkInv
    <2>2. QED BY <2>1
  <1>4. CASE CommandLine
    <2>1. stage' # "picker" /\ [WalkNext]_walkVars
      BY <1>4 DEF CommandLine, CliNext, Receives, Misses, Prints, WalkNext
    <2>2. QED BY <2>1
  <1>5. CASE Scans
    <2>1. PICK job : job = (CHOOSE j \in queue : TRUE) /\ (OpenFails(job) \/ ReadDir(job))
      BY <1>5 DEF Scans
    <2>2. job \in queue
      BY <1>5, <2>1 DEF Scans, Walked
    <2>3. stage' = "page"
      BY <1>5 DEF Scans
    <2>4. QED BY <2>1, <2>2, <2>3 DEF WalkNext
  <1>6. CASE Layouts \/ Surveys
    BY <1>1, <1>6 DEF Layouts, Surveys, Answers, cliVars
  <1>7. CASE Points \/ Draws \/ Navigates \/ Filters \/ Resizes
    <2>1. Idle
      BY <1>7 DEF Points, Draws, Navigates, Filters, Resizes
    <2>2. QED BY <1>1, <2>1 DEF Idle, cliVars
  <1>8. CASE Rescans
    <2>1. world' = world /\ world \in Worlds /\ stage = "page" /\ stage' = stage
      BY <1>8 DEF Rescans, Moves, Playing, VisitWalkInv, WalkInv
    <2>2. WalkInit'
      BY <1>8, <2>1 DEF Rescans, WalkInit
    <2>3. QED BY <2>1, <2>2
  <1>9. QED BY <1>2, <1>3, <1>4, <1>5, <1>6, <1>7, <1>8 DEF Next

LEMMA VisitWalkStep == VisitWalkInv /\ [Next]_vars => VisitWalkInv'
  <1> SUFFICES ASSUME VisitWalkInv, [Next]_vars PROVE VisitWalkInv'
    OBVIOUS
  <1>1. /\ WalkInit' \/ [WalkNext]_walkVars
        /\ stage' = "picker" => stage = "picker" /\ UNCHANGED walkVars
    BY VisitWalks
  <1>2. WalkInv'
    BY <1>1, WalkBegins, WalkInvStep DEF VisitWalkInv
  <1>3. QED BY <1>1, <1>2 DEF VisitWalkInv, walkVars

(* So it is of every scan of a visit: picked, rescanned or run from the     *)
(* command line.                                                            *)
THEOREM VisitTakesOnlyItsOwn == Spec => []TakesOnlyItsOwn
  <1>1. VisitWalkInv => TakesOnlyItsOwn
    BY WalkInvTakesOnlyItsOwn DEF VisitWalkInv
  <1>2. QED BY VisitWalkInit, VisitWalkStep, <1>1, PTL DEF Spec

THEOREM VisitTakesWholeVolume == Spec => []WholeVolume
  <1>1. VisitWalkInv => WholeVolume
    BY WalkInvWholeVolume DEF VisitWalkInv
  <1>2. QED BY VisitWalkInit, VisitWalkStep, <1>1, PTL DEF Spec

-----------------------------------------------------------------------------
(* Numbers: what is less stays so times a number, and a quotient is the     *)
(* most of those whose multiple is no more.                                 *)
LEMMA Times ==
    ASSUME NEW t \in Nat, NEW a \in Int, NEW b \in Int, a <= b
    PROVE  t * a <= t * b
  <1>1. t * (b - a) \in Nat
    OBVIOUS
  <1>2. t * (b - a) = t * b - t * a
    OBVIOUS
  <1>3. t * a \in Int /\ t * b \in Int
    OBVIOUS
  <1>4. QED BY <1>1, <1>2, <1>3

LEMMA Quotient ==
    ASSUME NEW a \in Int, NEW t \in Nat \ {0}
    PROVE  /\ a \div t \in Int
           /\ t * (a \div t) <= a
           /\ \A q \in Int : t * q <= a => q <= a \div t
  <1>0. t \in Int /\ t > 0
    OBVIOUS
  <1>1. PICK d \in Int, r \in Int : /\ d = a \div t /\ r = a % t
                                   /\ a = t * d + r /\ 0 <= r /\ r < t
    <2>1. a \div t \in Int /\ a % t \in Int
      BY <1>0
    <2>2. 0 <= a % t /\ a % t < t
      BY <1>0
    <2>3. a = t * (a \div t) + (a % t)
      BY <1>0
    <2> WITNESS a \div t \in Int, a % t \in Int
    <2>4. QED BY <2>2, <2>3
  <1>2. ASSUME NEW q \in Int, t * q <= a PROVE q <= a \div t
    <2>1. SUFFICES ASSUME d + 1 <= q PROVE FALSE
      BY <1>1
    <2>3. t * (d + 1) <= t * q
      BY <2>1, Times
    <2>4. t * (d + 1) = t * d + t /\ t * d \in Int /\ t * q \in Int
      OBVIOUS
    <2>5. QED BY <1>0, <1>1, <1>2, <2>3, <2>4
  <1>3. t * d \in Int
    OBVIOUS
  <1>4. QED BY <1>0, <1>1, <1>2, <1>3

(* A part's share is no more than the whole, and shares no more than theirs *)
(* together.                                                                *)
LEMMA Share ==
    ASSUME NEW h \in Nat, NEW t \in Nat \ {0}, NEW p \in Nat
    PROVE  /\ (p * h) \div t \in Nat
           /\ p <= t => (p * h) \div t <= h
           /\ \A q \in Nat : (p * h) \div t + (q * h) \div t <= ((p + q) * h) \div t
  <1>1. PICK a \in Int : a = p * h
    OBVIOUS
  <1>2. a >= 0
    BY <1>1
  <1>3. a \div t \in Int /\ t * (a \div t) <= a /\ \A q \in Int : t * q <= a => q <= a \div t
    BY Quotient
  <1>4. a \div t \in Nat
    <2>1. t * 0 <= a /\ 0 \in Int
      BY <1>2
    <2>2. 0 <= a \div t
      BY <1>3, <2>1
    <2>3. QED BY <1>3, <2>2
  <1>5. ASSUME p <= t PROVE a \div t <= h
    <2>1. SUFFICES ASSUME h + 1 <= a \div t PROVE FALSE
      BY <1>4
    <2>2. t * (h + 1) <= t * (a \div t)
      BY <1>3, <2>1, Times
    <2>3. h * p <= h * t
      BY <1>5, Times
    <2>4. t * (h + 1) = h * t + t /\ h * p = a /\ h * t \in Int
      BY <1>1
    <2>5. t * (a \div t) \in Int
      BY <1>3
    <2>6. QED BY <1>3, <2>2, <2>3, <2>4, <2>5
  <1>6. ASSUME NEW q \in Nat PROVE a \div t + (q * h) \div t <= ((p + q) * h) \div t
    <2>1. PICK b \in Int : b = q * h
      OBVIOUS
    <2>2. (p + q) * h = a + b
      BY <1>1, <2>1
    <2>3. /\ b \div t \in Int /\ t * (b \div t) <= b
          /\ \A r \in Int : t * r <= a + b => r <= (a + b) \div t
      <3>1. a + b \in Int
        OBVIOUS
      <3>2. QED BY <3>1, Quotient
    <2>4. PICK c \in Int, d \in Int : c = a \div t /\ d = b \div t
      BY <1>3, <2>3
    <2>5. t * (c + d) = t * c + t * d /\ t * c \in Int /\ t * d \in Int /\ c + d \in Int
      OBVIOUS
    <2>6. t * (c + d) <= a + b
      BY <1>3, <2>3, <2>4, <2>5
    <2>7. c + d <= (a + b) \div t
      BY <2>3, <2>5, <2>6
    <2>8. QED BY <2>1, <2>2, <2>4, <2>7
  <1>7. QED BY <1>1, <1>4, <1>5, <1>6

-----------------------------------------------------------------------------
(* Sums.                                                                    *)
IsSums(s, g) == g = [k \in 0 .. Len(s) |-> IF k = 0 THEN 0 ELSE g[k - 1] + s[k]]

LEMMA SumToIs == ASSUME NEW s PROVE SumTo(s) = CHOOSE g : IsSums(s, g)
  BY DEF SumTo, IsSums

LEMMA Sums ==
    ASSUME NEW s, Len(s) \in Nat, \A k \in 1 .. Len(s) : s[k] \in Int
    PROVE  /\ SumTo(s) \in [0 .. Len(s) -> Int]
           /\ SumTo(s)[0] = 0
           /\ \A k \in 1 .. Len(s) : SumTo(s)[k] = SumTo(s)[k - 1] + s[k]
  <1>0. PICK n \in Nat : n = Len(s)
    OBVIOUS
  <1> DEFINE step == [t \in Int |-> [k \in 1 .. n |-> t + s[k]]]
  <1>1. step \in [Int -> [1 .. n -> Int]]
    BY <1>0
  <1>2. PICK h : Stepped(h, Int, 0, n, step)
    <2> HIDE DEF step
    <2>1. 0 \in Int
      OBVIOUS
    <2>2. QED BY <1>1, <2>1, Steps, Zenon
  <1>3. h \in [0 .. n -> Int] /\ h[0] = 0 /\ \A k \in 1 .. n : h[k] = h[k - 1] + s[k]
    <2>1. h \in [0 .. n -> Int] /\ h[0] = 0 /\ \A k \in 1 .. n : h[k] = step[h[k - 1]][k]
      BY <1>2 DEF Stepped
    <2>2. ASSUME NEW k \in 1 .. n PROVE h[k] = h[k - 1] + s[k]
      <3>1. h[k - 1] \in Int
        BY <2>1
      <3>2. QED BY <1>0, <2>1, <3>1
    <2>3. QED BY <2>1, <2>2
  <1>4. IsSums(s, h)
    <2>1. h = [k \in 0 .. n |-> h[k]]
      BY <1>3
    <2>2. \A k \in 0 .. n : h[k] = IF k = 0 THEN 0 ELSE h[k - 1] + s[k]
      BY <1>3
    <2>3. QED BY <1>0, <2>1, <2>2 DEF IsSums
  <1>5. PICK g : g = SumTo(s) /\ IsSums(s, g)
    BY <1>4, SumToIs
  <1>6. g = [k \in 0 .. n |-> IF k = 0 THEN 0 ELSE g[k - 1] + s[k]]
    BY <1>0, <1>5 DEF IsSums
  <1>7. g[0] = 0 /\ \A k \in 1 .. n : g[k] = g[k - 1] + s[k]
    BY <1>6
  <1>8. \A k \in 0 .. n : g[k] \in Int
    <2>1. g[0] \in Int /\ \A k \in 1 .. n : g[k - 1] \in Int => g[k] \in Int
      BY <1>0, <1>7
    <2>2. QED BY <2>1, StaysInAll, Zenon
  <1>9. g \in [0 .. n -> Int]
    BY <1>6, <1>8
  <1>10. QED BY <1>0, <1>5, <1>7, <1>9

LEMMA SumsRise ==
    ASSUME NEW s, Len(s) \in Nat, \A k \in 1 .. Len(s) : s[k] \in Nat
    PROVE  /\ \A k \in 0 .. Len(s) : SumTo(s)[k] \in Nat
           /\ \A k \in 0 .. Len(s) : \A j \in 0 .. k : SumTo(s)[j] <= SumTo(s)[k]
           /\ Sum(s) \in Nat
           /\ \A k \in 1 .. Len(s) : s[k] <= Sum(s)
  <1>n. PICK n \in Nat : n = Len(s)
    OBVIOUS
  <1>g. PICK g : g = SumTo(s)
    OBVIOUS
  <1>0. n = Len(s) /\ g = SumTo(s)
    BY <1>n, <1>g
  <1>1. /\ g \in [0 .. n -> Int] /\ g[0] = 0
        /\ \A k \in 1 .. n : g[k] = g[k - 1] + s[k] /\ s[k] \in Nat
    BY <1>0, Sums
  <1>2. \A k \in 0 .. n : g[k] \in Nat
    <2>1. g[0] \in Nat
      BY <1>1
    <2>2. ASSUME NEW k \in 1 .. n, g[k - 1] \in Nat PROVE g[k] \in Nat
      <3>1. g[k] = g[k - 1] + s[k] /\ s[k] \in Nat
        BY <1>1
      <3>2. QED BY <2>2, <3>1
    <2>3. QED BY <2>1, <2>2, StaysInAll, Zenon
  <1>3. \A k \in 0 .. n : \A j \in 0 .. k : g[j] <= g[k]
    <2> DEFINE T == {k \in 0 .. n : \A j \in 0 .. k : g[j] <= g[k]}
    <2>1. 0 \in T
      BY <1>1
    <2>2. ASSUME NEW k \in 1 .. n, k - 1 \in T PROVE k \in T
      <3>1. \A j \in 0 .. k - 1 : g[j] <= g[k - 1] /\ g[j] \in Nat
        BY <1>2, <2>2
      <3>2. g[k] = g[k - 1] + s[k] /\ s[k] \in Nat /\ g[k - 1] \in Nat
        BY <1>1, <1>2
      <3>3. \A j \in 0 .. k : j = k \/ j \in 0 .. k - 1
        OBVIOUS
      <3>4. QED BY <3>1, <3>2, <3>3
    <2> HIDE DEF T
    <2>3. 0 .. n \subseteq T
      BY <2>1, <2>2, Induct
    <2>4. QED BY <2>3 DEF T
  <1>4. \A k \in 1 .. n : s[k] <= g[n]
    <2>1. TAKE k \in 1 .. n
    <2>2. g[k] = g[k - 1] + s[k] /\ g[k - 1] \in Nat /\ g[k] \in Nat /\ g[k] <= g[n] /\ g[n] \in Nat
          /\ s[k] \in Nat
      BY <1>1, <1>2, <1>3
    <2>3. QED BY <2>2
  <1>5. QED BY <1>0, <1>2, <1>3, <1>4 DEF Sum

LEMMA SumOfFirst ==
    ASSUME NEW s \in Seq(Nat), NEW n \in 0 .. Len(s)
    PROVE  Sum(SubSeq(s, 1, n)) = SumTo(s)[n]
  <1>0. PICK r : r = SubSeq(s, 1, n)
    OBVIOUS
  <1> DEFINE T == {k \in 0 .. n : SumTo(r)[k] = SumTo(s)[k]}
  <1>1. r \in Seq(Nat) /\ n \in Nat /\ Len(r) = n /\ \A k \in 1 .. n : r[k] = s[k] /\ r[k] \in Nat
    BY <1>0
  <1>2. Len(s) \in Nat /\ \A k \in 1 .. Len(s) : s[k] \in Int
    OBVIOUS
  <1>3. SumTo(s)[0] = 0 /\ \A k \in 1 .. n : SumTo(s)[k] = SumTo(s)[k - 1] + s[k]
    BY <1>2, Sums
  <1>4. SumTo(r)[0] = 0 /\ \A k \in 1 .. n : SumTo(r)[k] = SumTo(r)[k - 1] + r[k]
    <2>1. Len(r) \in Nat /\ \A k \in 1 .. Len(r) : r[k] \in Int
      BY <1>1
    <2>2. QED BY <1>1, <2>1, Sums
  <1>5. 0 .. n \subseteq T
    <2>1. 0 \in T
      BY <1>3, <1>4
    <2>2. ASSUME NEW k \in 1 .. n, k - 1 \in T PROVE k \in T
      <3>1. SumTo(r)[k - 1] = SumTo(s)[k - 1] /\ k \in 0 .. n
        BY <1>1, <2>2
      <3>2. QED BY <1>1, <1>3, <1>4, <3>1
    <2> HIDE DEF T
    <2>3. QED BY <1>1, <2>1, <2>2, Induct
  <1>6. n \in T
    BY <1>1, <1>5
  <1>7. QED BY <1>0, <1>1, <1>6 DEF Sum

-----------------------------------------------------------------------------
(* Boxes in boxes.                                                          *)
LEMMA InsideOf ==
    ASSUME NEW b \in Boxes, NEW c \in Boxes, NEW d \in Boxes, Inside(b, c)
    PROVE  /\ Inside(c, d) => Inside(b, d)
           /\ Apart(c, d) => Apart(b, d)
           /\ Apart(d, c) => Apart(d, b)
  BY DEF Inside, Apart, Boxes

LEMMA TurnedIs ==
    ASSUME NEW bounds \in Boxes, NEW b \in Boxes, NEW c \in Boxes
    PROVE  /\ Turned(bounds, b) \in Boxes
           /\ Turned(bounds, Turned(bounds, b)) = b
           /\ Inside(Turned(bounds, b), Turned(bounds, c)) <=> Inside(b, c)
           /\ Apart(Turned(bounds, b), Turned(bounds, c)) <=> Apart(b, c)
  BY DEF Turned, Transposed, Box, Boxes, Inside, Apart

(* A row is a first part of what there is to place.                         *)
LEMMA RowLengthIs ==
    ASSUME NEW s, Len(s) \in Nat \ {0}, NEW long, NEW short
    PROVE  RowLength(s, long, short) \in 1 .. Len(s)
  <1>0. PICK n \in Nat \ {0} : n = Len(s)
    OBVIOUS
  <1>1. PICK worst : worst = [k \in 1 .. Len(s) |->
                      LET row == SumTo(s)[k]
                          first == Aspect(s[1], row, long, short, Sum(s))
                          last == Aspect(s[k], row, long, short, Sum(s))
                      IN  IF Worse(first, last) THEN first ELSE last]
    OBVIOUS
  <1> DEFINE Ends(k) == k < n => Worse(worst[k + 1], worst[k])
             T == {k \in 1 .. n : Ends(k)}
  <1>2. RowLength(s, long, short) =
          CHOOSE k \in 1 .. n : Ends(k) /\ \A i \in 1 .. k - 1 : ~Worse(worst[i + 1], worst[i])
    BY <1>0, <1>1 DEF RowLength
  <1>3. n \in T /\ T \subseteq Nat
    OBVIOUS
  <1>4. PICK k \in T : \A j \in T : k <= j
    <2> HIDE DEF T
    <2>1. QED BY <1>3, Least
  <1>5. k \in 1 .. n /\ Ends(k)
    OBVIOUS
  <1>6. ASSUME NEW i \in 1 .. k - 1 PROVE ~Worse(worst[i + 1], worst[i])
    <2>1. i \in 1 .. n /\ i < n /\ i < k
      BY <1>0, <1>5
    <2>2. i \notin T
      BY <1>4, <2>1
    <2>3. QED BY <2>1, <2>2
  <1>7. \E l \in 1 .. n : Ends(l) /\ \A i \in 1 .. l - 1 : ~Worse(worst[i + 1], worst[i])
    BY <1>5, <1>6
  <1>8. QED BY <1>0, <1>2, <1>7

(* A row's boxes are one above the other across the start of its space.     *)
LEMMA RowBoxIs ==
    ASSUME NEW row \in Seq(Nat), Sum(row) # 0, NEW space \in Boxes, space.h >= 0, NEW length \in Int
    PROVE  \A i \in 1 .. Len(row) :
             /\ RowBox(row, space, length, i) \in Boxes
             /\ RowBox(row, space, length, i).x = space.x
             /\ RowBox(row, space, length, i).w = length
             /\ space.y <= RowBox(row, space, length, i).y
             /\ RowBox(row, space, length, i).y + RowBox(row, space, length, i).h <= space.y + space.h
             /\ \A j \in 1 .. i - 1 : RowBox(row, space, length, j).y + RowBox(row, space, length, j).h
                                        <= RowBox(row, space, length, i).y
  <1>0. PICK n \in Nat, h \in Nat, y \in Int, t \in {Sum(row)} :
           n = Len(row) /\ h = space.h /\ y = space.y /\ t = Sum(row)
    <2>1. space.h \in Nat /\ space.y \in Int
      BY DEF Boxes
    <2>2. Len(row) \in Nat
      OBVIOUS
    <2>3. QED BY <2>1, <2>2
  <1>1. Len(row) \in Nat /\ \A k \in 1 .. Len(row) : row[k] \in Nat /\ row[k] \in Int
    OBVIOUS
  <1>2. /\ t \in Nat \ {0}
        /\ \A k \in 0 .. n : SumTo(row)[k] \in Nat /\ SumTo(row)[k] <= t
    <2>1. t = SumTo(row)[n] /\ n \in 0 .. n
      BY <1>0 DEF Sum
    <2>2. /\ \A k \in 0 .. n : SumTo(row)[k] \in Nat
          /\ \A k \in 0 .. n : \A j \in 0 .. k : SumTo(row)[j] <= SumTo(row)[k]
      BY <1>0, <1>1, SumsRise
    <2>3. QED BY <1>0, <2>1, <2>2
  <1>3. SumTo(row)[0] = 0 /\ \A k \in 1 .. n : SumTo(row)[k] = SumTo(row)[k - 1] + row[k]
    BY <1>0, <1>1, Sums
  <1>4. PICK height : height = [j \in 1 .. n |-> (row[j] * h) \div t]
    OBVIOUS
  <1>5. /\ height = [j \in 1 .. Len(row) |-> (row[j] * space.h) \div Sum(row)]
        /\ Len(height) = n /\ Len(height) \in Nat
        /\ \A j \in 1 .. n : height[j] = (row[j] * h) \div t /\ height[j] \in Nat
    <2>1. \A j \in 1 .. n : (row[j] * h) \div t \in Nat
      BY <1>0, <1>1, <1>2, Share
    <2>2. QED BY <1>0, <1>4, <2>1
  <1>6. PICK top : top = SumTo(height)
    OBVIOUS
  <1>7. top[0] = 0 /\ \A k \in 1 .. n : top[k] = top[k - 1] + height[k]
    <2>1. \A k \in 1 .. Len(height) : height[k] \in Int
      <3>1. TAKE k \in 1 .. Len(height)
      <3>2. height[k] \in Nat
        BY <1>5, <3>1
      <3>3. QED BY <3>2
    <2>2. QED BY <1>5, <1>6, <2>1, Sums
  <1>8. /\ \A k \in 0 .. n : top[k] \in Nat
        /\ \A k \in 0 .. n : \A j \in 0 .. k : top[j] <= top[k]
    BY <1>5, <1>6, SumsRise
  <1>9. \A k \in 0 .. n : top[k] <= h
    <2> DEFINE T == {k \in 0 .. n : top[k] <= (SumTo(row)[k] * h) \div t}
    <2>1. 0 \in T
      <3>1. (0 * h) \div t \in Nat
        BY <1>2, Share
      <3>2. QED BY <1>3, <1>7, <3>1
    <2>2. ASSUME NEW k \in 1 .. n, k - 1 \in T PROVE k \in T
      <3>1. PICK a \in Nat, b \in Nat : a = SumTo(row)[k - 1] /\ b = row[k]
        BY <1>0, <1>1, <1>2
      <3>2. /\ (a * h) \div t \in Nat /\ (b * h) \div t \in Nat
            /\ (a * h) \div t + (b * h) \div t <= ((a + b) * h) \div t
        BY <1>2, Share
      <3>3. ((a + b) * h) \div t \in Nat
        BY <1>2, Share
      <3>4. SumTo(row)[k] = a + b /\ height[k] = (b * h) \div t /\ top[k] = top[k - 1] + height[k]
        BY <1>3, <1>5, <1>7, <3>1
      <3>5. top[k - 1] <= (a * h) \div t /\ top[k - 1] \in Nat
        BY <1>8, <2>2, <3>1
      <3>6. top[k] <= ((a + b) * h) \div t
        BY <3>2, <3>3, <3>4, <3>5
      <3>7. QED BY <3>4, <3>6
    <2> HIDE DEF T
    <2>3. 0 .. n \subseteq T
      BY <2>1, <2>2, Induct
    <2>4. ASSUME NEW k \in 0 .. n PROVE top[k] <= h
      <3>1. PICK a \in Nat : a = SumTo(row)[k] /\ a <= t
        BY <1>2
      <3>2. top[k] <= (a * h) \div t
        BY <2>3, <3>1 DEF T
      <3>3. (a * h) \div t \in Nat /\ (a * h) \div t <= h
        BY <1>2, <3>1, Share
      <3>4. QED BY <1>8, <3>2, <3>3
    <2>5. QED BY <2>4
  <1>10. ASSUME NEW i \in 1 .. n
         PROVE  /\ RowBox(row, space, length, i).x = space.x
                /\ RowBox(row, space, length, i).w = length
                /\ RowBox(row, space, length, i).y = y + top[i - 1]
                /\ RowBox(row, space, length, i).h = IF i = n THEN h - top[i - 1] ELSE height[i]
                /\ RowBox(row, space, length, i) \in Boxes
    <2>1. RowBox(row, space, length, i) = Box(space.x, y + top[i - 1], length,
                                              IF i = n THEN h - top[i - 1] ELSE height[i])
      BY <1>0, <1>5, <1>6 DEF RowBox
    <2>2. top[i - 1] \in Nat /\ height[i] \in Nat
      <3>1. i - 1 \in 0 .. n
        OBVIOUS
      <3>2. QED BY <1>5, <1>8, <3>1
    <2>3. PICK a, b, c, d, e : /\ e = RowBox(row, space, length, i) /\ a = space.x /\ b = y + top[i - 1]
                               /\ c = length /\ d = IF i = n THEN h - top[i - 1] ELSE height[i]
      OBVIOUS
    <2>4. a \in Int /\ b \in Int /\ c \in Int /\ d \in Int
      <3>1. h - top[i - 1] \in Int /\ y + top[i - 1] \in Int /\ height[i] \in Int
        BY <2>2
      <3>2. a \in Int
        BY <2>3 DEF Boxes
      <3>3. d = h - top[i - 1] \/ d = height[i]
        BY <2>3
      <3>4. QED BY <2>3, <3>1, <3>2, <3>3
    <2>5. e = Box(a, b, c, d)
      BY <2>1, <2>3
    <2>6. e.x = a /\ e.y = b /\ e.w = c /\ e.h = d /\ e \in Boxes
      BY <2>4, <2>5 DEF Box, Boxes
    <2>7. QED BY <2>3, <2>6
  <1>11. ASSUME NEW i \in 1 .. n
         PROVE  /\ RowBox(row, space, length, i).y + RowBox(row, space, length, i).h <= y + h
                /\ i < n => RowBox(row, space, length, i).y + RowBox(row, space, length, i).h = y + top[i]
                /\ RowBox(row, space, length, i).y >= y
    <2>1. /\ i - 1 \in 0 .. n /\ i \in 0 .. n
          /\ top[i - 1] \in Nat /\ top[i] \in Nat /\ height[i] \in Nat
          /\ top[i] = top[i - 1] + height[i] /\ top[i] <= h
      <3>1. i - 1 \in 0 .. n /\ i \in 0 .. n
        OBVIOUS
      <3>2. QED BY <1>5, <1>7, <1>8, <1>9, <3>1
    <2>2. QED BY <1>10, <2>1
  <1>12. ASSUME NEW i \in 1 .. n, NEW j \in 1 .. i - 1
         PROVE  RowBox(row, space, length, j).y + RowBox(row, space, length, j).h
                  <= RowBox(row, space, length, i).y
    <2>1. j \in 1 .. n /\ j < n /\ i - 1 \in 0 .. n /\ j \in 0 .. i - 1
      OBVIOUS
    <2>2. RowBox(row, space, length, j).y + RowBox(row, space, length, j).h = y + top[j]
      BY <1>11, <2>1
    <2>3. top[j] <= top[i - 1] /\ top[j] \in Nat /\ top[i - 1] \in Nat
      BY <1>8, <2>1
    <2>4. RowBox(row, space, length, i).y = y + top[i - 1]
      BY <1>10
    <2>5. QED BY <2>2, <2>3, <2>4
  <1>13. QED BY <1>0, <1>10, <1>11, <1>12

-----------------------------------------------------------------------------
(* The boxes of so many items: in the bounds, apart from each other, and    *)
(* from what there is left.                                                 *)
Positive == Nat \ {0}
RowsType == [left : Seq(Positive), bounds : Boxes, boxes : Seq(Boxes)]

RowsOK(bounds, n, s) ==
    /\ s \in RowsType
    /\ Len(s.boxes) + Len(s.left) = n
    /\ Inside(s.bounds, bounds)
    /\ \A i \in 1 .. Len(s.boxes) :
         /\ Inside(s.boxes[i], bounds)
         /\ s.left # <<>> => Apart(s.boxes[i], s.bounds)
         /\ \A j \in 1 .. i - 1 : Apart(s.boxes[i], s.boxes[j])

LEMMA RowsAre ==
    ASSUME NEW bounds, NEW n, NEW left \in Seq(Positive), NEW b \in Boxes, NEW boxes \in Seq(Boxes),
           Len(boxes) + Len(left) = n, Inside(b, bounds),
           \A i \in 1 .. Len(boxes) :
             /\ Inside(boxes[i], bounds)
             /\ left # <<>> => Apart(boxes[i], b)
             /\ \A j \in 1 .. i - 1 : Apart(boxes[i], boxes[j])
    PROVE  RowsOK(bounds, n, [left |-> left, bounds |-> b, boxes |-> boxes])
  <1>1. PICK s : s = [left |-> left, bounds |-> b, boxes |-> boxes]
    OBVIOUS
  <1>2. s \in RowsType /\ s.left = left /\ s.bounds = b /\ s.boxes = boxes
    BY <1>1 DEF RowsType
  <1>3. RowsOK(bounds, n, s)
    BY <1>2 DEF RowsOK
  <1>4. QED BY <1>1, <1>3

LEMMA RowsHave ==
    ASSUME NEW bounds, NEW n, NEW s, RowsOK(bounds, n, s)
    PROVE  /\ s = [left |-> s.left, bounds |-> s.bounds, boxes |-> s.boxes]
           /\ s.left \in Seq(Positive) /\ Len(s.left) \in Nat
           /\ s.bounds \in Boxes
           /\ s.boxes \in Seq(Boxes) /\ Len(s.boxes) \in Nat
           /\ \A i \in 1 .. Len(s.boxes) : s.boxes[i] \in Boxes
  <1>1. s \in [left : Seq(Positive), bounds : Boxes, boxes : Seq(Boxes)]
    BY DEF RowsOK, RowsType
  <1>2. /\ s = [left |-> s.left, bounds |-> s.bounds, boxes |-> s.boxes]
        /\ s.left \in Seq(Positive) /\ s.bounds \in Boxes /\ s.boxes \in Seq(Boxes)
    BY <1>1
  <1>3. QED BY <1>2, LenProperties, ElementOfSeq

(* What is next to a row's start, and what is in the row.                   *)
LEMMA LeftIs ==
    ASSUME NEW space \in Boxes, NEW length \in Int, 0 <= length, length <= space.w
    PROVE  /\ LeftAfter(space, length) \in Boxes /\ Inside(LeftAfter(space, length), space)
           /\ LeftAfter(space, length).x = space.x + length
  BY DEF LeftAfter, Box, Boxes, Inside

LEMMA InRow ==
    ASSUME NEW space \in Boxes, NEW rest \in Boxes, NEW b \in Boxes, NEW length \in Int,
           length <= space.w, rest.x = space.x + length, b.x = space.x, b.w = length,
           space.y <= b.y, b.y + b.h <= space.y + space.h
    PROVE  Inside(b, space) /\ Apart(b, rest)
  BY DEF Inside, Apart, Boxes

LEMMA LastBox ==
    ASSUME NEW bounds \in Boxes, NEW n, NEW s, RowsOK(bounds, n, s), Len(s.left) = 1
    PROVE  RowsOK(bounds, n, [s EXCEPT !.left = <<>>, !.boxes = Append(@, s.bounds)])
  <1>0. PICK boxes, b, t : /\ boxes = s.boxes /\ b = s.bounds /\ t = Append(boxes, b)
                           /\ boxes \in Seq(Boxes) /\ b \in Boxes
    BY RowsHave
  <1>1. [s EXCEPT !.left = <<>>, !.boxes = Append(@, s.bounds)] = [left |-> <<>>, bounds |-> b, boxes |-> t]
    <2>1. PICK l : s = [left |-> l, bounds |-> b, boxes |-> boxes]
      BY <1>0, RowsHave
    <2>2. PICK r : r = [s EXCEPT !.left = <<>>, !.boxes = t]
      OBVIOUS
    <2>3. r = [left |-> <<>>, bounds |-> b, boxes |-> t]
      BY <2>1, <2>2
    <2>4. [s EXCEPT !.left = <<>>, !.boxes = Append(@, s.bounds)] = r
      BY <1>0, <2>2
    <2>5. QED BY <2>3, <2>4
  <1>2. t \in Seq(Boxes) /\ Len(t) = Len(boxes) + 1 /\ Len(boxes) \in Nat
        /\ t[Len(t)] = b /\ \A i \in 1 .. Len(boxes) : t[i] = boxes[i]
    BY <1>0
  <1>3. /\ Inside(b, bounds) /\ n = Len(boxes) + 1 /\ s.left # <<>>
        /\ \A i \in 1 .. Len(boxes) : /\ Inside(boxes[i], bounds) /\ Apart(boxes[i], b) /\ boxes[i] \in Boxes
                                      /\ \A j \in 1 .. i - 1 : Apart(boxes[i], boxes[j])
    <2>1. s.left # <<>>
      OBVIOUS
    <2>2. QED BY <1>0, <2>1 DEF RowsOK
  <1>4. \A i \in 1 .. Len(boxes) : Apart(b, boxes[i])
    BY <1>3 DEF Apart, Boxes
  <1>5. ASSUME NEW i \in 1 .. Len(t)
        PROVE  Inside(t[i], bounds) /\ \A j \in 1 .. i - 1 : Apart(t[i], t[j])
    <2>1. CASE i = Len(t)
      <3>1. \A j \in 1 .. i - 1 : j \in 1 .. Len(boxes) /\ t[j] = boxes[j]
        BY <1>2, <2>1
      <3>2. QED BY <1>2, <1>3, <1>4, <2>1, <3>1
    <2>2. CASE i # Len(t)
      <3>1. i \in 1 .. Len(boxes) /\ t[i] = boxes[i] /\ \A j \in 1 .. i - 1 : t[j] = boxes[j]
        BY <1>2, <2>2
      <3>2. QED BY <1>3, <3>1
    <2>3. QED BY <2>1, <2>2
  <1>6. <<>> \in Seq(Positive) /\ Len(<<>>) = 0
    OBVIOUS
  <1>7. Len(t) + 0 = n
    BY <1>2, <1>3
  <1>8. RowsOK(bounds, n, [left |-> <<>>, bounds |-> b, boxes |-> t])
    BY <1>0, <1>2, <1>3, <1>5, <1>6, <1>7, RowsAre
  <1>9. QED BY <1>1, <1>8

LEMMA RowKept ==
    ASSUME NEW bounds \in Boxes, NEW n, NEW s, RowsOK(bounds, n, s), s.left # <<>>,
           NEW k \in 1 .. Len(s.left), NEW length \in Int,
           LET space == Turned(s.bounds, s.bounds) IN space.h >= 0 /\ 0 <= length /\ length <= space.w
    PROVE  RowsOK(bounds, n, WithRow(s, SubSeq(s.left, 1, k), Turned(s.bounds, s.bounds), length))
  <1>0. PICK boxes, b, left, space, row, rest :
           /\ boxes = s.boxes /\ b = s.bounds /\ left = s.left
           /\ space = Turned(b, b) /\ row = SubSeq(left, 1, k) /\ rest = LeftAfter(space, length)
           /\ boxes \in Seq(Boxes) /\ b \in Boxes /\ left \in Seq(Positive)
           /\ Len(boxes) \in Nat /\ Len(left) \in Nat
    BY RowsHave
  <1>1. /\ space \in Boxes /\ space.h >= 0 /\ 0 <= length /\ length <= space.w
        /\ Turned(b, space) = b
    BY <1>0, TurnedIs
  <1>2. /\ row \in Seq(Positive) /\ row \in Seq(Nat) /\ Len(row) = k /\ k \in Nat /\ k >= 1 /\ k <= Len(left)
        /\ Len(left) \in Nat /\ Len(boxes) \in Nat
    <2>1. k \in Nat /\ k >= 1 /\ k <= Len(left) /\ \A i \in 1 .. k : left[i] \in Positive
      BY <1>0
    <2>2. row \in Seq(Positive) /\ Len(row) = k
      BY <1>0, <2>1, SubSeqProperties
    <2>3. row \in Seq(Nat)
      <3>1. Positive \subseteq Nat
        BY DEF Positive
      <3>2. QED BY <2>2, <3>1, SeqMonotonic
    <2>4. QED BY <1>0, <2>1, <2>2, <2>3
  <1>3. Sum(row) # 0
    <2>1. row[1] \in Nat \ {0} /\ \A i \in 1 .. Len(row) : row[i] \in Nat
      BY <1>2, ElementOfSeq DEF Positive
    <2>2. row[1] <= Sum(row) /\ Sum(row) \in Nat
      <3>1. Len(row) \in Nat /\ 1 \in 1 .. Len(row)
        BY <1>2
      <3>2. QED BY <2>1, <3>1, SumsRise
    <2>3. QED BY <2>1, <2>2
  <1> DEFINE placed(i) == RowBox(row, space, length, i)
             new == [i \in 1 .. k |-> Turned(b, placed(i))]
  <1>4. \A i \in 1 .. k :
          /\ placed(i) \in Boxes /\ placed(i).x = space.x /\ placed(i).w = length
          /\ space.y <= placed(i).y /\ placed(i).y + placed(i).h <= space.y + space.h
          /\ \A j \in 1 .. i - 1 : placed(j).y + placed(j).h <= placed(i).y
    BY <1>1, <1>2, <1>3, RowBoxIs
  <1>5. /\ rest \in Boxes /\ Inside(rest, space)
        /\ rest.x = space.x + length
    BY <1>0, <1>1, LeftIs
  <1>6. ASSUME NEW i \in 1 .. k
        PROVE  /\ placed(i) \in Boxes /\ Inside(placed(i), space) /\ Apart(placed(i), rest)
               /\ \A j \in 1 .. i - 1 : placed(j) \in Boxes /\ Apart(placed(i), placed(j))
    <2> HIDE DEF placed
    <2>1. placed(i) \in Boxes /\ Inside(placed(i), space) /\ Apart(placed(i), rest)
      <3>1. PICK q : q = placed(i)
        OBVIOUS
      <3>2. /\ q \in Boxes /\ q.x = space.x /\ q.w = length
            /\ space.y <= q.y /\ q.y + q.h <= space.y + space.h
        BY <1>4, <3>1
      <3>3. QED BY <1>1, <1>5, <3>1, <3>2, InRow
    <2>2. ASSUME NEW j \in 1 .. i - 1 PROVE placed(j) \in Boxes /\ Apart(placed(i), placed(j))
      <3>1. j \in 1 .. k
        BY <1>2
      <3>2. placed(j) \in Boxes /\ placed(j).y + placed(j).h <= placed(i).y
        BY <1>4, <3>1
      <3>3. QED BY <3>2 DEF Apart
    <2>3. QED BY <2>1, <2>2
  <1> HIDE DEF placed
  <1>7. PICK c : c = Turned(b, rest)
    OBVIOUS
  <1>8. c \in Boxes /\ Inside(c, b)
    <2>1. Inside(Turned(b, rest), Turned(b, space)) /\ Turned(b, rest) \in Boxes
      BY <1>0, <1>1, <1>5, TurnedIs
    <2>2. QED BY <1>1, <1>7, <2>1
  <1>9. \A i \in 1 .. k :
          /\ new[i] \in Boxes /\ Inside(new[i], b) /\ Apart(new[i], c)
          /\ \A j \in 1 .. i - 1 : Apart(new[i], new[j])
    <2>1. TAKE i \in 1 .. k
    <2>2. new[i] = Turned(b, placed(i)) /\ \A j \in 1 .. i - 1 : new[j] = Turned(b, placed(j))
      BY <1>2
    <2>3. /\ Turned(b, placed(i)) \in Boxes
          /\ Inside(Turned(b, placed(i)), Turned(b, space))
          /\ Apart(Turned(b, placed(i)), Turned(b, rest))
          /\ \A j \in 1 .. i - 1 : Apart(Turned(b, placed(i)), Turned(b, placed(j)))
      BY <1>0, <1>1, <1>5, <1>6, TurnedIs
    <2> HIDE DEF new
    <2>4. QED BY <1>1, <1>7, <2>2, <2>3
  <1>10. new \in Seq(Boxes) /\ Len(new) = k
    <2>1. new \in [1 .. k -> Boxes]
      BY <1>9
    <2> HIDE DEF new
    <2>2. DOMAIN new = 1 .. k /\ k \in Nat
      BY <1>2, <2>1
    <2>3. new \in Seq(Boxes)
      BY <2>1, <2>2, SeqDef, Zenon
    <2>4. Len(new) = k
      BY <2>2, <2>3, LenProperties
    <2>5. QED BY <2>3, <2>4
  <1> HIDE DEF new
  <1>11. PICK all, after : all = boxes \o new /\ after = SubSeq(left, Len(row) + 1, Len(left))
    OBVIOUS
  <1>12. /\ after \in Seq(Positive) /\ Len(after) = Len(left) - k
    <2>1. Len(row) + 1 \in Int /\ Len(left) \in Int /\ Len(row) = k
      BY <1>2
    <2>2. \A i \in Len(row) + 1 .. Len(left) : left[i] \in Positive
      <3>1. TAKE i \in Len(row) + 1 .. Len(left)
      <3>2. i \in 1 .. Len(left)
        BY <1>2
      <3>3. QED BY <1>0, <3>2, ElementOfSeq
    <2>3. /\ after \in Seq(Positive)
          /\ Len(after) = IF k + 1 <= Len(left) THEN Len(left) - (k + 1) + 1 ELSE 0
      BY <1>11, <2>1, <2>2, SubSeqProperties
    <2>4. QED BY <1>2, <2>3
  <1>13. /\ all \in Seq(Boxes) /\ Len(all) = Len(boxes) + k
         /\ \A i \in 1 .. Len(boxes) : all[i] = boxes[i]
         /\ \A i \in 1 .. Len(all) : i > Len(boxes) => i - Len(boxes) \in 1 .. k /\ all[i] = new[i - Len(boxes)]
    <2>1. /\ all \in Seq(Boxes) /\ Len(all) = Len(boxes) + k
          /\ \A i \in 1 .. Len(boxes) + k : all[i] = IF i <= Len(boxes) THEN boxes[i] ELSE new[i - Len(boxes)]
      BY <1>0, <1>10, <1>11, ConcatProperties
    <2>2. QED BY <1>2, <2>1
  <1>14. /\ Inside(b, bounds) /\ n = Len(boxes) + Len(left)
         /\ \A i \in 1 .. Len(boxes) : /\ boxes[i] \in Boxes /\ Inside(boxes[i], bounds) /\ Apart(boxes[i], b)
                                       /\ \A j \in 1 .. i - 1 : Apart(boxes[i], boxes[j])
    <2>1. /\ Inside(b, bounds) /\ n = Len(boxes) + Len(left)
          /\ \A i \in 1 .. Len(boxes) : /\ Inside(boxes[i], bounds) /\ Apart(boxes[i], b)
                                         /\ \A j \in 1 .. i - 1 : Apart(boxes[i], boxes[j])
      BY <1>0 DEF RowsOK
    <2>2. QED BY <1>0, <2>1, ElementOfSeq
  <1>15. ASSUME NEW i \in 1 .. Len(all)
         PROVE  /\ Inside(all[i], bounds) /\ Apart(all[i], c)
                /\ \A j \in 1 .. i - 1 : Apart(all[i], all[j])
    <2>1. CASE i <= Len(boxes)
      <3>1. i \in 1 .. Len(boxes) /\ all[i] = boxes[i] /\ \A j \in 1 .. i - 1 : all[j] = boxes[j]
        BY <1>2, <1>13, <2>1
      <3>2. Apart(boxes[i], c)
        BY <1>0, <1>8, <1>14, <3>1, InsideOf
      <3>3. QED BY <1>14, <3>1, <3>2
    <2>2. CASE i > Len(boxes)
      <3>1. PICK l \in 1 .. k : l = i - Len(boxes) /\ all[i] = new[l]
        BY <1>13, <2>2
      <3>2. /\ new[l] \in Boxes /\ Inside(new[l], b) /\ Apart(new[l], c)
            /\ \A j \in 1 .. l - 1 : Apart(new[l], new[j])
        BY <1>9
      <3>3. Inside(new[l], bounds)
        BY <1>0, <1>14, <3>2, InsideOf
      <3>4. ASSUME NEW j \in 1 .. i - 1 PROVE Apart(all[i], all[j])
        <4>1. CASE j <= Len(boxes)
          <5>1. j \in 1 .. Len(boxes) /\ all[j] = boxes[j] /\ boxes[j] \in Boxes
            BY <1>2, <1>13, <1>14, <4>1
          <5>2. Apart(boxes[j], new[l])
            BY <1>0, <1>14, <3>2, <5>1, InsideOf
          <5>3. Apart(new[l], boxes[j])
            BY <3>2, <5>1, <5>2 DEF Apart, Boxes
          <5>4. QED BY <3>1, <5>1, <5>3
        <4>2. CASE j > Len(boxes)
          <5>1. j \in 1 .. Len(all) /\ j - Len(boxes) \in 1 .. l - 1
            <6>1. Len(boxes) \in Nat /\ Len(all) \in Nat /\ i \in Nat /\ j \in Nat /\ j < i /\ i <= Len(all)
              BY <1>2, <1>13
            <6>2. QED BY <3>1, <4>2, <6>1
          <5>2. all[j] = new[j - Len(boxes)]
            BY <1>13, <4>2, <5>1
          <5>3. QED BY <3>1, <3>2, <5>1, <5>2
        <4>3. QED BY <1>2, <4>1, <4>2
      <3>5. QED BY <3>1, <3>2, <3>3, <3>4
    <2>3. QED BY <1>2, <2>1, <2>2
  <1>16. WithRow(s, row, space, length) = [left |-> after, bounds |-> c, boxes |-> all]
    BY <1>0, <1>2, <1>7, <1>11 DEF WithRow, new, placed
  <1>17. Inside(c, bounds)
    BY <1>0, <1>8, <1>14, InsideOf
  <1>18. Len(all) + Len(after) = n
    BY <1>2, <1>12, <1>13, <1>14
  <1>19. RowsOK(bounds, n, [left |-> after, bounds |-> c, boxes |-> all])
    BY <1>8, <1>12, <1>13, <1>15, <1>17, <1>18, RowsAre
  <1>20. QED BY <1>0, <1>16, <1>19

-----------------------------------------------------------------------------
(* The next row, and all of them.                                           *)
LEMMA NextRowKept ==
    ASSUME NEW bounds \in Boxes, NEW n, NEW s, RowsOK(bounds, n, s)
    PROVE  RowsOK(bounds, n, NextRow(s))
  <1>0. PICK left, b : left = s.left /\ b = s.bounds /\ left \in Seq(Positive) /\ Len(left) \in Nat
                       /\ b \in Boxes
    BY RowsHave
  <1>1. CASE s.left = <<>> \/ s.bounds.w <= 0 \/ s.bounds.h <= 0
    BY <1>1 DEF NextRow
  <1>2. CASE ~(s.left = <<>> \/ s.bounds.w <= 0 \/ s.bounds.h <= 0) /\ Len(s.left) = 1
    BY <1>2, LastBox DEF NextRow
  <1>3. CASE ~(s.left = <<>> \/ s.bounds.w <= 0 \/ s.bounds.h <= 0) /\ Len(s.left) # 1
    <2>1. PICK space : space = Turned(b, b)
      OBVIOUS
    <2>2. space.w \in Nat /\ space.h \in Nat
      <3>1. b.w > 0 /\ b.h > 0 /\ b.w \in Int /\ b.h \in Int
        BY <1>0, <1>3 DEF Boxes
      <3>2. QED BY <2>1, <3>1 DEF Turned, Transposed, Box
    <2>3. PICK k : k = RowLength(left, space.w, space.h)
      OBVIOUS
    <2>4. Len(left) # 0
      BY <1>0, <1>3, EmptySeq
    <2>5. k \in 1 .. Len(left)
      BY <1>0, <2>3, <2>4, RowLengthIs
    <2>6. PICK length : length = (space.w * Sum(SubSeq(left, 1, k))) \div Sum(left)
      OBVIOUS
    <2>7. length \in Int /\ 0 <= length /\ length <= space.w
      <3>1. PICK p, t, h : p = Sum(SubSeq(left, 1, k)) /\ t = Sum(left) /\ h = space.w
        OBVIOUS
      <3>2. Positive \subseteq Nat
        BY DEF Positive
      <3>3. left \in Seq(Nat)
        BY <1>0, <3>2, SeqMonotonic
      <3>4. k \in 0 .. Len(left) /\ Len(left) \in 0 .. Len(left)
        BY <1>0, <2>5
      <3>5. p = SumTo(left)[k]
        BY <3>1, <3>3, <3>4, SumOfFirst
      <3>6. \A i \in 1 .. Len(left) : left[i] \in Nat /\ left[i] \in Positive
        BY <1>0, <3>3, ElementOfSeq
      <3>7. /\ p \in Nat /\ t \in Nat /\ p <= t
        <4>1. /\ \A i \in 0 .. Len(left) : SumTo(left)[i] \in Nat
              /\ \A i \in 0 .. Len(left) : \A j \in 0 .. i : SumTo(left)[j] <= SumTo(left)[i]
              /\ Sum(left) \in Nat
          BY <1>0, <3>6, SumsRise
        <4>2. t = SumTo(left)[Len(left)]
          BY <3>1 DEF Sum
        <4>3. QED BY <3>1, <3>4, <3>5, <4>1, <4>2
      <3>8. t # 0
        <4>1. left[1] <= Sum(left) /\ left[1] \in Positive
          <5>1. 1 \in 1 .. Len(left)
            BY <1>0, <2>4
          <5>2. QED BY <1>0, <3>6, <5>1, SumsRise
        <4>2. QED BY <3>1, <3>7, <4>1 DEF Positive
      <3>9. (p * h) \div t \in Nat /\ (p * h) \div t <= h
        BY <2>2, <3>1, <3>7, <3>8, Share
      <3>10. h * p = p * h
        BY <2>2, <3>1, <3>7
      <3>11. length = (p * h) \div t
        BY <2>6, <3>1, <3>10
      <3>12. QED BY <2>2, <3>1, <3>9, <3>11
    <2>8. RowsOK(bounds, n, WithRow(s, SubSeq(left, 1, k), Turned(b, b), length))
      <3>1. LET sp == Turned(s.bounds, s.bounds) IN sp.h >= 0 /\ 0 <= length /\ length <= sp.w
        BY <1>0, <2>1, <2>2, <2>7
      <3>2. k \in 1 .. Len(s.left) /\ s.left # <<>>
        BY <1>0, <1>3, <2>5
      <3>3. QED BY <1>0, <2>7, <3>1, <3>2, RowKept
    <2>9. NextRow(s) = WithRow(s, SubSeq(left, 1, k), Turned(b, b), length)
      BY <1>0, <1>3, <2>1, <2>3, <2>6 DEF NextRow
    <2>10. QED BY <2>8, <2>9
  <1>4. QED BY <1>1, <1>2, <1>3

IsRows(sizes, bounds, g) ==
    g = [k \in 0 .. Len(sizes) |->
            IF k = 0 THEN [left |-> sizes, bounds |-> bounds, boxes |-> <<>>] ELSE NextRow(g[k - 1])]

LEMMA SquarifyIs ==
    ASSUME NEW sizes \in Seq(Positive), NEW bounds \in Boxes
    PROVE  /\ Squarify(sizes, bounds) \in Seq(Boxes)
           /\ Len(Squarify(sizes, bounds)) \in 0 .. Len(sizes)
           /\ \A i \in 1 .. Len(Squarify(sizes, bounds)) :
                /\ Inside(Squarify(sizes, bounds)[i], bounds)
                /\ \A j \in 1 .. i - 1 : Apart(Squarify(sizes, bounds)[i], Squarify(sizes, bounds)[j])
  <1>0. PICK n, none : n = Len(sizes) /\ n \in Nat /\ none = <<>>
    BY LenProperties
  <1>1. PICK b : b = [left |-> sizes, bounds |-> bounds, boxes |-> none]
    OBVIOUS
  <1>2. RowsOK(bounds, n, b)
    <2>1. none \in Seq(Boxes) /\ Len(none) = 0
      BY <1>0
    <2>2. Inside(bounds, bounds)
      BY DEF Inside, Boxes
    <2>3. Len(none) + Len(sizes) = n
      BY <1>0, <2>1
    <2>4. \A i \in 1 .. Len(none) : FALSE
      BY <2>1
    <2>5. RowsOK(bounds, n, [left |-> sizes, bounds |-> bounds, boxes |-> none])
      BY <2>1, <2>2, <2>3, <2>4, RowsAre
    <2>6. QED BY <1>1, <2>5
  <1> DEFINE S == {s \in RowsType : RowsOK(bounds, n, s)}
             step == [s \in S |-> [i \in 1 .. n |-> NextRow(s)]]
  <1>3. step \in [S -> [1 .. n -> S]] /\ b \in S
    <2>1. \A s \in S : NextRow(s) \in S
      BY NextRowKept DEF RowsOK
    <2>2. QED BY <1>2, <2>1 DEF RowsOK
  <1>4. PICK h : Stepped(h, S, b, n, step)
    <2> HIDE DEF step, S
    <2>1. QED BY <1>0, <1>3, Steps, Zenon
  <1>5. IsRows(sizes, bounds, h)
    <2>1. h \in [0 .. n -> S] /\ h[0] = b /\ \A k \in 1 .. n : h[k] = step[h[k - 1]][k]
      BY <1>4 DEF Stepped
    <2>2. ASSUME NEW k \in 1 .. n PROVE h[k] = NextRow(h[k - 1])
      <3>1. h[k - 1] \in S
        BY <1>0, <2>1
      <3>2. QED BY <2>1, <3>1
    <2>3. h = [k \in 0 .. n |-> h[k]]
      BY <2>1
    <2>4. \A k \in 0 .. n : h[k] = IF k = 0 THEN b ELSE NextRow(h[k - 1])
      BY <1>0, <2>1, <2>2
    <2>5. QED BY <1>0, <1>1, <2>3, <2>4 DEF IsRows
  <1>6. PICK g : g = (CHOOSE f : IsRows(sizes, bounds, f)) /\ IsRows(sizes, bounds, g)
    BY <1>5
  <1>7. Squarify(sizes, bounds) = g[n].boxes
    BY <1>0, <1>6 DEF Squarify, IsRows
  <1>8. g[0] = b /\ \A k \in 1 .. n : g[k] = NextRow(g[k - 1])
    <2>1. g = [k \in 0 .. n |-> IF k = 0 THEN b ELSE NextRow(g[k - 1])]
      BY <1>0, <1>1, <1>6 DEF IsRows
    <2>2. QED BY <1>0, <2>1
  <1>9. \A k \in 0 .. n : g[k] \in S
    <2>1. g[0] \in S
      BY <1>3, <1>8
    <2>2. ASSUME NEW k \in 1 .. n, g[k - 1] \in S PROVE g[k] \in S
      <3>1. RowsOK(bounds, n, g[k - 1]) /\ g[k] = NextRow(g[k - 1])
        BY <1>8, <2>2
      <3>2. RowsOK(bounds, n, g[k])
        BY <3>1, NextRowKept
      <3>3. QED BY <3>2 DEF RowsOK
    <2> HIDE DEF S
    <2>3. QED BY <1>0, <2>1, <2>2, StaysInAll, Zenon
  <1>10. PICK s : s = g[n] /\ RowsOK(bounds, n, s)
    BY <1>0, <1>9
  <1>11. s.boxes \in Seq(Boxes) /\ Len(s.boxes) \in Nat /\ Len(s.left) \in Nat
    BY <1>10, RowsHave
  <1>12. /\ Len(s.boxes) + Len(s.left) = n
         /\ \A i \in 1 .. Len(s.boxes) : /\ Inside(s.boxes[i], bounds)
                                            /\ \A j \in 1 .. i - 1 : Apart(s.boxes[i], s.boxes[j])
    BY <1>10 DEF RowsOK
  <1>13. Len(s.boxes) \in 0 .. n
    <2>1. PICK p \in Nat, q \in Nat : p = Len(s.boxes) /\ q = Len(s.left)
      BY <1>11
    <2>2. p + q = n
      BY <1>12, <2>1
    <2>3. p \in 0 .. n
      BY <1>0, <2>2
    <2>4. QED BY <2>1, <2>3
  <1>14. Squarify(sizes, bounds) = s.boxes
    BY <1>7, <1>10
  <1>15. QED BY <1>0, <1>11, <1>12, <1>13, <1>14


-----------------------------------------------------------------------------
(* A set's elements in an order, each once.                                 *)
Once(s) == \A i, j \in 1 .. Len(s) : s[i] = s[j] => i = j
Enumerates(s, S) == s \in Seq(S) /\ Len(s) \in Nat /\ Range(s) = S /\ Once(s)

LEMMA SetToSeqIs ==
    ASSUME NEW S, IsFiniteSet(S)
    PROVE  Enumerates(SetToSeq(S), S) /\ Len(SetToSeq(S)) = Cardinality(S)
  <1>1. PICK n, b : n \in Nat /\ n = Cardinality(S) /\ b \in Bijection(1 .. n, S)
    BY FS_CardinalityType DEF ExistsBijection
  <1>2. b \in [1 .. n -> S] /\ IsInjective(b)
    BY <1>1 DEF Bijection, Injection
  <1>3. PICK f : /\ f = SetToSeq(S) /\ f \in [1 .. n -> S] /\ IsInjective(f)
    BY <1>1, <1>2 DEF SetToSeq
  <1>4. f \in Seq(S) /\ Len(f) = n
    <2>1. DOMAIN f = 1 .. n
      BY <1>3
    <2>2. f \in Seq(S)
      BY <1>1, <1>3, SeqDef, Zenon
    <2>3. QED BY <1>1, <2>1, <2>2, LenProperties
  <1>5. IsFiniteSet(1 .. n) /\ Cardinality(1 .. n) = n
    BY <1>1, FS_Interval
  <1>6. f \in Surjection(1 .. n, S)
    BY <1>1, <1>3, <1>5, FS_Injection DEF Injection
  <1>7. Range(f) = S
    BY <1>3, <1>6 DEF Surjection, Range
  <1>8. Once(f)
    BY <1>3, <1>4 DEF IsInjective, Once
  <1>9. QED BY <1>1, <1>3, <1>4, <1>7, <1>8 DEF Enumerates

-----------------------------------------------------------------------------
(* Sorting by size.                                                         *)
BySizes(s) == \A i, j \in 1 .. Len(s) : i < j => s[i].size >= s[j].size

LEMMA InsertedIs ==
    ASSUME NEW S, \A x \in S : x.size \in Int, NEW s \in Seq(S), BySizes(s), NEW item \in S
    PROVE  /\ Inserted(s, item) \in Seq(S) /\ Len(Inserted(s, item)) = Len(s) + 1
           /\ BySizes(Inserted(s, item))
           /\ Range(Inserted(s, item)) = Range(s) \cup {item}
           /\ Once(s) /\ item \notin Range(s) => Once(Inserted(s, item))
  <1>0. PICK n \in Nat : n = Len(s) /\ DOMAIN s = 1 .. n /\ \A i \in 1 .. n : s[i] \in S /\ s[i].size \in Int
    BY LenProperties, ElementOfSeq
  <1> DEFINE T == {i \in 1 .. Len(s) : s[i].size >= item.size}
  <1>1. PICK k \in 0 .. n : T = 1 .. k
    <2>1. CASE T = {}
      <3>1. 0 \in 0 .. n /\ 1 .. 0 = {}
        OBVIOUS
      <3>2. QED BY <2>1, <3>1
    <2>2. CASE T # {}
      <3>1. T \in SUBSET (1 .. n)
        BY <1>0
      <3>2. PICK k \in T : \A j \in T : j <= k
        <4> HIDE DEF T
        <4>1. QED BY <2>2, <3>1, Greatest
      <3>3. ASSUME NEW j \in 1 .. k PROVE j \in T
        <4>1. j \in 1 .. Len(s) /\ k \in 1 .. Len(s) /\ j <= k
          BY <1>0
        <4>2. s[j].size >= s[k].size
          <5>1. CASE j = k
            BY <1>0, <5>1
          <5>2. CASE j # k
            BY <4>1, <5>2 DEF BySizes
          <5>3. QED BY <5>1, <5>2
        <4>3. s[k].size >= item.size /\ s[k].size \in Int /\ s[j].size \in Int /\ item.size \in Int
          BY <1>0, <4>1
        <4>4. QED BY <4>1, <4>2, <4>3
      <3>4. T = 1 .. k
        BY <1>0, <3>2, <3>3
      <3>5. QED BY <1>0, <3>4
    <2>3. QED BY <2>1, <2>2
  <1>2. Cardinality(T) = k
    <2>1. k \in Nat /\ 1 \in Int /\ k \in Int /\ (IF 1 > k THEN 0 ELSE k - 1 + 1) = k
      OBVIOUS
    <2>2. Cardinality(1 .. k) = k
      BY <2>1, FS_Interval
    <2>3. QED BY <1>1, <2>2
  <1>3. PICK t : t = Inserted(s, item)
    OBVIOUS
  <1>4. t = SubSeq(s, 1, k) \o <<item>> \o SubSeq(s, k + 1, n)
    <2>1. t = InsertAt(s, k + 1, item)
      BY <1>2, <1>3 DEF Inserted
    <2>2. (k + 1) - 1 = k
      OBVIOUS
    <2>3. QED BY <1>0, <2>1, <2>2 DEF InsertAt
  <1>5. PICK a, b : a = SubSeq(s, 1, k) /\ b = SubSeq(s, k + 1, n)
    OBVIOUS
  <1>6. /\ a \in Seq(S) /\ Len(a) = k /\ \A i \in 1 .. k : a[i] = s[i]
        /\ b \in Seq(S) /\ Len(b) = n - k /\ \A i \in 1 .. n - k : b[i] = s[k + i]
    <2>1. k \in Nat /\ k <= n
      OBVIOUS
    <2>2. \A i \in 1 .. k : s[i] \in S
      BY <1>0, <2>1
    <2>3. \A i \in k + 1 .. n : s[i] \in S
      BY <1>0, <2>1
    <2>4. a \in Seq(S) /\ Len(a) = k /\ \A i \in 1 .. k : a[i] = s[i]
      <3>1. /\ a \in Seq(S)
            /\ Len(a) = IF 1 <= k THEN k - 1 + 1 ELSE 0
            /\ \A i \in 1 .. k - 1 + 1 : a[i] = s[1 + i - 1]
        BY <1>5, <2>1, <2>2, SubSeqProperties
      <3>2. \A i \in 1 .. k : i \in 1 .. k - 1 + 1 /\ 1 + i - 1 = i
        OBVIOUS
      <3>3. QED BY <2>1, <3>1, <3>2
    <2>5. b \in Seq(S) /\ Len(b) = n - k /\ \A i \in 1 .. n - k : b[i] = s[k + i]
      <3>1. /\ b \in Seq(S)
            /\ Len(b) = IF k + 1 <= n THEN n - (k + 1) + 1 ELSE 0
            /\ \A i \in 1 .. n - (k + 1) + 1 : b[i] = s[k + 1 + i - 1]
        BY <1>5, <2>1, <2>3, SubSeqProperties
      <3>2. \A i \in 1 .. n - k : i \in 1 .. n - (k + 1) + 1 /\ k + 1 + i - 1 = k + i
        OBVIOUS
      <3>3. QED BY <2>1, <3>1, <3>2
    <2>6. QED BY <2>4, <2>5
  <1>7. /\ t \in Seq(S) /\ Len(t) = n + 1
        /\ \A i \in 1 .. n + 1 : t[i] = IF i <= k THEN s[i] ELSE IF i = k + 1 THEN item ELSE s[i - 1]
    <2>1. PICK c : c = a \o <<item>> /\ t = c \o b
      BY <1>4, <1>5
    <2>2. /\ c \in Seq(S) /\ Len(c) = k + 1
          /\ \A i \in 1 .. k + 1 : c[i] = IF i <= k THEN s[i] ELSE item
      <3>1. k \in Nat
        OBVIOUS
      <3>2. PICK one : one = <<item>>
        OBVIOUS
      <3>9. one \in Seq(S) /\ Len(one) = 1 /\ one[1] = item
        BY <3>2
      <3>3. /\ c \in Seq(S) /\ Len(c) = k + 1
            /\ \A i \in 1 .. k + 1 : c[i] = IF i <= k THEN a[i] ELSE one[i - k]
        <4>1. a \in Seq(S) /\ Len(a) = k /\ c = a \o one
          BY <1>6, <2>1, <3>2
        <4>2. /\ c \in Seq(S) /\ Len(c) = Len(a) + Len(one)
              /\ \A i \in 1 .. Len(a) + Len(one) : c[i] = IF i <= Len(a) THEN a[i] ELSE one[i - Len(a)]
          BY <3>9, <4>1, ConcatProperties
        <4>3. QED BY <3>9, <4>1, <4>2
      <3>4. ASSUME NEW i \in 1 .. k + 1 PROVE c[i] = IF i <= k THEN s[i] ELSE item
        <4>1. CASE i <= k
          <5>1. i \in 1 .. k
            BY <3>1, <4>1
          <5>2. QED BY <1>6, <3>3, <4>1, <5>1
        <4>2. CASE ~(i <= k)
          <5>1. i = k + 1 /\ i - k = 1
            BY <3>1, <4>2
          <5>2. QED BY <3>9, <3>3, <4>2, <5>1
        <4>3. QED BY <4>1, <4>2
      <3>5. QED BY <3>3, <3>4
    <2>3. /\ t \in Seq(S) /\ Len(t) = (k + 1) + (n - k)
          /\ \A i \in 1 .. (k + 1) + (n - k) : t[i] = IF i <= k + 1 THEN c[i] ELSE b[i - (k + 1)]
      <3>1. b \in Seq(S) /\ Len(b) = n - k
        BY <1>6
      <3>2. t = c \o b /\ c \in Seq(S) /\ Len(c) = k + 1
        BY <2>1, <2>2
      <3>3. /\ t \in Seq(S) /\ Len(t) = Len(c) + Len(b)
            /\ \A i \in 1 .. Len(c) + Len(b) : t[i] = IF i <= Len(c) THEN c[i] ELSE b[i - Len(c)]
        BY <3>1, <3>2, ConcatProperties
      <3>4. QED BY <3>1, <3>2, <3>3
    <2>4. (k + 1) + (n - k) = n + 1
      OBVIOUS
    <2>5. ASSUME NEW i \in 1 .. n + 1
          PROVE t[i] = IF i <= k THEN s[i] ELSE IF i = k + 1 THEN item ELSE s[i - 1]
      <3>1. CASE i <= k + 1
        <4>1. i \in 1 .. k + 1
          BY <3>1
        <4>2. QED BY <2>2, <2>3, <2>4, <3>1, <4>1
      <3>2. CASE i > k + 1
        <4>1. i - (k + 1) \in 1 .. n - k /\ k + (i - (k + 1)) = i - 1
          BY <3>2
        <4>2. b[i - (k + 1)] = s[i - 1]
          BY <1>6, <4>1
        <4>3. QED BY <2>3, <2>4, <3>2, <4>2
      <3>3. QED BY <3>1, <3>2
    <2>6. QED BY <2>3, <2>4, <2>5
  <1>8. \A i \in 1 .. n : i \in 1 .. Len(s) /\ (i \in T <=> i <= k)
    BY <1>0, <1>1
  <1>9. BySizes(t)
    <2> SUFFICES ASSUME NEW i \in 1 .. n + 1, NEW j \in 1 .. n + 1, i < j
                 PROVE  t[i].size >= t[j].size
      BY <1>7 DEF BySizes
    <2>1. \A l \in 1 .. n, m \in 1 .. n : l < m => s[l].size >= s[m].size
      BY <1>0 DEF BySizes
    <2>2. \A l \in 1 .. n : IF l <= k THEN s[l].size >= item.size ELSE ~(s[l].size >= item.size)
      BY <1>8
    <2>3. item.size \in Int
      OBVIOUS
    <2>4. CASE j <= k
      <3>1. i \in 1 .. n /\ j \in 1 .. n /\ t[i] = s[i] /\ t[j] = s[j]
        BY <1>7, <2>4
      <3>2. QED BY <2>1, <3>1
    <2>5. CASE j = k + 1
      <3>1. i \in 1 .. n /\ i <= k /\ t[i] = s[i] /\ t[j] = item
        BY <1>7, <2>5
      <3>2. QED BY <2>2, <3>1
    <2>6. CASE j > k + 1
      <3>1. j - 1 \in 1 .. n /\ j - 1 > k /\ t[j] = s[j - 1]
        BY <1>7, <2>6
      <3>2. CASE i = k + 1
        <4>1. t[i] = item /\ ~(s[j - 1].size >= item.size) /\ s[j - 1].size \in Int
          BY <1>0, <1>7, <2>2, <3>1, <3>2
        <4>2. QED BY <2>3, <3>1, <4>1
      <3>3. CASE i # k + 1
        <4>1. PICK l \in 1 .. n : t[i] = s[l] /\ l < j - 1
          <5>1. CASE i <= k
            <6>1. i \in 1 .. n /\ t[i] = s[i] /\ i < j - 1
              BY <1>7, <2>6, <5>1
            <6>2. QED BY <6>1
          <5>2. CASE i > k + 1
            <6>1. i - 1 \in 1 .. n /\ t[i] = s[i - 1] /\ i - 1 < j - 1
              BY <1>7, <2>6, <5>2
            <6>2. QED BY <6>1
          <5>3. QED BY <3>3, <5>1, <5>2
        <4>2. QED BY <2>1, <3>1, <4>1
      <3>4. QED BY <3>2, <3>3
    <2>7. QED BY <2>4, <2>5, <2>6
  <1>10. Range(t) = Range(s) \cup {item}
    <2>1. DOMAIN t = 1 .. n + 1
      BY <1>7, LenProperties
    <2>2. ASSUME NEW x \in Range(t) PROVE x \in Range(s) \cup {item}
      <3>1. PICK i \in 1 .. n + 1 : x = t[i]
        BY <2>1 DEF Range
      <3>2. CASE i <= k
        <4>1. i \in 1 .. n /\ x = s[i]
          BY <1>7, <3>1, <3>2
        <4>2. QED BY <1>0, <4>1 DEF Range
      <3>3. CASE i = k + 1
        BY <1>7, <3>1, <3>3
      <3>4. CASE i > k + 1
        <4>1. i - 1 \in 1 .. n /\ x = s[i - 1]
          BY <1>7, <3>1, <3>4
        <4>2. QED BY <1>0, <4>1 DEF Range
      <3>5. QED BY <3>2, <3>3, <3>4
    <2>3. ASSUME NEW x \in Range(s) PROVE x \in Range(t)
      <3>1. PICK i \in 1 .. n : x = s[i]
        BY <1>0 DEF Range
      <3>2. CASE i <= k
        <4>1. i \in 1 .. n + 1 /\ t[i] = x
          BY <1>7, <3>1, <3>2
        <4>2. QED BY <2>1, <4>1 DEF Range
      <3>3. CASE i > k
        <4>1. i + 1 \in 1 .. n + 1 /\ (i + 1) - 1 = i
          OBVIOUS
        <4>2. t[i + 1] = x
          BY <1>7, <3>1, <3>3, <4>1
        <4>3. QED BY <2>1, <4>1, <4>2 DEF Range
      <3>4. QED BY <3>2, <3>3
    <2>4. item \in Range(t)
      <3>1. k + 1 \in 1 .. n + 1 /\ t[k + 1] = item
        BY <1>7
      <3>2. QED BY <2>1, <3>1 DEF Range
    <2>5. QED BY <2>2, <2>3, <2>4
  <1>11. ASSUME Once(s), item \notin Range(s) PROVE Once(t)
    <2> SUFFICES ASSUME NEW i \in 1 .. n + 1, NEW j \in 1 .. n + 1, t[i] = t[j], i # j PROVE FALSE
      BY <1>7 DEF Once
    <2> DEFINE from(l) == IF l <= k THEN l ELSE l - 1
    <2>1. \A l \in 1 .. n : s[l] # item
      BY <1>0, <1>11 DEF Range
    <2>2. \A l \in 1 .. n + 1 : l # k + 1 => from(l) \in 1 .. n /\ t[l] = s[from(l)]
      BY <1>7
    <2>3. t[k + 1] = item
      BY <1>7
    <2>4. i # k + 1 /\ j # k + 1
      BY <2>1, <2>2, <2>3
    <2>5. from(i) = from(j)
      <3>1. from(i) \in 1 .. n /\ from(j) \in 1 .. n /\ s[from(i)] = s[from(j)]
        BY <2>2, <2>4
      <3> HIDE DEF from
      <3>2. QED BY <1>0, <1>11, <3>1 DEF Once
    <2>6. QED BY <2>4, <2>5
  <1>12. QED BY <1>0, <1>3, <1>7, <1>9, <1>10, <1>11

Insorted(items, g) ==
    g = [k \in 0 .. Len(items) |-> IF k = 0 THEN <<>> ELSE Inserted(g[k - 1], items[k])]

LEMMA BySizeIs ==
    ASSUME NEW S, \A x \in S : x.size \in Int, NEW items \in Seq(S)
    PROVE  /\ BySize(items) \in Seq(S) /\ Len(BySize(items)) = Len(items)
           /\ BySizes(BySize(items)) /\ Range(BySize(items)) = Range(items)
           /\ Once(items) => Once(BySize(items))
  <1>0. PICK n, none : /\ n \in Nat /\ n = Len(items) /\ DOMAIN items = 1 .. n /\ none = <<>>
                               /\ \A i \in 1 .. n : items[i] \in S
    BY LenProperties, ElementOfSeq
  <1> DEFINE U == {s \in Seq(S) : BySizes(s)}
             step == [s \in U |-> [i \in 1 .. n |-> Inserted(s, items[i])]]
  <1>1. none \in Seq(S) /\ Len(none) = 0 /\ DOMAIN none = {}
    BY <1>0
  <1>2. none \in U /\ Range(none) = {} /\ Once(none)
    BY <1>1 DEF BySizes, Range, Once
  <1>3. step \in [U -> [1 .. n -> U]]
    <2>1. ASSUME NEW s \in U, NEW i \in 1 .. n PROVE Inserted(s, items[i]) \in U
      <3>1. items[i] \in S /\ s \in Seq(S) /\ BySizes(s)
        BY <1>0
      <3>2. QED BY <3>1, InsertedIs
    <2>2. QED BY <2>1
  <1>4. PICK h : Stepped(h, U, none, n, step)
    <2> HIDE DEF step, U
    <2>1. QED BY <1>0, <1>2, <1>3, Steps, Zenon
  <1>5. Insorted(items, h)
    <2>1. h \in [0 .. n -> U] /\ h[0] = none /\ \A k \in 1 .. n : h[k] = step[h[k - 1]][k]
      BY <1>4 DEF Stepped
    <2>2. ASSUME NEW k \in 1 .. n PROVE h[k] = Inserted(h[k - 1], items[k])
      <3>1. k - 1 \in 0 .. n
        BY <1>0
      <3>2. h \in [0 .. n -> U]
        BY <2>1
      <3> HIDE DEF U
      <3>3. h[k - 1] \in U
        BY <3>1, <3>2
      <3>4. h[k] = step[h[k - 1]][k]
        BY <2>1
      <3> USE DEF U
      <3>5. QED BY <3>3, <3>4
    <2>3. h = [k \in 0 .. n |-> h[k]]
      BY <2>1
    <2>4. \A k \in 0 .. n : h[k] = IF k = 0 THEN none ELSE Inserted(h[k - 1], items[k])
      BY <1>0, <2>1, <2>2
    <2>5. QED BY <1>0, <2>3, <2>4 DEF Insorted
  <1>6. PICK g : g = (CHOOSE f : Insorted(items, f)) /\ Insorted(items, g)
    BY <1>5
  <1>7. BySize(items) = g[n]
    BY <1>0, <1>6 DEF BySize, Insorted
  <1>8. g[0] = none /\ \A k \in 1 .. n : g[k] = Inserted(g[k - 1], items[k])
    <2>1. g = [k \in 0 .. n |-> IF k = 0 THEN none ELSE Inserted(g[k - 1], items[k])]
      BY <1>0, <1>6 DEF Insorted
    <2>2. QED BY <1>0, <2>1
  <1> DEFINE Upto(k, s) == /\ s \in Seq(S) /\ Len(s) = k /\ BySizes(s)
                           /\ Range(s) = {items[i] : i \in 1 .. k}
                           /\ Once(items) => Once(s)
             T == {k \in 0 .. n : Upto(k, g[k])}
  <1>9. 0 \in T
    <2>1. {items[i] : i \in 1 .. 0} = {}
      OBVIOUS
    <2>2. BySizes(none)
      BY <1>2
    <2>3. Upto(0, g[0])
      BY <1>1, <1>2, <1>8, <2>1, <2>2
    <2>4. QED BY <1>0, <2>3
  <1>10. ASSUME NEW k \in 1 .. n, k - 1 \in T PROVE k \in T
    <2>1. PICK s : s = g[k - 1] /\ Upto(k - 1, s)
      BY <1>10
    <2>2. /\ g[k] = Inserted(s, items[k]) /\ items[k] \in S
      BY <1>0, <1>8, <2>1
    <2>3. PICK t : t = Inserted(s, items[k])
      OBVIOUS
    <2>4. /\ t \in Seq(S) /\ Len(t) = Len(s) + 1 /\ BySizes(t)
          /\ Range(t) = Range(s) \cup {items[k]}
          /\ Once(s) /\ items[k] \notin Range(s) => Once(t)
      <3>1. s \in Seq(S) /\ BySizes(s) /\ items[k] \in S
        BY <2>1, <2>2
      <3>2. PICK item : item = items[k] /\ item \in S
        BY <3>1
      <3>3. s \in Seq(S) /\ BySizes(s) /\ item \in S /\ \A x \in S : x.size \in Int
        BY <3>1, <3>2
      <3>4. /\ Inserted(s, item) \in Seq(S) /\ Len(Inserted(s, item)) = Len(s) + 1
            /\ BySizes(Inserted(s, item)) /\ Range(Inserted(s, item)) = Range(s) \cup {item}
            /\ Once(s) /\ item \notin Range(s) => Once(Inserted(s, item))
        BY <3>3, InsertedIs, Zenon
      <3>5. t = Inserted(s, item)
        BY <2>3, <3>2
      <3>6. QED BY <3>2, <3>4, <3>5
    <2>5. Len(t) = k
      BY <2>1, <2>4
    <2>6. Range(t) = {items[i] : i \in 1 .. k}
      <3>1. \A i : i \in 1 .. k <=> i \in 1 .. k - 1 \/ i = k
        OBVIOUS
      <3>2. {items[i] : i \in 1 .. k} = {items[i] : i \in 1 .. k - 1} \cup {items[k]}
        BY <3>1
      <3>3. QED BY <2>1, <2>4, <3>2
    <2>7. ASSUME Once(items) PROVE Once(t)
      <3>1. items[k] \notin Range(s)
        <4>1. SUFFICES ASSUME NEW i \in 1 .. k - 1, items[i] = items[k] PROVE FALSE
          BY <2>1
        <4>2. i \in 1 .. n /\ i # k
          BY <1>0
        <4>3. QED BY <1>0, <2>7, <4>1, <4>2 DEF Once
      <3>2. QED BY <2>1, <2>4, <2>7, <3>1
    <2>8. k \in 0 .. n
      OBVIOUS
    <2>9. QED BY <2>2, <2>3, <2>4, <2>5, <2>6, <2>7, <2>8
  <1>11. n \in T
    <2> HIDE DEF T
    <2>1. 0 .. n \subseteq T
      BY <1>0, <1>9, <1>10, Induct
    <2>2. QED BY <1>0, <2>1
  <1>12. Range(items) = {items[i] : i \in 1 .. n}
    BY <1>0 DEF Range
  <1>13. QED BY <1>0, <1>7, <1>11, <1>12

-----------------------------------------------------------------------------
(* Sums over sets.                                                          *)
LEMMA SumOverIs ==
    ASSUME NEW S, IsFiniteSet(S), NEW f, \A x \in S : f[x] \in Nat
    PROVE  SumOver(f, S) \in Nat
  <1>1. PICK order : order = SetToSeq(S)
    OBVIOUS
  <1>2. Len(order) \in Nat /\ \A i \in 1 .. Len(order) : order[i] \in S
    BY <1>1, SetToSeqIs, ElementOfSeq DEF Enumerates
  <1>3. PICK s : s = [i \in 1 .. Len(order) |-> f[order[i]]]
    OBVIOUS
  <1>4. Len(s) \in Nat /\ \A i \in 1 .. Len(s) : s[i] \in Nat
    <2>1. Len(s) = Len(order)
      BY <1>2, <1>3
    <2>2. QED BY <1>2, <1>3, <2>1
  <1>5. Sum(s) \in Nat
    BY <1>4, SumsRise
  <1>6. QED BY <1>1, <1>3, <1>5 DEF SumOver

LEMMA SumOverSame ==
    ASSUME NEW S, IsFiniteSet(S), NEW f, NEW g, \A x \in S : f[x] = g[x]
    PROVE  SumOver(f, S) = SumOver(g, S)
  <1>1. PICK order : order = SetToSeq(S)
    OBVIOUS
  <1>2. \A i \in 1 .. Len(order) : order[i] \in S
    BY <1>1, SetToSeqIs, ElementOfSeq DEF Enumerates
  <1>3. [i \in 1 .. Len(order) |-> f[order[i]]] = [i \in 1 .. Len(order) |-> g[order[i]]]
    BY <1>2
  <1>4. QED BY <1>1, <1>3 DEF SumOver

-----------------------------------------------------------------------------
(* A tree: what is in a folder, itself included, has in it what is in each  *)
(* of its folders, which have nothing in common, nor itself.                *)
FilesKept(files) == IsFiniteSet(files) /\ \A f \in files : f.size \in Positive

IsTree(tree, sub) ==
    /\ IsFiniteSet(DOMAIN tree)
    /\ \A d \in DOMAIN tree :
         /\ FilesKept(tree[d].files)
         /\ d \in sub[d] /\ sub[d] \subseteq DOMAIN tree
         /\ tree[d].dirs \subseteq DOMAIN tree
         /\ \A c \in tree[d].dirs :
              /\ sub[c] \subseteq sub[d] /\ d \notin sub[c]
              /\ \A e \in tree[d].dirs : e # c => sub[c] \cap sub[e] = {}

LEMMA SizeOfIs ==
    ASSUME NEW all, FilesKept(all), NEW files \in SUBSET all
    PROVE  SizeOf(files) \in Nat /\ IsFiniteSet(files)
  <1>1. IsFiniteSet(files) /\ \A f \in files : f.size \in Nat
    BY FS_Subset DEF FilesKept, Positive
  <1>2. PICK size : size = [f \in files |-> f.size]
    OBVIOUS
  <1>3. \A f \in files : size[f] \in Nat
    BY <1>1, <1>2
  <1>4. QED BY <1>1, <1>2, <1>3, SumOverIs DEF SizeOf

(* How much there is in a folder is less in each of its own.                *)
Height(sub, d) == Cardinality(sub[d])

LEMMA HeightIs ==
    ASSUME NEW tree, NEW sub, IsTree(tree, sub), NEW d \in DOMAIN tree
    PROVE  /\ Height(sub, d) \in 1 .. Cardinality(DOMAIN tree)
           /\ Cardinality(DOMAIN tree) \in Nat
           /\ \A c \in tree[d].dirs : c \in DOMAIN tree /\ Height(sub, c) < Height(sub, d)
           /\ IsFiniteSet(tree[d].dirs)
  <1>1. IsFiniteSet(DOMAIN tree) /\ Cardinality(DOMAIN tree) \in Nat
    BY FS_CardinalityType DEF IsTree
  <1>2. d \in sub[d] /\ sub[d] \in SUBSET (DOMAIN tree) /\ tree[d].dirs \in SUBSET (DOMAIN tree)
    BY DEF IsTree
  <1>3. /\ IsFiniteSet(sub[d]) /\ IsFiniteSet(tree[d].dirs)
        /\ Cardinality(sub[d]) <= Cardinality(DOMAIN tree)
    BY <1>1, <1>2, FS_Subset
  <1>4. Cardinality(sub[d]) \in Nat /\ Cardinality(sub[d]) # 0
    BY <1>2, <1>3, FS_CardinalityType, FS_EmptySet
  <1>5. ASSUME NEW c \in tree[d].dirs
        PROVE  c \in DOMAIN tree /\ Cardinality(sub[c]) < Cardinality(sub[d])
    <2>1. c \in DOMAIN tree /\ sub[c] \in SUBSET sub[d] /\ sub[c] # sub[d]
      BY <1>2 DEF IsTree
    <2>2. IsFiniteSet(sub[c]) /\ Cardinality(sub[c]) <= Cardinality(sub[d]) /\ Cardinality(sub[c]) # Cardinality(sub[d])
      BY <1>3, <2>1, FS_Subset
    <2>3. Cardinality(sub[c]) \in Nat
      BY <2>2, FS_CardinalityType
    <2>4. QED BY <1>4, <2>1, <2>2, <2>3
  <1>6. QED BY <1>1, <1>3, <1>4, <1>5 DEF Height

(* Its total is a number.                                                   *)
Summed(tree, least, h) ==
    [n \in DOMAIN tree |-> SizeOf(Matching(tree, n, least)) + SumOver(h, tree[n].dirs)]
IsTotal(tree, least, g) == g = Summed(tree, least, g)

LEMMA SummedIs ==
    ASSUME NEW tree, NEW sub, IsTree(tree, sub), NEW least, NEW n \in DOMAIN tree,
           NEW h, \A c \in tree[n].dirs : h[c] \in Nat
    PROVE  Summed(tree, least, h)[n] \in Nat
  <1>1. FilesKept(tree[n].files) /\ Matching(tree, n, least) \in SUBSET tree[n].files
    BY DEF IsTree, Matching
  <1>2. SizeOf(Matching(tree, n, least)) \in Nat
    BY <1>1, SizeOfIs
  <1>3. SumOver(h, tree[n].dirs) \in Nat
    BY HeightIs, SumOverIs
  <1>4. QED BY <1>2, <1>3 DEF Summed

LEMMA TotalExists ==
    ASSUME NEW tree, NEW sub, IsTree(tree, sub), NEW least
    PROVE  \E g : IsTotal(tree, least, g)
  <1> DEFINE S == [DOMAIN tree -> Nat]
  <1>n. PICK n : n = Cardinality(DOMAIN tree)
    OBVIOUS
  <1>0. n \in Nat /\ \A d \in DOMAIN tree : Height(sub, d) \in 1 .. n
    BY <1>n, HeightIs, FS_CardinalityType DEF IsTree
  <1> DEFINE zero == [d \in DOMAIN tree |-> 0]
             step == [h \in S |-> [i \in 1 .. n + 1 |-> Summed(tree, least, h)]]
  <1>1. \A h \in S : Summed(tree, least, h) \in S
    <2>1. TAKE h \in S
    <2>2. ASSUME NEW d \in DOMAIN tree PROVE Summed(tree, least, h)[d] \in Nat
      <3>1. \A c \in tree[d].dirs : h[c] \in Nat
        BY HeightIs
      <3>2. QED BY <3>1, SummedIs
    <2>3. DOMAIN Summed(tree, least, h) = DOMAIN tree
      BY DEF Summed
    <2>4. Summed(tree, least, h) = [d \in DOMAIN tree |-> Summed(tree, least, h)[d]]
      BY DEF Summed
    <2>5. QED BY <2>2, <2>4
  <1>2. zero \in S /\ step \in [S -> [1 .. n + 1 -> S]]
    BY <1>1
  <1>3. PICK h : Stepped(h, S, zero, n + 1, step)
    <2> HIDE DEF S, zero, step
    <2>1. n + 1 \in Nat
      BY <1>0
    <2>2. QED BY <1>2, <2>1, Steps, Zenon
  <1>4. /\ \A k \in 0 .. n + 1 : h[k] \in S
        /\ \A k \in 1 .. n + 1 : h[k] = Summed(tree, least, h[k - 1])
    <2>1. h \in [0 .. n + 1 -> S] /\ \A k \in 1 .. n + 1 : h[k] = step[h[k - 1]][k]
      BY <1>3 DEF Stepped
    <2>2. ASSUME NEW k \in 1 .. n + 1 PROVE h[k] = Summed(tree, least, h[k - 1])
      <3>1. h[k - 1] \in S
        BY <1>0, <2>1
      <3>2. QED BY <2>1, <3>1
    <2>3. QED BY <2>1, <2>2
  <1> DEFINE T == {k \in 0 .. n : \A d \in DOMAIN tree : Height(sub, d) <= k => h[k + 1][d] = h[k][d]}
  <1>5. 0 \in T
    BY <1>0
  <1>6. ASSUME NEW k \in 1 .. n, k - 1 \in T PROVE k \in T
    <2> SUFFICES ASSUME NEW d \in DOMAIN tree, Height(sub, d) <= k PROVE h[k + 1][d] = h[k][d]
      BY <1>0
    <2>1. /\ k \in 1 .. n + 1 /\ k + 1 \in 1 .. n + 1 /\ (k - 1) + 1 = k /\ (k + 1) - 1 = k
      BY <1>0
    <2>2. h[k] = Summed(tree, least, h[k - 1]) /\ h[k + 1] = Summed(tree, least, h[k])
      BY <1>4, <2>1
    <2>3. ASSUME NEW c \in tree[d].dirs PROVE h[k - 1][c] = h[k][c]
      <3>1. c \in DOMAIN tree /\ Height(sub, c) < Height(sub, d)
        BY HeightIs
      <3>2. Height(sub, c) <= k - 1
        BY <1>0, <3>1
      <3>3. QED BY <1>6, <2>1, <3>1, <3>2
    <2>4. IsFiniteSet(tree[d].dirs)
      BY HeightIs
    <2>5. SumOver(h[k - 1], tree[d].dirs) = SumOver(h[k], tree[d].dirs)
      BY <2>3, <2>4, SumOverSame
    <2>6. Summed(tree, least, h[k - 1])[d] = Summed(tree, least, h[k])[d]
      BY <2>5 DEF Summed
    <2>7. QED BY <2>2, <2>6
  <1>7. n \in T
    <2> HIDE DEF T
    <2>1. 0 .. n \subseteq T
      BY <1>0, <1>5, <1>6, Induct
    <2>2. QED BY <1>0, <2>1
  <1>8. h[n + 1] = h[n]
    <2>1. h[n] \in S /\ h[n + 1] \in S
      <3>1. n \in 0 .. n + 1 /\ n + 1 \in 0 .. n + 1
        BY <1>0
      <3>2. QED BY <1>4, <3>1
    <2>2. \A d \in DOMAIN tree : h[n + 1][d] = h[n][d]
      BY <1>0, <1>7
    <2>3. QED BY <2>1, <2>2
  <1>9. h[n + 1] = Summed(tree, least, h[n])
    <2>1. n + 1 \in 1 .. n + 1 /\ (n + 1) - 1 = n
      BY <1>0
    <2>2. QED BY <1>4, <2>1
  <1>10. QED BY <1>8, <1>9 DEF IsTotal

LEMMA TotalIs ==
    ASSUME NEW tree, NEW sub, IsTree(tree, sub), NEW least, NEW d \in DOMAIN tree
    PROVE  Total(tree, d, least) \in Nat
  <1>1. PICK g : g = (CHOOSE f : IsTotal(tree, least, f)) /\ IsTotal(tree, least, g)
    BY TotalExists
  <1>2. Total(tree, d, least) = g[d]
    BY <1>1 DEF Total, IsTotal, Summed
  <1>n. PICK n : n = Cardinality(DOMAIN tree)
    OBVIOUS
  <1>3. n \in Nat /\ \A e \in DOMAIN tree : Height(sub, e) \in 1 .. n
    BY <1>n, HeightIs, FS_CardinalityType DEF IsTree
  <1> DEFINE T == {k \in 0 .. n : \A e \in DOMAIN tree : Height(sub, e) <= k => g[e] \in Nat}
  <1>4. 0 \in T
    BY <1>3
  <1>5. ASSUME NEW k \in 1 .. n, k - 1 \in T PROVE k \in T
    <2> SUFFICES ASSUME NEW e \in DOMAIN tree, Height(sub, e) <= k PROVE g[e] \in Nat
      BY <1>3
    <2>1. ASSUME NEW c \in tree[e].dirs PROVE g[c] \in Nat
      <3>1. c \in DOMAIN tree /\ Height(sub, c) < Height(sub, e)
        BY HeightIs
      <3>2. Height(sub, c) <= k - 1
        BY <1>3, <3>1
      <3>3. QED BY <1>5, <3>1, <3>2
    <2>2. Summed(tree, least, g)[e] \in Nat
      BY <2>1, SummedIs
    <2>3. QED BY <1>1, <2>2 DEF IsTotal
  <1>6. n \in T
    <2> HIDE DEF T
    <2>1. 0 .. n \subseteq T
      BY <1>3, <1>4, <1>5, Induct
    <2>2. QED BY <1>3, <2>1
  <1>7. QED BY <1>2, <1>3, <1>6

-----------------------------------------------------------------------------
(* What of a folder gets a rect.                                            *)
LEMMA ListsBoth ==
    ASSUME NEW S, NEW T, S \cap T = {}, NEW s, NEW t, Enumerates(s, S), Enumerates(t, T)
    PROVE  Enumerates(s \o t, S \cup T)
  <1>1. /\ s \in Seq(S \cup T) /\ t \in Seq(S \cup T) /\ Len(s) \in Nat /\ Len(t) \in Nat
        /\ Range(s) = S /\ Range(t) = T /\ Once(s) /\ Once(t)
        /\ DOMAIN s = 1 .. Len(s) /\ DOMAIN t = 1 .. Len(t)
    BY SeqMonotonic, LenProperties DEF Enumerates
  <1>n. PICK m \in Nat, n \in Nat : m = Len(s) /\ n = Len(t)
    BY <1>1
  <1>2. PICK r : r = s \o t
    OBVIOUS
  <1>3. /\ r \in Seq(S \cup T) /\ Len(r) = m + n /\ DOMAIN r = 1 .. m + n
        /\ \A i \in 1 .. m + n : r[i] = IF i <= m THEN s[i] ELSE t[i - m]
    <2>1. /\ r \in Seq(S \cup T) /\ Len(r) = Len(s) + Len(t)
          /\ \A i \in 1 .. Len(s) + Len(t) : r[i] = IF i <= Len(s) THEN s[i] ELSE t[i - Len(s)]
      BY <1>1, <1>2, ConcatProperties
    <2>2. QED BY <1>n, <2>1, LenProperties
  <1>4. /\ \A i \in 1 .. m : s[i] \in S
        /\ \A i \in 1 .. n : t[i] \in T
    BY <1>1, <1>n DEF Range
  <1>5. Range(r) = S \cup T
    <2>1. ASSUME NEW x \in S PROVE x \in Range(r)
      <3>1. PICK i \in 1 .. m : x = s[i]
        BY <1>1, <1>n DEF Range
      <3>2. i \in 1 .. m + n /\ r[i] = x
        BY <1>3, <3>1
      <3>3. QED BY <1>3, <3>2 DEF Range
    <2>2. ASSUME NEW x \in T PROVE x \in Range(r)
      <3>1. PICK i \in 1 .. n : x = t[i]
        BY <1>1, <1>n DEF Range
      <3>2. m + i \in 1 .. m + n /\ ~(m + i <= m) /\ (m + i) - m = i
        OBVIOUS
      <3>3. r[m + i] = x
        BY <1>3, <3>1, <3>2
      <3>4. QED BY <1>3, <3>2, <3>3 DEF Range
    <2>3. \A i \in 1 .. m + n : r[i] \in S \cup T
      BY <1>3, ElementOfSeq
    <2>4. QED BY <1>3, <2>1, <2>2, <2>3 DEF Range
  <1>6. Once(r)
    <2> SUFFICES ASSUME NEW i \in 1 .. m + n, NEW j \in 1 .. m + n, r[i] = r[j] PROVE i = j
      BY <1>3 DEF Once
    <2>1. CASE i <= m /\ j <= m
      <3>1. i \in 1 .. m /\ j \in 1 .. m /\ s[i] = s[j]
        BY <1>3, <2>1
      <3>2. QED BY <1>1, <1>n, <3>1 DEF Once
    <2>2. CASE i > m /\ j > m
      <3>1. i - m \in 1 .. n /\ j - m \in 1 .. n /\ t[i - m] = t[j - m]
        BY <1>3, <2>2
      <3>2. i - m = j - m
        BY <1>1, <1>n, <3>1 DEF Once
      <3>3. QED BY <3>2
    <2>3. CASE i <= m /\ j > m
      <3>1. i \in 1 .. m /\ j - m \in 1 .. n /\ s[i] = t[j - m]
        BY <1>3, <2>3
      <3>2. QED BY <1>4, <3>1
    <2>4. CASE i > m /\ j <= m
      <3>1. j \in 1 .. m /\ i - m \in 1 .. n /\ s[j] = t[i - m]
        BY <1>3, <2>4
      <3>2. QED BY <1>4, <3>1
    <2>5. QED BY <2>1, <2>2, <2>3, <2>4
  <1>7. QED BY <1>2, <1>3, <1>5, <1>6 DEF Enumerates

LEMMA ListsFew ==
    /\ Enumerates(<<>>, {})
    /\ \A x : Enumerates(<<x>>, {x})
  <1>1. Enumerates(<<>>, {})
    <2>1. PICK s : s = <<>>
      OBVIOUS
    <2>2. s \in Seq({}) /\ Len(s) = 0 /\ DOMAIN s = {}
      BY <2>1
    <2>3. Enumerates(s, {})
      BY <2>2 DEF Enumerates, Once, Range
    <2>4. QED BY <2>1, <2>3
  <1>2. ASSUME NEW x PROVE Enumerates(<<x>>, {x})
    <2>1. PICK s : s = <<x>>
      OBVIOUS
    <2>2. s \in Seq({x}) /\ Len(s) = 1 /\ DOMAIN s = {1} /\ s[1] = x
      BY <2>1
    <2>3. Range(s) = {x} /\ Once(s)
      BY <2>2 DEF Once, Range
    <2>4. Enumerates(s, {x})
      BY <2>2, <2>3 DEF Enumerates
    <2>5. QED BY <2>1, <2>4
  <1>3. QED BY <1>1, <1>2

LEMMA FiniteRange ==
    ASSUME NEW S, IsFiniteSet(S), NEW f, DOMAIN f = S, f = [x \in S |-> f[x]]
    PROVE  IsFiniteSet({f[x] : x \in S})
  <1> DEFINE T == {f[x] : x \in S}
  <1>1. f \in [S -> T]
    OBVIOUS
  <1>2. f \in Surjection(S, T)
    BY <1>1 DEF Surjection
  <1>3. IsFiniteSet(T)
    <2> HIDE DEF T
    <2>1. QED BY <1>2, FS_Surjection
  <1>4. QED BY <1>3

ItemsOK(dirs, items) ==
    /\ Len(items) \in Nat
    /\ \A i \in 1 .. Len(items) : /\ items[i].size \in Positive
                                  /\ items[i].kind \in {"Dir", "File", "OtherFiles"}
                                  /\ items[i].kind = "Dir" => items[i].id \in dirs
    /\ \A i, j \in 1 .. Len(items) :
         items[i].kind = "Dir" /\ items[j].kind = "Dir" /\ items[i].id = items[j].id => i = j

LEMMA ItemsIs ==
    ASSUME NEW tree, NEW sub, IsTree(tree, sub), NEW d \in DOMAIN tree, NEW content, NEW least
    PROVE  ItemsOK(tree[d].dirs, Items(tree, d, content, least))
  <1>1. PICK dirs : dirs = {c \in tree[d].dirs : Total(tree, c, least) > 0}
    OBVIOUS
  <1>2. PICK large : large = Large(tree, d, content, least)
    OBVIOUS
  <1>3. PICK rest : rest = SizeOf(Matching(tree, d, least) \ large)
    OBVIOUS
  <1>n. PICK none, others : none = "" /\ others = "(other files)"
    BY Zenon
  <1>4. PICK f : f = [c \in dirs |-> ItemOf("Dir", c, none, Total(tree, c, least))]
    OBVIOUS
  <1>5. PICK g : g = [x \in large |-> ItemOf("File", NoId, x.name, x.size)]
    OBVIOUS
  <1>6. PICK o, more : /\ o = ItemOf("OtherFiles", NoId, others, rest)
                       /\ more = IF rest > 0 THEN <<o>> ELSE <<>>
    OBVIOUS
  <1> DEFINE A == {f[c] : c \in dirs}
             B == {g[x] : x \in large}
             C == IF rest > 0 THEN {o} ELSE {}
  <1>7. Items(tree, d, content, least) = BySize(SetToSeq(A) \o SetToSeq(B) \o more)
    <2>1. A = {ItemOf("Dir", c, none, Total(tree, c, least)) : c \in dirs}
      BY <1>4
    <2>2. B = {ItemOf("File", NoId, x.name, x.size) : x \in large}
      BY <1>5
    <2> HIDE DEF A, B
    <2>3. QED BY <1>n, <1>1, <1>2, <1>3, <1>6, <2>1, <2>2, Zenon DEF Items
  <1>8. FilesKept(tree[d].files) /\ large \in SUBSET tree[d].files /\ Matching(tree, d, least) \ large \in SUBSET tree[d].files
    BY <1>2 DEF IsTree, Matching, Large
  <1>9. IsFiniteSet(large) /\ rest \in Nat /\ \A x \in large : x.size \in Positive
    BY <1>3, <1>8, SizeOfIs DEF FilesKept
  <1>10. IsFiniteSet(dirs) /\ \A c \in dirs : c \in tree[d].dirs /\ Total(tree, c, least) \in Positive
    <2>1. IsFiniteSet(tree[d].dirs) /\ dirs \in SUBSET tree[d].dirs
      BY <1>1, HeightIs
    <2>2. \A c \in tree[d].dirs : Total(tree, c, least) \in Nat
      BY TotalIs DEF IsTree
    <2>3. QED BY <1>1, <2>1, <2>2, FS_Subset DEF Positive
  <1>11. \A x \in A : x.kind = "Dir" /\ x.size \in Positive /\ x.id \in tree[d].dirs /\ x = f[x.id]
    <2>1. ASSUME NEW c \in dirs PROVE f[c].kind = "Dir" /\ f[c].size \in Positive /\ f[c].id = c /\ c \in tree[d].dirs
      <3>1. PICK size : size = Total(tree, c, least)
        OBVIOUS
      <3>2. f[c] = ItemOf("Dir", c, none, size)
        BY <1>4, <3>1
      <3>3. size \in Positive /\ c \in tree[d].dirs
        BY <1>10, <3>1
      <3>4. f[c].kind = "Dir" /\ f[c].size = size /\ f[c].id = c
        BY <3>2 DEF ItemOf
      <3>5. QED BY <3>3, <3>4
    <2>2. QED BY <2>1
  <1>12. \A x \in B : x.kind = "File" /\ x.size \in Positive
    BY <1>5, <1>9 DEF ItemOf
  <1>13. \A x \in C : x.kind = "OtherFiles" /\ x.size \in Positive
    <2>1. rest > 0 => rest \in Positive
      BY <1>9 DEF Positive
    <2>2. o.kind = "OtherFiles" /\ o.size = rest
      BY <1>6 DEF ItemOf
    <2>3. QED BY <2>1, <2>2
  <1>14. IsFiniteSet(A) /\ IsFiniteSet(B)
    <2>1. DOMAIN f = dirs /\ f = [c \in dirs |-> f[c]] /\ DOMAIN g = large /\ g = [x \in large |-> g[x]]
      BY <1>4, <1>5
    <2>2. QED BY <1>9, <1>10, <2>1, FiniteRange
  <1>15. Enumerates(more, C)
    BY <1>6, ListsFew
  <1> HIDE DEF A, B, C
  <1>16. PICK all : all = SetToSeq(A) \o SetToSeq(B) \o more
    OBVIOUS
  <1>17. Enumerates(all, A \cup B \cup C)
    <2>1. Enumerates(SetToSeq(A), A) /\ Enumerates(SetToSeq(B), B)
      BY <1>14, SetToSeqIs
    <2>2. A \cap B = {} /\ (A \cup B) \cap C = {}
      BY <1>11, <1>12, <1>13
    <2>3. Enumerates(SetToSeq(A) \o SetToSeq(B), A \cup B)
      BY <2>1, <2>2, ListsBoth
    <2>4. QED BY <1>15, <1>16, <2>2, <2>3, ListsBoth
  <1>18. PICK S : S = A \cup B \cup C
    OBVIOUS
  <1>19. \A x \in S : x.size \in Positive /\ x.size \in Int /\ x.kind \in {"Dir", "File", "OtherFiles"}
                       /\ (x.kind = "Dir" => x.id \in tree[d].dirs /\ x = f[x.id])
    BY <1>11, <1>12, <1>13, <1>18 DEF Positive
  <1>20. PICK items : items = BySize(all)
    OBVIOUS
  <1>21. items \in Seq(S) /\ Len(items) \in Nat /\ Once(items) /\ \A i \in 1 .. Len(items) : items[i] \in S
    <2>1. all \in Seq(S) /\ Once(all) /\ \A x \in S : x.size \in Int
      BY <1>17, <1>18, <1>19 DEF Enumerates
    <2>2. items \in Seq(S) /\ Once(items)
      BY <1>20, <2>1, BySizeIs
    <2>3. QED BY <2>2, LenProperties, ElementOfSeq
  <1>22. ItemsOK(tree[d].dirs, items)
    <2>1. \A i, j \in 1 .. Len(items) :
            items[i].kind = "Dir" /\ items[j].kind = "Dir" /\ items[i].id = items[j].id => i = j
      BY <1>19, <1>21 DEF Once
    <2>2. QED BY <1>19, <1>21, <2>1 DEF ItemsOK
  <1>23. QED BY <1>7, <1>16, <1>20, <1>22

-----------------------------------------------------------------------------
(* The rects of a place: of some of the folder's own folders (C), and what  *)
(* is in them, with their own boxes among B.                                *)
Holds(c, r) ==
    c.id = r.parent /\ c.kind = "Container" /\ r.depth = c.depth + 1 /\ Inside(r.box, c.box)

RectOK(sub, p, C, B, r) ==
    /\ r.box \in Boxes /\ r.depth \in Nat /\ Inside(r.box, p.box)
    /\ IsDir(r) => \E c \in C : r.id \in sub[c]
    /\ (r.parent = p.dir /\ r.depth = p.depth /\ r.box \in B) \/ \E c \in C : r.parent \in sub[c]

Laid(sub, p, C, B, rs) ==
    /\ \E S : rs \in Seq(S)
    /\ \A i \in 1 .. Len(rs) :
         /\ RectOK(sub, p, C, B, rs[i])
         /\ rs[i].parent = p.dir \/ \E j \in 1 .. i - 1 : Holds(rs[j], rs[i])
         /\ \A j \in 1 .. i - 1 :
              /\ ~(IsDir(rs[i]) /\ IsDir(rs[j]) /\ rs[i].id = rs[j].id)
              /\ rs[i].parent = rs[j].parent => Apart(rs[i].box, rs[j].box)

LEMMA LaidMore ==
    ASSUME NEW sub, NEW p, NEW C, NEW B, NEW rs, Laid(sub, p, C, B, rs), NEW D, C \subseteq D, NEW E, B \subseteq E
    PROVE  Laid(sub, p, D, E, rs)
  <1>1. \A r : RectOK(sub, p, C, B, r) => RectOK(sub, p, D, E, r)
    BY DEF RectOK
  <1>2. QED BY <1>1 DEF Laid

LEMMA LaidNone == ASSUME NEW sub, NEW p, NEW C, NEW B PROVE Laid(sub, p, C, B, <<>>)
  <1>1. PICK s : s = <<>>
    OBVIOUS
  <1>2. s \in Seq({}) /\ Len(s) = 0
    BY <1>1
  <1>3. Laid(sub, p, C, B, s)
    BY <1>2 DEF Laid
  <1>4. QED BY <1>1, <1>3

(* Rects of one and of other folders don't meet.                            *)
LEMMA LaidBoth ==
    ASSUME NEW tree, NEW sub, IsTree(tree, sub), NEW p, p.dir \in DOMAIN tree,
           NEW C, C \subseteq tree[p.dir].dirs, NEW D, D \subseteq tree[p.dir].dirs, C \cap D = {},
           NEW B, NEW E, \A b \in B, e \in E : Apart(e, b),
           NEW r, Laid(sub, p, C, B, r), NEW s, Laid(sub, p, D, E, s)
    PROVE  Laid(sub, p, C \cup D, B \cup E, r \o s)
  <1>1. PICK S : r \in Seq(S) /\ s \in Seq(S)
    <2>1. PICK X, Y : r \in Seq(X) /\ s \in Seq(Y)
      BY DEF Laid
    <2>2. r \in Seq(X \cup Y) /\ s \in Seq(X \cup Y)
      BY <2>1, SeqMonotonic
    <2>3. QED BY <2>2
  <1>2. PICK m \in Nat, n \in Nat : m = Len(r) /\ n = Len(s)
    BY <1>1, LenProperties
  <1>3. PICK t : t = r \o s
    OBVIOUS
  <1>4. /\ t \in Seq(S) /\ Len(t) = m + n
        /\ \A i \in 1 .. m : i \in 1 .. m + n /\ t[i] = r[i]
        /\ \A i \in 1 .. n : m + i \in 1 .. m + n /\ t[m + i] = s[i]
        /\ \A i \in 1 .. m + n : i \in 1 .. m \/ \E j \in 1 .. n : i = m + j
    <2>1. /\ t \in Seq(S) /\ Len(t) = m + n
          /\ \A i \in 1 .. m + n : t[i] = IF i <= m THEN r[i] ELSE s[i - m]
      BY <1>1, <1>2, <1>3, ConcatProperties
    <2>2. \A i \in 1 .. m : i \in 1 .. m + n /\ t[i] = r[i]
      BY <2>1
    <2>3. ASSUME NEW i \in 1 .. n PROVE m + i \in 1 .. m + n /\ t[m + i] = s[i]
      <3>1. m + i \in 1 .. m + n /\ ~(m + i <= m) /\ (m + i) - m = i
        OBVIOUS
      <3>2. QED BY <2>1, <3>1
    <2>4. ASSUME NEW i \in 1 .. m + n, i \notin 1 .. m PROVE \E j \in 1 .. n : i = m + j
      <3>1. i - m \in 1 .. n /\ i = m + (i - m)
        BY <2>4
      <3>2. QED BY <3>1
    <2>5. QED BY <2>1, <2>2, <2>3, <2>4
  <1>5. /\ \A c \in C, e \in D : sub[c] \cap sub[e] = {}
        /\ \A c \in C \cup D : p.dir \notin sub[c]
    BY DEF IsTree
  <1>6. /\ \A x : RectOK(sub, p, C, B, x) => RectOK(sub, p, C \cup D, B \cup E, x)
        /\ \A x : RectOK(sub, p, D, E, x) => RectOK(sub, p, C \cup D, B \cup E, x)
    BY DEF RectOK
  <1>7. ASSUME NEW x, RectOK(sub, p, D, E, x), NEW y, RectOK(sub, p, C, B, y)
        PROVE  /\ ~(IsDir(x) /\ IsDir(y) /\ x.id = y.id)
               /\ x.parent = y.parent => Apart(x.box, y.box)
    BY <1>5, <1>7 DEF RectOK
  <1>8. ASSUME NEW i \in 1 .. m
        PROVE  /\ RectOK(sub, p, C \cup D, B \cup E, t[i])
               /\ t[i].parent = p.dir \/ \E j \in 1 .. i - 1 : Holds(t[j], t[i])
               /\ \A j \in 1 .. i - 1 :
                    /\ ~(IsDir(t[i]) /\ IsDir(t[j]) /\ t[i].id = t[j].id)
                    /\ t[i].parent = t[j].parent => Apart(t[i].box, t[j].box)
    <2>1. \A j \in 1 .. i - 1 : j \in 1 .. m
      BY <1>2
    <2>2. t[i] = r[i] /\ \A j \in 1 .. i - 1 : t[j] = r[j]
      BY <1>4, <2>1
    <2>3. /\ RectOK(sub, p, C, B, r[i])
          /\ r[i].parent = p.dir \/ \E j \in 1 .. i - 1 : Holds(r[j], r[i])
          /\ \A j \in 1 .. i - 1 :
               /\ ~(IsDir(r[i]) /\ IsDir(r[j]) /\ r[i].id = r[j].id)
               /\ r[i].parent = r[j].parent => Apart(r[i].box, r[j].box)
      BY <1>2 DEF Laid
    <2>4. RectOK(sub, p, C \cup D, B \cup E, t[i])
      BY <1>6, <2>2, <2>3
    <2>5. QED BY <2>2, <2>3, <2>4
  <1>9. ASSUME NEW l \in 1 .. n
        PROVE  /\ RectOK(sub, p, C \cup D, B \cup E, t[m + l])
               /\ t[m + l].parent = p.dir \/ \E j \in 1 .. (m + l) - 1 : Holds(t[j], t[m + l])
               /\ \A j \in 1 .. (m + l) - 1 :
                    /\ ~(IsDir(t[m + l]) /\ IsDir(t[j]) /\ t[m + l].id = t[j].id)
                    /\ t[m + l].parent = t[j].parent => Apart(t[m + l].box, t[j].box)
    <2>1. PICK x : x = s[l] /\ x = t[m + l]
      BY <1>4
    <2>2. /\ RectOK(sub, p, D, E, x)
          /\ x.parent = p.dir \/ \E j \in 1 .. l - 1 : Holds(s[j], x)
          /\ \A j \in 1 .. l - 1 : /\ ~(IsDir(x) /\ IsDir(s[j]) /\ x.id = s[j].id)
                                   /\ x.parent = s[j].parent => Apart(x.box, s[j].box)
      BY <1>2, <2>1 DEF Laid
    <2>3. \A j \in 1 .. l - 1 : j \in 1 .. n /\ m + j \in 1 .. (m + l) - 1 /\ t[m + j] = s[j]
      <3>1. \A j \in 1 .. l - 1 : j \in 1 .. n /\ m + j \in 1 .. (m + l) - 1
        OBVIOUS
      <3>2. QED BY <1>4, <3>1
    <2>4. x.parent = p.dir \/ \E j \in 1 .. (m + l) - 1 : Holds(t[j], x)
      BY <2>2, <2>3
    <2>5. ASSUME NEW j \in 1 .. (m + l) - 1
          PROVE  /\ ~(IsDir(x) /\ IsDir(t[j]) /\ x.id = t[j].id)
                 /\ x.parent = t[j].parent => Apart(x.box, t[j].box)
      <3>1. CASE j \in 1 .. m
        <4>1. RectOK(sub, p, C, B, t[j])
          BY <1>2, <1>4, <3>1 DEF Laid
        <4>2. QED BY <1>7, <2>2, <4>1
      <3>2. CASE j \notin 1 .. m
        <4>1. j \in 1 .. m + n
          OBVIOUS
        <4>2. PICK k \in 1 .. n : j = m + k
          BY <1>4, <3>2, <4>1
        <4>3. k \in 1 .. l - 1
          BY <4>2
        <4>4. t[j] = s[k]
          BY <1>4, <4>2
        <4>5. QED BY <2>2, <4>3, <4>4
      <3>3. QED BY <3>1, <3>2
    <2>6. RectOK(sub, p, C \cup D, B \cup E, x)
      BY <1>6, <2>2
    <2>7. QED BY <2>1, <2>4, <2>5, <2>6
  <1>10. ASSUME NEW i \in 1 .. Len(t)
         PROVE  /\ RectOK(sub, p, C \cup D, B \cup E, t[i])
                /\ t[i].parent = p.dir \/ \E j \in 1 .. i - 1 : Holds(t[j], t[i])
                /\ \A j \in 1 .. i - 1 :
                     /\ ~(IsDir(t[i]) /\ IsDir(t[j]) /\ t[i].id = t[j].id)
                     /\ t[i].parent = t[j].parent => Apart(t[i].box, t[j].box)
    <2>1. CASE i \in 1 .. m
      BY <1>8, <2>1
    <2>2. CASE i \notin 1 .. m
      <3>1. PICK l \in 1 .. n : i = m + l
        BY <1>4, <2>2
      <3>2. QED BY <1>9, <3>1
    <2>3. QED BY <2>1, <2>2
  <1>11. Laid(sub, p, C \cup D, B \cup E, t)
    BY <1>4, <1>10 DEF Laid
  <1>12. QED BY <1>3, <1>11

-----------------------------------------------------------------------------
(* A rect alone, or opened up.                                              *)
OwnRect(p, r) == r.parent = p.dir /\ r.depth = p.depth /\ r.depth \in Nat /\ r.box \in Boxes /\ Inside(r.box, p.box)

LEMMA LaidAlone ==
    ASSUME NEW sub, NEW p, NEW C, NEW r, OwnRect(p, r), IsDir(r) => r.id \in C /\ r.id \in sub[r.id]
    PROVE  Laid(sub, p, C, {r.box}, <<r>>)
  <1>1. PICK s : s = <<r>>
    OBVIOUS
  <1>2. s \in Seq({r}) /\ Len(s) = 1 /\ s[1] = r
    BY <1>1
  <1>3. RectOK(sub, p, C, {r.box}, r) /\ r.parent = p.dir
    BY DEF RectOK, OwnRect
  <1>4. \A i \in 1 .. Len(s) : s[i] = r /\ 1 .. i - 1 = {}
    BY <1>2
  <1>5. Laid(sub, p, C, {r.box}, s)
    BY <1>2, <1>3, <1>4 DEF Laid
  <1>6. QED BY <1>1, <1>5

LEMMA LaidOpened ==
    ASSUME NEW tree, NEW sub, IsTree(tree, sub), NEW p, p.dir \in DOMAIN tree, p.box \in Boxes,
           NEW r, OwnRect(p, r), r.kind = "Container", r.id \in tree[p.dir].dirs,
           NEW q, q.dir = r.id, q.depth = r.depth + 1, q.box = r.box,
           NEW B, NEW within, Laid(sub, q, tree[r.id].dirs, B, within)
    PROVE  Laid(sub, p, {r.id}, {r.box}, <<r>> \o within)
  <1>1. PICK S : within \in Seq(S) /\ r \in S
    <2>1. PICK X : within \in Seq(X)
      BY DEF Laid
    <2>2. X \subseteq X \cup {r}
      OBVIOUS
    <2>3. within \in Seq(X \cup {r})
      BY <2>1, <2>2, SeqMonotonic
    <2>4. QED BY <2>3
  <1>2. PICK n \in Nat : n = Len(within)
    BY <1>1, LenProperties
  <1>3. PICK t : t = <<r>> \o within
    OBVIOUS
  <1>4. /\ t \in Seq(S) /\ Len(t) = n + 1 /\ t[1] = r
        /\ \A i \in 1 .. n : i + 1 \in 1 .. n + 1 /\ t[i + 1] = within[i]
    <2>1. PICK a : a = <<r>>
      OBVIOUS
    <2>2. a \in Seq(S) /\ Len(a) = 1 /\ a[1] = r
      BY <1>1, <2>1
    <2>3. /\ t \in Seq(S) /\ Len(t) = 1 + n
          /\ \A i \in 1 .. 1 + n : t[i] = IF i <= 1 THEN a[i] ELSE within[i - 1]
      BY <1>1, <1>2, <1>3, <2>1, <2>2, ConcatProperties
    <2>4. t[1] = r
      BY <2>2, <2>3
    <2>5. ASSUME NEW i \in 1 .. n PROVE i + 1 \in 1 .. n + 1 /\ t[i + 1] = within[i]
      <3>1. i + 1 \in 1 .. 1 + n /\ ~(i + 1 <= 1) /\ (i + 1) - 1 = i
        OBVIOUS
      <3>2. QED BY <2>3, <3>1
    <2>6. QED BY <2>3, <2>4, <2>5
  <1>5. /\ r.id \in DOMAIN tree /\ r.id \in sub[r.id] /\ p.dir \notin sub[r.id]
        /\ \A c \in tree[r.id].dirs : sub[c] \subseteq sub[r.id] /\ r.id \notin sub[c]
    BY DEF IsTree
  <1>6. RectOK(sub, p, {r.id}, {r.box}, r) /\ r.parent = p.dir /\ IsDir(r)
    BY <1>5 DEF RectOK, OwnRect, IsDir
  <1>7. ASSUME NEW i \in 1 .. n
        PROVE  /\ RectOK(sub, p, {r.id}, {r.box}, t[i + 1])
               /\ \E j \in 1 .. (i + 1) - 1 : Holds(t[j], t[i + 1])
               /\ \A j \in 1 .. (i + 1) - 1 :
                    /\ ~(IsDir(t[i + 1]) /\ IsDir(t[j]) /\ t[i + 1].id = t[j].id)
                    /\ t[i + 1].parent = t[j].parent => Apart(t[i + 1].box, t[j].box)
    <2>1. PICK x : x = within[i] /\ x = t[i + 1]
      BY <1>4
    <2>2. /\ RectOK(sub, q, tree[r.id].dirs, B, x)
          /\ x.parent = r.id \/ \E j \in 1 .. i - 1 : Holds(within[j], x)
          /\ \A j \in 1 .. i - 1 : /\ ~(IsDir(x) /\ IsDir(within[j]) /\ x.id = within[j].id)
                                   /\ x.parent = within[j].parent => Apart(x.box, within[j].box)
      BY <1>2, <2>1 DEF Laid
    <2>3. \A j \in 1 .. i - 1 : j + 1 \in 1 .. (i + 1) - 1 /\ t[j + 1] = within[j]
      <3>1. \A j \in 1 .. i - 1 : j \in 1 .. n /\ j + 1 \in 1 .. (i + 1) - 1
        OBVIOUS
      <3>2. QED BY <1>4, <3>1
    <2>4. /\ x.box \in Boxes /\ x.depth \in Nat /\ Inside(x.box, r.box)
          /\ IsDir(x) => x.id \in sub[r.id] /\ x.id # r.id
          /\ x.parent \in sub[r.id]
          /\ x.parent = r.id => x.depth = r.depth + 1
      BY <1>5, <2>2 DEF RectOK
    <2>5. Inside(x.box, p.box)
      <3>1. Inside(r.box, p.box) /\ r.box \in Boxes /\ p.box \in Boxes
        BY DEF OwnRect
      <3>2. PICK u, v, z : u = x.box /\ v = r.box /\ z = p.box
        OBVIOUS
      <3>3. u \in Boxes /\ v \in Boxes /\ z \in Boxes /\ Inside(u, v) /\ Inside(v, z)
        BY <2>4, <3>1, <3>2
      <3>4. Inside(u, z)
        BY <3>3 DEF Inside, Boxes
      <3>5. QED BY <3>2, <3>4
    <2>6. RectOK(sub, p, {r.id}, {r.box}, x)
      BY <2>4, <2>5 DEF RectOK
    <2>7. \E j \in 1 .. (i + 1) - 1 : Holds(t[j], x)
      <3>1. CASE x.parent = r.id
        <4>1. Holds(t[1], x)
          BY <1>4, <2>4, <3>1 DEF Holds
        <4>2. 1 \in 1 .. (i + 1) - 1
          OBVIOUS
        <4>3. QED BY <4>1, <4>2
      <3>2. CASE x.parent # r.id
        BY <2>2, <2>3, <3>2
      <3>3. QED BY <3>1, <3>2
    <2>8. ASSUME NEW j \in 1 .. (i + 1) - 1
          PROVE  /\ ~(IsDir(x) /\ IsDir(t[j]) /\ x.id = t[j].id)
                 /\ x.parent = t[j].parent => Apart(x.box, t[j].box)
      <3>1. CASE j = 1
        <4>1. x.parent # p.dir
          BY <1>5, <2>4
        <4>2. QED BY <1>4, <1>6, <2>4, <3>1, <4>1
      <3>2. CASE j # 1
        <4>1. j - 1 \in 1 .. i - 1 /\ (j - 1) + 1 = j
          BY <3>2
        <4>2. t[j] = within[j - 1]
          BY <2>3, <4>1
        <4>3. QED BY <2>2, <4>1, <4>2
      <3>3. QED BY <3>1, <3>2
    <2>9. QED BY <2>1, <2>6, <2>7, <2>8
  <1>8. ASSUME NEW i \in 1 .. Len(t)
        PROVE  /\ RectOK(sub, p, {r.id}, {r.box}, t[i])
               /\ t[i].parent = p.dir \/ \E j \in 1 .. i - 1 : Holds(t[j], t[i])
               /\ \A j \in 1 .. i - 1 :
                    /\ ~(IsDir(t[i]) /\ IsDir(t[j]) /\ t[i].id = t[j].id)
                    /\ t[i].parent = t[j].parent => Apart(t[i].box, t[j].box)
    <2>1. CASE i = 1
      <3>1. 1 .. i - 1 = {}
        BY <2>1
      <3>2. QED BY <1>4, <1>6, <2>1, <3>1
    <2>2. CASE i # 1
      <3>1. i - 1 \in 1 .. n /\ (i - 1) + 1 = i
        BY <1>4, <2>2
      <3>2. QED BY <1>7, <3>1
    <2>3. QED BY <2>1, <2>2
  <1>9. Laid(sub, p, {r.id}, {r.box}, t)
    BY <1>4, <1>8 DEF Laid
  <1>10. QED BY <1>3, <1>9

-----------------------------------------------------------------------------
(* And how they are stacked: each is in the place, below its header, or     *)
(* behind a container it is in, with nothing from elsewhere between them.   *)
Covers(rs, j, i) ==
    /\ Holds(rs[j], rs[i])
    /\ Inside(rs[i].box, Content(rs[j].box, HeaderHeight(rs[j].box)))
    /\ \A k \in j + 1 .. i : Inside(rs[k].box, rs[j].box)

Lies(p, r) == r.parent = p.dir /\ Inside(r.box, Content(p.box, p.header))

Encloses(rs, i) == i < Len(rs) /\ IsDir(rs[i]) /\ rs[i + 1].parent = rs[i].id

Stands(p, most, rs, i) ==
    /\ rs[i].depth < most
    /\ Lies(p, rs[i]) \/ \E j \in 1 .. i - 1 : Covers(rs, j, i)
    /\ rs[i].kind = "Container" <=> Encloses(rs, i)

Stacked(p, most, rs) == \A i \in 1 .. Len(rs) : Stands(p, most, rs, i)

DrawnIn(sub, most, p, C, B, rs) == Laid(sub, p, C, B, rs) /\ Stacked(p, most, rs)

LEMMA StackedNone ==
    ASSUME NEW sub, NEW most, NEW p, NEW C, NEW B PROVE DrawnIn(sub, most, p, C, B, <<>>)
  <1>1. PICK s : s = <<>>
    OBVIOUS
  <1>2. Len(s) = 0
    BY <1>1
  <1>3. Stacked(p, most, s)
    BY <1>2 DEF Stacked
  <1>4. QED BY <1>1, <1>3, LaidNone DEF DrawnIn

LEMMA StackedAlone ==
    ASSUME NEW most, NEW p, NEW r, Lies(p, r), r.depth < most, r.kind # "Container"
    PROVE  Stacked(p, most, <<r>>)
  <1>1. PICK s : s = <<r>>
    OBVIOUS
  <1>2. Len(s) = 1 /\ s[1] = r
    BY <1>1
  <1>3. \A i \in 1 .. Len(s) : i = 1 /\ ~Encloses(s, i)
    BY <1>2 DEF Encloses
  <1>4. Stacked(p, most, s)
    BY <1>2, <1>3 DEF Stacked, Stands
  <1>5. QED BY <1>1, <1>4

(* Behind others they stay as they are.                                     *)
Joined(r, s, t, m, n) ==
    /\ m \in Nat /\ n \in Nat /\ Len(t) = m + n
    /\ \A i \in 1 .. m : t[i] = r[i]
    /\ \A i \in 1 .. n : t[m + i] = s[i]
    /\ \A i \in 1 .. m + n : i \in 1 .. m \/ \E j \in 1 .. n : i = m + j

LEMMA JoinedIs ==
    ASSUME NEW S, NEW r \in Seq(S), NEW s \in Seq(S)
    PROVE  Joined(r, s, r \o s, Len(r), Len(s))
  <1>0. PICK t, m, n : t = r \o s /\ m = Len(r) /\ n = Len(s)
    OBVIOUS
  <1>1. m \in Nat /\ n \in Nat
    BY <1>0, LenProperties
  <1>2. Len(t) = m + n /\ \A i \in 1 .. m + n : t[i] = IF i <= m THEN r[i] ELSE s[i - m]
    BY <1>0, ConcatProperties
  <1>3. \A i \in 1 .. m : t[i] = r[i]
    BY <1>1, <1>2
  <1>4. ASSUME NEW i \in 1 .. n PROVE t[m + i] = s[i]
    <2>1. m + i \in 1 .. m + n /\ ~(m + i <= m) /\ (m + i) - m = i
      BY <1>1
    <2>2. QED BY <1>2, <2>1
  <1>5. ASSUME NEW i \in 1 .. m + n, i \notin 1 .. m PROVE \E j \in 1 .. n : i = m + j
    <2>1. i - m \in 1 .. n /\ i = m + (i - m)
      BY <1>1, <1>5
    <2>2. QED BY <2>1
  <1>6. QED BY <1>0, <1>1, <1>2, <1>3, <1>4, <1>5 DEF Joined

LEMMA CoversBehind ==
    ASSUME NEW m \in Nat, NEW l \in Nat, NEW s, NEW t, \A i \in 1 .. l : t[m + i] = s[i],
           NEW j \in 1 .. l - 1, Covers(s, j, l)
    PROVE  m + j \in 1 .. (m + l) - 1 /\ Covers(t, m + j, m + l)
  <1>1. j \in 1 .. l /\ l \in 1 .. l /\ m + j \in 1 .. (m + l) - 1
    OBVIOUS
  <1>2. t[m + j] = s[j] /\ t[m + l] = s[l]
    BY <1>1
  <1>3. ASSUME NEW k \in (m + j) + 1 .. m + l PROVE Inside(t[k].box, t[m + j].box)
    <2>1. k - m \in j + 1 .. l /\ k - m \in 1 .. l /\ m + (k - m) = k
      OBVIOUS
    <2>2. t[k] = s[k - m]
      BY <2>1
    <2>3. QED BY <1>2, <2>1, <2>2 DEF Covers
  <1>4. QED BY <1>1, <1>2, <1>3 DEF Covers

LEMMA StackedBoth ==
    ASSUME NEW tree, NEW sub, IsTree(tree, sub), NEW p, p.dir \in DOMAIN tree,
           NEW C, C \subseteq tree[p.dir].dirs, NEW B, NEW most,
           NEW S, NEW r \in Seq(S), Laid(sub, p, C, B, r), Stacked(p, most, r),
           NEW s \in Seq(S), Stacked(p, most, s)
    PROVE  Stacked(p, most, r \o s)
  <1>1. PICK t, m, n : t = r \o s /\ m = Len(r) /\ n = Len(s)
    OBVIOUS
  <1>2. /\ m \in Nat /\ n \in Nat /\ Len(t) = m + n
        /\ \A i \in 1 .. m : t[i] = r[i]
        /\ \A i \in 1 .. n : t[m + i] = s[i]
        /\ \A i \in 1 .. m + n : i \in 1 .. m \/ \E j \in 1 .. n : i = m + j
    <2>1. Joined(r, s, t, m, n)
      BY <1>1, JoinedIs
    <2>2. QED BY <2>1 DEF Joined
  <1>3. 0 < n => s[1].parent = p.dir
    <2>1. 1 .. 1 - 1 = {}
      OBVIOUS
    <2>2. 0 < n => 1 \in 1 .. n
      BY <1>2
    <2>3. QED BY <1>1, <2>1, <2>2 DEF Stacked, Stands, Lies
  <1>4. \A i \in 1 .. m : IsDir(r[i]) => r[i].id # p.dir
    <2>1. \A c \in C : p.dir \notin sub[c]
      BY DEF IsTree
    <2>2. QED BY <1>1, <2>1 DEF Laid, RectOK
  <1>5. ASSUME NEW i \in 1 .. m
        PROVE  Stands(p, most, t, i)
    <2>1. /\ r[i].depth < most
          /\ Lies(p, r[i]) \/ \E j \in 1 .. i - 1 : Covers(r, j, i)
          /\ r[i].kind = "Container" <=> Encloses(r, i)
      BY <1>1 DEF Stacked, Stands
    <2>2. t[i] = r[i] /\ \A k \in 1 .. i : t[0 + k] = r[k]
      BY <1>2
    <2>3. ASSUME NEW j \in 1 .. i - 1, Covers(r, j, i) PROVE Covers(t, j, i)
      <3>1. i \in Nat /\ 0 \in Nat /\ 0 + j = j /\ 0 + i = i
        OBVIOUS
      <3>2. Covers(t, 0 + j, 0 + i)
        BY <2>2, <2>3, <3>1, CoversBehind
      <3>3. QED BY <3>1, <3>2
    <2>4. Encloses(t, i) <=> Encloses(r, i)
      <3>1. CASE i < m
        <4>1. i + 1 \in 1 .. m /\ i < m + n
          BY <1>2, <3>1
        <4>2. QED BY <1>1, <1>2, <2>2, <3>1, <4>1 DEF Encloses
      <3>2. CASE ~(i < m)
        <4>1. i = m
          BY <1>2, <3>2
        <4>2. ~Encloses(r, i)
          BY <1>1, <3>2 DEF Encloses
        <4>3. 0 < n => t[i + 1] = s[1]
          BY <1>2, <4>1
        <4>4. i < m + n <=> 0 < n
          BY <1>2, <4>1
        <4>5. QED BY <1>2, <1>3, <1>4, <2>2, <4>2, <4>3, <4>4 DEF Encloses
      <3>3. QED BY <3>1, <3>2
    <2>5. QED BY <2>1, <2>2, <2>3, <2>4 DEF Stands
  <1>6. ASSUME NEW l \in 1 .. n
        PROVE  Stands(p, most, t, m + l)
    <2>1. /\ s[l].depth < most
          /\ Lies(p, s[l]) \/ \E j \in 1 .. l - 1 : Covers(s, j, l)
          /\ s[l].kind = "Container" <=> Encloses(s, l)
      BY <1>1 DEF Stacked, Stands
    <2>2. t[m + l] = s[l] /\ \A k \in 1 .. l : t[m + k] = s[k]
      BY <1>2
    <2>3. ASSUME NEW j \in 1 .. l - 1, Covers(s, j, l)
          PROVE  \E k \in 1 .. (m + l) - 1 : Covers(t, k, m + l)
      <3>1. l \in Nat
        OBVIOUS
      <3>2. m + j \in 1 .. (m + l) - 1 /\ Covers(t, m + j, m + l)
        BY <1>2, <2>2, <2>3, <3>1, CoversBehind
      <3>3. QED BY <3>2
    <2>4. Encloses(t, m + l) <=> Encloses(s, l)
      <3>1. m + l < m + n <=> l < n
        BY <1>2
      <3>2. l < n => l + 1 \in 1 .. n /\ m + (l + 1) = (m + l) + 1
        BY <1>2
      <3>3. l < n => t[(m + l) + 1] = s[l + 1]
        BY <1>2, <3>2
      <3>4. QED BY <1>1, <1>2, <2>2, <3>1, <3>3 DEF Encloses
    <2>5. QED BY <2>1, <2>2, <2>3, <2>4 DEF Stands
  <1>7. Stacked(p, most, t)
    <2>1. ASSUME NEW i \in 1 .. m + n PROVE Stands(p, most, t, i)
      BY <1>2, <1>5, <1>6
    <2>2. QED BY <1>2, <2>1 DEF Stacked
  <1>8. QED BY <1>1, <1>7

LEMMA DrawnBoth ==
    ASSUME NEW tree, NEW sub, IsTree(tree, sub), NEW most, NEW p, p.dir \in DOMAIN tree,
           NEW C, C \subseteq tree[p.dir].dirs, NEW D, D \subseteq tree[p.dir].dirs, C \cap D = {},
           NEW B, NEW E, \A b \in B, e \in E : Apart(e, b),
           NEW r, DrawnIn(sub, most, p, C, B, r), NEW s, DrawnIn(sub, most, p, D, E, s)
    PROVE  DrawnIn(sub, most, p, C \cup D, B \cup E, r \o s)
  <1>1. /\ Laid(sub, p, C, B, r) /\ Laid(sub, p, D, E, s)
        /\ Stacked(p, most, r) /\ Stacked(p, most, s)
    BY DEF DrawnIn
  <1>2. PICK X, Y : r \in Seq(X) /\ s \in Seq(Y)
    BY <1>1 DEF Laid
  <1>3. r \in Seq(X \cup Y) /\ s \in Seq(X \cup Y)
    BY <1>2, SeqMonotonic
  <1>4. Laid(sub, p, C \cup D, B \cup E, r \o s)
    BY <1>1, LaidBoth
  <1>5. Stacked(p, most, r \o s)
    BY <1>1, <1>3, StackedBoth
  <1>6. QED BY <1>4, <1>5 DEF DrawnIn

LEMMA DrawnMore ==
    ASSUME NEW sub, NEW most, NEW p, NEW C, NEW B, NEW rs, DrawnIn(sub, most, p, C, B, rs),
           NEW D, C \subseteq D, NEW E, B \subseteq E
    PROVE  DrawnIn(sub, most, p, D, E, rs)
  BY LaidMore DEF DrawnIn

LEMMA StackedOpened ==
    ASSUME NEW tree, NEW sub, IsTree(tree, sub), NEW most \in Nat,
           NEW p, NEW r, Lies(p, r), r.kind = "Container", r.depth \in Nat, r.id \in DOMAIN tree,
           NEW q, q.dir = r.id, q.depth = r.depth + 1, q.depth < most,
           q.box = r.box, q.header = HeaderHeight(r.box),
           NEW B, NEW within, within # <<>>, DrawnIn(sub, most, q, tree[r.id].dirs, B, within)
    PROVE  Stacked(p, most, <<r>> \o within)
  <1>1. PICK S : within \in Seq(S) /\ <<r>> \in Seq(S)
    <2>1. PICK X : within \in Seq(X)
      BY DEF DrawnIn, Laid
    <2>2. within \in Seq(X \cup {r}) /\ <<r>> \in Seq(X \cup {r})
      BY <2>1, SeqMonotonic
    <2>3. QED BY <2>2
  <1>2. PICK t, n : t = <<r>> \o within /\ n = Len(within)
    OBVIOUS
  <1>3. /\ n \in Nat /\ Len(t) = 1 + n /\ t[1] = r
        /\ \A i \in 1 .. n : t[1 + i] = within[i]
        /\ \A i \in 1 .. 1 + n : i = 1 \/ \E j \in 1 .. n : i = 1 + j
    <2>1. PICK a : a = <<r>>
      OBVIOUS
    <2>2. Len(a) = 1 /\ a[1] = r /\ a \in Seq(S) /\ \A i \in 1 .. 1 : i = 1
      BY <1>1, <2>1
    <2>3. Joined(a, within, t, 1, n)
      BY <1>1, <1>2, <2>1, <2>2, JoinedIs
    <2>4. QED BY <2>2, <2>3 DEF Joined
  <1>4. n > 0
    BY <1>1, <1>2, <1>3, EmptySeq
  <1>5. \A i \in 1 .. n :
          /\ RectOK(sub, q, tree[r.id].dirs, B, within[i])
          /\ within[i].depth < most
          /\ Lies(q, within[i]) \/ \E j \in 1 .. i - 1 : Covers(within, j, i)
          /\ within[i].kind = "Container" <=> Encloses(within, i)
    BY <1>2 DEF DrawnIn, Laid, Stacked, Stands
  <1>6. within[1].parent = r.id
    <2>1. 1 .. 1 - 1 = {} /\ 1 \in 1 .. n
      BY <1>3, <1>4
    <2>2. QED BY <1>5, <2>1 DEF Lies
  <1>7. /\ t[1].depth < most /\ Lies(p, t[1]) /\ IsDir(t[1])
        /\ Encloses(t, 1)
    <2>1. t[1 + 1] = within[1] /\ 1 < 1 + n
      BY <1>3, <1>4
    <2>2. QED BY <1>3, <1>6, <2>1 DEF Encloses, IsDir
  <1>8. ASSUME NEW l \in 1 .. n PROVE Stands(p, most, t, 1 + l)
    <2>1. t[1 + l] = within[l] /\ \A k \in 1 .. l : t[1 + k] = within[k]
      BY <1>3
    <2>2. ASSUME NEW j \in 1 .. l - 1, Covers(within, j, l)
          PROVE  \E k \in 1 .. (1 + l) - 1 : Covers(t, k, 1 + l)
      <3>1. l \in Nat /\ 1 \in Nat
        OBVIOUS
      <3>2. 1 + j \in 1 .. (1 + l) - 1 /\ Covers(t, 1 + j, 1 + l)
        BY <2>1, <2>2, <3>1, CoversBehind
      <3>3. QED BY <3>2
    <2>3. ASSUME Lies(q, within[l]) PROVE 1 \in 1 .. (1 + l) - 1 /\ Covers(t, 1, 1 + l)
      <3>1. Holds(t[1], t[1 + l])
        <4>1. \A c \in tree[r.id].dirs : r.id \notin sub[c]
          BY DEF IsTree
        <4>2. within[l].parent = r.id /\ within[l].depth = r.depth + 1 /\ Inside(within[l].box, r.box)
          BY <1>5, <2>3, <4>1 DEF RectOK, Lies
        <4>3. QED BY <1>3, <2>1, <4>2 DEF Holds
      <3>2. Inside(t[1 + l].box, Content(t[1].box, HeaderHeight(t[1].box)))
        BY <1>3, <2>1, <2>3 DEF Lies
      <3>3. ASSUME NEW k \in 1 + 1 .. 1 + l PROVE Inside(t[k].box, t[1].box)
        <4>1. k - 1 \in 1 .. n /\ 1 + (k - 1) = k
          BY <1>3
        <4>2. t[k] = within[k - 1] /\ RectOK(sub, q, tree[r.id].dirs, B, within[k - 1])
          BY <1>3, <1>5, <4>1
        <4>3. QED BY <1>3, <4>2 DEF RectOK
      <3>4. QED BY <3>1, <3>2, <3>3 DEF Covers
    <2>4. Encloses(t, 1 + l) <=> Encloses(within, l)
      <3>1. 1 + l < 1 + n <=> l < n
        BY <1>3
      <3>2. l < n => l + 1 \in 1 .. n /\ 1 + (l + 1) = (1 + l) + 1
        BY <1>3
      <3>3. l < n => t[(1 + l) + 1] = within[l + 1]
        BY <1>3, <3>2
      <3>4. QED BY <1>2, <1>3, <2>1, <3>1, <3>3 DEF Encloses
    <2>5. QED BY <1>5, <2>1, <2>2, <2>3, <2>4 DEF Stands
  <1>9. Stacked(p, most, t)
    <2>1. ASSUME NEW i \in 1 .. 1 + n PROVE Stands(p, most, t, i)
      <3>1. CASE i = 1
        BY <1>3, <1>7, <3>1 DEF Stands
      <3>2. QED BY <1>3, <1>8, <3>1
    <2>2. QED BY <1>3, <2>1 DEF Stacked
  <1>10. QED BY <1>2, <1>9

LEMMA HeaderIs ==
    ASSUME NEW b \in Boxes
    PROVE  HeaderHeight(b) \in Nat
  <1>1. PICK a \in Int : a = (15 * b.h) \div (100 * Unit)
    <2>1. 15 * b.h \in Int /\ 100 * Unit \in Nat \ {0}
      BY TreemapAssumption DEF Boxes
    <2>2. QED BY <2>1, Quotient
  <1>2. PICK header \in Int : header = a * Unit
    BY TreemapAssumption
  <1>3. PICK most \in Int : most = IF header > MaxHeader THEN MaxHeader ELSE header
    BY TreemapAssumption
  <1>4. HeaderHeight(b) = IF b.w > HeaderW /\ b.h > HeaderH /\ most >= MinHeader THEN most ELSE 0
    BY <1>1, <1>2, <1>3 DEF HeaderHeight
  <1>5. most >= MinHeader => most \in Nat
    BY TreemapAssumption
  <1>6. QED BY <1>4, <1>5

(* The place in a rect that opens, and what is in it as it should be.       *)
Within(r) == Place(r.id, r.box, HeaderHeight(r.box), r.depth + 1)

LaidWithin(tree, sub, config, p, node) ==
    \A q \in Places(tree) : q.header \in Nat /\ q.depth = p.depth + 1 /\ q.depth < config.depth =>
        DrawnIn(sub, config.depth, q, tree[q.dir].dirs, Boxes, node[q])

LEMMA WithinIs ==
    ASSUME NEW tree, NEW r, r.id \in DOMAIN tree, r.box \in Boxes, r.depth \in Nat
    PROVE  /\ Within(r) \in Places(tree) /\ Within(r).dir = r.id
           /\ Within(r).depth = r.depth + 1 /\ Within(r).box = r.box
           /\ Within(r).header = HeaderHeight(r.box) /\ Within(r).header \in Nat
  BY HeaderIs DEF Within, Place, Places

(* An item, of one of the folder's own folders if any, with a box there.    *)
Fits(tree, p, item, own, b) ==
    /\ item.kind \in {"Dir", "File", "OtherFiles"}
    /\ item.kind = "Dir" => item.id \in tree[p.dir].dirs /\ own = {item.id}
    /\ b \in Boxes /\ Inside(b, p.box) /\ Inside(b, Content(p.box, p.header))

LEMMA DrawnItem ==
    ASSUME NEW tree, NEW sub, IsTree(tree, sub), NEW config, config.depth \in Nat,
           NEW p \in Places(tree), p.depth < config.depth,
           NEW item, NEW C, NEW b, Fits(tree, p, item, C, b),
           NEW node, LaidWithin(tree, sub, config, p, node)
    PROVE  DrawnIn(sub, config.depth, p, C, {b}, DrawnOf(config, RectOf(p, item, b), node))
  <1>1. PICK r : r = RectOf(p, item, b)
    OBVIOUS
  <1>2. /\ p.dir \in DOMAIN tree /\ p.depth \in Nat
        /\ b \in Boxes /\ Inside(b, p.box) /\ Inside(b, Content(p.box, p.header))
        /\ item.kind \in {"Dir", "File", "OtherFiles"}
        /\ item.kind = "Dir" => item.id \in tree[p.dir].dirs /\ C = {item.id}
    BY DEF Places, Fits
  <1>3. r.kind = item.kind /\ r.id = item.id /\ r.box = b /\ OwnRect(p, r) /\ Lies(p, r)
    BY <1>1, <1>2 DEF RectOf, OwnRect, Lies
  <1>4. (IsDir(r) => r.kind = "Dir") /\ r.kind # "Container" /\ r.depth < config.depth
    BY <1>2, <1>3 DEF IsDir, OwnRect
  <1>5. r.kind = "Dir" => r.id \in DOMAIN tree /\ r.id \in sub[r.id] /\ r.id \in C
    BY <1>2, <1>3 DEF IsTree
  <1>6. DrawnIn(sub, config.depth, p, C, {b}, <<r>>)
    <2>1. Laid(sub, p, C, {b}, <<r>>)
      BY <1>3, <1>4, <1>5, LaidAlone
    <2>2. Stacked(p, config.depth, <<r>>)
      BY <1>3, <1>4, StackedAlone
    <2>3. QED BY <2>1, <2>2 DEF DrawnIn
  <1>7. CASE Drawable(r.box) /\ Opens(r, config)
    <2>1. r.kind = "Dir" /\ r.depth + 1 < config.depth
      BY <1>7 DEF Opens
    <2>2. PICK q : q = Within(r)
      OBVIOUS
    <2>3. /\ q \in Places(tree) /\ q.dir = r.id /\ q.depth = r.depth + 1 /\ q.box = r.box
          /\ q.header = HeaderHeight(r.box) /\ q.header \in Nat
      BY <1>3, <1>5, <2>1, <2>2, WithinIs DEF OwnRect
    <2>4. PICK within : within = node[q]
      OBVIOUS
    <2>5. DrawnIn(sub, config.depth, q, tree[r.id].dirs, Boxes, within)
      BY <1>3, <2>1, <2>3, <2>4 DEF LaidWithin, OwnRect
    <2>6. PICK c : c = [r EXCEPT !.kind = "Container"]
      OBVIOUS
    <2>7. /\ c.kind = "Container" /\ c.id = r.id /\ c.box = r.box /\ c.depth = r.depth
          /\ OwnRect(p, c) /\ Lies(p, c)
      BY <1>1, <1>3, <2>6 DEF RectOf, OwnRect, Lies
    <2>8. ASSUME within # <<>> PROVE DrawnIn(sub, config.depth, p, C, {b}, <<c>> \o within)
      <3>1. C = {c.id} /\ c.id \in tree[p.dir].dirs
        BY <1>2, <1>3, <2>1, <2>7
      <3>2. Laid(sub, p, {c.id}, {c.box}, <<c>> \o within)
        BY <1>2, <2>3, <2>5, <2>7, <3>1, LaidOpened DEF Places, DrawnIn
      <3>3. Stacked(p, config.depth, <<c>> \o within)
        <4>1. c.depth \in Nat /\ q.depth < config.depth /\ c.id \in DOMAIN tree
          BY <1>5, <2>1, <2>3, <2>7 DEF OwnRect
        <4>2. DrawnIn(sub, config.depth, q, tree[c.id].dirs, Boxes, within)
          BY <2>5, <2>7
        <4>3. q.dir = c.id /\ q.depth = c.depth + 1 /\ q.box = c.box /\ q.header = HeaderHeight(c.box)
          BY <2>3, <2>7
        <4>4. QED BY <2>7, <2>8, <4>1, <4>2, <4>3, StackedOpened
      <3>4. QED BY <1>3, <2>7, <3>1, <3>2, <3>3 DEF DrawnIn
    <2>9. DrawnOf(config, r, node) = Opened(r, within)
      BY <1>7, <2>2, <2>4 DEF DrawnOf, Within
    <2>10. QED BY <1>1, <1>6, <2>6, <2>8, <2>9 DEF Opened
  <1>8. CASE Drawable(r.box) /\ ~Opens(r, config)
    BY <1>1, <1>6, <1>8 DEF DrawnOf
  <1>9. CASE ~Drawable(r.box)
    BY <1>1, <1>9, StackedNone DEF DrawnOf
  <1>10. QED BY <1>7, <1>8, <1>9

-----------------------------------------------------------------------------
(* What is drawn of the items, one after the other.                         *)
Flattens(seqs, n, f) == f = [i \in 1 .. n |-> IF i = 1 THEN seqs[i] ELSE f[i - 1] \o seqs[i]]

LEMMA FlattensExists == ASSUME NEW seqs, NEW l \in Nat PROVE \E f : Flattens(seqs, l, f)
  <1> DEFINE T == {n \in 0 .. l : \E f : Flattens(seqs, n, f)}
  <1>1. 0 \in T
    <2> DEFINE g == [i \in 1 .. 0 |-> seqs[i]]
    <2>1. g = [i \in 1 .. 0 |-> IF i = 1 THEN seqs[i] ELSE g[i - 1] \o seqs[i]]
      OBVIOUS
    <2> HIDE DEF g
    <2>2. Flattens(seqs, 0, g)
      BY <2>1 DEF Flattens
    <2>3. QED BY <2>2
  <1>2. ASSUME NEW n \in 1 .. l, n - 1 \in T PROVE n \in T
    <2>1. PICK f : Flattens(seqs, n - 1, f)
      BY <1>2
    <2> DEFINE next(h, i) == IF i = 1 THEN seqs[i] ELSE h[i - 1] \o seqs[i]
    <2>2. f = [i \in 1 .. n - 1 |-> next(f, i)]
      BY <2>1 DEF Flattens
    <2> DEFINE g == [i \in 1 .. n |-> next(f, i)]
    <2>3. ASSUME NEW i \in 1 .. n - 1 PROVE g[i] = f[i]
      <3>1. i \in 1 .. n
        OBVIOUS
      <3> HIDE DEF next
      <3>2. g[i] = next(f, i)
        BY <3>1
      <3>3. f[i] = next(f, i)
        BY <2>2
      <3>4. QED BY <3>2, <3>3
    <2>4. g = [i \in 1 .. n |-> next(g, i)]
      <3>1. ASSUME NEW i \in 1 .. n PROVE next(f, i) = next(g, i)
        <4>1. CASE i = 1
          BY <4>1
        <4>2. CASE i # 1
          <5>1. i - 1 \in 1 .. n - 1
            BY <4>2
          <5>2. g[i - 1] = f[i - 1]
            BY <5>1, <2>3
          <5> HIDE DEF g
          <5>3. QED BY <4>2, <5>2
        <4>3. QED BY <4>1, <4>2
      <3> HIDE DEF next
      <3>2. QED BY <3>1, Zenon
    <2> HIDE DEF g
    <2>5. Flattens(seqs, n, g)
      BY <2>4 DEF Flattens
    <2>6. QED BY <2>5
  <1>3. l \in T
    <2> HIDE DEF T
    <2>1. 0 .. l \subseteq T
      BY <1>1, <1>2, Induct
    <2>2. QED BY <2>1
  <1>4. QED BY <1>3

LEMMA FlattenIs ==
    ASSUME NEW seqs, NEW n \in Nat \ {0}, Len(seqs) = n
    PROVE  \E f : /\ FlattenSeq(seqs) = f[n] /\ f[1] = seqs[1]
                  /\ \A i \in 2 .. n : f[i] = f[i - 1] \o seqs[i]
  <1>1. PICK f : f = (CHOOSE g : Flattens(seqs, n, g)) /\ Flattens(seqs, n, f)
    BY FlattensExists
  <1>2. FlattenSeq(seqs) = f[n]
    BY <1>1 DEF FlattenSeq, Flattens
  <1>3. f = [i \in 1 .. n |-> IF i = 1 THEN seqs[i] ELSE f[i - 1] \o seqs[i]]
    BY <1>1 DEF Flattens
  <1>4. f[1] = seqs[1] /\ \A i \in 2 .. n : f[i] = f[i - 1] \o seqs[i]
    <2>1. 1 \in 1 .. n /\ \A i \in 2 .. n : i \in 1 .. n /\ i # 1
      OBVIOUS
    <2>2. QED BY <1>3, <2>1
  <1>5. QED BY <1>2, <1>4

LEMMA DrawnRects ==
    ASSUME NEW tree, NEW sub, IsTree(tree, sub), NEW config, config.depth \in Nat,
           NEW p \in Places(tree), p.depth < config.depth,
           NEW items, ItemsOK(tree[p.dir].dirs, items),
           NEW boxes \in Seq(Boxes), Len(boxes) \in 0 .. Len(items),
           \A i \in 1 .. Len(boxes) : /\ Inside(boxes[i], p.box)
                                      /\ Inside(boxes[i], Content(p.box, p.header))
                                      /\ \A j \in 1 .. i - 1 : Apart(boxes[i], boxes[j]),
           NEW node, LaidWithin(tree, sub, config, p, node)
    PROVE  DrawnIn(sub, config.depth, p, tree[p.dir].dirs, Boxes, RectsOf(config, p, items, boxes, node))
  <1>n. PICK n \in Nat : n = Len(boxes)
    OBVIOUS
  <1>1. PICK seqs : seqs = [k \in 1 .. Len(boxes) |-> DrawnOf(config, RectOf(p, items[k], boxes[k]), node)]
    OBVIOUS
  <1>2. RectsOf(config, p, items, boxes, node) = FlattenSeq(seqs)
    BY <1>1 DEF RectsOf
  <1>3. Len(seqs) = n
    BY <1>n, <1>1
  <1> DEFINE Of(k) == IF items[k].kind = "Dir" THEN {items[k].id} ELSE {}
             C(k) == UNION {Of(i) : i \in 1 .. k}
             B(k) == {boxes[i] : i \in 1 .. k}
  <1>d. p.dir \in DOMAIN tree
    BY DEF Places
  <1>4. ASSUME NEW k \in 1 .. n
        PROVE  /\ DrawnIn(sub, config.depth, p, Of(k), {boxes[k]}, seqs[k])
               /\ Of(k) \subseteq tree[p.dir].dirs /\ boxes[k] \in Boxes
               /\ \A i \in 1 .. k - 1 : Of(i) \cap Of(k) = {} /\ Apart(boxes[k], boxes[i])
    <2>1. k \in 1 .. Len(boxes) /\ k \in 1 .. Len(items)
      BY <1>n DEF ItemsOK
    <2>2. seqs[k] = DrawnOf(config, RectOf(p, items[k], boxes[k]), node)
      BY <1>1, <2>1
    <2>3. /\ items[k].kind \in {"Dir", "File", "OtherFiles"}
          /\ items[k].kind = "Dir" => items[k].id \in tree[p.dir].dirs
      BY <2>1 DEF ItemsOK
    <2>4. boxes[k] \in Boxes /\ Inside(boxes[k], p.box) /\ Inside(boxes[k], Content(p.box, p.header))
      BY <2>1
    <2>5. DrawnIn(sub, config.depth, p, Of(k), {boxes[k]}, seqs[k])
      <3>1. PICK item, own, b : item = items[k] /\ own = Of(k) /\ b = boxes[k]
        OBVIOUS
      <3>2. DrawnIn(sub, config.depth, p, own, {b}, DrawnOf(config, RectOf(p, item, b), node))
        <4>1. Fits(tree, p, item, own, b)
          BY <2>3, <2>4, <3>1 DEF Fits
        <4>2. QED BY <4>1, DrawnItem
      <3>3. QED BY <2>2, <3>1, <3>2
    <2>6. ASSUME NEW i \in 1 .. k - 1 PROVE Of(i) \cap Of(k) = {} /\ Apart(boxes[k], boxes[i])
      <3>1. i \in 1 .. Len(items) /\ i # k
        BY <2>1 DEF ItemsOK
      <3>2. Of(i) \cap Of(k) = {}
        BY <2>1, <3>1 DEF ItemsOK
      <3>3. QED BY <2>1, <3>2
    <2>7. QED BY <2>3, <2>4, <2>5, <2>6
  <1>5. CASE n = 0
    <2>1. FlattenSeq(seqs) = seqs
      BY <1>3, <1>5 DEF FlattenSeq
    <2>2. seqs = <<>>
      BY <1>n, <1>1, <1>5
    <2>3. QED BY <1>2, <2>1, <2>2, StackedNone
  <1>6. CASE n # 0
    <2>1. PICK f : /\ FlattenSeq(seqs) = f[n] /\ f[1] = seqs[1]
                   /\ \A i \in 2 .. n : f[i] = f[i - 1] \o seqs[i]
      <3>1. n \in Nat \ {0}
        BY <1>6
      <3>2. QED BY <1>3, <3>1, FlattenIs, Zenon
    <2> DEFINE T == {k \in 0 .. n : k # 0 => DrawnIn(sub, config.depth, p, C(k), B(k), f[k])}
    <2>2. 0 \in T
      OBVIOUS
    <2>3. ASSUME NEW k \in 1 .. n, k - 1 \in T PROVE k \in T
      <3>1. DrawnIn(sub, config.depth, p, Of(k), {boxes[k]}, seqs[k])
        BY <1>4
      <3>2. CASE k = 1
        <4>1. C(k) = Of(k) /\ B(k) = {boxes[k]}
          <5>1. 1 .. k = {1}
            BY <3>2
          <5>2. QED BY <3>2, <5>1
        <4>2. f[k] = seqs[k]
          BY <2>1, <3>2
        <4> HIDE DEF C, B, Of
        <4>3. DrawnIn(sub, config.depth, p, C(k), B(k), f[k])
          BY <3>1, <4>1, <4>2
        <4>4. QED BY <4>3
      <3>3. CASE k # 1
        <4>1. k \in 2 .. n /\ k - 1 # 0
          BY <3>3
        <4>2. DrawnIn(sub, config.depth, p, C(k - 1), B(k - 1), f[k - 1])
          BY <2>3, <4>1
        <4>3. f[k] = f[k - 1] \o seqs[k]
          BY <2>1, <4>1
        <4>4. \A i : i \in 1 .. k <=> i \in 1 .. k - 1 \/ i = k
          OBVIOUS
        <4>5. \A i \in 1 .. k : i \in 1 .. n
          OBVIOUS
        <4>6. C(k) = C(k - 1) \cup Of(k) /\ B(k) = B(k - 1) \cup {boxes[k]}
          <5> HIDE DEF Of
          <5>1. QED BY <4>4
        <4>7. /\ C(k - 1) \subseteq tree[p.dir].dirs /\ Of(k) \subseteq tree[p.dir].dirs
              /\ C(k - 1) \cap Of(k) = {}
          <5>1. \A i \in 1 .. k - 1 : Of(i) \subseteq tree[p.dir].dirs
            BY <1>4, <4>4, <4>5
          <5>2. \A i \in 1 .. k - 1 : Of(i) \cap Of(k) = {}
            BY <1>4
          <5>3. Of(k) \subseteq tree[p.dir].dirs
            BY <1>4
          <5> HIDE DEF Of
          <5>4. QED BY <5>1, <5>2, <5>3
        <4>8. \A b \in B(k - 1), e \in {boxes[k]} : Apart(e, b)
          BY <1>4
        <4> HIDE DEF C, B, Of
        <4>9. DrawnIn(sub, config.depth, p, C(k - 1) \cup Of(k), B(k - 1) \cup {boxes[k]}, f[k - 1] \o seqs[k])
          BY <1>d, <3>1, <4>2, <4>7, <4>8, DrawnBoth
        <4>10. DrawnIn(sub, config.depth, p, C(k), B(k), f[k])
          BY <4>3, <4>6, <4>9
        <4>11. QED BY <4>10
      <3>4. QED BY <3>2, <3>3
    <2>4. n \in T
      <3> HIDE DEF T
      <3>1. 0 .. n \subseteq T
        BY <2>2, <2>3, Induct
      <3>2. QED BY <3>1
    <2>5. DrawnIn(sub, config.depth, p, C(n), B(n), f[n])
      BY <1>6, <2>4
    <2>6. C(n) \subseteq tree[p.dir].dirs /\ B(n) \subseteq Boxes
      <3>1. \A i \in 1 .. n : Of(i) \subseteq tree[p.dir].dirs /\ boxes[i] \in Boxes
        BY <1>4
      <3> HIDE DEF Of
      <3>2. QED BY <3>1
    <2> HIDE DEF C, B, Of
    <2>7. QED BY <1>2, <2>1, <2>5, <2>6, DrawnMore
  <1>7. QED BY <1>5, <1>6

(* A folder's rects, in its place.                                          *)
ItemsAt(tree, p, least) == Items(tree, p.dir, Content(p.box, p.header), least)
BoxesAt(tree, p, least) ==
    Squarify([i \in 1 .. Len(ItemsAt(tree, p, least)) |-> ItemsAt(tree, p, least)[i].size], Content(p.box, p.header))

LEMMA ShareOut ==
    ASSUME NEW tree, NEW sub, IsTree(tree, sub), NEW least, NEW p \in Places(tree)
    PROVE  /\ ItemsOK(tree[p.dir].dirs, ItemsAt(tree, p, least))
           /\ BoxesAt(tree, p, least) \in Seq(Boxes)
           /\ Len(BoxesAt(tree, p, least)) \in 0 .. Len(ItemsAt(tree, p, least))
           /\ \A i \in 1 .. Len(BoxesAt(tree, p, least)) :
                /\ p.header \in Nat => Inside(BoxesAt(tree, p, least)[i], p.box)
                /\ Inside(BoxesAt(tree, p, least)[i], Content(p.box, p.header))
                /\ \A j \in 1 .. i - 1 : Apart(BoxesAt(tree, p, least)[i], BoxesAt(tree, p, least)[j])
  <1>1. PICK items : items = ItemsAt(tree, p, least)
    OBVIOUS
  <1>2. p.dir \in DOMAIN tree /\ p.box \in Boxes /\ p.header \in Int
    BY DEF Places
  <1>3. ItemsOK(tree[p.dir].dirs, items)
    BY <1>1, <1>2, ItemsIs DEF ItemsAt
  <1>4. PICK sizes : sizes = [i \in 1 .. Len(items) |-> items[i].size]
    OBVIOUS
  <1>5. sizes \in Seq(Positive) /\ Len(sizes) = Len(items)
    <2>1. PICK n \in Nat : n = Len(items)
      BY <1>3 DEF ItemsOK
    <2>2. sizes \in [1 .. n -> Positive]
      BY <1>3, <1>4, <2>1 DEF ItemsOK
    <2>3. sizes \in Seq(Positive)
      <3>1. sizes \in UNION {[1 .. m -> Positive] : m \in Nat}
        BY <2>1, <2>2
      <3>2. QED BY <3>1, SeqDef
    <2>4. DOMAIN sizes = 1 .. n
      BY <2>2
    <2>5. QED BY <2>1, <2>3, <2>4, LenProperties
  <1>6. PICK c : c = Content(p.box, p.header)
    OBVIOUS
  <1>7. c \in Boxes /\ (p.header \in Nat => Inside(c, p.box))
    BY <1>2, <1>6 DEF Content, Box, Boxes, Inside
  <1>8. PICK boxes : boxes = Squarify(sizes, c)
    OBVIOUS
  <1>9. /\ boxes \in Seq(Boxes) /\ Len(boxes) \in 0 .. Len(sizes)
        /\ \A i \in 1 .. Len(boxes) : /\ Inside(boxes[i], c)
                                      /\ \A j \in 1 .. i - 1 : Apart(boxes[i], boxes[j])
    BY <1>5, <1>7, <1>8, SquarifyIs
  <1>10. boxes = BoxesAt(tree, p, least)
    BY <1>1, <1>4, <1>6, <1>8 DEF BoxesAt
  <1>11. \A i \in 1 .. Len(boxes) : p.header \in Nat => Inside(boxes[i], p.box)
    <2>1. TAKE i \in 1 .. Len(boxes)
    <2>2. boxes[i] \in Boxes /\ Inside(boxes[i], c)
      BY <1>9, ElementOfSeq
    <2>3. QED BY <1>2, <1>7, <2>2, InsideOf
  <1>12. QED BY <1>1, <1>3, <1>5, <1>6, <1>9, <1>10, <1>11

LEMMA NodeRectsIs ==
    ASSUME NEW tree, NEW config, NEW p, NEW node
    PROVE  NodeRects(tree, config, p, node) =
             IF Content(p.box, p.header).w < MinContent \/ Content(p.box, p.header).h < MinContent THEN <<>>
             ELSE RectsOf(config, p, ItemsAt(tree, p, config.least), BoxesAt(tree, p, config.least), node)
  BY DEF NodeRects, ItemsAt, BoxesAt

LEMMA DrawnNode ==
    ASSUME NEW tree, NEW sub, IsTree(tree, sub), NEW config, config.depth \in Nat,
           NEW p \in Places(tree), p.header \in Nat, p.depth < config.depth,
           NEW node, LaidWithin(tree, sub, config, p, node)
    PROVE  DrawnIn(sub, config.depth, p, tree[p.dir].dirs, Boxes, NodeRects(tree, config, p, node))
  <1>1. PICK items, boxes : items = ItemsAt(tree, p, config.least) /\ boxes = BoxesAt(tree, p, config.least)
    OBVIOUS
  <1>2. /\ ItemsOK(tree[p.dir].dirs, items)
        /\ boxes \in Seq(Boxes) /\ Len(boxes) \in 0 .. Len(items)
        /\ \A i \in 1 .. Len(boxes) : /\ Inside(boxes[i], p.box)
                                      /\ Inside(boxes[i], Content(p.box, p.header))
                                      /\ \A j \in 1 .. i - 1 : Apart(boxes[i], boxes[j])
    BY <1>1, ShareOut
  <1>3. DrawnIn(sub, config.depth, p, tree[p.dir].dirs, Boxes, RectsOf(config, p, items, boxes, node))
    BY <1>2, DrawnRects
  <1>4. QED BY <1>1, <1>3, StackedNone, NodeRectsIs

-----------------------------------------------------------------------------
(* What is drawn in a place depends on what is in those one level below.    *)
LEMMA SameNode ==
    ASSUME NEW tree, NEW sub, IsTree(tree, sub), NEW config, NEW p \in Places(tree), NEW g, NEW h,
           \A q \in Places(tree) : q.depth = p.depth + 1 /\ q.depth < config.depth => g[q] = h[q]
    PROVE  NodeRects(tree, config, p, g) = NodeRects(tree, config, p, h)
  <1>1. PICK items, boxes : items = ItemsAt(tree, p, config.least) /\ boxes = BoxesAt(tree, p, config.least)
    OBVIOUS
  <1>2. /\ ItemsOK(tree[p.dir].dirs, items)
        /\ boxes \in Seq(Boxes) /\ Len(boxes) \in 0 .. Len(items)
    BY <1>1, ShareOut
  <1>3. p.dir \in DOMAIN tree /\ p.depth \in Nat
    BY DEF Places
  <1>4. ASSUME NEW k \in 1 .. Len(boxes)
        PROVE  DrawnOf(config, RectOf(p, items[k], boxes[k]), g) = DrawnOf(config, RectOf(p, items[k], boxes[k]), h)
    <2>1. PICK r : r = RectOf(p, items[k], boxes[k])
      OBVIOUS
    <2>2. k \in 1 .. Len(items) /\ boxes[k] \in Boxes
      BY <1>2, ElementOfSeq DEF ItemsOK
    <2>3. r.box \in Boxes /\ r.depth = p.depth /\ r.kind = items[k].kind /\ r.id = items[k].id
      BY <2>1, <2>2 DEF RectOf
    <2>4. CASE Drawable(r.box) /\ Opens(r, config)
      <3>1. r.kind = "Dir" /\ r.depth + 1 < config.depth
        BY <2>4 DEF Opens
      <3>2. r.id \in tree[p.dir].dirs
        BY <1>2, <2>2, <2>3, <3>1 DEF ItemsOK
      <3>3. r.id \in DOMAIN tree
        BY <1>3, <3>2 DEF IsTree
      <3>4. Within(r) \in Places(tree) /\ Within(r).depth = r.depth + 1
        BY <1>3, <2>3, <3>3, WithinIs
      <3>5. g[Within(r)] = h[Within(r)]
        BY <2>3, <3>1, <3>4
      <3>6. \A node : DrawnOf(config, r, node) = Opened(r, node[Within(r)])
        BY <2>4 DEF DrawnOf, Within
      <3>7. QED BY <2>1, <3>5, <3>6
    <2>5. CASE ~(Drawable(r.box) /\ Opens(r, config))
      BY <2>1, <2>5 DEF DrawnOf
    <2>6. QED BY <2>4, <2>5
  <1>5. PICK s, t : /\ s = [k \in 1 .. Len(boxes) |-> DrawnOf(config, RectOf(p, items[k], boxes[k]), g)]
                    /\ t = [k \in 1 .. Len(boxes) |-> DrawnOf(config, RectOf(p, items[k], boxes[k]), h)]
    OBVIOUS
  <1>6. s = t
    BY <1>4, <1>5, Zenon
  <1>7. RectsOf(config, p, items, boxes, g) = RectsOf(config, p, items, boxes, h)
    BY <1>5, <1>6 DEF RectsOf
  <1>8. QED BY <1>1, <1>7, NodeRectsIs

(* What is in the places is computed up from the deepest shown.             *)
Drawing(tree, config, h) == [p \in Places(tree) |-> NodeRects(tree, config, p, h)]
IsNode(tree, config, g) == g = Drawing(tree, config, g)

LEMMA NodeExists ==
    ASSUME NEW tree, NEW sub, IsTree(tree, sub), NEW config, config.depth \in Nat
    PROVE  \E g : IsNode(tree, config, g)
  <1>n. PICK n \in Nat : n = config.depth
    OBVIOUS
  <1> DEFINE LaidSoFar(k, h) == \A p \in Places(tree) : p.depth + k >= n => h[p] = NodeRects(tree, config, p, h)
             T == {k \in 0 .. n : \E h : LaidSoFar(k, h)}
  <1>1. \A p \in Places(tree) : p.depth \in Nat
    BY DEF Places
  <1>2. 0 \in T
    <2>1. PICK h : h = Drawing(tree, config, <<>>)
      OBVIOUS
    <2>2. ASSUME NEW p \in Places(tree), p.depth + 0 >= n PROVE h[p] = NodeRects(tree, config, p, h)
      <3>1. h[p] = NodeRects(tree, config, p, <<>>)
        BY <2>1 DEF Drawing
      <3>2. \A q \in Places(tree) : ~(q.depth = p.depth + 1 /\ q.depth < config.depth)
        BY <1>n, <1>1, <2>2
      <3>3. NodeRects(tree, config, p, <<>>) = NodeRects(tree, config, p, h)
        BY <3>2, SameNode
      <3>4. QED BY <3>1, <3>3
    <2>3. QED BY <2>2
  <1>3. ASSUME NEW k \in 1 .. n, k - 1 \in T PROVE k \in T
    <2>1. PICK h : LaidSoFar(k - 1, h)
      BY <1>3
    <2>2. PICK g : g = Drawing(tree, config, h)
      OBVIOUS
    <2>3. ASSUME NEW p \in Places(tree), p.depth + k >= n PROVE g[p] = NodeRects(tree, config, p, g)
      <3>1. ASSUME NEW q \in Places(tree), q.depth = p.depth + 1 PROVE h[q] = g[q]
        <4>1. q.depth + (k - 1) >= n
          BY <1>1, <2>3, <3>1
        <4>2. h[q] = NodeRects(tree, config, q, h)
          BY <2>1, <4>1
        <4>3. QED BY <2>2, <4>2 DEF Drawing
      <3>2. NodeRects(tree, config, p, h) = NodeRects(tree, config, p, g)
        BY <3>1, SameNode
      <3>3. QED BY <2>2, <3>2 DEF Drawing
    <2>4. QED BY <2>3
  <1>4. n \in T
    <2> HIDE DEF T
    <2>1. 0 .. n \subseteq T
      BY <1>2, <1>3, Induct
    <2>2. QED BY <2>1
  <1>5. PICK h : \A p \in Places(tree) : h[p] = NodeRects(tree, config, p, h)
    BY <1>1, <1>4
  <1>6. PICK g : g = Drawing(tree, config, h)
    OBVIOUS
  <1>7. \A p \in Places(tree) : g[p] = h[p]
    BY <1>5, <1>6 DEF Drawing
  <1>8. \A p \in Places(tree) : NodeRects(tree, config, p, h) = NodeRects(tree, config, p, g)
    <2>1. TAKE p \in Places(tree)
    <2>2. QED BY <1>7, SameNode
  <1>9. Drawing(tree, config, h) = Drawing(tree, config, g)
    BY <1>8, Zenon DEF Drawing
  <1>10. QED BY <1>6, <1>9 DEF IsNode

(* A layout is one, of any tree and in any view.                            *)
LEMMA LayoutNodeIs ==
    ASSUME NEW tree, NEW sub, IsTree(tree, sub), NEW config, config.depth \in Nat,
           NEW p \in Places(tree), p.header \in Nat, p.depth < config.depth
    PROVE  DrawnIn(sub, config.depth, p, tree[p.dir].dirs, Boxes, LayoutNode(tree, config)[p])
  <1>1. PICK node : node = (CHOOSE g : IsNode(tree, config, g)) /\ IsNode(tree, config, node)
    BY NodeExists
  <1>2. LayoutNode(tree, config) = node
    BY <1>1 DEF LayoutNode, IsNode, Drawing
  <1>3. \A q \in Places(tree) : node[q] = NodeRects(tree, config, q, node) /\ q.depth \in Nat
    BY <1>1 DEF IsNode, Drawing, Places
  <1>n. PICK n \in Nat : n = config.depth
    OBVIOUS
  <1> DEFINE As(q) == DrawnIn(sub, n, q, tree[q.dir].dirs, Boxes, node[q])
             T == {k \in 0 .. n : \A q \in Places(tree) :
                                    q.header \in Nat /\ q.depth < n /\ q.depth + k >= n => As(q)}
  <1>4. 0 \in T
    BY <1>3
  <1>5. ASSUME NEW k \in 1 .. n, k - 1 \in T PROVE k \in T
    <2>1. ASSUME NEW q \in Places(tree), q.header \in Nat, q.depth < n, q.depth + k >= n PROVE As(q)
      <3>1. ASSUME NEW x \in Places(tree), x.header \in Nat, x.depth = q.depth + 1, x.depth < n PROVE As(x)
        <4>1. x.depth + (k - 1) >= n
          BY <1>3, <2>1, <3>1
        <4>2. QED BY <1>5, <3>1, <4>1
      <3>2. LaidWithin(tree, sub, config, q, node)
        BY <1>n, <3>1 DEF LaidWithin
      <3>3. QED BY <1>3, <1>n, <2>1, <3>2, DrawnNode
    <2> HIDE DEF As
    <2>2. QED BY <2>1
  <1>6. n \in T
    <2> HIDE DEF T
    <2>1. 0 .. n \subseteq T
      BY <1>4, <1>5, Induct
    <2>2. QED BY <2>1
  <1>7. As(p)
    BY <1>3, <1>6, <1>n
  <1>8. QED BY <1>2, <1>7, <1>n

LEMMA LayoutDrawn ==
    ASSUME NEW tree, NEW sub, IsTree(tree, sub), NEW root \in DOMAIN tree, NEW w \in Int, NEW h \in Int,
           NEW config, config.depth \in Nat \ {0},
           NEW p, p = Place(root, Box(0, 0, w, h), 0, 0)
    PROVE  DrawnIn(sub, config.depth, p, tree[root].dirs, Boxes, ComputeLayout(tree, root, w, h, config))
  <1>1. p \in Places(tree) /\ p.header \in Nat /\ p.dir = root /\ p.depth = 0
    BY DEF Place, Places, Box, Boxes
  <1>2. DrawnIn(sub, config.depth, p, tree[root].dirs, Boxes, LayoutNode(tree, config)[p])
    BY <1>1, LayoutNodeIs
  <1>3. QED BY <1>2 DEF ComputeLayout

LEMMA LayoutIs ==
    ASSUME NEW tree, NEW sub, IsTree(tree, sub), NEW root, NEW w \in Int, NEW h \in Int,
           NEW config, config.depth \in Nat \ {0}
    PROVE  LaidOut(root, ComputeLayout(tree, root, w, h, config))
  <1>1. PICK rs : rs = ComputeLayout(tree, root, w, h, config)
    OBVIOUS
  <1>2. CASE root \notin DOMAIN tree
    <2>1. Len(rs) = 0
      BY <1>1, <1>2 DEF ComputeLayout
    <2>2. QED BY <1>1, <2>1 DEF LaidOut
  <1>3. CASE root \in DOMAIN tree
    <2>1. PICK p : p = Place(root, Box(0, 0, w, h), 0, 0)
      OBVIOUS
    <2>2. p.dir = root
      BY <2>1 DEF Place
    <2>3. Laid(sub, p, tree[root].dirs, Boxes, rs)
      BY <1>1, <1>3, <2>1, LayoutDrawn DEF DrawnIn
    <2>4. PICK n \in Nat : n = Len(rs)
      BY <2>3, LenProperties DEF Laid
    <2>5. \A i \in 1 .. n : rs[i].box \in Boxes /\ rs[i].depth \in Nat /\ (IsDir(rs[i]) => rs[i].id # root)
      <3>1. TAKE i \in 1 .. n
      <3>2. RectOK(sub, p, tree[root].dirs, Boxes, rs[i])
        BY <2>3, <2>4 DEF Laid
      <3>3. \A c \in tree[root].dirs : root \notin sub[c]
        BY <1>3 DEF IsTree
      <3>4. QED BY <3>2, <3>3 DEF RectOK
    <2>6. \A i \in 1 .. n : \A j \in 1 .. i - 1 :
              /\ ~(IsDir(rs[i]) /\ IsDir(rs[j]) /\ rs[i].id = rs[j].id)
              /\ rs[i].parent = rs[j].parent => Apart(rs[i].box, rs[j].box)
      BY <2>3, <2>4 DEF Laid
    <2>7. \A i, j \in 1 .. n : IsDir(rs[i]) /\ IsDir(rs[j]) /\ rs[i].id = rs[j].id => i = j
      <3>1. TAKE i, j \in 1 .. n
      <3>2. i = j \/ j \in 1 .. i - 1 \/ i \in 1 .. j - 1
        OBVIOUS
      <3>3. QED BY <2>6, <3>2
    <2>8. \A i \in 1 .. n : rs[i].parent = root \/ \E j \in 1 .. i - 1 : Holds(rs[j], rs[i])
      BY <2>2, <2>3, <2>4 DEF Laid
    <2>9. QED BY <1>1, <2>4, <2>5, <2>6, <2>7, <2>8 DEF LaidOut, Holds
  <1>4. QED BY <1>2, <1>3

(* On each level the rects lie in their container below its header, apart   *)
(* from each other.                                                         *)
SideBySide(view, rs) ==
    \A i \in 1 .. Len(rs) :
        /\ \/ rs[i].parent = view.root /\ Inside(rs[i].box, Box(0, 0, view.w, view.h))
           \/ \E j \in 1 .. i - 1 :
                /\ rs[j].id = rs[i].parent /\ rs[j].kind = "Container"
                /\ Inside(rs[i].box, Content(rs[j].box, HeaderHeight(rs[j].box)))
        /\ \A j \in 1 .. i - 1 : rs[j].parent = rs[i].parent => Apart(rs[i].box, rs[j].box)

LEMMA LayoutNests ==
    ASSUME NEW tree, NEW sub, IsTree(tree, sub), NEW view, view.w \in Int, view.h \in Int,
           view.config.depth \in Nat \ {0},
           NEW rs, rs = ComputeLayout(tree, view.root, view.w, view.h, view.config)
    PROVE  Nested(view, rs) /\ SideBySide(view, rs)
  <1>1. CASE view.root \notin DOMAIN tree
    <2>1. Len(rs) = 0
      BY <1>1 DEF ComputeLayout
    <2>2. QED BY <2>1 DEF Nested, SideBySide
  <1>2. CASE view.root \in DOMAIN tree
    <2>1. PICK p : p = Place(view.root, Box(0, 0, view.w, view.h), 0, 0)
      OBVIOUS
    <2>2. /\ p.dir = view.root /\ p.depth = 0
          /\ Content(p.box, p.header) = Box(0, 0, view.w, view.h)
      BY <2>1 DEF Place, Content, Box
    <2>3. PICK dirs : dirs = tree[view.root].dirs
      OBVIOUS
    <2>4. Laid(sub, p, dirs, Boxes, rs) /\ Stacked(p, view.config.depth, rs)
      <3>1. DrawnIn(sub, view.config.depth, p, dirs, Boxes, rs)
        BY <1>2, <2>1, <2>3, LayoutDrawn
      <3>2. QED BY <3>1 DEF DrawnIn
    <2>5. \A c \in dirs : view.root \notin sub[c]
      BY <1>2, <2>3 DEF IsTree
    <2>6. PICK n : n = Len(rs)
      OBVIOUS
    <2>7. ASSUME NEW i \in 1 .. n
          PROVE  /\ rs[i].depth < view.config.depth
                 /\ Lies(p, rs[i]) \/ \E j \in 1 .. i - 1 : Covers(rs, j, i)
                 /\ rs[i].kind = "Container" <=> Encloses(rs, i)
                 /\ RectOK(sub, p, dirs, Boxes, rs[i])
                 /\ \A j \in 1 .. i - 1 :
                      /\ ~(IsDir(rs[i]) /\ IsDir(rs[j]) /\ rs[i].id = rs[j].id)
                      /\ rs[i].parent = rs[j].parent => Apart(rs[i].box, rs[j].box)
      <3>1. Stands(p, view.config.depth, rs, i)
        BY <2>4, <2>6 DEF Stacked
      <3>2. QED BY <2>4, <2>6, <3>1 DEF Laid, Stands
    <2>8. ASSUME NEW i \in 1 .. n
          PROVE  /\ rs[i].kind = "Container" <=> i < n /\ IsDir(rs[i]) /\ rs[i + 1].parent = rs[i].id
                 /\ \/ rs[i].parent = view.root /\ rs[i].depth = 0
                    \/ \E j \in 1 .. i - 1 :
                         /\ rs[j].id = rs[i].parent /\ rs[j].kind = "Container"
                         /\ rs[i].depth = rs[j].depth + 1
                         /\ \A k \in j + 1 .. i : Inside(rs[k].box, rs[j].box)
                 /\ rs[i].depth < view.config.depth
                 /\ IsDir(rs[i]) =>
                      /\ rs[i].id # view.root
                      /\ \A j \in 1 .. i - 1 : ~(IsDir(rs[j]) /\ rs[j].id = rs[i].id)
      <3>1. Lies(p, rs[i]) => rs[i].parent = view.root /\ rs[i].depth = 0
        BY <2>2, <2>5, <2>7 DEF RectOK, Lies
      <3>2. ASSUME NEW j \in 1 .. i - 1, Covers(rs, j, i)
            PROVE  /\ rs[j].id = rs[i].parent /\ rs[j].kind = "Container"
                   /\ rs[i].depth = rs[j].depth + 1
                   /\ \A k \in j + 1 .. i : Inside(rs[k].box, rs[j].box)
        BY <3>2 DEF Covers, Holds
      <3>3. rs[i].kind = "Container" <=> i < n /\ IsDir(rs[i]) /\ rs[i + 1].parent = rs[i].id
        BY <2>6, <2>7 DEF Encloses
      <3>4. IsDir(rs[i]) => /\ rs[i].id # view.root
                            /\ \A j \in 1 .. i - 1 : ~(IsDir(rs[j]) /\ rs[j].id = rs[i].id)
        BY <2>5, <2>7 DEF RectOK
      <3>5. QED BY <2>7, <3>1, <3>2, <3>3, <3>4
    <2>9. Nested(view, rs)
      BY <2>6, <2>8 DEF Nested
    <2>10. ASSUME NEW i \in 1 .. n
           PROVE  /\ \/ rs[i].parent = view.root /\ Inside(rs[i].box, Box(0, 0, view.w, view.h))
                     \/ \E j \in 1 .. i - 1 :
                          /\ rs[j].id = rs[i].parent /\ rs[j].kind = "Container"
                          /\ Inside(rs[i].box, Content(rs[j].box, HeaderHeight(rs[j].box)))
                  /\ \A j \in 1 .. i - 1 : rs[j].parent = rs[i].parent => Apart(rs[i].box, rs[j].box)
      <3>1. Lies(p, rs[i]) => rs[i].parent = view.root /\ Inside(rs[i].box, Box(0, 0, view.w, view.h))
        BY <2>2 DEF Lies
      <3>2. ASSUME NEW j \in 1 .. i - 1, Covers(rs, j, i)
            PROVE  /\ rs[j].id = rs[i].parent /\ rs[j].kind = "Container"
                   /\ Inside(rs[i].box, Content(rs[j].box, HeaderHeight(rs[j].box)))
        BY <3>2 DEF Covers, Holds
      <3>3. \A j \in 1 .. i - 1 : rs[j].parent = rs[i].parent => Apart(rs[i].box, rs[j].box)
        BY <2>7
      <3>4. QED BY <2>7, <3>1, <3>2, <3>3
    <2>11. SideBySide(view, rs)
      BY <2>6, <2>10 DEF SideBySide
    <2>12. QED BY <2>9, <2>11
  <1>3. QED BY <1>1, <1>2

-----------------------------------------------------------------------------
(* What a folder is sent with: finitely many files, none of them empty.     *)
Accumulates(acc) ==
    /\ acc = [dirs |-> acc.dirs, links |-> acc.links, jobs |-> acc.jobs, files |-> acc.files,
              troubled |-> acc.troubled]
    /\ FilesKept(acc.files)

LEMMA AccumulatesOne ==
    ASSUME NEW job, NEW x, NEW t, EntryOK(t, x, job), NEW acc, Accumulates(acc), NEW name
    PROVE  Accumulates(Sink(acc, t, name))
  <1>1. PICK next : next = Sink(acc, t, name)
    OBVIOUS
  <1>2. acc = [dirs |-> acc.dirs, links |-> acc.links, jobs |-> acc.jobs, files |-> acc.files,
               troubled |-> acc.troubled]
    BY DEF Accumulates
  <1>3. CASE LeavesOut(t, x)
    BY <1>3 DEF LeavesOut, Sink, Nothing
  <1>4. CASE Fails(t, x)
    <2>1. PICK error : t = Failed(error)
      BY <1>4 DEF Fails
    <2>2. t.take = "failed" /\ t.error = error
      BY <2>1 DEF Failed
    <2>3. PICK b : b = (acc.troubled \/ ~Quiet(error))
      OBVIOUS
    <2>4. next = [acc EXCEPT !.troubled = b]
      BY <1>1, <2>2, <2>3 DEF Sink
    <2>5. next = [dirs |-> acc.dirs, links |-> acc.links, jobs |-> acc.jobs, files |-> acc.files, troubled |-> b]
      BY <1>2, <2>4
    <2>6. QED BY <1>1, <2>5 DEF Accumulates
  <1>5. CASE TakesFile(t, x)
    <2>1. PICK size, link : t = File(x.e.leads, size, link) /\ size \in Nat
      BY <1>5 DEF TakesFile
    <2>2. PICK f : f = [name |-> name, size |-> size, node |-> x.e.leads]
      OBVIOUS
    <2>3. PICK a, b : /\ a = (IF link = NoLink THEN acc.links ELSE acc.links \cup {link})
                      /\ b = (IF link \in acc.links \/ size = 0 THEN acc.files ELSE acc.files \cup {f})
      OBVIOUS
    <2>4. next = [acc EXCEPT !.links = a, !.files = b]
      BY <1>1, <2>1, <2>2, <2>3 DEF Sink, File
    <2>5. next = [dirs |-> acc.dirs, links |-> a, jobs |-> acc.jobs, files |-> b, troubled |-> acc.troubled]
      BY <1>2, <2>4
    <2>6. FilesKept(b)
      <3>1. IsFiniteSet(acc.files) /\ IsFiniteSet(acc.files \cup {f})
        BY FS_AddElement DEF Accumulates, FilesKept
      <3>2. size # 0 => f.size \in Positive
        BY <2>1, <2>2 DEF Positive
      <3>3. QED BY <2>3, <3>1, <3>2 DEF Accumulates, FilesKept
    <2>7. QED BY <1>1, <2>5, <2>6 DEF Accumulates
  <1>6. CASE TakesDir(t, x, job)
    <2>1. PICK j : t = Subfolder(j)
      BY <1>6 DEF TakesDir
    <2>2. PICK a, b : /\ a = acc.dirs \cup {j.id}
                      /\ b = (IF j.id \in acc.dirs THEN acc.jobs ELSE acc.jobs \cup {j})
      OBVIOUS
    <2>3. next = [acc EXCEPT !.dirs = a, !.jobs = b]
      BY <1>1, <2>1, <2>2 DEF Sink, Subfolder
    <2>4. next = [dirs |-> a, links |-> acc.links, jobs |-> b, files |-> acc.files, troubled |-> acc.troubled]
      BY <1>2, <2>3
    <2>5. QED BY <1>1, <2>4 DEF Accumulates
  <1>7. QED BY <1>3, <1>4, <1>5, <1>6 DEF EntryOK

LEMMA FilesRead ==
    ASSUME world \in Worlds, NEW job, JobOK(job)
    PROVE  FilesKept(ReadEntries(job).files)
  <1>1. PICK l \in Nat : l = Len(Listed(job))
    BY NodeTyped DEF Listed, JobOK
  <1>2. PICK f : f = (CHOOSE g : Reads(job, l, g)) /\ Reads(job, l, f)
    BY ReadExists
  <1>3. ReadEntries(job) = f[l]
    BY <1>1, <1>2, ReadEntriesIs
  <1>4. f[0] = Begun /\ \A k \in 1 .. l : f[k] = Sink(f[k - 1], Entry(job, Listed(job)[k]), Listed(job)[k].name)
    <2> DEFINE next(k) == Sink(f[k - 1], Entry(job, Listed(job)[k]), Listed(job)[k].name)
    <2>1. f = [k \in 0 .. l |-> IF k = 0 THEN Begun ELSE next(k)]
      BY <1>2 DEF Reads
    <2> HIDE DEF next
    <2>2. f[0] = Begun /\ \A k \in 1 .. l : f[k] = next(k)
      BY <2>1
    <2>3. QED BY <2>2 DEF next
  <1> DEFINE T == {k \in 0 .. l : Accumulates(f[k])}
  <1>5. 0 \in T
    <2>1. FilesKept({})
      BY FS_EmptySet DEF FilesKept
    <2>2. Accumulates(Begun)
      BY <2>1 DEF Accumulates, Begun
    <2>3. QED BY <1>4, <2>2
  <1>6. ASSUME NEW k \in 1 .. l, k - 1 \in T PROVE k \in T
    <2>1. Accumulates(f[k - 1])
      BY <1>6
    <2>2. EntryOK(Entry(job, Listed(job)[k]), WayAt(job, k), job)
      BY <1>1, WayAtIs
    <2>3. Accumulates(f[k])
      BY <1>4, <2>1, <2>2, AccumulatesOne
    <2>4. QED BY <2>3
  <1>7. l \in T
    <2> HIDE DEF T
    <2>1. 0 .. l \subseteq T
      BY <1>5, <1>6, Induct
    <2>2. QED BY <2>1
  <1>8. QED BY <1>3, <1>7 DEF Accumulates

-----------------------------------------------------------------------------
(* The tree of what has been sent, and with one folder more: it is in all   *)
(* that its parent is in, and nothing is in it yet.                         *)
EachItsOwn(S) == \A d, c \in S : d # c => d.id # c.id
FilesIn(d) == {[name |-> f.name, size |-> f.size] : f \in d.files}
Children(S, d) == {c.id : c \in {x \in S : x.parent = d.id}}

LEMMA FilesInKept ==
    ASSUME NEW d, FilesKept(d.files)
    PROVE  FilesKept(FilesIn(d))
  <1>1. PICK f : f = [x \in d.files |-> [name |-> x.name, size |-> x.size]]
    OBVIOUS
  <1>2. FilesIn(d) = {f[x] : x \in d.files}
    BY <1>1 DEF FilesIn
  <1>3. IsFiniteSet(FilesIn(d))
    <2>1. PICK S : S = d.files /\ IsFiniteSet(S)
      BY DEF FilesKept
    <2>2. DOMAIN f = S /\ f = [x \in S |-> f[x]]
      BY <1>1, <2>1
    <2>3. IsFiniteSet({f[x] : x \in S})
      BY <2>1, <2>2, FiniteRange
    <2>4. QED BY <1>2, <2>1, <2>3
  <1>4. \A x \in FilesIn(d) : x.size \in Positive
    BY DEF FilesIn, FilesKept
  <1>5. QED BY <1>3, <1>4 DEF FilesKept

LEMMA TreeOfIs ==
    ASSUME NEW S, EachItsOwn(S)
    PROVE  /\ DOMAIN TreeOf(S) = {d.id : d \in S}
           /\ \A d \in S : TreeOf(S)[d.id].files = FilesIn(d) /\ TreeOf(S)[d.id].dirs = Children(S, d)
  <1> DEFINE of(id) == CHOOSE x \in S : x.id = id
             at(d) == [files |-> FilesIn(d), dirs |-> Children(S, d)]
  <1>1. TreeOf(S) = [id \in {d.id : d \in S} |-> at(of(id))]
    BY DEF TreeOf, FilesIn, Children
  <1>2. \A d \in S : of(d.id) = d
    BY DEF EachItsOwn
  <1> HIDE DEF of
  <1>3. \A d \in S : TreeOf(S)[d.id] = at(d)
    BY <1>1, <1>2
  <1>4. DOMAIN TreeOf(S) = {d.id : d \in S}
    BY <1>1
  <1>5. ASSUME NEW d \in S
        PROVE  TreeOf(S)[d.id].files = FilesIn(d) /\ TreeOf(S)[d.id].dirs = Children(S, d)
    <2>1. PICK node, files, dirs : node = TreeOf(S)[d.id] /\ files = FilesIn(d) /\ dirs = Children(S, d)
      OBVIOUS
    <2>2. node = [files |-> files, dirs |-> dirs]
      BY <1>3, <2>1
    <2>3. node.files = files /\ node.dirs = dirs
      BY <2>2
    <2>4. QED BY <2>1, <2>3
  <1>6. QED BY <1>4, <1>5

LEMMA TreeGrows ==
    ASSUME NEW S, NEW new, new \notin S, EachItsOwn(S \cup {new}), FilesKept(new.files),
           new.parent # new.id, \A d \in S : d.parent # new.id,
           NEW sub, IsTree(TreeOf(S), sub)
    PROVE  \E s : IsTree(TreeOf(S \cup {new}), s)
  <1>1. PICK t, u, n : t = TreeOf(S) /\ u = TreeOf(S \cup {new}) /\ n = new.id
    OBVIOUS
  <1>2. EachItsOwn(S)
    BY DEF EachItsOwn
  <1>3. /\ DOMAIN t = {d.id : d \in S}
        /\ \A d \in S : t[d.id].files = FilesIn(d) /\ t[d.id].dirs = Children(S, d)
    BY <1>1, <1>2, TreeOfIs
  <1>4. /\ DOMAIN u = {d.id : d \in S \cup {new}}
        /\ \A d \in S \cup {new} : u[d.id].files = FilesIn(d) /\ u[d.id].dirs = Children(S \cup {new}, d)
    BY <1>1, TreeOfIs
  <1>5. DOMAIN u = DOMAIN t \cup {n} /\ n \notin DOMAIN t
    <2>1. \A d \in S : d.id # n
      BY <1>1 DEF EachItsOwn
    <2>2. QED BY <1>1, <1>3, <1>4, <2>1
  <1>6. FilesKept(u[n].files) /\ u[n].dirs = {}
    <2>1. Children(S \cup {new}, new) = {}
      BY DEF Children
    <2>2. QED BY <1>1, <1>4, <2>1, FilesInKept
  <1>7. ASSUME NEW d \in S
        PROVE  /\ u[d.id].files = t[d.id].files
               /\ u[d.id].dirs = t[d.id].dirs \cup (IF new.parent = d.id THEN {n} ELSE {})
    <2>1. Children(S \cup {new}, d) = Children(S, d) \cup (IF new.parent = d.id THEN {n} ELSE {})
      BY <1>1 DEF Children
    <2>2. QED BY <1>3, <1>4, <2>1
  <1> DEFINE Holding(x) == \E p \in S : p.id = new.parent /\ p.id \in sub[x]
             with(x) == IF x = n THEN {n} ELSE IF Holding(x) THEN sub[x] \cup {n} ELSE sub[x]
  <1>8. PICK s : s = [x \in DOMAIN u |-> with(x)]
    OBVIOUS
  <1>9. s[n] = {n} /\ \A x \in DOMAIN t : s[x] = IF Holding(x) THEN sub[x] \cup {n} ELSE sub[x]
    <2> HIDE DEF Holding
    <2>1. QED BY <1>5, <1>8
  <1>10. /\ IsFiniteSet(DOMAIN t)
         /\ \A d \in DOMAIN t :
              /\ FilesKept(t[d].files)
              /\ d \in sub[d] /\ sub[d] \subseteq DOMAIN t
              /\ t[d].dirs \subseteq DOMAIN t
              /\ \A c \in t[d].dirs :
                   /\ sub[c] \subseteq sub[d] /\ d \notin sub[c]
                   /\ \A e \in t[d].dirs : e # c => sub[c] \cap sub[e] = {}
    BY <1>1 DEF IsTree
  <1>11. IsFiniteSet(DOMAIN u)
    BY <1>5, <1>10, FS_AddElement
  <1>12. ASSUME NEW d \in S, NEW x, x = d.id
         PROVE  /\ FilesKept(u[x].files)
                /\ x \in s[x] /\ s[x] \subseteq DOMAIN u
                /\ u[x].dirs \subseteq DOMAIN u
                /\ \A c \in u[x].dirs :
                     /\ s[c] \subseteq s[x] /\ x \notin s[c]
                     /\ \A e \in u[x].dirs : e # c => s[c] \cap s[e] = {}
    <2>1. x \in DOMAIN t /\ x # n
      BY <1>3, <1>5, <1>12
    <2>2. x \in sub[x] /\ sub[x] \subseteq DOMAIN t /\ t[x].dirs \subseteq DOMAIN t
      BY <1>10, <2>1
    <2>3. \A p \in S : p.id = d.id => p = d
      BY <1>2 DEF EachItsOwn
    <2>4. ASSUME NEW c \in t[x].dirs
          PROVE  /\ c \in DOMAIN t /\ s[c] \subseteq s[x] /\ x \notin s[c]
                 /\ new.parent = d.id => n \notin s[c]
      <3>1. c \in DOMAIN t /\ sub[c] \subseteq sub[x] /\ x \notin sub[c] /\ n \notin sub[c]
        BY <1>5, <1>10, <2>1, <2>2
      <3>2. Holding(c) => Holding(x)
        BY <3>1
      <3>3. new.parent = d.id => ~Holding(c)
        BY <1>12, <2>3, <3>1
      <3> HIDE DEF Holding
      <3>4. QED BY <1>9, <2>1, <3>1, <3>2, <3>3
    <2>5. ASSUME NEW c \in t[x].dirs, NEW e \in t[x].dirs, e # c PROVE s[c] \cap s[e] = {}
      <3>1. /\ c \in DOMAIN t /\ e \in DOMAIN t /\ sub[c] \cap sub[e] = {}
            /\ n \notin sub[c] /\ n \notin sub[e]
        BY <1>5, <1>10, <2>1, <2>2, <2>5
      <3>2. ~(Holding(c) /\ Holding(e))
        BY <1>2, <3>1 DEF EachItsOwn
      <3> HIDE DEF Holding
      <3>3. QED BY <1>9, <3>1, <3>2
    <2>6. new.parent = d.id => s[n] \subseteq s[x] /\ x \notin s[n]
      <3>1. new.parent = d.id => Holding(x)
        BY <1>12, <2>2
      <3> HIDE DEF Holding
      <3>2. QED BY <1>9, <2>1, <3>1
    <2>7. x \in s[x] /\ s[x] \subseteq DOMAIN u
      <3> HIDE DEF Holding
      <3>1. QED BY <1>5, <1>9, <2>1, <2>2
    <2>8. FilesKept(u[x].files) /\ u[x].dirs = t[x].dirs \cup (IF new.parent = d.id THEN {n} ELSE {})
      BY <1>7, <1>10, <1>12, <2>1
    <2>9. \A c \in u[x].dirs : s[c] \subseteq s[x] /\ x \notin s[c]
      BY <2>4, <2>6, <2>8
    <2>10. ASSUME NEW c \in u[x].dirs, NEW e \in u[x].dirs, e # c PROVE s[c] \cap s[e] = {}
      <3>1. CASE c \in t[x].dirs /\ e \in t[x].dirs
        BY <2>5, <2>10, <3>1
      <3>2. CASE c \notin t[x].dirs
        <4>1. c = n /\ new.parent = d.id /\ e \in t[x].dirs
          BY <2>8, <2>10, <3>2
        <4>2. QED BY <1>9, <2>4, <4>1
      <3>3. CASE e \notin t[x].dirs
        <4>1. e = n /\ new.parent = d.id /\ c \in t[x].dirs
          BY <2>8, <2>10, <3>3
        <4>2. QED BY <1>9, <2>4, <4>1
      <3>4. QED BY <3>1, <3>2, <3>3
    <2>11. u[x].dirs \subseteq DOMAIN u
      BY <1>5, <2>2, <2>8
    <2>12. QED BY <2>7, <2>8, <2>9, <2>10, <2>11
  <1>13. ASSUME NEW x \in DOMAIN u
         PROVE  /\ FilesKept(u[x].files)
                /\ x \in s[x] /\ s[x] \subseteq DOMAIN u
                /\ u[x].dirs \subseteq DOMAIN u
                /\ \A c \in u[x].dirs :
                     /\ s[c] \subseteq s[x] /\ x \notin s[c]
                     /\ \A e \in u[x].dirs : e # c => s[c] \cap s[e] = {}
    <2>1. CASE x = n
      BY <1>5, <1>6, <1>9, <2>1
    <2>2. CASE x # n
      <3>1. PICK d \in S : x = d.id
        BY <1>3, <1>5, <2>2
      <3>2. QED BY <3>1, <1>12
    <2>3. QED BY <2>1, <2>2
  <1>14. IsTree(u, s)
    BY <1>11, <1>13 DEF IsTree
  <1>15. QED BY <1>1, <1>14

-----------------------------------------------------------------------------
(* What has been sent is a tree: no folder is sent before its parent.       *)
TreeInv == \E sub : IsTree(TreeOf(sent), sub)

LEMMA NoFolders == \E sub : IsTree(TreeOf({}), sub)
  <1>1. EachItsOwn({})
    BY DEF EachItsOwn
  <1>2. DOMAIN TreeOf({}) = {}
    <2>1. DOMAIN TreeOf({}) = {d.id : d \in {}}
      BY <1>1, TreeOfIs, Zenon
    <2>2. QED BY <2>1
  <1>3. IsTree(TreeOf({}), <<>>)
    BY <1>2, FS_EmptySet DEF IsTree
  <1>4. QED BY <1>3

LEMMA TreeInvInit == WalkInit => TreeInv
  <1> SUFFICES ASSUME WalkInit PROVE TreeInv
    OBVIOUS
  <1>1. sent = {}
    BY DEF WalkInit
  <1>2. QED BY <1>1, NoFolders DEF TreeInv

LEMMA TreeBegins == WalkInit' => TreeInv'
  BY TreeInvInit, PTL

LEMMA TreeInvReads ==
    ASSUME WalkInv, TreeInv, NEW job \in queue, ReadDir(job)
    PROVE  TreeInv'
  <1>1. PICK r : r = ReadEntries(job)
    OBVIOUS
  <1>2. PICK new : new = [id |-> job.id, parent |-> job.parent, node |-> job.node, files |-> r.files]
    OBVIOUS
  <1>3. sent' = sent \cup {new}
    BY <1>1, <1>2 DEF ReadDir
  <1>4. new.id = job.id /\ new.parent = job.parent /\ new.files = r.files
    BY <1>2
  <1>5. JobOK(job) /\ KnownOK(job) /\ world \in Worlds
    BY ReadIs
  <1>6. \A d \in sent : new.id # d.id
    BY <1>4 DEF WalkInv, DirsOK, ApartDirs
  <1>7. EachItsOwn(sent \cup {new}) /\ new \notin sent
    <2>1. \A d, c \in sent : d # c => d.id # c.id
      BY DEF WalkInv, DirsOK, ApartDirs
    <2>2. QED BY <1>6, <2>1 DEF EachItsOwn
  <1>8. FilesKept(new.files)
    BY <1>1, <1>4, <1>5, FilesRead
  <1>9. new.id # <<>>
    BY <1>4, <1>5, NamesSomething DEF JobOK, Told
  <1>10. /\ \A d \in sent : d.parent # new.id
         /\ new.parent # new.id
    <2>1. \A d \in sent : d.parent = <<>> \/ \E c \in sent : c.id = d.parent
      BY DEF WalkInv, DirsOK, KnownOK
    <2>2. new.parent = <<>> \/ \E c \in sent : c.id = new.parent
      BY <1>4, <1>5 DEF KnownOK
    <2>3. QED BY <1>6, <1>9, <2>1, <2>2
  <1>11. PICK sub : IsTree(TreeOf(sent), sub)
    BY DEF TreeInv
  <1>12. \E s : IsTree(TreeOf(sent \cup {new}), s)
    BY <1>7, <1>8, <1>10, <1>11, TreeGrows
  <1>13. QED BY <1>3, <1>12 DEF TreeInv

LEMMA TreeInvStep == WalkInv /\ TreeInv /\ [WalkNext]_walkVars => TreeInv'
  <1> SUFFICES ASSUME WalkInv, TreeInv, [WalkNext]_walkVars PROVE TreeInv'
    OBVIOUS
  <1>1. CASE UNCHANGED walkVars
    BY <1>1 DEF TreeInv, walkVars
  <1>2. ASSUME NEW job \in queue, OpenFails(job) PROVE TreeInv'
    <2>1. sent' = sent
      BY <1>2 DEF OpenFails
    <2>2. QED BY <2>1 DEF TreeInv
  <1>3. ASSUME NEW job \in queue, ReadDir(job) PROVE TreeInv'
    BY <1>3, TreeInvReads
  <1>4. QED BY <1>1, <1>2, <1>3 DEF WalkNext

-----------------------------------------------------------------------------
(* A page's view of it.                                                     *)
ViewOK ==
    \E root, least : \E w, h \in Int, depth \in Nat \ {0} : wanted = View(root, w, h, depth, least)

LEMMA ViewShaped == ASSUME NEW root, NEW w \in Int, NEW h \in Int, NEW depth \in Nat \ {0}, NEW least
                    PROVE  /\ View(root, w, h, depth, least).w = w /\ View(root, w, h, depth, least).h = h
                           /\ View(root, w, h, depth, least).root = root
                           /\ View(root, w, h, depth, least).config.depth = depth
  BY DEF View

LEMMA ViewsOK ==
    ASSUME NEW w, NEW v \in Views(w)
    PROVE  \E root, least : \E x, y \in Int, depth \in Nat \ {0} : v = View(root, x, y, depth, least)
  <1>1. PICK n, s, d, l : v = View(n, s[1], s[2], d, l) /\ s \in Sides /\ d \in 1 .. 3
    BY DEF Views
  <1>2. s[1] \in Int /\ s[2] \in Int /\ d \in Nat \ {0}
    BY <1>1 DEF Sides
  <1>3. QED BY <1>1, <1>2

LEMMA ViewKept ==
    ASSUME ViewOK, [Next]_vars
    PROVE  ViewOK'
  <1>1. PICK root, least : \E w, h \in Int, depth \in Nat \ {0} : wanted = View(root, w, h, depth, least)
    BY DEF ViewOK
  <1>2. PICK w, h \in Int, depth \in Nat \ {0} : wanted = View(root, w, h, depth, least)
    BY <1>1
  <1>3. wanted = [root |-> root, w |-> w, h |-> h, config |-> [depth |-> depth, least |-> least]]
    BY <1>2 DEF View
  <1>4. CASE UNCHANGED wanted
    BY <1>4 DEF ViewOK
  <1>5. CASE Lists \/ CommandLine \/ Scans \/ Layouts \/ Points \/ Draws \/ UNCHANGED vars
    BY <1>4, <1>5 DEF Lists, CommandLine, Scans, Layouts, Points, Draws, vars
  <1>6. ASSUME NEW x, Pick(x) PROVE ViewOK'
    <2>1. wanted' = View(Start(x).id, 64, 32, 3, 0)
      BY <1>6 DEF Pick, FirstView
    <2>2. QED BY <2>1 DEF ViewOK
  <1>7. CASE Surveys
    <2>1. PICK v \in Views(world) : wanted' = v
      BY <1>7 DEF Surveys
    <2>2. QED BY <2>1, ViewsOK DEF ViewOK
  <1>8. ASSUME NEW id, wanted' = [wanted EXCEPT !.root = id] PROVE ViewOK'
    <2>1. wanted' = View(id, w, h, depth, least)
      BY <1>3, <1>8 DEF View
    <2>2. QED BY <2>1 DEF ViewOK
  <1>9. CASE Navigates
    <2>1. PICK id : wanted' = [wanted EXCEPT !.root = id]
      BY <1>9 DEF Navigates
    <2>2. QED BY <2>1, <1>8
  <1>10. CASE Rescans
    <2>1. wanted' = [wanted EXCEPT !.root = Start(world).id]
      BY <1>10 DEF Rescans
    <2>2. QED BY <2>1, <1>8
  <1>11. CASE Filters
    <2>1. PICK l : l = 2 - least
      OBVIOUS
    <2>2. wanted' = [wanted EXCEPT !.config.least = 2 - @]
      BY <1>11 DEF Filters
    <2>3. wanted' = [root |-> root, w |-> w, h |-> h, config |-> [depth |-> depth, least |-> l]]
      BY <1>3, <2>1, <2>2
    <2>4. wanted' = View(root, w, h, depth, l)
      BY <2>3 DEF View
    <2>5. QED BY <2>4 DEF ViewOK
  <1>12. CASE Resizes
    <2>1. wanted' = [wanted EXCEPT !.w = wanted.h, !.h = wanted.w] /\ wanted.h = h /\ wanted.w = w
      BY <1>3, <1>12 DEF Resizes
    <2>2. PICK config : config = [depth |-> depth, least |-> least]
      OBVIOUS
    <2>3. PICK a : a = [root |-> root, w |-> w, h |-> h, config |-> config]
      OBVIOUS
    <2>4. [a EXCEPT !.w = h, !.h = w] = [root |-> root, w |-> h, h |-> w, config |-> config]
      <3>1. PICK b : b = [a EXCEPT !.w = h]
        OBVIOUS
      <3>2. b = [root |-> root, w |-> h, h |-> h, config |-> config]
        BY <2>3, <3>1
      <3>3. [b EXCEPT !.h = w] = [root |-> root, w |-> h, h |-> w, config |-> config]
        BY <3>2
      <3>4. QED BY <3>1, <3>3
    <2>5. wanted = a /\ wanted' = [a EXCEPT !.w = h, !.h = w]
      BY <1>3, <2>1, <2>2, <2>3
    <2>6. wanted' = View(root, h, w, depth, least)
      BY <2>2, <2>4, <2>5 DEF View
    <2>7. QED BY <2>6 DEF ViewOK
  <1>13. QED BY <1>5, <1>6, <1>7, <1>9, <1>10, <1>11, <1>12 DEF Next

-----------------------------------------------------------------------------
(* What is on the page is a layout of the tree as it was sent then.         *)
LayoutInv == \E root : LaidOut(root, rects)

LEMMA NothingLaidOut == \A root : LaidOut(root, <<>>)
  <1>1. PICK s : s = <<>>
    OBVIOUS
  <1>2. Len(s) = 0
    BY <1>1
  <1>3. \A root : LaidOut(root, s)
    BY <1>2 DEF LaidOut
  <1>4. QED BY <1>1, <1>3

LEMMA LayoutAnswers ==
    ASSUME TreeInv, NEW root, NEW w \in Int, NEW h \in Int, NEW depth \in Nat \ {0}, NEW least,
           Answers(View(root, w, h, depth, least))
    PROVE  LayoutInv'
  <1>1. PICK v : v = View(root, w, h, depth, least)
    OBVIOUS
  <1>2. v.root = root /\ v.w = w /\ v.h = h /\ v.config.depth = depth
    BY <1>1, ViewShaped
  <1>3. rects' = ComputeLayout(TreeOf(sent), v.root, v.w, v.h, v.config)
    BY <1>1 DEF Answers, HandleLayout
  <1>4. PICK sub : IsTree(TreeOf(sent), sub)
    BY DEF TreeInv
  <1>5. LaidOut(root, rects')
    BY <1>2, <1>3, <1>4, LayoutIs
  <1>6. QED BY <1>5 DEF LayoutInv

(* Its rects are nested and placed as a treemap's of the view it is of.     *)
TreemapNests ==
    shown # <<>> => Nested(shown[1].view, rects) /\ SideBySide(shown[1].view, rects)

LEMMA AnswersNest ==
    ASSUME TreeInv, NEW root, NEW w \in Int, NEW h \in Int, NEW depth \in Nat \ {0}, NEW least,
           Answers(View(root, w, h, depth, least))
    PROVE  TreemapNests'
  <1>1. PICK v : v = View(root, w, h, depth, least)
    OBVIOUS
  <1>2. v.w = w /\ v.h = h /\ v.config.depth = depth
    BY <1>1, ViewShaped
  <1>3. rects' = ComputeLayout(TreeOf(sent), v.root, v.w, v.h, v.config) /\ shown'[1].view = v
    BY <1>1 DEF Answers, HandleLayout, KeyOf
  <1>4. PICK sub : IsTree(TreeOf(sent), sub)
    BY DEF TreeInv
  <1>5. Nested(v, rects') /\ SideBySide(v, rects')
    BY <1>2, <1>3, <1>4, LayoutNests
  <1>6. QED BY <1>3, <1>5 DEF TreemapNests

LEMMA LayoutKept ==
    ASSUME LayoutInv, TreeInv, ViewOK, [Next]_vars
    PROVE  LayoutInv'
  <1>1. CASE UNCHANGED rects
    BY <1>1 DEF LayoutInv
  <1>2. CASE Layouts
    <2>1. PICK root, least : \E w, h \in Int, depth \in Nat \ {0} : wanted = View(root, w, h, depth, least)
      BY DEF ViewOK
    <2>2. PICK w, h \in Int, depth \in Nat \ {0} : wanted = View(root, w, h, depth, least)
      BY <2>1
    <2>3. QED BY <1>2, <2>2, LayoutAnswers DEF Layouts
  <1>3. CASE Surveys
    <2>1. PICK v \in Views(world) : Answers(v)
      BY <1>3 DEF Surveys
    <2>2. PICK root, least : \E w, h \in Int, depth \in Nat \ {0} : v = View(root, w, h, depth, least)
      BY ViewsOK
    <2>3. PICK w, h \in Int, depth \in Nat \ {0} : v = View(root, w, h, depth, least)
      BY <2>2
    <2>4. QED BY <2>1, <2>3, LayoutAnswers
  <1>4. CASE Lists \/ (\E w \in Worlds : Pick(w)) \/ CommandLine \/ Scans \/ UNCHANGED vars
    BY <1>1, <1>4 DEF Lists, Pick, CommandLine, Scans, vars, canvasVars
  <1>5. CASE Points \/ Draws \/ Navigates
    BY <1>1, <1>5 DEF Points, MouseMove, MouseLeave, Draws, Tick, Navigates, BeginNavigation
  <1>6. CASE Filters \/ Resizes
    BY <1>1, <1>6 DEF Filters, Resizes, Resize, canvasVars
  <1>7. CASE Rescans
    BY <1>7, NothingLaidOut DEF Rescans, ScanStart, LayoutInv
  <1>8. QED BY <1>2, <1>3, <1>4, <1>5, <1>6, <1>7 DEF Next

LEMMA NestsKept ==
    ASSUME TreemapNests, TreeInv, ViewOK, [Next]_vars
    PROVE  TreemapNests'
  <1>1. CASE UNCHANGED <<rects, shown>>
    BY <1>1 DEF TreemapNests
  <1>2. CASE Layouts
    <2>1. PICK root, least : \E w, h \in Int, depth \in Nat \ {0} : wanted = View(root, w, h, depth, least)
      BY DEF ViewOK
    <2>2. PICK w, h \in Int, depth \in Nat \ {0} : wanted = View(root, w, h, depth, least)
      BY <2>1
    <2>3. QED BY <1>2, <2>2, AnswersNest DEF Layouts
  <1>3. CASE Surveys
    <2>1. PICK v \in Views(world) : Answers(v)
      BY <1>3 DEF Surveys
    <2>2. PICK root, least : \E w, h \in Int, depth \in Nat \ {0} : v = View(root, w, h, depth, least)
      BY ViewsOK
    <2>3. PICK w, h \in Int, depth \in Nat \ {0} : v = View(root, w, h, depth, least)
      BY <2>2
    <2>4. QED BY <2>1, <2>3, AnswersNest
  <1>4. CASE Lists \/ (\E w \in Worlds : Pick(w)) \/ CommandLine \/ Scans \/ UNCHANGED vars
    BY <1>1, <1>4 DEF Lists, Pick, CommandLine, Scans, vars, canvasVars
  <1>5. CASE Points \/ Draws \/ Navigates
    BY <1>1, <1>5 DEF Points, MouseMove, MouseLeave, Draws, Tick, Navigates, BeginNavigation, Idle
  <1>6. CASE Filters \/ Resizes
    BY <1>1, <1>6 DEF Filters, Resizes, Resize, canvasVars, Idle
  <1>7. CASE Rescans
    BY <1>7 DEF Rescans, TreemapNests
  <1>8. QED BY <1>2, <1>3, <1>4, <1>5, <1>6, <1>7 DEF Next

(* Altogether.                                                              *)
VisitInv == VisitWalkInv /\ TreeInv /\ ViewOK /\ LayoutInv /\ TreemapNests /\ HoverInv

LEMMA VisitInit == Init => VisitInv
  <1> SUFFICES ASSUME Init PROVE VisitInv
    OBVIOUS
  <1>1. WalkInit
    BY DEF Init, CliInit, WalkInit
  <1>2. VisitWalkInv /\ TreeInv
    BY <1>1, VisitWalkInit, TreeInvInit
  <1>3. ViewOK
    BY DEF Init, FirstView, ViewOK
  <1>4. LayoutInv /\ TreemapNests /\ HoverInv
    BY NothingLaidOut DEF Init, CanvasInit, LayoutInv, TreemapNests, HoverInv
  <1>5. QED BY <1>2, <1>3, <1>4 DEF VisitInv

LEMMA VisitStep == VisitInv /\ [Next]_vars => VisitInv'
  <1> SUFFICES ASSUME VisitInv, [Next]_vars PROVE VisitInv'
    OBVIOUS
  <1>1. VisitWalkInv /\ WalkInv /\ TreeInv /\ ViewOK /\ LayoutInv /\ TreemapNests /\ HoverInv
    BY DEF VisitInv, VisitWalkInv
  <1>2. VisitWalkInv'
    BY <1>1, VisitWalkStep
  <1>3. TreeInv'
    <2>1. WalkInit' \/ [WalkNext]_walkVars
      BY <1>1, VisitWalks
    <2>2. QED BY <1>1, <2>1, TreeBegins, TreeInvStep
  <1>4. ViewOK' /\ LayoutInv' /\ TreemapNests'
    BY <1>1, ViewKept, LayoutKept, NestsKept
  <1>5. HoverInv'
    BY <1>1, VisitMovesCanvas, HoverKept
  <1>6. QED BY <1>2, <1>3, <1>4, <1>5 DEF VisitInv

(* Whatever is scanned, laid out, navigated to and pointed at on a visit,   *)
(* what is hovered is the rect drawn on top under the pointer, in the       *)
(* current layout, and its path is all that is drawn below it there         *)
(* (recompute_hover, layout_node).                                          *)
THEOREM VisitHoverIsCurrent == Spec => []HoverIsCurrent
  <1>1. VisitInv => HoverIsCurrent
    BY HoverShows DEF VisitInv, LayoutInv
  <1>2. QED BY VisitInit, VisitStep, <1>1, PTL DEF Spec

(* In any view of any tree, what is laid out is a treemap of the view: no   *)
(* container is empty, or drawn over what is in it, or has in it what isn't *)
(* its own; no folder is drawn twice, nor the root within itself; a rect's  *)
(* depth is how many containers it is in, and less than the levels asked    *)
(* for; and those of a container lie below its header, apart from each      *)
(* other (layout_node, squarify).                                           *)
THEOREM VisitTreemapNests == Spec => []TreemapNests
  <1>1. VisitInv => TreemapNests
    BY DEF VisitInv
  <1>2. QED BY VisitInit, VisitStep, <1>1, PTL DEF Spec

-----------------------------------------------------------------------------
(* Of so many, as many of the largest as are to be printed.                 *)
Sized(S) == \A x \in S : x.size \in Nat
Fewest(n) == IF n < Top THEN n ELSE Top

Heaped(H, all) ==
    /\ H \subseteq all /\ IsFiniteSet(all) /\ Sized(all)
    /\ Cardinality(H) = Fewest(Cardinality(all))
    /\ \A left \in all \ H, e \in H : left.size <= e.size

LEMMA PoppedIs ==
    ASSUME NEW S, Sized(S), S # {}
    PROVE  \E x \in S : (\A y \in S : x.size <= y.size) /\ Popped(S) = S \ {x}
  <1>1. {x.size : x \in S} \in SUBSET Nat /\ {x.size : x \in S} # {}
    BY DEF Sized
  <1>2. PICK n \in {x.size : x \in S} : \A m \in {x.size : x \in S} : n <= m
    <2> DEFINE T == {x.size : x \in S}
    <2>1. T \in SUBSET Nat /\ T # {}
      BY <1>1
    <2> HIDE DEF T
    <2>2. \E n \in T : \A m \in T : n <= m
      BY <2>1, Least
    <2>3. QED BY <2>2 DEF T
  <1>3. \E x \in S : \A y \in S : x.size <= y.size
    BY <1>2
  <1>4. QED BY <1>3 DEF Popped

LEMMA KeptIs ==
    ASSUME NEW H, NEW all, Heaped(H, all), NEW f, f.size \in Nat
    PROVE  Heaped(Kept(H, f), all \cup {f})
  <1>1. /\ H \in SUBSET all /\ IsFiniteSet(all) /\ Sized(all)
        /\ Cardinality(H) = Fewest(Cardinality(all))
        /\ \A left \in all \ H, e \in H : left.size <= e.size
    BY DEF Heaped
  <1>2. IsFiniteSet(H) /\ Cardinality(H) \in Nat /\ Cardinality(all) \in Nat
    BY <1>1, FS_Subset, FS_CardinalityType
  <1>3. PICK pushed : pushed = H \cup {f}
    OBVIOUS
  <1>4. /\ IsFiniteSet(pushed) /\ Cardinality(pushed) \in Nat
        /\ Cardinality(pushed) = IF f \in H THEN Cardinality(H) ELSE Cardinality(H) + 1
    BY <1>2, <1>3, FS_AddElement, FS_CardinalityType
  <1>5. /\ IsFiniteSet(all \cup {f}) /\ Cardinality(all \cup {f}) \in Nat
        /\ Cardinality(all \cup {f}) = IF f \in all THEN Cardinality(all) ELSE Cardinality(all) + 1
    BY <1>1, FS_AddElement, FS_CardinalityType
  <1>6. Sized(all \cup {f}) /\ Sized(pushed)
    BY <1>1, <1>3 DEF Sized
  <1>7. Top \in Nat
    BY CliAssumption
  <1>8. Cardinality(all) = Cardinality(H) => H = all
    BY <1>1, FS_Subset
  <1>9. CASE Cardinality(pushed) > Top
    <2>1. PICK x \in pushed : (\A y \in pushed : x.size <= y.size) /\ Popped(pushed) = pushed \ {x}
      BY <1>3, <1>6, PoppedIs
    <2>2. Kept(H, f) = pushed \ {x}
      BY <1>3, <1>9, <2>1 DEF Kept
    <2>3. f \notin H /\ Cardinality(H) = Top /\ Cardinality(all) >= Top
      BY <1>1, <1>2, <1>4, <1>7, <1>9 DEF Fewest
    <2>4. Cardinality(pushed \ {x}) = Cardinality(pushed) - 1
      BY <1>4, <2>1, FS_RemoveElement
    <2>5. Cardinality(pushed \ {x}) = Fewest(Cardinality(all \cup {f}))
      BY <1>2, <1>4, <1>5, <1>7, <2>3, <2>4 DEF Fewest
    <2>6. ASSUME NEW left \in (all \cup {f}) \ (pushed \ {x}), NEW e \in pushed \ {x} PROVE left.size <= e.size
      <3>1. left.size \in Nat /\ e.size \in Nat /\ x.size \in Nat
        BY <1>1, <1>3, <1>6, <2>1 DEF Sized
      <3>2. CASE left = x
        BY <2>1, <3>2
      <3>3. CASE left # x
        <4>1. left \in all \ H
          BY <1>3, <2>6, <3>3
        <4>2. x.size <= e.size
          BY <2>1, <2>6
        <4>3. x \in H \/ e \in H
          BY <1>3, <2>1, <2>6
        <4>4. QED BY <1>1, <3>1, <4>1, <4>2, <4>3
      <3>4. QED BY <3>2, <3>3
    <2>7. pushed \ {x} \subseteq all \cup {f}
      BY <1>1, <1>3
    <2>8. QED BY <1>5, <1>6, <2>2, <2>5, <2>6, <2>7 DEF Heaped
  <1>10. CASE ~(Cardinality(pushed) > Top)
    <2>1. Kept(H, f) = pushed
      BY <1>3, <1>10 DEF Kept
    <2>2. f \notin H => H = all
      BY <1>1, <1>2, <1>4, <1>7, <1>8, <1>10 DEF Fewest
    <2>3. CASE f \in H
      <3>1. pushed = H /\ all \cup {f} = all
        BY <1>1, <1>3, <2>3
      <3>2. QED BY <2>1, <3>1
    <2>4. CASE f \notin H
      <3>1. pushed = all \cup {f} /\ f \notin all
        BY <1>3, <2>2, <2>4
      <3>2. Cardinality(pushed) = Fewest(Cardinality(all \cup {f}))
        BY <1>4, <1>7, <1>10, <3>1 DEF Fewest
      <3>3. QED BY <1>5, <1>6, <2>1, <3>1, <3>2 DEF Heaped
    <2>5. QED BY <2>3, <2>4
  <1>11. QED BY <1>7, <1>4, <1>9, <1>10

(* A folder's files are kept so, one after the other.                       *)
Keeping(files, g) == g = [k \in 0 .. Len(files) |-> IF k = 0 THEN heap ELSE Kept(g[k - 1], files[k])]

LEMMA KeepingExists ==
    ASSUME NEW S, NEW files \in Seq(S), heap \subseteq S
    PROVE  \E g : Keeping(files, g)
  <1>1. PICK n \in Nat : n = Len(files) /\ \A k \in 1 .. n : files[k] \in S
    BY LenProperties, ElementOfSeq
  <1> DEFINE U == SUBSET S
             step == [H \in U |-> [k \in 1 .. n |-> Kept(H, files[k])]]
  <1>2. \A H \in U, k \in 1 .. n : Kept(H, files[k]) \in U
    <2>1. \A P : Popped(P) \subseteq P
      BY DEF Popped
    <2>2. TAKE H \in U, k \in 1 .. n
    <2>3. Kept(H, files[k]) \subseteq H \cup {files[k]}
      BY <2>1 DEF Kept
    <2>4. QED BY <1>1, <2>3
  <1>3. heap \in U /\ step \in [U -> [1 .. n -> U]]
    BY <1>2
  <1>4. PICK h : Stepped(h, U, heap, n, step)
    <2> HIDE DEF U, step
    <2>1. QED BY <1>3, Steps, Zenon
  <1>5. h \in [0 .. n -> U] /\ h[0] = heap /\ \A k \in 1 .. n : h[k] = step[h[k - 1]][k]
    BY <1>4 DEF Stepped
  <1>6. ASSUME NEW k \in 1 .. n PROVE h[k] = Kept(h[k - 1], files[k])
    <2>1. k - 1 \in 0 .. n
      OBVIOUS
    <2>2. h[k - 1] \in U
      BY <1>5, <2>1
    <2>3. QED BY <1>5, <2>2
  <1>7. h = [k \in 0 .. n |-> h[k]]
    BY <1>5
  <1>8. \A k \in 0 .. n : h[k] = IF k = 0 THEN heap ELSE Kept(h[k - 1], files[k])
    BY <1>5, <1>6
  <1>9. QED BY <1>1, <1>7, <1>8 DEF Keeping

LEMMA FilesOfIs ==
    ASSUME NEW d, FilesKept(d.files)
    PROVE  IsFiniteSet(FilesOf(d)) /\ Sized(FilesOf(d))
  <1>1. PICK f : f = [x \in d.files |-> [size |-> x.size, dir |-> d.id, name |-> x.name]]
    OBVIOUS
  <1>2. FilesOf(d) = {f[x] : x \in d.files}
    BY <1>1 DEF FilesOf
  <1>3. IsFiniteSet(FilesOf(d))
    <2>1. PICK S : S = d.files /\ IsFiniteSet(S)
      BY DEF FilesKept
    <2>2. DOMAIN f = S /\ f = [x \in S |-> f[x]]
      BY <1>1, <2>1
    <2>3. IsFiniteSet({f[x] : x \in S})
      BY <2>1, <2>2, FiniteRange
    <2>4. QED BY <1>2, <2>1, <2>3
  <1>4. QED BY <1>3 DEF FilesOf, FilesKept, Sized, Positive

LEMMA ReceivedIs ==
    ASSUME NEW all, Heaped(heap, all), listFiles, NEW d, FilesKept(d.files)
    PROVE  Heaped(Received(d), all \cup FilesOf(d))
  <1>1. PICK files : files = SetToSeq(FilesOf(d))
    OBVIOUS
  <1>2. files \in Seq(FilesOf(d)) /\ Range(files) = FilesOf(d) /\ Sized(FilesOf(d))
    BY <1>1, FilesOfIs, SetToSeqIs DEF Enumerates
  <1>3. PICK n \in Nat : n = Len(files) /\ DOMAIN files = 1 .. n /\ \A k \in 1 .. n : files[k] \in FilesOf(d)
    BY <1>2, LenProperties, ElementOfSeq
  <1>4. PICK g : g = (CHOOSE f : Keeping(files, f)) /\ Keeping(files, g)
    <2>1. PICK S : S = heap \cup FilesOf(d)
      OBVIOUS
    <2>2. files \in Seq(S)
      BY <1>2, <2>1, SeqMonotonic
    <2>3. QED BY <2>1, <2>2, KeepingExists
  <1>5. Received(d) = g[n]
    BY <1>1, <1>3, <1>4 DEF Received, Keeping
  <1>6. g[0] = heap /\ \A k \in 1 .. n : g[k] = Kept(g[k - 1], files[k])
    <2>1. g = [k \in 0 .. n |-> IF k = 0 THEN heap ELSE Kept(g[k - 1], files[k])]
      BY <1>3, <1>4 DEF Keeping
    <2>2. QED BY <2>1
  <1> DEFINE Seen(k) == all \cup {files[i] : i \in 1 .. k}
             T == {k \in 0 .. n : Heaped(g[k], Seen(k))}
  <1>7. 0 \in T
    <2>1. Seen(0) = all
      OBVIOUS
    <2>2. QED BY <1>6, <2>1
  <1>8. ASSUME NEW k \in 1 .. n, k - 1 \in T PROVE k \in T
    <2>1. \A i : i \in 1 .. k <=> i \in 1 .. k - 1 \/ i = k
      OBVIOUS
    <2>2. Seen(k) = Seen(k - 1) \cup {files[k]}
      BY <2>1
    <2>3. Heaped(g[k - 1], Seen(k - 1)) /\ files[k].size \in Nat
      BY <1>2, <1>3, <1>8 DEF Sized
    <2> HIDE DEF Seen
    <2>4. Heaped(g[k], Seen(k))
      BY <1>6, <2>2, <2>3, KeptIs
    <2>5. QED BY <2>4
  <1>9. n \in T
    <2> HIDE DEF T
    <2>1. 0 .. n \subseteq T
      BY <1>7, <1>8, Induct
    <2>2. QED BY <2>1
  <1>10. Seen(n) = all \cup FilesOf(d)
    BY <1>2, <1>3 DEF Range
  <1>11. QED BY <1>5, <1>9, <1>10

-----------------------------------------------------------------------------
(* What is printed of them: as many of the largest, largest first.          *)
AreLargest(e, all) ==
    /\ Range(e) \subseteq all
    /\ Len(e) = Fewest(Cardinality(all))
    /\ \A i, j \in 1 .. Len(e) : i < j => e[i] # e[j] /\ e[i].size >= e[j].size
    /\ \A left \in all \ Range(e), x \in Range(e) : left.size <= x.size

LEMMA LargestIs == ASSUME NEW S, IsFiniteSet(S), Sized(S) PROVE AreLargest(Largest(S), S)
  <1>1. PICK s, c : s = SetToSeq(S) /\ c = Cardinality(S) /\ c \in Nat
    BY FS_CardinalityType
  <1>2. s \in Seq(S) /\ Range(s) = S /\ Once(s) /\ Len(s) = c
    BY <1>1, SetToSeqIs DEF Enumerates
  <1>3. PICK b : b = BySize(s)
    OBVIOUS
  <1>4. b \in Seq(S) /\ Len(b) = c /\ BySizes(b) /\ Range(b) = S /\ Once(b)
    <2>1. \A x \in S : x.size \in Int
      BY DEF Sized
    <2>2. QED BY <1>2, <1>3, <2>1, BySizeIs, Zenon
  <1>5. DOMAIN b = 1 .. c /\ \A i \in 1 .. c : b[i] \in S
    BY <1>4, LenProperties, ElementOfSeq
  <1>6. PICK m \in Nat : m = Fewest(c) /\ m <= c
    BY <1>1, CliAssumption DEF Fewest
  <1>7. PICK e : e = SubSeq(b, 1, m) /\ e = Largest(S)
    BY <1>1, <1>3, <1>4, <1>6 DEF Largest, Fewest
  <1>8. e \in Seq(S) /\ Len(e) = m /\ DOMAIN e = 1 .. m /\ \A i \in 1 .. m : e[i] = b[i] /\ i \in 1 .. c
    <2>1. \A i \in 1 .. m : b[i] \in S
      BY <1>1, <1>5, <1>6
    <2>2. /\ e \in Seq(S)
          /\ Len(e) = IF 1 <= m THEN m - 1 + 1 ELSE 0
          /\ \A i \in 1 .. m - 1 + 1 : e[i] = b[1 + i - 1]
      BY <1>4, <1>6, <1>7, <2>1, SubSeqProperties
    <2>3. DOMAIN e = 1 .. Len(e)
      BY <2>2, LenProperties
    <2>4. \A i \in 1 .. m : i \in 1 .. m - 1 + 1 /\ 1 + i - 1 = i /\ i \in 1 .. c
      BY <1>1, <1>6
    <2>5. (IF 1 <= m THEN m - 1 + 1 ELSE 0) = m
      BY <1>6
    <2>6. QED BY <2>2, <2>3, <2>4, <2>5
  <1>9. Range(e) \subseteq S
    BY <1>5, <1>8 DEF Range
  <1>10. ASSUME NEW i \in 1 .. m, NEW j \in 1 .. m, i < j PROVE e[i] # e[j] /\ e[i].size >= e[j].size
    BY <1>4, <1>8, <1>10 DEF BySizes, Once
  <1>11. ASSUME NEW left \in S \ Range(e), NEW x \in Range(e) PROVE left.size <= x.size
    <2>1. PICK j \in 1 .. c : left = b[j]
      BY <1>4, <1>5 DEF Range
    <2>2. PICK i \in 1 .. m : x = e[i] /\ x = b[i] /\ i \in 1 .. c
      BY <1>8 DEF Range
    <2>3. j \notin 1 .. m
      BY <1>8, <2>1 DEF Range
    <2>4. i < j
      BY <1>1, <2>3
    <2>5. b[i].size >= b[j].size /\ b[i] \in S /\ b[j] \in S
      BY <1>4, <1>5, <2>2, <2>4 DEF BySizes
    <2>6. QED BY <2>1, <2>2, <2>5 DEF Sized
  <1>12. AreLargest(e, S)
    BY <1>1, <1>6, <1>8, <1>9, <1>10, <1>11 DEF AreLargest
  <1>13. QED BY <1>7, <1>12

(* The largest of those kept are the largest of all.                        *)
LEMMA LargestKept ==
    ASSUME NEW H, NEW all, Heaped(H, all)
    PROVE  AreLargest(Largest(H), all)
  <1>1. H \in SUBSET all /\ IsFiniteSet(all) /\ Cardinality(H) = Fewest(Cardinality(all))
    BY DEF Heaped
  <1>2. IsFiniteSet(H) /\ Sized(H) /\ Cardinality(all) \in Nat
    BY <1>1, FS_Subset, FS_CardinalityType DEF Heaped, Sized
  <1>3. PICK e : e = Largest(H) /\ AreLargest(e, H)
    BY <1>2, LargestIs
  <1>4. Fewest(Cardinality(H)) = Fewest(Cardinality(all))
    BY <1>1, <1>2, CliAssumption DEF Fewest
  <1>5. \A left \in all \ Range(e), x \in Range(e) : left.size <= x.size
    BY <1>3 DEF AreLargest, Heaped
  <1>6. QED BY <1>1, <1>3, <1>4, <1>5 DEF AreLargest

LEMMA TotalsSized == ASSUME TreeInv PROVE IsFiniteSet(Totals) /\ Sized(Totals)
  <1>1. PICK tree : tree = TreeOf(sent)
    OBVIOUS
  <1>2. PICK sub : IsTree(tree, sub)
    BY <1>1 DEF TreeInv
  <1>3. PICK S : S = DOMAIN tree /\ IsFiniteSet(S)
    BY <1>2 DEF IsTree
  <1>4. PICK f : f = [n \in S |-> [size |-> Total(tree, n, 0), dir |-> n]]
    OBVIOUS
  <1>5. Totals = {f[n] : n \in S}
    BY <1>1, <1>3, <1>4 DEF Totals
  <1>6. IsFiniteSet({f[n] : n \in S})
    <2>1. DOMAIN f = S /\ f = [n \in S |-> f[n]]
      BY <1>4
    <2>2. QED BY <1>3, <2>1, FiniteRange
  <1>7. ASSUME NEW n \in S PROVE f[n].size \in Nat
    <2>1. PICK size : size = Total(tree, n, 0) /\ size \in Nat
      BY <1>2, <1>3, TotalIs
    <2>2. f[n] = [size |-> size, dir |-> n]
      BY <1>4, <2>1
    <2>3. QED BY <2>1, <2>2
  <1>8. QED BY <1>5, <1>6, <1>7 DEF Sized

-----------------------------------------------------------------------------
(* Of the files received the largest are kept, and what is printed once the *)
(* walk is over are the largest.                                            *)
Found == UNION {FilesOf(d) : d \in sent}

CliInv ==
    /\ stage # "cli" => printed = <<>>
    /\ stage = "cli" /\ listFiles => Heaped(heap, Found)
    /\ printed # <<>> => Walked /\ AreLargest(printed[1].entries, IF listFiles THEN Found ELSE Totals)

(* Only the command line receives files and prints.                         *)
LEMMA VisitMovesCli ==
    ASSUME [Next]_vars
    PROVE  \/ UNCHANGED <<stage, cliVars>>
           \/ stage # "cli" /\ stage' # "cli" /\ UNCHANGED <<listFiles, heap, printed>>
           \/ stage = "cli" /\ stage' = "cli" /\ CliNext
  <1>1. CASE Lists \/ Layouts \/ Surveys \/ Points \/ Draws \/ Navigates \/ Filters \/ Resizes \/ UNCHANGED vars
    BY <1>1 DEF Lists, Layouts, Surveys, Answers, Points, Draws, Navigates, Filters, Resizes, Idle, vars, cliVars
  <1>2. CASE (\E w \in Worlds : Pick(w)) \/ Scans \/ Rescans
    BY <1>2 DEF Pick, Scans, Rescans, Moves, Playing
  <1>3. CASE CommandLine
    BY <1>3 DEF CommandLine
  <1>4. QED BY <1>1, <1>2, <1>3 DEF Next

LEMMA CliInvInit == Init => CliInv
  <1> SUFFICES ASSUME Init PROVE CliInv
    OBVIOUS
  <1>1. sent = {} /\ heap = {} /\ printed = <<>>
    BY DEF Init, CliInit, WalkInit
  <1>2. Found = {}
    BY <1>1 DEF Found
  <1>3. Heaped({}, {})
    BY FS_EmptySet, CliAssumption DEF Heaped, Sized, Fewest
  <1>4. QED BY <1>1, <1>2, <1>3 DEF CliInv

LEMMA CliReceives ==
    ASSUME WalkInv, CliInv, stage = "cli", listFiles, NEW job \in queue, ReadDir(job),
           NEW d \in sent' \ sent, heap' = Received(d)
    PROVE  Heaped(heap', Found')
  <1>1. PICK r : r = ReadEntries(job)
    OBVIOUS
  <1>2. PICK new : new = [id |-> job.id, parent |-> job.parent, node |-> job.node, files |-> r.files]
    OBVIOUS
  <1>3. sent' = sent \cup {new}
    BY <1>1, <1>2 DEF ReadDir
  <1>4. d = new
    BY <1>3
  <1>5. JobOK(job) /\ world \in Worlds
    BY <1>1, ReadIs DEF ReadOK
  <1>6. FilesKept(d.files)
    BY <1>1, <1>2, <1>4, <1>5, FilesRead
  <1>7. Heaped(heap, Found)
    BY DEF CliInv
  <1>8. Heaped(Received(d), Found \cup FilesOf(d))
    BY <1>6, <1>7, ReceivedIs
  <1>9. Found' = Found \cup FilesOf(d)
    <2>1. Found' = UNION {FilesOf(x) : x \in sent'}
      BY DEF Found, FilesOf
    <2>2. QED BY <1>3, <1>4, <2>1 DEF Found
  <1>10. QED BY <1>8, <1>9

LEMMA CliInvStep == VisitInv /\ CliInv /\ [Next]_vars => CliInv'
  <1> SUFFICES ASSUME VisitInv, CliInv, [Next]_vars PROVE CliInv'
    OBVIOUS
  <1>0. WalkInv /\ TreeInv
    BY DEF VisitInv, VisitWalkInv
  <1>1. CASE UNCHANGED <<stage, cliVars>>
    <2>1. UNCHANGED <<stage, listFiles, heap, printed, queue, sent, world>>
      BY <1>1 DEF cliVars, walkVars
    <2>2. Found' = Found /\ Totals' = Totals /\ Walked' = Walked
      BY <2>1 DEF Found, Totals, TreeOf, FilesOf, Walked
    <2>3. QED BY <2>1, <2>2 DEF CliInv
  <1>2. CASE stage # "cli" /\ stage' # "cli" /\ UNCHANGED <<listFiles, heap, printed>>
    BY <1>2 DEF CliInv
  <1>3. ASSUME stage = "cli", stage' = "cli", Receives PROVE CliInv'
    <2>1. PICK job \in queue : ReadDir(job)
      BY <1>3 DEF Receives
    <2>2. printed' = <<>>
      <3>1. printed = <<>>
        BY <2>1 DEF CliInv, Walked
      <3>2. QED BY <1>3, <3>1 DEF Receives
    <2>3. listFiles' => Heaped(heap', Found')
      BY <1>0, <1>3, <2>1, CliReceives DEF Receives
    <2>4. QED BY <1>3, <2>2, <2>3 DEF CliInv
  <1>4. ASSUME stage = "cli", stage' = "cli", Misses PROVE CliInv'
    <2>1. PICK job \in queue : OpenFails(job)
      BY <1>4 DEF Misses
    <2>2. sent' = sent /\ UNCHANGED <<listFiles, heap, printed>>
      BY <1>4, <2>1 DEF Misses, OpenFails
    <2>3. printed' = <<>>
      BY <2>1, <2>2 DEF CliInv, Walked
    <2>4. Found' = Found
      BY <2>2 DEF Found, FilesOf
    <2>5. QED BY <1>4, <2>2, <2>3, <2>4 DEF CliInv
  <1>5. ASSUME stage = "cli", stage' = "cli", Prints PROVE CliInv'
    <2>1. Walked /\ UNCHANGED <<listFiles, heap, queue, sent>>
      BY <1>5 DEF Prints, walkVars
    <2>2. Found' = Found /\ Totals' = Totals /\ Walked' = Walked
      BY <2>1 DEF Found, Totals, TreeOf, FilesOf, Walked
    <2>3. PICK e : e = Largest(IF listFiles THEN heap ELSE Totals) /\ printed'[1].entries = e
      BY <1>5 DEF Prints
    <2>4. AreLargest(e, IF listFiles THEN Found ELSE Totals)
      <3>1. CASE listFiles
        BY <1>5, <2>3, <3>1, LargestKept DEF CliInv
      <3>2. CASE ~listFiles
        BY <1>0, <2>3, <3>2, LargestIs, TotalsSized
      <3>3. QED BY <3>1, <3>2
    <2>5. QED BY <1>5, <2>1, <2>2, <2>3, <2>4 DEF CliInv
  <1>6. QED BY <1>1, <1>2, <1>3, <1>4, <1>5, VisitMovesCli DEF CliNext

(* What the command line prints are the largest of all the files, or        *)
(* folders, that were found, largest first and as many as were asked for,   *)
(* though it keeps no more than that of the files as they come (main,       *)
(* top_n).                                                                  *)
THEOREM VisitPrintsTheLargest == Spec => []PrintsTheLargest
  <1>1. CliInv => PrintsTheLargest
    BY DEF CliInv, PrintsTheLargest, AreLargest, Fewest, Found
  <1>2. VisitInv /\ CliInv /\ [Next]_vars => (VisitInv /\ CliInv)'
    BY VisitStep, CliInvStep
  <1>3. QED BY VisitInit, CliInvInit, <1>1, <1>2, PTL DEF Spec

=============================================================================
