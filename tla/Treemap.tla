------------------------------ MODULE Treemap -------------------------------
(***************************************************************************)
(* The treemap of a folder (core/src/layout.rs): which of its folders and   *)
(* files get a rect, where, and which rects open up to show what is in      *)
(* them.  LayoutRect and its header are protocol/src/lib.rs's.              *)
(*                                                                         *)
(* Lengths are in fractions of a pixel, Unit to each, rounded down where    *)
(* the code's are f64; the last of a row takes what is left, as there.      *)
(* Colours and times are left out.                                          *)
(***************************************************************************)
EXTENDS Integers, Sequences, FiniteSets, SequencesExt

CONSTANTS
    Unit,                     \* fractions in a pixel
    MinNest,                  \* MIN_NEST_PX
    HeaderW, HeaderH,         \* the largest container without a header
    MinHeader, MaxHeader

ASSUME TreemapAssumption ==
    /\ Unit \in Nat \ {0} /\ MinNest \in Nat
    /\ HeaderW \in Nat /\ HeaderH \in Nat /\ MinHeader \in Nat /\ MaxHeader \in Nat

MinDrawn == Unit              \* MIN_DRAWN_SIDE
MinContent == 2 * Unit

Box(x, y, w, h) == [x |-> x, y |-> y, w |-> w, h |-> h]
Transposed(b) == Box(b.y, b.x, b.h, b.w)
Boxes == [x : Int, y : Int, w : Int, h : Int]
Area(b) == b.w * b.h

(* The sums of the first so many.                                           *)
SumTo(sizes) ==
    LET upTo[k \in 0 .. Len(sizes)] == IF k = 0 THEN 0 ELSE upTo[k - 1] + sizes[k]
    IN  upTo
Sum(sizes) == SumTo(sizes)[Len(sizes)]

(* Sorted by size, the largest first; those of one size stay in their order.*)
Inserted(sorted, item) ==
    InsertAt(sorted, Cardinality({i \in 1 .. Len(sorted) : sorted[i].size >= item.size}) + 1, item)

BySize(items) ==
    LET sorted[k \in 0 .. Len(items)] == IF k = 0 THEN <<>> ELSE Inserted(sorted[k - 1], items[k])
    IN  sorted[Len(items)]

(* header_height *)
HeaderHeight(b) ==
    LET header == ((15 * b.h) \div (100 * Unit)) * Unit
        most == IF header > MaxHeader THEN MaxHeader ELSE header
    IN  IF b.w > HeaderW /\ b.h > HeaderH /\ most >= MinHeader THEN most ELSE 0

-----------------------------------------------------------------------------
(* squarify.  A rect's worse aspect, as a fraction: that of an item in a    *)
(* row of total size `row`, along the short side of what is left.           *)
Aspect(item, row, long, short, left) ==
    LET p == row * row * long
        q == left * short * item
    IN  IF p >= q THEN <<p, q>> ELSE <<q, p>>

Worse(a, b) == a[1] * b[2] > b[1] * a[2]

(* A row takes items, largest first, for as long as the worse of its first  *)
(* and last gets no worse.                                                  *)
RowLength(sizes, long, short) ==
    LET left == Sum(sizes)
        worst == [k \in 1 .. Len(sizes) |->
                    LET row == SumTo(sizes)[k]
                        first == Aspect(sizes[1], row, long, short, left)
                        last == Aspect(sizes[k], row, long, short, left)
                    IN  IF Worse(first, last) THEN first ELSE last]
    IN  CHOOSE k \in 1 .. Len(sizes) :
            /\ k < Len(sizes) => Worse(worst[k + 1], worst[k])
            /\ \A i \in 1 .. k - 1 : ~Worse(worst[i + 1], worst[i])

(* The i-th box of a row of `length` across the start of `space`, split     *)
(* along its height.                                                        *)
RowBox(sizes, space, length, i) ==
    LET height == [j \in 1 .. Len(sizes) |-> (sizes[j] * space.h) \div Sum(sizes)]
        top == SumTo(height)[i - 1]
    IN  Box(space.x, space.y + top, length, IF i = Len(sizes) THEN space.h - top ELSE height[i])

(* What a row leaves of the space.  Mutant: all of its width.               *)
LeftWide(space, length) == Box(space.x + length, space.y, space.w, space.h)
LeftAfter(space, length) == Box(space.x + length, space.y, space.w - length, space.h)

(* A row along the short side, of what there is still to place and where.   *)
Turned(bounds, b) == IF bounds.w >= bounds.h THEN b ELSE Transposed(b)

WithRow(s, row, space, length) ==
    [left |-> SubSeq(s.left, Len(row) + 1, Len(s.left)),
     bounds |-> Turned(s.bounds, LeftAfter(space, length)),
     boxes |-> s.boxes \o [i \in 1 .. Len(row) |-> Turned(s.bounds, RowBox(row, space, length, i))]]

NextRow(s) ==
    IF s.left = <<>> \/ s.bounds.w <= 0 \/ s.bounds.h <= 0 THEN s
    ELSE IF Len(s.left) = 1 THEN [s EXCEPT !.left = <<>>, !.boxes = Append(@, s.bounds)]
    ELSE LET space == Turned(s.bounds, s.bounds)
             row == SubSeq(s.left, 1, RowLength(s.left, space.w, space.h))
         IN  WithRow(s, row, space, (space.w * Sum(row)) \div Sum(s.left))

Squarify(sizes, bounds) ==
    LET rows[k \in 0 .. Len(sizes)] ==
            IF k = 0 THEN [left |-> sizes, bounds |-> bounds, boxes |-> <<>>] ELSE NextRow(rows[k - 1])
    IN  rows[Len(sizes)].boxes

-----------------------------------------------------------------------------
(* A tree: each folder's subfolders and files.  FilterConfig is a least     *)
(* size here.                                                               *)
SumOver(f, S) == LET order == SetToSeq(S) IN Sum([i \in 1 .. Len(order) |-> f[order[i]]])
SizeOf(files) == SumOver([f \in files |-> f.size], files)
Matching(tree, d, least) == {f \in tree[d].files : f.size >= least}

Total(tree, d, least) ==
    LET total[n \in DOMAIN tree] == SizeOf(Matching(tree, n, least)) + SumOver(total, tree[n].dirs)
    IN  total[d]

(* The id of what is no folder.                                             *)
NoId == <<>>
ItemOf(kind, id, name, size) == [kind |-> kind, id |-> id, name |-> name, size |-> size]

(* What of folder d gets a rect: the files that would get less than 4 px²   *)
(* are one item.                                                            *)
Large(tree, d, content, least) ==
    LET total == Total(tree, d, least)
    IN  {f \in Matching(tree, d, least) : f.size * Area(content) >= 4 * Unit * Unit * total}

Items(tree, d, content, least) ==
    LET dirs == {c \in tree[d].dirs : Total(tree, c, least) > 0}
        large == Large(tree, d, content, least)
        rest == SizeOf(Matching(tree, d, least) \ large)
    IN  BySize(SetToSeq({ItemOf("Dir", c, "", Total(tree, c, least)) : c \in dirs})
                 \o SetToSeq({ItemOf("File", NoId, f.name, f.size) : f \in large})
                 \o (IF rest > 0 THEN <<ItemOf("OtherFiles", NoId, "(other files)", rest)>> ELSE <<>>))

(* An item's rect, and what is in it (`within`).  Mutant: a container in    *)
(* which nothing is drawn stays one.                                        *)
OpenedAnyhow(rect, within) == <<[rect EXCEPT !.kind = "Container"]>> \o within
Opened(rect, within) ==
    IF within = <<>> THEN <<rect>> ELSE <<[rect EXCEPT !.kind = "Container"]>> \o within

(* A place for a folder's contents: a box, below its header.                *)
Places(tree) == [dir : DOMAIN tree, box : Boxes, header : Int, depth : Nat]
Place(dir, b, header, depth) == [dir |-> dir, box |-> b, header |-> header, depth |-> depth]
Content(b, header) == Box(b.x, b.y + header, b.w, b.h - header)

RectOf(p, item, b) ==
    [kind |-> item.kind, id |-> item.id, parent |-> p.dir, name |-> item.name,
     size |-> item.size, depth |-> p.depth, box |-> b]

Opens(rect, config) ==
    /\ rect.kind = "Dir" /\ rect.depth + 1 < config.depth
    /\ rect.box.w >= MinNest /\ rect.box.h >= MinNest

Drawable(b) == b.w >= MinDrawn /\ b.h >= MinDrawn

(* What is drawn of an item, with what is in each place (`node`).           *)
DrawnOf(config, rect, node) ==
    IF ~Drawable(rect.box) THEN <<>>
    ELSE IF Opens(rect, config)
    THEN Opened(rect, node[Place(rect.id, rect.box, HeaderHeight(rect.box), rect.depth + 1)])
    ELSE <<rect>>

RectsOf(config, p, items, boxes, node) ==
    FlattenSeq([k \in 1 .. Len(boxes) |-> DrawnOf(config, RectOf(p, items[k], boxes[k]), node)])

NodeRects(tree, config, p, node) ==
    LET content == Content(p.box, p.header)
        items == Items(tree, p.dir, content, config.least)
        sizes == [i \in 1 .. Len(items) |-> items[i].size]
    IN  IF content.w < MinContent \/ content.h < MinContent THEN <<>>
        ELSE RectsOf(config, p, items, Squarify(sizes, content), node)

(* layout_node: the rects of a folder's items and of all within them.       *)
LayoutNode(tree, config) ==
    LET node[p \in Places(tree)] == NodeRects(tree, config, p, node)
    IN  node

(* compute_layout: config has the levels shown and the filter.              *)
ComputeLayout(tree, root, w, h, config) ==
    IF root \in DOMAIN tree THEN LayoutNode(tree, config)[Place(root, Box(0, 0, w, h), 0, 0)] ELSE <<>>

-----------------------------------------------------------------------------
(* RectKind::is_dir                                                         *)
IsDir(r) == r.kind \in {"Container", "Dir"}

(* What a layout should be, of a view [root, w, h, config].                 *)
ContentOf(rects, view, parent) ==
    IF parent = view.root THEN Box(0, 0, view.w, view.h)
    ELSE LET b == rects[CHOOSE i \in 1 .. Len(rects) : rects[i].id = parent].box
         IN  Content(b, HeaderHeight(b))

Inside(b, c) == b.x >= c.x /\ b.y >= c.y /\ b.x + b.w <= c.x + c.w /\ b.y + b.h <= c.y + c.h
Apart(b, c) == b.x + b.w <= c.x \/ c.x + c.w <= b.x \/ b.y + b.h <= c.y \/ c.y + c.h <= b.y
Abs(n) == IF n < 0 THEN -n ELSE n

(* A level's rects lie in their container below its header, apart from each *)
(* other, and each has the share of its area that its size has of what is   *)
(* shown there, to the rounding of its sides (squarify).                    *)
Tiles(tree, view, rects) ==
    \A i \in 1 .. Len(rects) :
        LET r == rects[i]
            content == ContentOf(rects, view, r.parent)
            total == Total(tree, r.parent, view.config.least)
        IN  /\ Inside(r.box, content)
            /\ \A j \in 1 .. i - 1 : rects[j].parent = r.parent => Apart(r.box, rects[j].box)
            /\ Abs(Area(r.box) * total - r.size * Area(content)) <= 2 * (content.w + content.h) * total

(* Each container is drawn with something in it, right behind it and before *)
(* anything beside it: never an empty dark box, and what a page draws or    *)
(* hits last is on top.  No folder is drawn twice, nor the root within      *)
(* itself, and a rect's depth is how many containers it is in (layout_node).*)
Nested(view, rects) ==
    \A i \in 1 .. Len(rects) :
        /\ rects[i].kind = "Container" <=> i < Len(rects) /\ IsDir(rects[i])
                                             /\ rects[i + 1].parent = rects[i].id
        /\ \/ rects[i].parent = view.root /\ rects[i].depth = 0
           \/ \E j \in 1 .. i - 1 :
                /\ rects[j].id = rects[i].parent /\ rects[j].kind = "Container"
                /\ rects[i].depth = rects[j].depth + 1
                /\ \A k \in j + 1 .. i : Inside(rects[k].box, rects[j].box)
        /\ rects[i].depth < view.config.depth
        /\ IsDir(rects[i]) =>
             rects[i].id # view.root /\ \A j \in 1 .. i - 1 : ~(IsDir(rects[j]) /\ rects[j].id = rects[i].id)
=============================================================================
