----------------------------- MODULE Page_proofs -----------------------------
(***************************************************************************)
(* Proof that what the toolbar of module Page shows reaches the server, for *)
(* every number of losses, edits and scans and any folders and settings.    *)
(*                                                                          *)
(* SettingsReach speaks of the moment nothing is on its way.  The invariant *)
(* says of every moment what the server will have once the messages on      *)
(* their way are in, which is what the last of each kind says.              *)
(***************************************************************************)
EXTENDS Page, SequenceTheorems, TLAPS

PageMessage ==
    [kind : {"Depth", "Filter"}, value : Setting]
        \cup [kind : {"Viewport"}, value : {TRUE}]
        \cup [kind : {"Navigate"}, value : Folder]

Connection ==
    [kind : {"some"}, depth : Setting, filter : Setting, viewport : BOOLEAN,
     folder : Folder, scan : Nat]

ServerState ==
    [phase : {"AwaitingPath", "AwaitingStart", "Running", "Done"}, scans : Nat, tree : Nat,
     rooted : BOOLEAN, reachable : BOOLEAN]

(* A server that has `now` has `value` once the messages q are in.          *)
Settles(q, kind, now, value) ==
    \/ /\ now = value
       /\ \A j \in 1 .. Len(q) : q[j].kind # kind
    \/ \E i \in 1 .. Len(q) :
          /\ q[i].kind = kind /\ q[i].value = value
          /\ \A j \in 1 .. Len(q) : j > i => q[j].kind # kind

PageType ==
    /\ ws \in {"none", "connecting", "open"}
    /\ retry \in BOOLEAN
    /\ toolbar \in [depth : Setting, filter : Setting]
    /\ filter_timer \in BOOLEAN
    /\ up \in Seq(PageMessage)
    /\ conn = NoConn \/ conn \in Connection
    /\ server \in ServerState

(* A page that waits to connect again has no socket; the server's end of a  *)
(* connection is there only while the page's is open; and what is on its    *)
(* way is on its way to a server.                                           *)
Attached ==
    /\ retry => ws = "none"
    /\ conn # NoConn => ws = "open"
    /\ conn = NoConn => up = <<>>

Settling ==
    conn # NoConn =>
        /\ Settles(up, "Depth", conn.depth, toolbar.depth)
        /\ filter_timer \/ Settles(up, "Filter", conn.filter, toolbar.filter)
        /\ Settles(up, "Viewport", conn.viewport, TRUE)

PageInv == PageType /\ Attached /\ Settling

-----------------------------------------------------------------------------
(* What settles, and how a message sent or taken changes it.                *)

LEMMA SettlesNone ==
    ASSUME NEW kind, NEW now, NEW value
    PROVE  Settles(<<>>, kind, now, value) <=> now = value
  BY DEF Settles

(* A message sent settles its own kind, and no other.                       *)
LEMMA SettlesSend ==
    ASSUME NEW q \in Seq(PageMessage), NEW m \in PageMessage,
           NEW kind, NEW now, NEW value,
           IF m.kind = kind THEN m.value = value ELSE Settles(q, kind, now, value)
    PROVE  Settles(q \o <<m>>, kind, now, value)
  <1> DEFINE p == q \o <<m>>
  <1>1. /\ Len(q) \in Nat /\ Len(p) = Len(q) + 1
        /\ \A j \in 1 .. Len(q) : p[j] = q[j]
        /\ p[Len(q) + 1] = m
    BY Z3
  <1> SUFFICES Settles(p, kind, now, value)
    OBVIOUS
  <1> HIDE DEF p
  <1>2. CASE m.kind = kind
    BY <1>1, <1>2 DEF Settles
  <1>3. CASE m.kind # kind
    <2>1. CASE now = value /\ \A j \in 1 .. Len(q) : q[j].kind # kind
      BY <1>1, <1>3, <2>1 DEF Settles
    <2>2. CASE \E i \in 1 .. Len(q) :
                  /\ q[i].kind = kind /\ q[i].value = value
                  /\ \A j \in 1 .. Len(q) : j > i => q[j].kind # kind
      <3>1. PICK i \in 1 .. Len(q) :
                  /\ q[i].kind = kind /\ q[i].value = value
                  /\ \A j \in 1 .. Len(q) : j > i => q[j].kind # kind
        BY <2>2
      <3>2. /\ i \in 1 .. Len(p) /\ p[i].kind = kind /\ p[i].value = value
            /\ \A j \in 1 .. Len(p) : j > i => p[j].kind # kind
        BY <1>1, <1>3, <3>1
      <3>3. QED BY <3>2 DEF Settles
    <2>3. QED BY <1>3, <2>1, <2>2 DEF Settles
  <1>4. QED BY <1>2, <1>3

(* The server that takes the first message has then what it says.           *)
LEMMA SettlesTake ==
    ASSUME NEW q \in Seq(PageMessage), q # <<>>,
           NEW kind, NEW now, NEW value, Settles(q, kind, now, value)
    PROVE  Settles(Tail(q), kind, IF Head(q).kind = kind THEN Head(q).value ELSE now, value)
  <1> DEFINE p == Tail(q)
             then == IF Head(q).kind = kind THEN Head(q).value ELSE now
  <1>1. /\ Len(q) \in Nat /\ Len(q) > 0 /\ Len(p) = Len(q) - 1
        /\ \A j \in 1 .. Len(p) : p[j] = q[j + 1]
        /\ Head(q) = q[1]
    BY HeadTailProperties, EmptySeq
  <1> SUFFICES Settles(p, kind, then, value)
    OBVIOUS
  <1> HIDE DEF p
  <1>2. CASE now = value /\ \A j \in 1 .. Len(q) : q[j].kind # kind
    BY <1>1, <1>2 DEF Settles
  <1>3. CASE \E i \in 1 .. Len(q) :
                  /\ q[i].kind = kind /\ q[i].value = value
                  /\ \A j \in 1 .. Len(q) : j > i => q[j].kind # kind
    <2>1. PICK i \in 1 .. Len(q) :
                  /\ q[i].kind = kind /\ q[i].value = value
                  /\ \A j \in 1 .. Len(q) : j > i => q[j].kind # kind
      BY <1>3
    <2>2. CASE i = 1
      BY <1>1, <2>1, <2>2 DEF Settles
    <2>3. CASE i > 1
      <3>1. /\ i - 1 \in 1 .. Len(p) /\ p[i - 1].kind = kind /\ p[i - 1].value = value
            /\ \A j \in 1 .. Len(p) : j > i - 1 => p[j].kind # kind
        BY <1>1, <2>1, <2>3
      <3>2. QED BY <3>1 DEF Settles
    <2>4. QED BY <1>1, <2>1, <2>2, <2>3
  <1>4. QED BY <1>2, <1>3 DEF Settles

-----------------------------------------------------------------------------
LEMMA PageInvInit == Init => PageInv
  <1> SUFFICES ASSUME Init PROVE PageInv
    OBVIOUS
  <1>1. server \in ServerState
    <2>1. server \in [phase : {"AwaitingPath", "AwaitingStart"}, scans : {0}, tree : {0},
                      rooted : {FALSE}, reachable : {TRUE}]
      BY DEF Init
    <2>2. /\ server = [phase |-> server.phase, scans |-> server.scans, tree |-> server.tree,
                       rooted |-> server.rooted, reachable |-> server.reachable]
          /\ server.phase \in {"AwaitingPath", "AwaitingStart"}
          /\ server.scans = 0 /\ server.tree = 0
          /\ server.rooted = FALSE /\ server.reachable = TRUE
      BY <2>1
    <2>3. server.rooted \in BOOLEAN /\ server.reachable \in BOOLEAN
      BY <2>2, Zenon
    <2>4. server.scans \in Nat /\ server.tree \in Nat
      BY <2>2
    <2>5. QED BY <2>2, <2>3, <2>4, Zenon DEF ServerState
  <1>2. PageType
    <2>1. up = <<>> /\ conn = NoConn /\ ws = "connecting" /\ retry = FALSE
          /\ filter_timer = FALSE /\ toolbar \in [depth : Setting, filter : Setting]
      BY DEF Init
    <2>2. up \in Seq(PageMessage)
      BY <2>1
    <2>3. QED BY <1>1, <2>1, <2>2, Zenon DEF PageType
  <1>3. Attached /\ Settling
    BY DEF Init, Attached, Settling
  <1>4. QED BY <1>2, <1>3 DEF PageInv

(* The steps that touch neither settings nor connection.                    *)
LEMMA SettingsUntouched ==
    ASSUME PageInv, UNCHANGED <<ws, retry, toolbar, filter_timer, up, conn>>,
           server' \in ServerState
    PROVE  PageInv'
  BY DEF PageInv, PageType, Attached, Settling, Settles, Connection, PageMessage

(* What a send leaves on its way.                                           *)
LEMMA SendOne ==
    ASSUME PageInv, NEW m \in PageMessage
    PROVE  /\ Sent(<<m>>) \in Seq(PageMessage)
           /\ conn = NoConn => Sent(<<m>>) = <<>>
           /\ conn # NoConn => Sent(<<m>>) = up \o <<m>>
  BY DEF PageInv, PageType, Attached, Sent

(* A send whose setting is as the toolbar has it then.                      *)
LEMMA SendKeeps ==
    ASSUME PageInv, NEW m \in PageMessage, up' = Sent(<<m>>),
           UNCHANGED <<ws, retry, conn, server>>,
           toolbar' \in [depth : Setting, filter : Setting], filter_timer' \in BOOLEAN,
           m.kind = "Depth" => m.value = toolbar'.depth,
           m.kind # "Depth" => toolbar'.depth = toolbar.depth,
           m.kind = "Filter" => m.value = toolbar'.filter,
           m.kind # "Filter" => filter_timer' = filter_timer /\ toolbar'.filter = toolbar.filter
    PROVE  PageInv'
  <1>1. PageType'
    BY SendOne DEF PageInv, PageType, ServerState, Connection
  <1>2. Attached'
    BY SendOne DEF PageInv, Attached
  <1>3. ASSUME conn # NoConn
        PROVE  /\ Settles(up', "Depth", conn.depth, toolbar'.depth)
               /\ filter_timer' \/ Settles(up', "Filter", conn.filter, toolbar'.filter)
               /\ Settles(up', "Viewport", conn.viewport, TRUE)
    <2>1. up \in Seq(PageMessage) /\ up' = up \o <<m>>
      BY <1>3, SendOne DEF PageInv, PageType
    <2>2. Settles(up', "Depth", conn.depth, toolbar'.depth)
      <3>1. IF m.kind = "Depth" THEN m.value = toolbar'.depth
            ELSE Settles(up, "Depth", conn.depth, toolbar'.depth)
        BY <1>3 DEF PageInv, Settling
      <3>2. QED BY <2>1, <3>1, SettlesSend
    <2>3. filter_timer' \/ Settles(up', "Filter", conn.filter, toolbar'.filter)
      <3>1. filter_timer' \/ IF m.kind = "Filter" THEN m.value = toolbar'.filter
                             ELSE Settles(up, "Filter", conn.filter, toolbar'.filter)
        BY <1>3 DEF PageInv, Settling
      <3>2. QED BY <2>1, <3>1, SettlesSend
    <2>4. Settles(up', "Viewport", conn.viewport, TRUE)
      <3>1. IF m.kind = "Viewport" THEN m.value = TRUE
            ELSE Settles(up, "Viewport", conn.viewport, TRUE)
        BY <1>3 DEF PageInv, Settling, PageMessage
      <3>2. QED BY <2>1, <3>1, SettlesSend
    <2>5. QED BY <2>2, <2>3, <2>4
  <1>4. Settling'
    BY <1>3 DEF Settling
  <1>5. QED BY <1>1, <1>2, <1>4 DEF PageInv

-----------------------------------------------------------------------------
LEMMA PageInvSession == ASSUME PageInv, Session PROVE PageInv'
  <1>1. CASE Connect
    <2>1. conn = NoConn
      BY <1>1 DEF PageInv, Attached, Connect
    <2>2. QED BY <1>1, <2>1 DEF PageInv, PageType, Attached, Settling, Connect, serverVars,
                               toolbarVars
  <1>2. CASE HandleOpen
    <2> DEFINE d == Message("Depth", toolbar.depth)
               f == Message("Filter", toolbar.filter)
               v == Message("Viewport", TRUE)
    <2>1. d \in PageMessage /\ f \in PageMessage /\ v \in PageMessage
      BY DEF PageInv, PageType, Message, PageMessage
    <2>2. /\ up' = <<d, f, v>> /\ toolbar' = toolbar /\ ws' = "open"
          /\ filter_timer' = FALSE /\ retry' = retry /\ server' = server
          /\ conn' = NewConn(server.tree) /\ ws = "connecting"
      BY <1>2 DEF HandleOpen, toolbarVars
    <2>3. conn' \in Connection /\ conn' # NoConn
      BY <2>2, PageAssumption DEF NewConn, NoConn, Connection, PageInv, PageType, ServerState
    <2>4. up' \in Seq(PageMessage)
      <3> HIDE DEF d, f, v
      <3>1. QED BY <2>1, <2>2
    <2>5. PageType'
      BY <2>2, <2>3, <2>4 DEF PageInv, PageType, ServerState
    <2>6. Attached'
      BY <2>2, <2>3 DEF PageInv, Attached
    <2>7. /\ Settles(up', "Depth", conn'.depth, toolbar'.depth)
          /\ Settles(up', "Filter", conn'.filter, toolbar'.filter)
          /\ Settles(up', "Viewport", conn'.viewport, TRUE)
      BY <2>2 DEF Settles, Message
    <2>8. QED BY <2>5, <2>6, <2>7 DEF PageInv, Settling
  <1>3. CASE HandleClose
    <2>1. conn = NoConn
      BY <1>3 DEF PageInv, Attached, HandleClose, Closing
    <2>2. ws' = "none" /\ retry' \in BOOLEAN /\ UNCHANGED <<toolbar, filter_timer, up, conn, server>>
      BY <1>3 DEF HandleClose, toolbarVars, serverVars, PageInv, PageType
    <2>3. QED BY <2>1, <2>2 DEF PageInv, PageType, Attached, Settling
  <1>4. CASE ScanStart
    <2>1. Message("Viewport", TRUE) \in PageMessage
      BY DEF Message, PageMessage
    <2>2. QED BY <1>4, <2>1, SendKeeps DEF ScanStart, toolbarVars, serverVars, Message, PageInv,
                                         PageType
  <1>5. CASE PickerMode \/ AwaitingStart \/ Layout
    BY <1>5, SettingsUntouched DEF PickerMode, AwaitingStart, Layout, Shows, sessionVars,
         toolbarVars, serverVars, PageInv, PageType
  <1>6. QED BY <1>1, <1>2, <1>3, <1>4, <1>5 DEF Session

LEMMA PageInvUser == ASSUME PageInv, User PROVE PageInv'
  <1>1. ASSUME NEW value \in Setting, ChangeDepth(value) PROVE PageInv'
    <2>1. Message("Depth", value) \in PageMessage
      BY DEF Message, PageMessage
    <2>2. /\ toolbar' \in [depth : Setting, filter : Setting]
          /\ toolbar'.depth = value /\ toolbar'.filter = toolbar.filter
      BY <1>1 DEF ChangeDepth, PageInv, PageType
    <2>3. QED BY <1>1, <2>1, <2>2, SendKeeps DEF ChangeDepth, sessionVars, serverVars, Message,
                                               PageInv, PageType
  <1>2. ASSUME NEW value \in Setting, EditFilter(value) PROVE PageInv'
    <2>1. /\ toolbar' \in [depth : Setting, filter : Setting]
          /\ toolbar'.depth = toolbar.depth /\ filter_timer' = TRUE
          /\ UNCHANGED <<ws, retry, up, conn, server>>
      BY <1>2 DEF EditFilter, sessionVars, serverVars, PageInv, PageType
    <2>2. QED BY <2>1 DEF PageInv, PageType, Attached, Settling, Settles, Connection, PageMessage,
                         ServerState
  <1>3. ASSUME NEW folder \in Folder, Navigate(folder) PROVE PageInv'
    <2>1. Message("Navigate", folder) \in PageMessage
      BY DEF Message, PageMessage
    <2>2. QED BY <1>3, <2>1, SendKeeps DEF Navigate, sessionVars, toolbarVars, serverVars,
                                         Message, PageInv, PageType
  <1>4. CASE ClearFilter
    <2>1. Message("Filter", Default) \in PageMessage
      BY PageAssumption DEF Message, PageMessage
    <2>2. /\ toolbar' \in [depth : Setting, filter : Setting]
          /\ toolbar'.depth = toolbar.depth /\ toolbar'.filter = Default
      BY <1>4, PageAssumption DEF ClearFilter, PageInv, PageType
    <2>3. QED BY <1>4, <2>1, <2>2, SendKeeps DEF ClearFilter, sessionVars, serverVars, Message
  <1>5. CASE Change
    BY <1>5, SettingsUntouched DEF Change, sessionVars, toolbarVars, serverVars, PageInv, PageType
  <1>6. CASE PickPath
    <2>1. Message("Viewport", TRUE) \in PageMessage
      BY DEF Message, PageMessage
    <2>2. QED BY <1>6, <2>1, SendKeeps DEF PickPath, sessionVars, toolbarVars, serverVars, Message,
                                         PageInv, PageType
  <1>7. QED BY <1>1, <1>2, <1>3, <1>4, <1>5, <1>6 DEF User

LEMMA PageInvBrowser == ASSUME PageInv, Browser PROVE PageInv'
  <1>1. CASE FilterTimer
    <2>1. Message("Filter", toolbar.filter) \in PageMessage
      BY DEF Message, PageMessage, PageInv, PageType
    <2>2. QED BY <1>1, <2>1, SendKeeps DEF FilterTimer, sessionVars, serverVars, Message, PageInv,
                                         PageType
  <1>2. CASE ZoomEnds
    BY <1>2, SettingsUntouched DEF ZoomEnds, sessionVars, toolbarVars, serverVars, PageInv, PageType
  <1>3. QED BY <1>1, <1>2 DEF Browser

LEMMA PageInvServer == ASSUME PageInv, ServerSide PROVE PageInv'
  <1> USE DEF PageUnmoved, sessionVars, toolbarVars
  <1>1. CASE ServerReceives
    <2> DEFINE m == Head(up)
               After(kind, now) == IF m.kind = kind THEN m.value ELSE now
    <2>1. /\ conn \in Connection /\ conn # NoConn /\ up \in Seq(PageMessage) /\ up # <<>>
          /\ up' = Tail(up)
          /\ UNCHANGED <<ws, retry, toolbar, filter_timer, server>>
      BY <1>1 DEF ServerReceives, PageInv, PageType
    <2>2. m \in PageMessage /\ Tail(up) \in Seq(PageMessage)
      BY <2>1, HeadTailProperties
    <2>3. /\ conn' \in Connection
          /\ conn'.depth = After("Depth", conn.depth)
          /\ conn'.filter = After("Filter", conn.filter)
          /\ conn'.viewport = After("Viewport", conn.viewport)
      <3>1. m.kind \in {"Depth", "Filter", "Viewport", "Navigate"}
        BY <2>2 DEF PageMessage
      <3>2. CASE m.kind = "Depth"
        BY <1>1, <2>1, <2>2, <3>2 DEF ServerReceives, Connection, PageMessage
      <3>3. CASE m.kind = "Filter"
        BY <1>1, <2>1, <2>2, <3>3 DEF ServerReceives, Connection, PageMessage
      <3>4. CASE m.kind = "Viewport"
        BY <1>1, <2>1, <2>2, <3>4 DEF ServerReceives, Connection, PageMessage
      <3>5. CASE m.kind = "Navigate"
        BY <1>1, <2>1, <2>2, <3>5 DEF ServerReceives, Connection, PageMessage
      <3>6. QED BY <3>1, <3>2, <3>3, <3>4, <3>5
    <2> HIDE DEF m
    <2>4. /\ Settles(Tail(up), "Depth", After("Depth", conn.depth), toolbar.depth)
          /\ filter_timer \/ Settles(Tail(up), "Filter", After("Filter", conn.filter), toolbar.filter)
          /\ Settles(Tail(up), "Viewport", After("Viewport", conn.viewport), TRUE)
      BY <2>1, SettlesTake DEF PageInv, Settling, m
    <2> HIDE DEF After
    <2>5. conn' # NoConn
      BY <2>3 DEF Connection, NoConn
    <2>6. PageType'
      BY <2>1, <2>2, <2>3 DEF PageInv, PageType
    <2>7. Attached'
      BY <2>1, <2>5 DEF PageInv, Attached
    <2>8. Settling'
      BY <2>1, <2>3, <2>4 DEF Settling
    <2>9. QED BY <2>6, <2>7, <2>8 DEF PageInv
  <1>2. CASE ServerSends
    <2>1. /\ conn \in Connection /\ conn # NoConn
          /\ UNCHANGED <<ws, retry, toolbar, filter_timer, server, up>>
      BY <1>2 DEF ServerSends, PageInv, PageType
    <2>2. /\ conn' \in Connection /\ conn'.depth = conn.depth /\ conn'.filter = conn.filter
          /\ conn'.viewport = conn.viewport
      BY <1>2, <2>1, PageAssumption DEF ServerSends, Connection, PageInv, PageType, ServerState
    <2>3. conn' # NoConn
      BY <2>2 DEF Connection, NoConn
    <2>4. PageType' /\ Attached'
      BY <2>1, <2>2, <2>3 DEF PageInv, PageType, Attached
    <2>5. Settling'
      BY <2>1, <2>2 DEF PageInv, Settling, Settles
    <2>6. QED BY <2>4, <2>5 DEF PageInv
  <1>3. CASE NewScan \/ TreeReplaced \/ RootRead \/ ScanEnds \/ ScanFails \/ Unreachable
    <2>1. server \in ServerState
      BY DEF PageInv, PageType
    <2>2. UNCHANGED <<ws, retry, toolbar, filter_timer, up, conn>>
      BY <1>3 DEF NewScan, TreeReplaced, RootRead, ScanEnds, ScanFails, Unreachable
    <2>3. server' \in ServerState
      <3>1. CASE NewScan
        <4>1. PICK n \in Nat : server' = [server EXCEPT !.phase = "Running", !.scans = n]
          <5>1. server.scans + 1 \in Nat
            BY <2>1 DEF ServerState
          <5>2. server' = [server EXCEPT !.phase = "Running", !.scans = server.scans + 1]
            BY <3>1 DEF NewScan
          <5>3. QED BY <5>1, <5>2, Zenon
        <4>2. QED BY <2>1, <4>1 DEF ServerState
      <3>2. CASE TreeReplaced
        <4>1. PICK no \in BOOLEAN :
                 server' = [server EXCEPT !.tree = server.scans, !.rooted = no]
          BY <3>2, Zenon DEF TreeReplaced
        <4>2. QED BY <2>1, <4>1 DEF ServerState
      <3>6. CASE RootRead
        <4>1. PICK yes \in BOOLEAN : server' = [server EXCEPT !.rooted = yes]
          BY <3>6, Zenon DEF RootRead
        <4>2. QED BY <2>1, <4>1 DEF ServerState
      <3>3. CASE ScanEnds \/ ScanFails
        BY <2>1, <3>3 DEF ScanEnds, ScanFails, ServerState
      <3>4. CASE Unreachable
        <4>1. PICK now \in BOOLEAN : server' = [server EXCEPT !.reachable = now]
          BY <3>4, Zenon DEF Unreachable
        <4>2. QED BY <2>1, <4>1 DEF ServerState
      <3>5. QED BY <1>3, <3>1, <3>2, <3>3, <3>4, <3>6
    <2>4. QED BY <2>2, <2>3, SettingsUntouched
  <1>4. CASE Lose
    BY <1>4 DEF Lose, PageInv, PageType, Attached, Settling
  <1>5. QED BY <1>1, <1>2, <1>3, <1>4 DEF ServerSide

THEOREM PageInvStep == PageInv /\ [Next]_vars => PageInv'
  <1> SUFFICES ASSUME PageInv, [Next]_vars PROVE PageInv'
    OBVIOUS
  <1>1. CASE UNCHANGED vars
    BY <1>1, SettingsUntouched DEF vars, sessionVars, toolbarVars, serverVars, PageInv, PageType
  <1>2. QED BY <1>1, PageInvSession, PageInvUser, PageInvBrowser, PageInvServer DEF Next

-----------------------------------------------------------------------------
LEMMA PageInvReaches == PageInv => SettingsReach
  <1> SUFFICES ASSUME PageInv, conn # NoConn, up = <<>>
               PROVE  /\ conn.depth = toolbar.depth
                      /\ filter_timer \/ conn.filter = toolbar.filter
                      /\ conn.viewport
    BY DEF SettingsReach
  <1>1. /\ Settles(<<>>, "Depth", conn.depth, toolbar.depth)
        /\ filter_timer \/ Settles(<<>>, "Filter", conn.filter, toolbar.filter)
        /\ Settles(<<>>, "Viewport", conn.viewport, TRUE)
    BY DEF PageInv, Settling
  <1>2. conn.depth = toolbar.depth
    BY <1>1, SettlesNone
  <1>3. filter_timer \/ conn.filter = toolbar.filter
    BY <1>1, SettlesNone
  <1>4. conn.viewport = TRUE
    BY <1>1, SettlesNone, Zenon
  <1>5. QED BY <1>2, <1>3, <1>4, Zenon

(* What the toolbar shows and the viewport reach the server, however many   *)
(* connections are lost and whatever is typed meanwhile: once nothing is on *)
(* its way up the server's tab has them (handle_ws_open, send_filter_now).  *)
THEOREM PageSettingsReach == Spec => []SettingsReach
  <1>1. QED BY PageInvInit, PageInvStep, PageInvReaches, PTL DEF Spec
=============================================================================
