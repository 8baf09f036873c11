------------------------------ MODULE MC_Visit ------------------------------
(***************************************************************************)
(* A visit to the program, for TLC: the picker's list, the scan of a volume *)
(* picked from it, and the treemap of what is found, on the page; or a scan *)
(* for the command line.                                                    *)
(*                                                                         *)
(* What is behind a visit stays as it is, or goes back to how it began: the *)
(* list once a volume is picked, the heap of the command line on the page.  *)
(* On the page the folders come in one order (the command line has all),    *)
(* and of the worlds, one is played with: its layouts come while it is      *)
(* still scanned, and are drawn, pointed at and clicked on.  Of the others  *)
(* each is laid out once in every view there is.                            *)
(***************************************************************************)
EXTENDS Volumes, Cli, Canvas

CONSTANTS
    MaxMoves    \* bound: the changes of view, and rescans

VARIABLES
    stage,      \* "picker", "cli" or "page"
    wanted,     \* the server's ViewConfig of the page: [root, w, h, config]
    shown,      \* what the last layout was of, [changed, view, done], one at most
    moves

vars == <<volumesVars, cliVars, canvasVars, stage, wanted, shown, moves>>

-----------------------------------------------------------------------------
(* The worlds that are walked.                                              *)
Item(kind, dev, ino, list) ==
    [kind |-> kind, dev |-> dev, ino |-> ino, list |-> list, size |-> 0, links |-> 1,
     here |-> TRUE, opens |-> "ok", pseudo |-> FALSE, unique |-> TRUE]
Folder(dev, ino, list) == Item("dir", dev, ino, list)
Plain(dev, ino, size, links) == [Item("file", dev, ino, <<>>) EXCEPT !.size = size, !.links = links]

Named(name, n) ==
    [name |-> name, self |-> n, leads |-> n, mnt |-> 0, trigger |-> FALSE, firmlink |-> FALSE,
     flagged |-> TRUE, typed |-> TRUE, looks |-> "ok", tag |-> "none"]
Mounted(name, n, root, mnt) == [Named(name, n) EXCEPT !.leads = root, !.mnt = mnt]

World(platform, volume, cross, nodes) ==
    [platform |-> platform, volume |-> volume, cross |-> cross, mountIds |-> FALSE, root |-> 1,
     mnt |-> 0, mounts |-> {}, nodes |-> nodes]

(* A disk with hard links, bind mounts of a folder and of all of it, /proc, *)
(* another disk whose inodes are the same, and an automount trigger.        *)
Linux(cross, mountIds, size) ==
    [World("linux", "/", cross, <<
       Folder(1, 1, <<Named("f", 2), Mounted("b", 6, 3, 5), Named("d", 3), Mounted("p", 4, 5, 9),
                      Mounted("m", 7, 8, 2), [Named("a", 9) EXCEPT !.leads = 10, !.trigger = TRUE],
                      [Named("o", 11) EXCEPT !.typed = FALSE]>>),
       Plain(1, 2, size, 2),
       Folder(1, 3, <<Named("g", 2), Mounted("r", 14, 1, 6), [Named("h", 12) EXCEPT !.typed = FALSE],
                      Named("x", 13)>>),
       Folder(1, 4, <<>>),
       [Folder(9, 1, <<Named("k", 15)>>) EXCEPT !.pseudo = TRUE],
       Folder(1, 6, <<>>),
       Folder(1, 7, <<>>),
       Folder(2, 1, <<Named("i", 16)>>),
       Folder(1, 9, <<>>),
       Folder(3, 1, <<Named("n", 17)>>),
       Item("other", 1, 11, <<>>),
       Plain(1, 12, 1, 1),
       [Folder(1, 13, <<>>) EXCEPT !.opens = "sealed"],
       Folder(1, 14, <<>>),
       [Plain(9, 2, 9, 1) EXCEPT !.pseudo = TRUE],
       Plain(2, 2, 2, 2),
       Plain(3, 2, 3, 1),
       Plain(1, 18, 5, 1)>>)
     EXCEPT !.mountIds = mountIds, !.mnt = 1,
            !.mounts = {[id |-> 1, dev |-> 1, pseudo |-> FALSE], [id |-> 9, dev |-> 9, pseudo |-> TRUE]}]

(* The same with an entry that can't be looked at.                          *)
Unreadable(w) == [w EXCEPT !.nodes[1].list = Append(@, [Named("e", 18) EXCEPT !.looks = "fails"])]

(* A system volume with a firmlink into the data volume mounted in it, a    *)
(* share whose listings have no flags, and a cloud file that isn't here.    *)
MacOS(cross, size) ==
    World("macos", "/", cross, <<
       Folder(1, 9, <<[Named("Users", 2) EXCEPT !.leads = 5, !.firmlink = TRUE],
                      Mounted("Data", 3, 6, 1), [Mounted("home", 4, 10, 1) EXCEPT !.trigger = TRUE],
                      Mounted("share", 11, 12, 1)>>),
       Folder(1, 1, <<>>),
       Folder(1, 2, <<>>),
       Folder(1, 4, <<>>),
       Folder(1, 5, <<Named("u", 7), Named("cloud", 8), Named("v", 9)>>),
       Folder(1, 6, <<Named("w", 9), Named("Users", 5)>>),
       Plain(1, 7, size, 1),
       [Plain(1, 8, 5, 1) EXCEPT !.here = FALSE],
       Plain(1, 3, 3, 2),
       Folder(3, 1, <<>>),
       Folder(1, 11, <<>>),
       Folder(5, 1, <<[Named("s", 13) EXCEPT !.flagged = FALSE]>>),
       Plain(5, 7, 2, 2)>>)

(* An NTFS drive with hard links, a junction, a cloud folder and a DFS link *)
(* to a share that has no file ids.                                         *)
Windows(cross, size) ==
    World("windows", "C", cross, <<
       Folder(1, 5, <<Named("f", 2), Named("d", 3), [Named("j", 3) EXCEPT !.tag = "surrogate"],
                      [Named("c", 4) EXCEPT !.tag = "cloud"],
                      [Named("s", 6) EXCEPT !.leads = 7, !.tag = "dfs"]>>),
       Plain(1, 6, size, 2),
       Folder(1, 7, <<Named("g", 2), Named("e", 5)>>),
       Folder(1, 8, <<Named("o", 12)>>),
       Plain(1, 9, 1, 1),
       Folder(1, 10, <<>>),
       [Folder(2, 0, <<Named("a", 8), Named("b", 9)>>) EXCEPT !.unique = FALSE],
       [Folder(2, 0, <<Named("p", 10)>>) EXCEPT !.unique = FALSE],
       [Folder(2, 0, <<Named("q", 11)>>) EXCEPT !.unique = FALSE],
       [Plain(2, 0, 2, 1) EXCEPT !.unique = FALSE],
       [Plain(2, 0, 3, 1) EXCEPT !.unique = FALSE],
       [Plain(1, 11, 4, 1) EXCEPT !.here = FALSE]>>)

(* What no id tells, and what fails to say who it is.  Linux: one file      *)
(* mounted on another, one of another disk and a device on two more, an     *)
(* automount of a disk that is mounted too, and one with a mount of its own. *)
LinuxAgain(cross, mountIds) ==
    [World("linux", "/", cross, <<
       Folder(1, 1, <<Named("f", 2), Mounted("b", 3, 2, 5), Mounted("c", 4, 5, 6), Mounted("m", 6, 8, 7),
                      [Named("a", 7) EXCEPT !.leads = 8, !.trigger = TRUE],
                      [Mounted("d", 10, 11, 8) EXCEPT !.trigger = TRUE], Mounted("n", 12, 13, 9)>>),
       Plain(1, 2, 2, 1),
       Plain(1, 3, 1, 1),
       Plain(1, 4, 1, 1),
       Plain(2, 2, 3, 1),
       Folder(1, 6, <<>>),
       Folder(1, 7, <<>>),
       Folder(3, 1, <<Named("g", 9)>>),
       Plain(3, 2, 3, 1),
       Folder(4, 1, <<>>),
       Folder(5, 1, <<Named("h", 14)>>),
       Plain(1, 12, 1, 1),
       Item("other", 1, 13, <<>>),
       Plain(5, 2, 2, 1)>>)
     EXCEPT !.mountIds = mountIds, !.mnt = 1, !.mounts = {[id |-> 1, dev |-> 1, pseudo |-> FALSE]}]

(* macOS: a firmlink to a folder with another name, and a mount point.      *)
MacFails(cross) ==
    World("macos", "/", cross, <<
       Folder(1, 9, <<[Named("Users", 2) EXCEPT !.leads = 4, !.firmlink = TRUE, !.looks = "fails"],
                      Named("Data", 3), [Mounted("vol", 6, 7, 1) EXCEPT !.looks = "fails"]>>),
       Folder(1, 1, <<>>),
       Folder(1, 2, <<Named("Users", 4)>>),
       Folder(1, 3, <<Named("u", 5)>>),
       Plain(1, 5, 2, 1),
       Folder(1, 6, <<>>),
       Folder(3, 1, <<Named("v", 8)>>),
       Plain(3, 2, 3, 1)>>)

(* Windows: a cloud folder, and a link to a folder with another name.       *)
WindowsFails(cross) ==
    World("windows", "C", cross, <<
       Folder(1, 5, <<[Named("c", 2) EXCEPT !.tag = "cloud", !.looks = "fails"],
                      [Named("s", 3) EXCEPT !.leads = 4, !.tag = "dfs", !.looks = "fails"], Named("t", 4)>>),
       Folder(1, 6, <<Named("o", 5)>>),
       Folder(1, 7, <<>>),
       Folder(1, 8, <<Named("p", 6)>>),
       Plain(1, 9, 3, 1),
       Plain(1, 10, 2, 1)>>)

(* A share without ids: two names of a file, two links to a folder, and one *)
(* that fails.                                                              *)
NetworkShare(cross) ==
    LET noIds(n) == [n EXCEPT !.unique = FALSE]
    IN  World("windows", "C", cross, <<
       noIds(Folder(2, 0, <<Named("f", 2), Named("g", 2), [Named("a", 3) EXCEPT !.leads = 5, !.tag = "dfs"],
                            [Named("b", 4) EXCEPT !.leads = 5, !.tag = "dfs"],
                            [Named("d", 8) EXCEPT !.looks = "fails"]>>)),
       noIds(Plain(2, 0, 2, 2)),
       noIds(Folder(2, 0, <<>>)),
       noIds(Folder(2, 0, <<>>)),
       noIds(Folder(2, 0, <<Named("e", 6)>>)),
       noIds(Folder(2, 0, <<Named("h", 7)>>)),
       noIds(Plain(2, 0, 3, 1)),
       noIds(Folder(2, 0, <<Named("i", 9)>>)),
       noIds(Plain(2, 0, 1, 1))>>)

(* A drive with a folder of many small ones.                                *)
Small == World("windows", "C", FALSE, <<
    Folder(1, 5, <<Named("big", 2), Named("w", 3)>>),
    Plain(1, 6, 12, 1),
    Folder(1, 7, <<Named("a", 4), Named("b", 5), Named("c", 6), Named("d", 7), Named("e", 8)>>),
    Folder(1, 8, <<Named("f", 9)>>), Folder(1, 9, <<Named("j", 13)>>), Folder(1, 10, <<Named("g", 10)>>),
    Folder(1, 11, <<Named("h", 11)>>), Folder(1, 12, <<Named("i", 12)>>),
    Plain(1, 13, 1, 1), Plain(1, 14, 1, 1), Plain(1, 15, 1, 1), Plain(1, 16, 1, 1), Plain(1, 17, 1, 1)>>)

Played == Linux(TRUE, TRUE, 2)

MCWorlds ==
    {Linux(c, m, s) : c, m \in BOOLEAN, s \in 1 .. 2}
        \cup {MacOS(c, s) : c \in BOOLEAN, s \in 1 .. 2} \cup {Windows(c, s) : c \in BOOLEAN, s \in 1 .. 2}
        \cup {LinuxAgain(c, m) : c, m \in BOOLEAN}
        \cup UNION {{MacFails(c), WindowsFails(c), NetworkShare(c)} : c \in BOOLEAN}
        \cup {Unreadable(Linux(FALSE, TRUE, 1)), Small}

(* The machines whose volumes are listed: one with a share that is dead,    *)
(* under another of the same name, and a live one; one that mounts disks    *)
(* while it is asked; and one with an empty card reader.                    *)
Mount(point, fs) ==
    [point |-> point, fs |-> fs, device |-> TRUE, whole |-> TRUE, snap |-> FALSE, dir |-> TRUE,
     answers |-> "ok"]

MCMachines ==
    {[platform |-> "linux", first |-> 9, entries |-> {},
      mounts |-> <<
        [Mount("/proc", "proc") EXCEPT !.device = FALSE], [Mount("/", "rootfs") EXCEPT !.device = FALSE],
        [Mount("/nas", "nfs") EXCEPT !.answers = "never"], Mount("/share", "cifs"),
        [Mount("/snap/core", "squashfs") EXCEPT !.snap = TRUE],
        [Mount("/etc/hosts", "ext4") EXCEPT !.dir = FALSE],
        [Mount("/bind", "ext4") EXCEPT !.whole = FALSE],
        [Mount("/", "overlay") EXCEPT !.device = FALSE], Mount("/nas", "nfs")>>],
     [platform |-> "macos", first |-> 1,
      entries |-> {[path |-> "/", link |-> "absolute"], [path |-> "/Volumes/d", link |-> "none"],
                   [path |-> "/Volumes/e", link |-> "relative"], [path |-> "/Volumes/left", link |-> "none"]},
      mounts |-> <<Mount("/", "apfs"), Mount("/Volumes/d", "apfs"), Mount("/Volumes/e", "apfs")>>],
     [platform |-> "windows", first |-> 3, entries |-> {},
      mounts |-> <<Mount("C", "fixed"), [Mount("D", "removable") EXCEPT !.answers = "fails"],
                   Mount("Z", "remote")>>]}

MCPoints == {[x |-> 4, y |-> 2], [x |-> 30, y |-> 20], [x |-> 60, y |-> 30]}

View(root, w, h, depth, least) ==
    [root |-> root, w |-> w, h |-> h, config |-> [depth |-> depth, least |-> least]]
FirstView(w) == View(Start(w).id, 64, 32, 3, 0)
Sides == {<<64, 32>>, <<24, 40>>, <<47, 64>>, <<27, 8>>}
Views(w) == {View(n, s[1], s[2], d, l) : n \in DOMAIN TreeOf(sent), s \in Sides, d \in 1 .. 3, l \in {0, 2}}

-----------------------------------------------------------------------------
First == CHOOSE w \in Worlds : w.platform = "linux"

VolumesQuiet(m) ==
    /\ machine = m /\ mounted = m.first
    /\ probing = {} /\ threads = {} /\ lists = [l \in Request |-> NoList] /\ waiting = {} /\ grid = {}

Init ==
    /\ \/ stage = "picker" /\ VolumesInit /\ CliInit /\ world = First /\ ~listFiles
       \/ stage = "cli" /\ VolumesQuiet(CHOOSE m \in Machines : TRUE) /\ CliInit
    /\ CanvasInit
    /\ wanted = FirstView(First) /\ shown = <<>> /\ moves = 0

Lists ==
    /\ stage = "picker" /\ VolumesNext
    /\ UNCHANGED <<cliVars, canvasVars, stage, wanted, shown, moves>>

(* A volume is picked from the grid once no list is on its way.             *)
Pick(w) ==
    /\ stage = "picker"
    /\ \A l \in Request : lists[l].pc \in {"none", "done"}
    /\ w.platform = machine.platform /\ w.volume \in grid
    /\ stage' = "page"
    /\ world' = w /\ queue' = {Start(w)} /\ dirsSeen' = {Start(w).id}
    /\ wanted' = FirstView(w)
    /\ \E m \in {CHOOSE x \in Machines : TRUE} :
         /\ machine' = m /\ mounted' = m.first
         /\ probing' = {} /\ threads' = {} /\ lists' = [l \in Request |-> NoList]
         /\ waiting' = {} /\ grid' = {}
    /\ UNCHANGED <<filesSeen, sent, troubled, listFiles, heap, printed, canvasVars, shown, moves>>

CommandLine ==
    /\ stage = "cli" /\ CliNext
    /\ UNCHANGED <<volumesVars, canvasVars, stage, wanted, shown, moves>>

Scans ==
    /\ stage = "page" /\ ~Walked
    /\ \E job \in {CHOOSE j \in queue : TRUE} : OpenFails(job) \/ ReadDir(job)
    /\ UNCHANGED <<volumesVars, listFiles, heap, printed, canvasVars, stage, wanted, shown, moves>>

(* The server's update_tab: a layout that would show what the last one did  *)
(* isn't sent.                                                              *)
KeyOf(view) == [changed |-> Cardinality(sent), view |-> view, done |-> Walked]
Answers(view) ==
    /\ stage = "page" /\ sent # {} /\ shown # <<KeyOf(view)>>
    /\ HandleLayout(ComputeLayout(TreeOf(sent), view.root, view.w, view.h, view.config), Walked)
    /\ shown' = <<KeyOf(view)>>
    /\ UNCHANGED <<volumesVars, cliVars, stage, moves>>

Layouts ==
    /\ world # Played => Walked
    /\ ~Walked => shown = <<>>
    /\ Answers(wanted) /\ UNCHANGED wanted

Surveys ==
    /\ world # Played /\ Walked /\ shown = <<KeyOf(FirstView(world))>>
    /\ \E v \in Views(world) : Answers(v) /\ wanted' = v

Idle == UNCHANGED <<volumesVars, cliVars, stage, shown>>
Playing == stage = "page" /\ world = Played
Moves == Playing /\ moves < MaxMoves /\ moves' = moves + 1

Points ==
    /\ Playing
    /\ (\E p \in Point : MouseMove(p)) \/ MouseLeave
    /\ Idle /\ UNCHANGED <<wanted, moves>>

Draws == Playing /\ Tick /\ Idle /\ UNCHANGED <<wanted, moves>>

Breadcrumb(root) == IF root = Start(world).id THEN <<root>> ELSE <<Start(world).id, root>>

Navigates ==
    /\ Moves /\ BeginNavigation
    /\ \E id \in UNION {ClickTargets(p) : p \in Point}
               \cup (IF shown = <<>> THEN {} ELSE BreadcrumbTargets(Breadcrumb(shown[1].view.root))) :
         wanted' = [wanted EXCEPT !.root = id]
    /\ Idle

Filters ==
    /\ Moves /\ wanted' = [wanted EXCEPT !.config.least = 2 - @]
    /\ Idle /\ UNCHANGED canvasVars

Resizes ==
    /\ Moves /\ Resize /\ wanted' = [wanted EXCEPT !.w = wanted.h, !.h = wanted.w]
    /\ Idle

Rescans ==
    /\ Moves /\ Walked /\ ScanStart
    /\ queue' = {Start(world)} /\ dirsSeen' = {Start(world).id}
    /\ filesSeen' = {} /\ sent' = {} /\ troubled' = FALSE
    /\ wanted' = [wanted EXCEPT !.root = Start(world).id] /\ shown' = <<>>
    /\ UNCHANGED <<volumesVars, world, listFiles, heap, printed, stage>>

Next ==
    \/ Lists \/ (\E w \in Worlds : Pick(w)) \/ CommandLine \/ Scans
    \/ Layouts \/ Surveys \/ Points \/ Draws \/ Navigates \/ Filters \/ Resizes \/ Rescans

Spec == Init /\ [][Next]_vars /\ \A l \in Request : WF_volumesVars(ListStep(l))

-----------------------------------------------------------------------------
(* What the page is sent of a tree is a treemap of it, in any view: on each *)
(* level the rects tile their container in proportion to their sizes, and   *)
(* no container is empty or drawn over what is in it (layout_node,          *)
(* squarify).                                                               *)
LayoutSound ==
    shown # <<>> =>
        /\ shown[1].changed = Cardinality(sent) => Tiles(TreeOf(sent), shown[1].view, rects)
        /\ Nested(shown[1].view, rects)
=============================================================================
