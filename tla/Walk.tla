-------------------------------- MODULE Walk --------------------------------
(***************************************************************************)
(* What each platform's walk takes of a volume: the read_dir of linux/,     *)
(* macos/ and windows/src/scan.rs, over the sink and the two visited sets   *)
(* they share (core/src/scan.rs).  WorkQueue and Scan have the workers and   *)
(* what becomes of errors and cancelled scans; here a folder is read in one  *)
(* step, and the folders in any order.                                      *)
(*                                                                         *)
(* A world is a volume, what is mounted on it, and how it is scanned.  Its  *)
(* nodes are folders and files.  An entry has a node of its own (`self`),   *)
(* and the node a lookup of its name comes to (`leads`): another one for a  *)
(* mount point, an automount trigger, a firmlink or a link.                 *)
(***************************************************************************)
EXTENDS Naturals, Sequences, FiniteSets, SequencesExt

CONSTANTS Worlds

VARIABLES
    world,      \* what is scanned
    queue,      \* the folders found and not read: [node, id, parent, mnt, path, unique]
    dirsSeen,   \* Shared::visited_dirs
    filesSeen,  \* Shared::visited_files
    sent,       \* the Dir events: [id, parent, files], and which node each is of (history)
    troubled    \* Shared::failed

walkVars == <<world, queue, dirsSeen, filesSeen, sent, troubled>>

Node(n) == world.nodes[n]
Root == Node(world.root)

-----------------------------------------------------------------------------
(* What an entry comes to.                                                  *)
Nothing == [take |-> "nothing"]
Failed(error) == [take |-> "failed", error |-> error]
NoLink == <<"no link">>
File(n, size, link) == [take |-> "file", node |-> n, size |-> size, link |-> link]
Subfolder(job) == [take |-> "dir", job |-> job]

(* is_left_out_quietly: no permission to look at it, or it has gone.        *)
Quiet(error) == error = "sealed"

(* node_id, told apart perfectly: a hash of the two.                        *)
NodeId(dev, ino) == <<"id", dev, ino>>
IdOf(n) == NodeId(Node(n).dev, Node(n).ino)

Job(n, id, parent, mnt, path, unique) ==
    [node |-> n, id |-> id, parent |-> parent, mnt |-> mnt, path |-> path, unique |-> unique]

-----------------------------------------------------------------------------
(* Linux: which filesystem an entry is on, by mount id where the kernel     *)
(* tells it.                                                                *)
Filesystem(n, mnt) == IF world.mountIds THEN mnt ELSE Node(n).dev

(* PseudoMounts::holds: what was mounted when the scan began.               *)
Pseudo(n, mnt) ==
    \E m \in world.mounts : m.pseudo /\ IF world.mountIds THEN m.id = mnt ELSE m.dev = Node(n).dev

(* statx sees the root of what is mounted, and of a trigger only itself.    *)
Stated(e) == IF e.trigger THEN e.self ELSE e.leads
MountOf(e, job) == IF e.mnt = 0 THEN job.mnt ELSE e.mnt

LeftOut(e, job) ==
    LET foreign == Filesystem(Stated(e), MountOf(e, job)) # Filesystem(world.root, world.mnt)
    IN  IF world.cross THEN foreign /\ Pseudo(Stated(e), MountOf(e, job)) ELSE foreign \/ e.trigger

(* The type is that of the entry itself, not of what is mounted on it; one  *)
(* the filesystem leaves unknown is asked for first.                        *)
LinuxEntry(job, e) ==
    LET n == Node(Stated(e))
        id == IdOf(Stated(e))
        kind == IF e.typed THEN Node(e.self).kind ELSE n.kind
    IN  IF kind = "other" /\ (e.typed \/ e.looks = "ok") THEN Nothing
        ELSE IF e.looks # "ok" THEN Failed(e.looks)
        ELSE IF kind = "file" THEN File(Stated(e), n.size, IF n.links > 1 THEN id ELSE NoLink)
        ELSE IF LeftOut(e, job) THEN Nothing
        ELSE Subfolder(Job(e.leads, id, job.id, MountOf(e, job), <<>>, TRUE))

-----------------------------------------------------------------------------
(* macOS: getattrlistbulk packs the attributes it returns in the order of   *)
(* their bits, group by group; parse_entry reads those whose bit is set.    *)
KernelOrder == <<"NAME", "DEVID", "OBJTYPE", "MODTIME", "FLAGS", "FILEID",
                 "MOUNTSTATUS", "LINKCOUNT", "DATALENGTH">>

ReadOrder == <<"NAME", "DEVID", "OBJTYPE", "MODTIME", "FLAGS", "FILEID",
               "MOUNTSTATUS", "LINKCOUNT", "DATALENGTH">>

DATALESS == 1
FIRMLINK == 2
TRIGGER == 2

(* The covered folder's attributes, or the firmlink's own.                  *)
AttributeOf(e, a) ==
    LET n == Node(e.self)
    IN  CASE a = "NAME" -> e.name
          [] a = "DEVID" -> n.dev
          [] a = "OBJTYPE" -> n.kind
          [] a = "MODTIME" -> 0
          [] a = "FLAGS" -> IF ~n.here THEN DATALESS ELSE IF e.firmlink THEN FIRMLINK ELSE 0
          [] a = "FILEID" -> n.ino
          [] a = "MOUNTSTATUS" -> IF e.trigger THEN TRIGGER ELSE IF e.mnt = 0 THEN 0 ELSE 1
          [] a = "LINKCOUNT" -> n.links
          [] a = "DATALENGTH" -> n.size

Returned(e) ==
    {"NAME", "DEVID", "OBJTYPE", "MODTIME", "FILEID"} \cup (IF e.flagged THEN {"FLAGS"} ELSE {})
        \cup IF Node(e.self).kind = "dir" THEN {"MOUNTSTATUS"} ELSE {"LINKCOUNT", "DATALENGTH"}

(* Which of those returned an attribute is, in an order.                    *)
PlaceOf(a, order, returned) ==
    LET upTo == CHOOSE i \in 1 .. Len(order) : order[i] = a
    IN  Cardinality({i \in 1 .. upTo : order[i] \in returned})

Packed(e) == [i \in 1 .. Cardinality(Returned(e)) |->
                AttributeOf(e, CHOOSE a \in Returned(e) : PlaceOf(a, KernelOrder, Returned(e)) = i)]

(* What parse_entry makes of an attribute: 0 when it isn't there.           *)
Parsed(e, a) == IF a \in Returned(e) THEN Packed(e)[PlaceOf(a, ReadOrder, Returned(e))] ELSE 0

(* dir_id and mount_point_id.  fstatat goes through to what is mounted, or  *)
(* led to, and mounts it.  Mutant: a mount point is taken for the folder it *)
(* covers.                                                                  *)
Covered(e) == <<NodeId(Parsed(e, "DEVID"), Parsed(e, "FILEID"))>>

MacDirId(e) ==
    IF Parsed(e, "MOUNTSTATUS") # 0
    THEN IF (~world.cross /\ Parsed(e, "MOUNTSTATUS") = TRIGGER) \/ e.looks # "ok"
            \/ (~world.cross /\ Node(e.leads).dev # Root.dev)
         THEN <<>>
         ELSE <<IdOf(e.leads)>>
    ELSE IF Parsed(e, "FLAGS") = FIRMLINK /\ e.looks = "ok"
         THEN <<IdOf(e.leads)>>
         ELSE <<NodeId(Parsed(e, "DEVID"), Parsed(e, "FILEID"))>>

MacEntry(job, e) ==
    LET id == NodeId(Parsed(e, "DEVID"), Parsed(e, "FILEID"))
    IN  IF ~world.cross /\ Parsed(e, "DEVID") # Root.dev THEN Nothing
        ELSE IF Parsed(e, "OBJTYPE") = "file"
        THEN File(e.self,
                  IF Parsed(e, "FLAGS") = DATALESS THEN 0 ELSE Parsed(e, "DATALENGTH"),
                  IF Parsed(e, "LINKCOUNT") > 1 THEN id ELSE NoLink)
        ELSE IF Parsed(e, "OBJTYPE") = "dir" /\ MacDirId(e) # <<>>
        THEN Subfolder(Job(e.leads, Head(MacDirId(e)), job.id, 0, <<>>, TRUE))
        ELSE Nothing

-----------------------------------------------------------------------------
(* Windows: a file id is one unless it is 0 (NoFileId stands for it, and    *)
(* for all ones), and only NTFS's tell files apart (`unique`).              *)
NoFileId == 0

(* Mutant: whatever id a listing gives.                                     *)
FolderIdListed(volume, ino, unique, path) == NodeId(volume, ino)

FolderId(volume, ino, unique, path) ==
    IF unique /\ ino # NoFileId THEN NodeId(volume, ino) ELSE <<"path", volume, path>>

(* open_child asks a folder who it is unless it is a plain one of a volume  *)
(* whose listed ids are real.                                               *)
OpenChild(job, e) ==
    LET path == Append(job.path, e.name)
        listed == [dev |-> Node(job.node).dev, ino |-> Node(e.self).ino]
        asked == ~(e.tag = "none" /\ job.unique)
        known == ~asked \/ e.looks = "ok"
        found == IF asked /\ known THEN [dev |-> Node(e.leads).dev, ino |-> Node(e.leads).ino] ELSE listed
        unique == IF found.dev = Node(job.node).dev THEN job.unique ELSE Node(e.leads).unique
    IN  IF ~world.cross /\ (~known \/ found.dev # Root.dev) THEN Nothing
        ELSE Subfolder(Job(e.leads, FolderId(found.dev, found.ino, unique, path), job.id, 0, path, unique))

(* Entry::kind.  Opening follows a DFS link; a surrogate is left alone.     *)
WindowsEntry(job, e) ==
    LET n == Node(e.self)
    IN  IF e.tag = "surrogate" THEN Nothing
        ELSE IF n.kind = "dir"
        THEN IF Node(e.leads).opens = "ok" THEN OpenChild(job, e) ELSE Failed(Node(e.leads).opens)
        ELSE File(e.self, IF n.here THEN n.size ELSE 0,
                  IF job.unique /\ n.ino # NoFileId THEN NodeId(n.dev, n.ino) ELSE NoLink)

-----------------------------------------------------------------------------
Entry(job, e) ==
    CASE world.platform = "linux" -> LinuxEntry(job, e)
      [] world.platform = "macos" -> MacEntry(job, e)
      [] world.platform = "windows" -> WindowsEntry(job, e)

(* DirSink::dir, DirSink::file and DirSink::entry_failed.  An empty file,   *)
(* or another name of one counted already, only dates its folder.           *)
Sink(acc, taken, name) ==
    CASE taken.take = "nothing" -> acc
      [] taken.take = "failed" -> [acc EXCEPT !.troubled = @ \/ ~Quiet(taken.error)]
      [] taken.take = "dir" ->
           [acc EXCEPT !.dirs = @ \cup {taken.job.id},
                       !.jobs = IF taken.job.id \in acc.dirs THEN @ ELSE @ \cup {taken.job}]
      [] taken.take = "file" ->
           [acc EXCEPT !.links = IF taken.link = NoLink THEN @ ELSE @ \cup {taken.link},
                       !.files = IF taken.link \in acc.links \/ taken.size = 0 THEN @
                                 ELSE @ \cup {[name |-> name, size |-> taken.size, node |-> taken.node]}]

ReadEntries(job) ==
    LET list == Node(job.node).list
        read[k \in 0 .. Len(list)] ==
            IF k = 0 THEN [dirs |-> dirsSeen, links |-> filesSeen, jobs |-> {}, files |-> {},
                           troubled |-> troubled]
            ELSE Sink(read[k - 1], Entry(job, list[k]), list[k].name)
    IN  read[Len(list)]

(* The root's job.                                                          *)
Start(w) ==
    LET r == w.nodes[w.root]
    IN  Job(w.root, IF w.platform = "windows" THEN FolderId(r.dev, r.ino, r.unique, <<>>) ELSE NodeId(r.dev, r.ino),
            <<>>, w.mnt, <<>>, r.unique)

WalkInit ==
    /\ world \in Worlds
    /\ queue = {Start(world)} /\ dirsSeen = {Start(world).id}
    /\ filesSeen = {} /\ sent = {} /\ troubled = FALSE

(* A folder a worker can't open is left out.                                *)
OpenFails(job) ==
    /\ Node(job.node).opens # "ok"
    /\ queue' = queue \ {job}
    /\ troubled' = (troubled \/ ~Quiet(Node(job.node).opens))
    /\ UNCHANGED <<world, dirsSeen, filesSeen, sent>>

ReadDir(job) ==
    /\ Node(job.node).opens = "ok"
    /\ \E read \in {ReadEntries(job)} :
         /\ queue' = (queue \ {job}) \cup read.jobs
         /\ dirsSeen' = read.dirs
         /\ filesSeen' = read.links
         /\ troubled' = read.troubled
         /\ sent' = sent \cup {[id |-> job.id, parent |-> job.parent, node |-> job.node,
                                files |-> read.files]}
    /\ UNCHANGED world

WalkNext == \E job \in queue : OpenFails(job) \/ ReadDir(job)
WalkSpec == WalkInit /\ [][WalkNext]_walkVars

Walked == queue = {}

-----------------------------------------------------------------------------
(* What the walks rely on: each world is as its platform keeps volumes.     *)
EntryType(n) ==
    [name : STRING, self : 1 .. n, leads : 1 .. n, mnt : Nat, trigger : BOOLEAN, firmlink : BOOLEAN,
     flagged : BOOLEAN, typed : BOOLEAN, looks : {"ok", "sealed", "fails"},
     tag : {"none", "surrogate", "cloud", "dfs"}]
NodeType(n) ==
    [kind : {"dir", "file", "other"}, dev : Nat, ino : Nat, list : Seq(EntryType(n)), size : Nat,
     links : Nat, here : BOOLEAN, opens : {"ok", "sealed", "fails"}, pseudo : BOOLEAN, unique : BOOLEAN]
WorldType(n) ==
    [platform : {"linux", "macos", "windows"}, volume : STRING, cross : BOOLEAN, mountIds : BOOLEAN,
     root : 1 .. n, mnt : Nat, mounts : SUBSET [id : Nat, dev : Nat, pseudo : BOOLEAN],
     nodes : Seq(NodeType(n))]

(* The ways from a folder to what it lists, and a node with one at most.    *)
Ways(w) == UNION {{[of |-> n, at |-> i, e |-> w.nodes[n].list[i]] : i \in 1 .. Len(w.nodes[n].list)} :
                      n \in 1 .. Len(w.nodes)}
OneWay(w, n) == \A x, y \in Ways(w) : x.e.leads = n /\ y.e.leads = n => x = y /\ n # w.root

(* What tells a node apart: its device and inode, but for the file ids that *)
(* Windows knows to tell nothing; and what tells a file counted already.    *)
Tells(w, n) == w.platform = "windows" => w.nodes[n].unique /\ w.nodes[n].ino # NoFileId
Unlinked(w, n) == IF w.platform = "windows" THEN ~Tells(w, n) ELSE w.nodes[n].links <= 1

(* A folder taken under the id of its entry, not of what the entry leads    *)
(* to: an automount trigger, and where asking what it leads to failed, a    *)
(* firmlink or a reparse point (read_dir, dir_id, open_child).              *)
ByListing(w, e) ==
    /\ e.leads # e.self
    /\ \/ w.platform = "linux" /\ e.trigger
       \/ w.platform = "macos" /\ e.firmlink /\ e.mnt = 0 /\ ~e.trigger /\ e.looks # "ok"
       \/ w.platform = "windows" /\ w.cross /\ w.nodes[e.self].kind = "dir" /\ e.looks # "ok"
Aliased(w, n) == \E x \in Ways(w) : ByListing(w, x.e) /\ x.e.leads = n

(* What statx sees is on a pseudo filesystem as the mount table, read when  *)
(* the scan begins, has it.  Of the names of a file with one link, all but  *)
(* one have it mounted on them; a device laid over a file has no length.    *)
LinuxKeeps(w) ==
    /\ \A x \in Ways(w) :
         /\ x.e.tag = "none" /\ (x.e.mnt # 0 => x.e.mnt # w.mnt)
         /\ w.mountIds /\ x.e.mnt # 0 =>
              (w.nodes[IF x.e.trigger THEN x.e.self ELSE x.e.leads].pseudo
                  <=> \E m \in w.mounts : m.pseudo /\ m.id = x.e.mnt)
         /\ x.e.trigger => w.nodes[x.e.self].kind = "dir"
         /\ x.e.mnt = 0 /\ ~x.e.trigger => x.e.leads = x.e.self
         /\ w.nodes[x.e.leads].kind = "other" => w.nodes[x.e.leads].size = 0
    /\ ~w.mountIds => \A n \in 1 .. Len(w.nodes) : w.nodes[n].dev # w.nodes[w.root].dev =>
                        (w.nodes[n].pseudo <=> \E m \in w.mounts : m.pseudo /\ m.dev = w.nodes[n].dev)

(* A listing is of one device, which firmlinks don't leave.                 *)
MacKeeps(w) ==
    /\ ~w.mountIds /\ \A n \in 1 .. Len(w.nodes) : ~w.nodes[n].pseudo
    /\ \A x \in Ways(w) :
         /\ x.e.tag = "none"
         /\ w.nodes[x.e.self].dev = w.nodes[x.of].dev
         /\ x.e.mnt = 0 /\ ~x.e.trigger /\ ~x.e.firmlink => x.e.leads = x.e.self
         /\ x.e.firmlink => /\ x.e.flagged /\ w.nodes[x.e.self].here
                            /\ w.nodes[x.e.leads].dev = w.nodes[x.e.self].dev

(* Only a reparse point leads elsewhere.  One that can't be asked is on its *)
(* folder's volume, which is what open_child takes it to be with --all: of  *)
(* a link to another volume that fails to say so, nothing is claimed.       *)
WindowsKeeps(w) ==
    /\ ~w.mountIds /\ \A n \in 1 .. Len(w.nodes) : ~w.nodes[n].pseudo /\ w.nodes[n].kind # "other"
    /\ \A m, n \in 1 .. Len(w.nodes) : w.nodes[m].dev = w.nodes[n].dev => w.nodes[m].unique = w.nodes[n].unique
    /\ \A x \in Ways(w) :
         /\ ~x.e.trigger /\ x.e.mnt = 0
         /\ w.nodes[x.e.self].dev = w.nodes[x.of].dev
         /\ x.e.tag = "none" => x.e.leads = x.e.self
         /\ ByListing(w, x.e) => w.nodes[x.e.leads].dev = w.nodes[x.of].dev
         /\ \A y \in Ways(w) : x.of = y.of /\ x.e.name = y.e.name => x = y

(* Ids are nodes' own, where they tell anything.  Nothing else comes to a   *)
(* trigger, a firmlink or a reparse point itself, which leads to one thing. *)
(* But for Linux, where a file may be mounted on one, only folders lead     *)
(* elsewhere.                                                               *)
Keeps(w) ==
    /\ w \in WorldType(Len(w.nodes)) /\ w.nodes[w.root].kind = "dir"
    /\ \A n \in 1 .. Len(w.nodes) :
         /\ w.nodes[n].kind # "dir" => w.nodes[n].list = <<>>
         /\ w.nodes[n].kind = "file" /\ w.platform # "windows" /\ Unlinked(w, n) =>
              \A x, y \in Ways(w) : x.e.leads = n /\ y.e.leads = n /\ x.e.mnt = 0 /\ y.e.mnt = 0 => x = y
    /\ \A m, n \in 1 .. Len(w.nodes) :
         /\ Tells(w, m) /\ Tells(w, n)
         /\ w.nodes[m].dev = w.nodes[n].dev /\ w.nodes[m].ino = w.nodes[n].ino
         => m = n
    /\ \A x \in Ways(w) :
         /\ w.nodes[x.e.leads].kind = "dir" <=> w.nodes[x.e.self].kind = "dir"
         /\ w.nodes[x.e.self].kind # "dir" /\ w.platform # "linux" =>
              x.e.leads = x.e.self /\ x.e.mnt = 0 /\ ~x.e.trigger /\ ~x.e.firmlink
         /\ ByListing(w, x.e) =>
              /\ x.e.self # w.root
              /\ \A y \in Ways(w) : /\ y.e.leads # x.e.self
                                    /\ ByListing(w, y.e) /\ y.e.self = x.e.self => y.e.leads = x.e.leads
    /\ w.platform = "linux" => LinuxKeeps(w)
    /\ w.platform = "macos" => MacKeeps(w)
    /\ w.platform = "windows" => WindowsKeeps(w)

ASSUME WorldsAssumption == \A w \in Worlds : Keeps(w)

-----------------------------------------------------------------------------
(* The nodes a scan is of: those of the root's filesystem, or of any that   *)
(* is not the kernel's own, that lookups from the root come to.  A lookup   *)
(* that fails comes to nothing where the code says nothing of it: for lack  *)
(* of permission; at a macOS mount point; and on Windows, where who a       *)
(* folder is decides whether it is left out (mount_point_id, open_child).   *)
Unseen(e) ==
    \/ world.platform = "linux" /\ e.looks = "sealed"
    \/ world.platform = "macos" /\ (e.mnt # 0 \/ e.trigger) /\ e.looks # "ok"
    \/ /\ world.platform = "windows" /\ ~world.cross /\ e.looks # "ok"
       /\ Node(e.self).kind = "dir" /\ (e.tag # "none" \/ ~Node(e.self).unique)

Foreign(e) == IF world.mountIds THEN e.mnt # 0 ELSE Node(Stated(e)).dev # Root.dev

(* A file not mounted is where its folder is.                               *)
Enters(e) ==
    /\ e.tag # "surrogate" /\ Node(e.self).kind # "other" /\ ~Unseen(e)
    /\ e.trigger => world.cross
    /\ Foreign(e) /\ (Node(e.self).kind = "dir" \/ e.mnt # 0) => world.cross /\ ~Node(Stated(e)).pseudo

From(S) == S \cup UNION {{e.leads : e \in {x \in Range(Node(n).list) : Enters(x)}} :
                             n \in {m \in S : Node(m).opens = "ok"}}

Held ==
    LET grown[k \in 0 .. Len(world.nodes)] ==
            IF k = 0 THEN {world.root} ELSE From(grown[k - 1])
    IN  grown[Len(world.nodes)]

(* A walk takes nothing twice, whatever names, mounts, links and firmlinks  *)
(* lead to it, and nothing that is not its own: not of another filesystem   *)
(* unless it crosses into them, nor of the kernel's, nor of one it would     *)
(* have to have mounted (read_dir, DirSink).                                *)
(* But: a folder is read again if it was found under a listing's id, and,   *)
(* where ids tell nothing, by another way or in a folder read again.  A     *)
(* file with one link, or of which no id tells, is counted again by another *)
(* way to it, and with its folder.  And a file mounted on another is taken  *)
(* whatever filesystem it is of.                                            *)
TakesOnlyItsOwn ==
    /\ \A d, c \in sent : d.node = c.node =>
         \/ d = c \/ Aliased(world, d.node)
         \/ ~Tells(world, d.node) /\ (OneWay(world, d.node) => d.parent # c.parent)
    /\ \A d, c \in sent : \A f \in d.files, g \in c.files : f.node = g.node =>
         \/ d = c /\ f = g
         \/ Unlinked(world, f.node) /\ (OneWay(world, f.node) => d # c /\ d.node = c.node)
    /\ \A d \in sent : /\ d.node \in Held
                       /\ \A f \in d.files : f.node \notin Held =>
                            \E x \in Ways(world) : x.e.leads = f.node /\ x.e.mnt # 0

(* A walk that reports no trouble has taken every file it should, and sends *)
(* each folder under an id of its own: no two files or folders are taken    *)
(* for one, by the same inode on two filesystems, by ids that tell nothing  *)
(* apart or by a listing that leaves attributes out (node_id, folder_id,    *)
(* parse_entry).  What it should take ends at what it doesn't report.       *)
WholeVolume ==
    /\ \A d1, d2 \in sent : d1.id = d2.id => d1 = d2
    /\ Walked /\ ~troubled =>
         \A n \in Held :
            Node(n).kind = "file" /\ Node(n).here /\ Node(n).size > 0 =>
                \E d \in sent : \E f \in d.files : f.node = n
=============================================================================
