------------------------------ MODULE DirTree -------------------------------
(***************************************************************************)
(* The directory tree the receiver of a scan folds its events into          *)
(* (core/src/tree.rs, DirTree), fed with the streams ScanStream allows, one *)
(* scan after another, and the layouts that read it: the sizes a filter     *)
(* leaves (core/src/layout.rs, FilteredSizes) and the record of what a tab  *)
(* last showed (main.rs, Shown), both reused while the view's `changed`     *)
(* mark stays.                                                              *)
(*                                                                          *)
(* A file stands for its entry: SizeOf and MtimeOf are what the scan found. *)
(* Names, hues and the range of mtimes are left out.                        *)
(***************************************************************************)
EXTENDS ScanStream, Integers, FiniteSets, FiniteSetsExt, Functions

CONSTANTS
    SizeOf, MtimeOf,  \* of each file
    MaxSize,          \* u64::MAX, where sizes saturate
    Filters,          \* the filters in use, each the set of files it matches
    MaxScans          \* bound: how many scans run in all

ASSUME FilesAssumption ==
    /\ IsFiniteSet(File)
    /\ SizeOf \in [File -> Nat]
    /\ MtimeOf \in [File -> Nat]
    /\ MaxSize \in Nat
    /\ Filters \subseteq SUBSET File
    /\ MaxScans \in Nat

VARIABLES
    nodes,     \* DirTree::nodes, by id
    root_id,   \* NoDir until the root's Dir is applied
    scans,     \* ScanStarts applied
    changes,   \* events applied
    complete,
    cache,     \* a tab's FilteredSizes
    shown      \* what the tab last showed: its key, and (history) the view itself

treeVars == <<nodes, root_id, scans, changes, complete>>
vars == <<streamVars, treeVars, cache, shown>>

Empty == [n \in {} |-> NoDir]
NewNode == [parent |-> NoDir, children |-> {}, files |-> {}, direct_size |-> 0, size |-> 0,
            direct_mtime |-> 0, mtime |-> 0, changed |-> 0]
NoCache == [root |-> NoDir]

(* Before the first scan, and after one that stopped without its ScanDone,  *)
(* no events are coming: done = "ended".                                    *)
Init ==
    /\ sent = <<>>
    /\ done = "ended"
    /\ nodes = Empty
    /\ root_id = NoDir
    /\ scans = 0
    /\ changes = 0
    /\ complete = FALSE
    /\ cache = NoCache
    /\ shown = NoCache

-----------------------------------------------------------------------------
(* Pure parts.                                                              *)
Saturated(n) == IF n > MaxSize THEN MaxSize ELSE n
SizeSum(files) == Saturated(SumFunctionOnSet(SizeOf, files))
Newest(mtimes) == Max({0} \cup mtimes)

(* nodes.entry(d).or_default()                                              *)
Ensure(ns, d) == [x \in DOMAIN ns \cup {d} |-> IF x \in DOMAIN ns THEN ns[x] ELSE NewNode]

(* d and the directories above it, as `propagate` walks them: what each set *)
(* that holds d and the parent of all it holds has in common.               *)
ClosedUp(ns, d) ==
    {S \in SUBSET DOMAIN ns :
        d \in S /\ \A x \in S : ns[x].parent \in DOMAIN ns => ns[x].parent \in S}
Above(ns, d) == LET closed == ClosedUp(ns, d) IN {x \in DOMAIN ns : \A S \in closed : x \in S}

(* d and the directories under it, as subtree_order finds them.             *)
Kids(ns, x) == ns[x].children \cap DOMAIN ns
ClosedDown(ns, d) == {S \in SUBSET DOMAIN ns : d \in S /\ \A x \in S : Kids(ns, x) \subseteq S}
Subtree(ns, d) == LET closed == ClosedDown(ns, d) IN {x \in DOMAIN ns : \A S \in closed : x \in S}

(* What propagate does to each directory it reaches.                        *)
Reached(node, size, mtime, mark) ==
    [node EXCEPT !.size = Saturated(@ + size), !.mtime = Newest({@, mtime}), !.changed = mark]

(* Mutant of propagate: the directories above aren't marked changed.        *)
PropagateUnmarked(ns, d, size, mtime, mark) ==
    LET above == Above(ns, d)
    IN  [x \in DOMAIN ns |->
            IF x \in above
            THEN Reached(ns[x], size, mtime, IF x = d THEN mark ELSE ns[x].changed)
            ELSE ns[x]]

Propagate(ns, d, size, mtime, mark) ==
    LET above == Above(ns, d)
    IN  [x \in DOMAIN ns |-> IF x \in above THEN Reached(ns[x], size, mtime, mark) ELSE ns[x]]

(* insert_files then insert_dir_deferred.                                   *)
Described(node, p, files, mtime) ==
    [node EXCEPT !.parent = p, !.files = @ \cup files,
                 !.direct_size = SizeSum(files), !.direct_mtime = mtime]

InsertDeferred(ns, d, p, files, mtime) ==
    LET known == Ensure(IF p = NoDir THEN ns ELSE Ensure(ns, p), d)
        adopted == IF p = NoDir THEN known
                   ELSE [known EXCEPT ![p].children = @ \cup {d}]
    IN  [adopted EXCEPT ![d] = Described(@, p, files, mtime)]

(* The totals of root and the directories under it, each from its own and   *)
(* its children's: the pass over the reversed pre-order.                    *)
Totals(ns, root, own) ==
    LET kids == [x \in Subtree(ns, root) |-> Kids(ns, x)]
        size[x \in DOMAIN kids] == Saturated(own[x].size + SumFunctionOnSet(size, kids[x]))
        mtime[x \in DOMAIN kids] == Newest({own[x].mtime} \cup {mtime[c] : c \in kids[x]})
    IN  [x \in DOMAIN kids |-> [size |-> size[x], mtime |-> mtime[x]]]

Direct(ns, root) ==
    [x \in Subtree(ns, root) |-> [size |-> ns[x].direct_size, mtime |-> ns[x].direct_mtime]]

(* Mutant of recompute_totals: the children's totals as they were before.   *)
RecomputedShallow(ns, root) ==
    IF root = NoDir THEN ns
    ELSE [x \in DOMAIN ns |->
            IF x \in Subtree(ns, root)
            THEN [ns[x] EXCEPT !.size = Saturated(ns[x].direct_size
                    + SumFunctionOnSet([c \in Kids(ns, x) |-> ns[c].size], Kids(ns, x)))]
            ELSE ns[x]]

(* recompute_totals: `changed` is left as it is.                            *)
Recomputed(ns, root) ==
    IF root = NoDir THEN ns
    ELSE LET total == Totals(ns, root, Direct(ns, root))
         IN  [x \in DOMAIN ns |->
                IF x \in DOMAIN total
                THEN [ns[x] EXCEPT !.size = total[x].size, !.mtime = total[x].mtime]
                ELSE ns[x]]

(* compute_filtered_sizes                                                   *)
Matching(ns, root, filter) ==
    [x \in Subtree(ns, root) |->
        [size |-> SizeSum(ns[x].files \cap filter),
         mtime |-> Newest({MtimeOf[f] : f \in ns[x].files \cap filter})]]
FilteredSizes(ns, filter, root) == Totals(ns, root, Matching(ns, root, filter))

-----------------------------------------------------------------------------
(* Mutant of ScanStart: the count of changes starts again.                  *)
ApplyStartAfresh ==
    /\ done # "none"
    /\ scans < MaxScans
    /\ sent' = <<>> /\ done' = "none"
    /\ nodes' = Empty /\ root_id' = NoDir /\ complete' = FALSE
    /\ scans' = scans + 1
    /\ changes' = 0
    /\ UNCHANGED <<cache, shown>>

(* ScanStart: a new scan's stream begins, and replaces the tree.            *)
ApplyStart ==
    /\ done # "none"
    /\ scans < MaxScans
    /\ sent' = <<>> /\ done' = "none"
    /\ nodes' = Empty /\ root_id' = NoDir /\ complete' = FALSE
    /\ scans' = scans + 1
    /\ changes' = changes + 1
    /\ UNCHANGED <<cache, shown>>

(* Dir, dated by the newest of its files: also those counted elsewhere.     *)
Insert(d, p, files, mtime) ==
    /\ changes' = changes + 1
    /\ nodes' = Propagate(InsertDeferred(nodes, d, p, files, mtime),
                          d, SizeSum(files), mtime, changes')
    /\ root_id' = IF p = NoDir /\ root_id = NoDir THEN d ELSE root_id
    /\ UNCHANGED <<scans, complete, cache, shown>>

ApplyDir(d, p, files) ==
    /\ Announce(d, p, files)
    /\ \E dated \in SUBSET (Contents[d] \cap File) :
         files \subseteq dated /\ Insert(d, p, files, Newest({MtimeOf[f] : f \in dated}))

ApplyDone(outcome) ==
    /\ Finish(outcome)
    /\ changes' = changes + 1
    /\ nodes' = Recomputed(nodes, root_id)
    /\ complete' = (outcome = "Complete")
    /\ UNCHANGED <<root_id, scans, cache, shown>>

(* The scanner is gone without a ScanDone: relay_scan brings the totals up  *)
(* to date itself.                                                          *)
StreamBroken ==
    /\ done = "none"
    /\ done' = "ended"
    /\ nodes' = Recomputed(nodes, root_id)
    /\ UNCHANGED <<sent, root_id, scans, changes, complete, cache, shown>>

(* A layout of the tree under view, with a filter: FilteredSizes::get, and  *)
(* update_tab's test of what the tab has already shown.                     *)
View(ns, root) == [x \in Subtree(ns, root) |-> ns[x]]

Layout(view, filter) ==
    LET changed == nodes[view].changed
        fresh ==
            /\ cache # NoCache
            /\ <<cache.root, cache.changed, cache.filter>> = <<view, changed, filter>>
        key == <<scans, view, changed, done # "none">>
    IN  /\ view \in DOMAIN nodes
        /\ cache' = IF fresh THEN cache
                    ELSE [root |-> view, changed |-> changed, filter |-> filter,
                          sizes |-> FilteredSizes(nodes, filter, view)]
        /\ shown' = IF shown # NoCache /\ shown.key = key THEN shown
                    ELSE [root |-> view, key |-> key, view |-> View(nodes, view)]
        /\ UNCHANGED <<streamVars, treeVars>>

Next ==
    \/ ApplyStart
    \/ \E d \in Dir, p \in Dir \cup {NoDir}, files \in SUBSET File : ApplyDir(d, p, files)
    \/ \E outcome \in Outcomes : ApplyDone(outcome)
    \/ StreamBroken
    \/ \E view \in Dir, filter \in Filters : Layout(view, filter)

Spec == Init /\ [][Next]_vars

-----------------------------------------------------------------------------
(* The stream has kept its order so far: each directory after its parent.   *)
InOrder ==
    \A i \in DOMAIN sent :
        sent[i].parent = NoDir \/ \E j \in 1 .. i - 1 : sent[j].dir = sent[i].parent

(* What the totals of d should be: everything found at d and below.         *)
ExactSize(d) == SizeSum(UNION {nodes[x].files : x \in Subtree(nodes, d)})
ExactMtime(d) == Newest({nodes[x].direct_mtime : x \in Subtree(nodes, d)})
Exact(d) == nodes[d].size = ExactSize(d) /\ nodes[d].mtime = ExactMtime(d)

(* Up from d through the parents, each of which lists it, is the root.      *)
LeadsToRoot(d) ==
    /\ root_id \in Above(nodes, d)
    /\ d # root_id => /\ nodes[d].parent \in DOMAIN nodes
                      /\ d \in nodes[nodes[d].parent].children
                      /\ d \notin Above(nodes, nodes[d].parent)

(* The totals that grow while a scan streams in are exact at every moment,  *)
(* not just after ScanDone, since each directory arrives before its         *)
(* subdirectories, and leads up to the root: so breadcrumb and full_path     *)
(* resolve it and propagate's unbounded walk ends.  Once the scan has ended *)
(* they are exact whatever the order was (recompute_totals), and all of it  *)
(* also where sizes saturate.                                               *)
TotalsExact ==
    /\ InOrder => \A d \in DOMAIN nodes : Exact(d) /\ LeadsToRoot(d)
    /\ done # "none" /\ root_id # NoDir => \A d \in Subtree(nodes, root_id) : Exact(d)

(* A filter's sizes are reused only while they are what filtering the tree  *)
(* again would give, within a scan and across scans of the same folders     *)
(* (FilteredSizes).                                                         *)
CacheSound ==
    (/\ cache # NoCache
     /\ cache.root \in DOMAIN nodes
     /\ nodes[cache.root].changed = cache.changed)
    => cache.sizes = FilteredSizes(nodes, cache.filter, cache.root)

(* A tab is told nothing new only if its view is what it last showed        *)
(* (Shown): the marks notice every change under the view's root.            *)
ShownSound ==
    (/\ shown # NoCache
     /\ shown.root \in DOMAIN nodes
     /\ <<scans, shown.root, nodes[shown.root].changed, done # "none">> = shown.key)
    => shown.view = View(nodes, shown.root)
=============================================================================
