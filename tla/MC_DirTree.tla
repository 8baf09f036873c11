----------------------------- MODULE MC_DirTree -----------------------------
(***************************************************************************)
(* DirTree for TLC: a small tree given by name, and streams of which the    *)
(* last need not keep its order.                                            *)
(***************************************************************************)
EXTENDS DirTree, TLC

CONSTANTS root, a, b, f, g

(* root holds a and b; a holds b too, and f; b holds g.                     *)
Tree == root :> {a, b} @@ a :> {b, f} @@ b :> {g}
Sizes == f :> 2 @@ g :> 2
Mtimes == f :> 1 @@ g :> 2

(* In the last scan the directories may come in any order, each under the   *)
(* first directory of a chain that holds it.                                *)
ChainParent == root :> NoDir @@ a :> root @@ b :> a

ApplyDirAnywhere(d, files) ==
    /\ scans = MaxScans
    /\ done = "none"
    /\ d \notin Announced
    /\ files \subseteq (Contents[d] \cap File) \ Counted
    /\ sent' = Append(sent, [dir |-> d, parent |-> ChainParent[d], files |-> files])
    /\ Insert(d, ChainParent[d], files, Newest({MtimeOf[x] : x \in files}))
    /\ UNCHANGED done

AnyOrderNext ==
    \/ Next
    \/ \E d \in Dir, files \in SUBSET File : ApplyDirAnywhere(d, files)

AnyOrderSpec == Init /\ [][AnyOrderNext]_vars
=============================================================================
