-------------------------------- MODULE Cli --------------------------------
(***************************************************************************)
(* rsdirstat-cli (rsdirstat/src/bin/rsdirstat-cli.rs) over a walk: it       *)
(* prints the largest files, of which it keeps no more than it will print,  *)
(* or the largest folders of the tree the walk's events build.  A Dir event *)
(* is received as it is sent.                                               *)
(***************************************************************************)
EXTENDS Walk, Treemap

CONSTANTS Top                \* --top

ASSUME CliAssumption == Top \in Nat

VARIABLES
    listFiles,  \* --files
    heap,       \* the largest files so far: [size, dir, name]
    printed     \* what has been printed: [incomplete, entries], one at most

cliVars == <<walkVars, listFiles, heap, printed>>

-----------------------------------------------------------------------------
(* DirTree::insert_dir_deferred, of every folder sent.                      *)
TreeOf(events) ==
    [id \in {d.id : d \in events} |->
        LET d == CHOOSE x \in events : x.id = id
        IN  [files |-> {[name |-> f.name, size |-> f.size] : f \in d.files},
             dirs |-> {c.id : c \in {x \in events : x.parent = id}}]]

(* BinaryHeap::pop: of those of one size, any.                              *)
Popped(files) == files \ {CHOOSE f \in files : \A g \in files : f.size <= g.size}

(* Mutant: the heap is never full.                                          *)
KeptBelow(files, file) ==
    LET pushed == files \cup {file} IN IF Cardinality(pushed) >= Top THEN Popped(pushed) ELSE pushed

Kept(files, file) ==
    LET pushed == files \cup {file} IN IF Cardinality(pushed) > Top THEN Popped(pushed) ELSE pushed

FilesOf(d) == {[size |-> f.size, dir |-> d.id, name |-> f.name] : f \in d.files}

Received(d) ==
    LET files == SetToSeq(FilesOf(d))
        kept[k \in 0 .. Len(files)] == IF k = 0 THEN heap ELSE Kept(kept[k - 1], files[k])
    IN  IF listFiles THEN kept[Len(files)] ELSE heap

(* top_n, and into_sorted_vec.                                              *)
Largest(entries) ==
    LET sorted == BySize(SetToSeq(entries))
    IN  SubSeq(sorted, 1, IF Len(sorted) < Top THEN Len(sorted) ELSE Top)

Totals == LET tree == TreeOf(sent)
          IN  {[size |-> Total(tree, n, 0), dir |-> n] : n \in DOMAIN tree}

CliInit == WalkInit /\ listFiles \in BOOLEAN /\ heap = {} /\ printed = <<>>

Receives ==
    /\ \E job \in queue : ReadDir(job)
    /\ \E d \in sent' \ sent : heap' = Received(d)
    /\ UNCHANGED <<listFiles, printed>>

Misses ==
    /\ \E job \in queue : OpenFails(job)
    /\ UNCHANGED <<listFiles, heap, printed>>

Prints ==
    /\ Walked /\ printed = <<>>
    /\ printed' = <<[incomplete |-> troubled, entries |-> Largest(IF listFiles THEN heap ELSE Totals)]>>
    /\ UNCHANGED <<walkVars, listFiles, heap>>

CliNext == Receives \/ Misses \/ Prints

-----------------------------------------------------------------------------
(* What is printed are the largest of all the files, or folders, the scan   *)
(* found, largest first and as many as were asked for, though most were     *)
(* dropped as they came (main, top_n).                                      *)
PrintsTheLargest ==
    printed # <<>> =>
        LET all == IF listFiles THEN UNION {FilesOf(d) : d \in sent} ELSE Totals
            entries == printed[1].entries
        IN  /\ Range(entries) \subseteq all
            /\ Len(entries) = IF Cardinality(all) < Top THEN Cardinality(all) ELSE Top
            /\ \A i, j \in 1 .. Len(entries) : i < j => /\ entries[i] # entries[j]
                                                        /\ entries[i].size >= entries[j].size
            /\ \A left \in all \ Range(entries), e \in Range(entries) : left.size <= e.size
=============================================================================
