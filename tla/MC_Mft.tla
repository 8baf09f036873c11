-------------------------------- MODULE MC_Mft --------------------------------
(***************************************************************************)
(* Small volumes for module MftScan: record 0 is the root folder.           *)
(***************************************************************************)
EXTENDS MftScan

In(parent, record) == [parent |-> parent, dos |-> FALSE, in |-> record]
Dos(parent, record) == [In(parent, record) EXCEPT !.dos = TRUE]

Plain(number, seq, isDir, names) ==
    [number |-> number, seq |-> seq, dir |-> isDir, names |-> names, data_in |-> number,
     size |-> 2, on_disk |-> 0, sparse |-> FALSE, mtime |-> number, recall |-> FALSE,
     tag |-> "none", tag_fits |-> TRUE]

TopRef == <<0, 1>>
TopFolder == Plain(0, 1, TRUE, <<In(<<0, 1>>, 0)>>)
FolderAt(n, seq, parent) == Plain(n, seq, TRUE, <<In(parent, n)>>)
FileAt(n, seq, parent) == Plain(n, seq, FALSE, <<In(parent, n)>>)

Quiet(files, ref) == [before |-> files, after |-> files, root |-> ref]

(* A file whose names lie in extension records, in two folders; its sizes in *)
(* one of them.                                                             *)
ManyNames ==
    Quiet({TopFolder, FolderAt(1, 1, TopRef),
           [Plain(2, 1, FALSE, <<Dos(TopRef, 2), In(<<1, 1>>, 3), In(TopRef, 4)>>) EXCEPT !.data_in = 4]},
          TopRef)

(* What isn't counted, or at nothing, or at what it says: a link whose tag   *)
(* fits and one's whose doesn't, a junction with a file in it, cloud files   *)
(* that are here and aren't, and one that is said not to be.                 *)
ReparsePoints ==
    Quiet({TopFolder,
           [FolderAt(1, 1, TopRef) EXCEPT !.tag = "surrogate"],
           FileAt(2, 1, <<1, 1>>),
           [FileAt(3, 1, TopRef) EXCEPT !.tag = "surrogate", !.tag_fits = FALSE],
           [FileAt(4, 1, TopRef) EXCEPT !.tag = "cloud", !.sparse = TRUE]},
          TopRef)
CloudFiles ==
    Quiet({TopFolder,
           [FolderAt(1, 1, TopRef) EXCEPT !.tag = "cloud"],
           [FileAt(2, 1, <<1, 1>>) EXCEPT !.tag = "cloud"],
           [FileAt(3, 1, <<1, 1>>) EXCEPT !.recall = TRUE],
           [FileAt(4, 1, TopRef) EXCEPT !.sparse = TRUE, !.on_disk = 1]},
          <<1, 1>>)

(* The record of a folder is reused for another folder while its file's      *)
(* record, an extension record and one past the room are read as they were.  *)
Reused ==
    [before |-> {TopFolder, FolderAt(1, 1, TopRef),
                 Plain(2, 1, FALSE, <<In(<<1, 1>>, 2), In(TopRef, 3)>>), FileAt(5, 1, TopRef)},
     after  |-> {TopFolder, FolderAt(1, 2, TopRef), FileAt(2, 2, TopRef)},
     root   |-> TopRef]

(* Folders moved into each other: read in between, each is under the other.  *)
Moved ==
    [before |-> {TopFolder, FolderAt(1, 1, TopRef), FolderAt(2, 1, <<1, 1>>), FileAt(3, 1, <<2, 1>>)},
     after  |-> {TopFolder, FolderAt(1, 1, <<2, 1>>), FolderAt(2, 1, TopRef), FileAt(3, 1, <<1, 1>>)},
     root   |-> <<1, 1>>]

(* The root is deleted.                                                     *)
Gone ==
    [before |-> {TopFolder, FolderAt(1, 1, TopRef), FileAt(2, 1, <<1, 1>>)},
     after  |-> {TopFolder},
     root   |-> <<1, 1>>]

SmallVolumes == <<ManyNames, ReparsePoints, CloudFiles, Reused, Moved, Gone>>
=============================================================================
