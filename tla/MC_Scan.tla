------------------------------ MODULE MC_Scan -------------------------------
(***************************************************************************)
(* Scan for TLC, on small trees given by name.                              *)
(***************************************************************************)
EXTENDS Scan, TLC

CONSTANTS root, a, b, f  \* directories and files of the trees

(* root holds a, b and f; b holds a again (a bind mount) and f again (a      *)
(* hardlink).                                                               *)
TwoNames == root :> {a, b, f} @@ a :> {} @@ b :> {a, f}

(* A chain with the root mounted again at its end.                          *)
Loop == root :> {a, f} @@ a :> {b} @@ b :> {root, f}

(* Fairness of run_scan's thread only: workers may be stuck anywhere.       *)
StuckSpec == ScanSpec /\ RunScanFairness
=============================================================================
