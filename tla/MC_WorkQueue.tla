---------------------------- MODULE MC_WorkQueue ----------------------------
(***************************************************************************)
(* WorkQueue for TLC: pushes are drawn from Batches and capped by MaxItems. *)
(* `silent` is a history variable: the polls since progress was recorded.   *)
(***************************************************************************)
EXTENDS WorkQueue

CONSTANTS MaxItems  \* bound on the items queued at once

VARIABLE silent

mcVars == <<queueVars, silent>>

(* What one item leads to: nothing, one item, or several.                   *)
Batches == {<<>>, <<FirstItem>>, <<FirstItem, CHOOSE i \in Item : i # FirstItem>>}

MCInit == Init /\ silent = 0

MCPush(w, found) ==
    /\ Len(items) + Len(found) <= MaxItems
    /\ Push(w, found)

MCNext ==
    \/ Poll /\ silent' = IF silent > StallPolls THEN silent ELSE silent + 1
    \/ StallCancel /\ UNCHANGED silent
    \/ SetCancel /\ UNCHANGED silent
    \/ \E w \in Worker : (Take(w) \/ SpuriousWakeup(w)) /\ UNCHANGED silent
    \/ \E w \in Worker, found \in Batches : MCPush(w, found) /\ UNCHANGED silent
    \/ \E w \in Worker : (RecordProgress(w) \/ FinishOne(w)) /\ silent' = 0

MCSpec == MCInit /\ [][MCNext]_mcVars

(* A stall is declared only after STALL_TIMEOUT's worth of polls in a row   *)
(* that saw nothing recorded: progress at any time restarts the count, so a *)
(* slow scan is not taken for a stuck one.                                  *)
StallOnlyWhenSilent ==
    [][waiter = "waiting" /\ waiter' = "stalling" => silent' >= StallPolls]_mcVars
=============================================================================
