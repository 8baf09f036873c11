----------------------------- MODULE MC_Server ------------------------------
(***************************************************************************)
(* Server for TLC.                                                          *)
(***************************************************************************)
EXTENDS Server

VARIABLE heard  \* history: no scan started before every tab had heard of a trip to the picker

heardVars == <<vars, heard>>

(* Every tab has heard of a trip to the picker before the next scan starts: *)
(* what a person choosing a folder in a page leaves ample time for, and     *)
(* nothing in the server ensures.                                           *)
PickersHeard ==
    /\ \A s \in Scan : scan[s].relay # "signal_picker"
    /\ \A t \in Tab : tab[t].picker = 0

HeardInit == Init /\ heard = TRUE

HeardNext == Next /\ heard' = (heard /\ (starts' # starts => PickersHeard))

HeardSpec == HeardInit /\ [][HeardNext]_heardVars /\ Fairness

(* PagesSettle, wherever no trip to the picker is still on its way when the *)
(* next scan starts.                                                        *)
PagesSettleOnceHeard == []heard => PagesSettle
=============================================================================
