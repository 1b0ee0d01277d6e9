---------------------------- MODULE BackendCall ----------------------------
(***************************************************************************)
(* What a call of nh.Execute promises the runner about one backend: how    *)
(* the result it returns relates to what became of the execution and to    *)
(* the caller's context having ended.                                      *)
(***************************************************************************)
EXTENDS CallResults

VARIABLES
    ended,    \* the context the call was given has ended
    outcome,  \* what became of the execution on the backend, see CallResults
    result    \* what the call returned, "none" while it runs

Init == ended = FALSE /\ outcome = "unknown" /\ result = "none"

EndContext ==
    /\ ~ended
    /\ ended' = TRUE
    /\ UNCHANGED <<outcome, result>>

Settle ==
    /\ outcome = "unknown"
    /\ outcome' \in Outcomes
    /\ UNCHANGED <<ended, result>>

Return ==
    /\ result = "none"
    /\ result' \in Results
    /\ MayReturn(result', ended, outcome)
    /\ UNCHANGED <<ended, outcome>>

Spec == Init /\ [][EndContext \/ Settle \/ Return]_<<ended, outcome, result>>
=============================================================================
