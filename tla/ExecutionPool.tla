---------------------------- MODULE ExecutionPool ----------------------------
(***************************************************************************)
(* What the service promises the streams that start executions: a start is *)
(* accepted into one of Cap slots; an execution answers only once its slot *)
(* is free again; and a stream starts its next execution only when the     *)
(* last one has answered or failed without an answer.                      *)
(***************************************************************************)
EXTENDS Integers

CONSTANTS Streams, Cap

VARIABLES free,   \* slots that are free
          state   \* what each stream knows of its execution

Become(s, from, to) ==
    /\ state[s] \in from
    /\ state' = [state EXCEPT ![s] = to]

Accept(s) ==
    /\ free > 0
    /\ free' = free - 1
    /\ Become(s, {"idle", "answered", "failed"}, "held")

GiveBack(s) ==
    /\ free' = free + 1
    /\ Become(s, {"held"}, "idle") \/ Become(s, {"held"}, "released")

Finish(s) ==
    /\ UNCHANGED free
    /\ Become(s, {"released"}, "answered") \/ Become(s, {"released"}, "failed")

Forget(s) ==
    /\ UNCHANGED free
    /\ Become(s, {"answered", "failed"}, "idle")

Init ==
    /\ free = Cap
    /\ state = [s \in Streams |-> "idle"]

Next == \E s \in Streams : Accept(s) \/ GiveBack(s) \/ Finish(s) \/ Forget(s)

Spec == Init /\ [][Next]_<<free, state>>
=============================================================================
