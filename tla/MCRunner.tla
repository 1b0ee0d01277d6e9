------------------------------ MODULE MCRunner ------------------------------
(***************************************************************************)
(* Runner for TLC: a scenario over two targets at once, then a staircase   *)
(* of two stages; and a staircase of two stages over two targets each.     *)
(***************************************************************************)
EXTENDS Runner, TLC

CONSTANTS b1, b2

MCPlan == <<[targets |-> 2, stages |-> 0], [targets |-> 0, stages |-> 2]>>
MCStaircase == <<[targets |-> 2, stages |-> 2]>>
Symmetry == Permutations(Backends)
=============================================================================
