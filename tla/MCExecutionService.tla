------------------------- MODULE MCExecutionService -------------------------
(* Instances of ExecutionService for TLC.                                  *)
EXTENDS ExecutionService, TLC

\* Streams are interchangeable in the safety runs.
Symmetry == Permutations(Streams)
=============================================================================
