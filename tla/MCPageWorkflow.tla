--------------------------- MODULE MCPageWorkflow ---------------------------
(* Small instances of PageWorkflow for TLC. *)
EXTENDS PageWorkflow, TLC

\* Pages and workers are interchangeable in the runs that check no liveness.
Symmetry == Permutations(Pages) \cup Permutations(Workers)
=============================================================================
