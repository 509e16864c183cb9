--------------------------- MODULE MCRepairLifecycle ---------------------------
(* Model-checking instance of the repair lifecycle. *)
EXTENDS RepairLifecycle, TLC

\* Callers are interchangeable; manifests are not (ReviewBound).
CallerSymmetry == Permutations(Callers)
=============================================================================
