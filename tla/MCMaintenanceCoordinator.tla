----------------------- MODULE MCMaintenanceCoordinator -----------------------
(* Model-checking instance of the repair write fence. *)
EXTENDS MaintenanceCoordinator, TLC

\* Manifests and callers are interchangeable.
Symmetry == Permutations(Manifests) \cup Permutations(Callers)
=============================================================================
