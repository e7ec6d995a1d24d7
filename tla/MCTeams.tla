-------------------------------- MODULE MCTeams --------------------------------
(* Model checking of the WorkerTeams module with TLC. *)
EXTENDS WorkerTeams, TLC

Symmetry == Permutations(Worker)
=============================================================================
