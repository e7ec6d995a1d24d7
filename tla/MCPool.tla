------------------------------- MODULE MCPool -------------------------------
(* PoolCoordinator on small instances. *)
EXTENDS PoolCoordinator, TLC

CONSTANTS m1, m2

\* Both ranges of the first window hold a nonce, and none of the second.
TwoNonces == [win : {1}, range : Range]
\* Only the last range of the first window holds one.
LastRange == [win : {1}, range : {Ranges}]

Symmetry == Permutations(Miner)
=============================================================================
