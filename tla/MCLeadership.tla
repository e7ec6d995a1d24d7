----------------------------- MODULE MCLeadership ------------------------------
(* Model checking of the PoolLeadership module with TLC. *)
EXTENDS PoolLeadership, TLC

\* The replicas of a designated coordinator; a pool-auto; one of each, in the same
\* pool.
Replicas == {[n \in Node |-> "designated"]}
Bully == {[n \in Node |-> "elected"]}
Mixed == {r \in [Node -> Rank] : Cardinality({n \in Node : r[n] = "designated"}) = 1}
All == Replicas \cup Bully \cup Mixed
=============================================================================
