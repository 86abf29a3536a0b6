-------------------------- MODULE MCShardedCluster --------------------------
(***************************************************************************)
(* Small instances of ShardedCluster for TLC.                              *)
(***************************************************************************)
EXTENDS ShardedCluster, TLC

\* Bound: one id removed behind the cluster's back, or one shard unsure, or a
\* DELETE beside another request.
Disturbances ==
  Cardinality(behind) + Cardinality(unsure) + (IF beside THEN 1 ELSE 0)

Undisturbed == Disturbances <= 1

Symmetry ==
  Permutations(Id) \cup Permutations(Shard) \cup Permutations(Thread)
=============================================================================
