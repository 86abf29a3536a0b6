---------------------------- MODULE MCReplicaSet ----------------------------
(***************************************************************************)
(* Small instances of ReplicaSet for TLC.                                  *)
(***************************************************************************)
EXTENDS ReplicaSet

\* The safety properties say nothing of what follows a step that disturbs
\* MemberLife: TLC need not look there.
Relevant == ~Disturbed

Symmetry == Permutations(Host) \cup Permutations(Thread)
=============================================================================
