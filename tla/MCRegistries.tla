---------------------------- MODULE MCRegistries ----------------------------
(***************************************************************************)
(* An instance of Registries for TLC: a cluster C of a replica set R with  *)
(* one member and a router q, and two servers that are asked for under the *)
(* same id.                                                                *)
(***************************************************************************)
EXTENDS Registries, TLC

CONSTANTS C, R, q, a, d1, d2, i, w1, w2

MCServer     == {q, a, d1, d2}
MCReplicaSet == {R}
MCCluster    == {C}

MCParts == C :> {R, q} @@ R :> {a} @@ [s \in MCServer |-> {}]

MCId == d1 :> i @@ d2 :> i @@ [x \in {C, R, q, a} |-> x]

MCWorker == {w1, w2}
Symmetry == Permutations(MCWorker) \cup Permutations({d1, d2})

\* What a worker did for a request that it has answered matters to nobody.
Answered(w) == root[w] # Nothing /\ Ended(w, root[w])

View ==
  <<registry, running,
    [k \in Actor |-> IF k \in Worker /\ Answered(k) THEN Idle ELSE job[k]],
    [w \in Worker |-> IF Answered(w) THEN Nothing ELSE root[w]],
    created, requests, mainVars, history>>
=============================================================================
