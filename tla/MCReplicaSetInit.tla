-------------------------- MODULE MCReplicaSetInit --------------------------
(***************************************************************************)
(* Small instances of ReplicaSetInit for TLC: three members, of which the  *)
(* last may be an arbiter and the second a passive one.                    *)
(***************************************************************************)
EXTENDS ReplicaSetInit

CONSTANTS m1, m2, m3

MCMember == {m1, m2, m3}

Shape(arbiters, electable) ==
  [arbiters |-> arbiters, electable |-> electable]

MCShapes ==
  {Shape({}, {m1, m2, m3}), Shape({m3}, {m1, m2}), Shape({m3}, {m1}),
   Shape({m3}, {})}
=============================================================================
