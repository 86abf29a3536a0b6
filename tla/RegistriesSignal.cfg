\* A DELETE of a part of the cluster through its own resource, and a signal.
CONSTANTS
  C = C
  R = R
  q = q
  a = a
  d1 = d1
  d2 = d2
  i = i
  w1 = w1
  w2 = w2
  Server <- MCServer
  ReplicaSet <- MCReplicaSet
  Cluster <- MCCluster
  Parts <- MCParts
  Id <- MCId
  Nothing = Nothing
  Worker <- MCWorker
  MaxEvents = 2
  MaxSignals = 1
SYMMETRY Symmetry
SPECIFICATION Spec
CHECK_DEADLOCK FALSE
INVARIANT
  SignalCleansUp
