\* Two requests at a time, and two signals.
CONSTANTS
  C = C
  R = R
  q = q
  a = a
  d1 = d1
  d2 = d2
  i = i
  w1 = w1
  w2 = w2
  Server <- MCServer
  ReplicaSet <- MCReplicaSet
  Cluster <- MCCluster
  Parts <- MCParts
  Id <- MCId
  Nothing = Nothing
  Worker <- MCWorker
  MaxEvents = 3
  MaxSignals = 2
SYMMETRY Symmetry
VIEW View
SPECIFICATION Spec
CHECK_DEADLOCK FALSE
INVARIANTS
  TypeOK
  ExitIsClean
  NoSelfTrip
  OneRemover
  NeverStuck
PROPERTY
  NearerTheEnd
