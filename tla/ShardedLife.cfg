\* Two requests at once on one cluster, four servers and replica sets in all.
CONSTANTS
  Id = {i1, i2, i3, i4}
  Shard = {s1, s2}
  Thread = {t1, t2}
  NoId = NoId
  NoShard = NoShard
  MaxRouters = 2
SPECIFICATION Spec
SYMMETRY Symmetry
CONSTRAINT Undisturbed
CHECK_DEADLOCK FALSE
INVARIANTS
  TypeOK
  NothingLost
  HeldExist
  CatalogAgrees
  DrainedFirst
PROPERTY RegisteredSecured
