\* Three members, one crash or one deletion from outside.
CONSTANTS
  m1 = m1
  m2 = m2
  m3 = m3
  Member <- MCMember
  First = m1
  NoMember = NoMember
  Shapes <- MCShapes
  Disturbances = 1
SPECIFICATION Spec
CHECK_DEADLOCK FALSE
INVARIANTS
  TypeOK
  RefusedIsEmpty
  UserBeforeLogin
  StoredKeyed
PROPERTY
  ResetRevives
