\* Two worker threads; no client has two requests for one id under way.
CONSTANTS
  Id = {i1, i2}
  Obj = {o1, o2}
  Pid = {p1, p2}
  Thread = {t1, t2}
  NoObj = NoObj
  NoPid = NoPid
  NoId = NoId
  Serial = TRUE
SPECIFICATION Spec
SYMMETRY Symmetry
CONSTRAINT Relevant
VIEW View
INVARIANTS
  TypeOK
  NoOrphan
  RemovedIsClean
  SecuredServes
PROPERTIES
  Lives
