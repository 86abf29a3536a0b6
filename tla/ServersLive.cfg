\* One worker thread: every request is answered.
CONSTANTS
  Id = {i1}
  Obj = {o1}
  Pid = {p1, p2}
  Thread = {t1}
  NoObj = NoObj
  NoPid = NoPid
  NoId = NoId
  Serial = TRUE
SPECIFICATION FairSpec
PROPERTY Replied
