\* Two requests at once, two members and room for a third.
CONSTANTS
  Host = {h1, h2, h3}
  NoHost = NoHost
  Members = 2
  MaxId = 2
  MaxVersion = 3
  Thread = {t1, t2}
SPECIFICATION Spec
SYMMETRY Symmetry
CONSTRAINT Relevant
CHECK_DEADLOCK FALSE
INVARIANTS
  TypeOK
  Consistent
  CleanupComplete
PROPERTY
  Lives
