\* Two request threads inside the pool at once.
CONSTANTS
  Server = {s1, s2, s3}
  Port = {p1, p2, p3}
  NoPort = NoPort
  Workers = 2
SPECIFICATION Spec
SYMMETRY Symmetry
INVARIANTS
  TypeOK
PROPERTY Allocates
