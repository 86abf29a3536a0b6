\* One request thread (-s wsgiref), from the start of the process, with the
\* methods that only callers outside the package use.
CONSTANTS
  Server = {s1, s2, s3}
  Port = {p1, p2, p3}
  NoPort = NoPort
  Workers = 1
SPECIFICATION SpecPublic
SYMMETRY Symmetry
INVARIANTS
  GrantedOnce
  Conserved
PROPERTY FromRange
