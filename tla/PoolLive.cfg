\* One thread, one port that stays free, the others taken at any time.
CONSTANTS
  Server = {s1, s2}
  Port = {p1, p2, p3}
  NoPort = NoPort
  Workers = 1
SPECIFICATION FairSpec
PROPERTY FindsFreePort
