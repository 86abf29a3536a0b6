\* Three commands, two of which may run at a time, and one SIGKILL.
CONSTANTS
  p1 = p1
  p2 = p2
  s1 = s1
  s2 = s2
  Pid <- MCPid
  NoPid = NoPid
  Shell <- MCShell
  MaxCommands = 3
  MaxKills = 1
SPECIFICATION FairSpec
CHECK_DEADLOCK FALSE
INVARIANTS
  TypeOK
  Findable
  FileFresh
PROPERTIES
  SignalsDaemons
  Returns
