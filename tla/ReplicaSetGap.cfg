\* member_del by position, after a member in front was removed.
CONSTANTS
  Host = {h1, h2, h3}
  NoHost = NoHost
  Members = 3
  MaxId = 2
  MaxVersion = 2
  Thread = {t1}
SPECIFICATION Spec
CHECK_DEADLOCK FALSE
INVARIANT AgreeWithGaps
