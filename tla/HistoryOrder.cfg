\* As StateManager, with fewer transactions: the trail in the order of its
\* timestamps.
SPECIFICATION Spec
CONSTANTS
  c1 = c1
  c2 = c2
  Servers = {"srv1"}
  AwsIds = {"aws1"}
  Engineers = {"alice"}
  Sessions = {c1, c2}
  Targets <- MCTargets
  NoSession = NoSession
  MaxClock = 2
INVARIANTS
  HistoryIsChronological
\* All sessions are idle and the bound on transactions is reached.
CHECK_DEADLOCK FALSE
