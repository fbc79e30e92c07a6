\* Two MGN workers, two pollers and two requests at a time, one of them hasty,
\* and two AWS calls that raise, in jobs or in the rollback of one.
SPECIFICATION Spec
CONSTANTS
  w1 = w1
  w2 = w2
  p1 = p1
  p2 = p2
  r1 = r1
  r2 = r2
  o1 = o1
  NoTask = NoTask
  Servers = {"srv1"}
  AwsIds = {"mgn1"}
  Engineers = {"alice"}
  MgnWorkers = {w1, w2}
  PollerWorkers = {p1, p2}
  Requests = {r1, r2}
  Orphans = {}
  MaxPollAttempts = 2
  MaxAwsErrors = 2
  MaxHasty = 1
  MaxResets = 0
  MaxCrashes = 0
  MaxFaults = 0
  ManualStates = {}
  ManualJobs = {}
INVARIANTS
  TypeOK
  NoServerStranded
  OnePollPerOperation
  FailedIsClean
\* Engineers may stop asking.
CHECK_DEADLOCK FALSE
