\* An approval and a rejection of the same gate at the same time.
SPECIFICATION Spec
CONSTANTS
  w1 = w1
  w2 = w2
  p1 = p1
  p2 = p2
  r1 = r1
  r2 = r2
  o1 = o1
  NoTask = NoTask
  Servers = {"srv1"}
  AwsIds = {"mgn1"}
  Engineers = {"alice"}
  MgnWorkers = {w1}
  PollerWorkers = {p1}
  Requests = {r1, r2}
  Orphans = {}
  MaxPollAttempts = 2
  MaxAwsErrors = 0
  MaxHasty = 1
  MaxResets = 0
  MaxCrashes = 0
  MaxFaults = 0
  ManualStates = {}
  ManualJobs = {}
PROPERTIES
  RejectionIsAtGate
\* Engineers may stop asking.
CHECK_DEADLOCK FALSE
