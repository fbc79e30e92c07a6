\* The whole pipeline, up to CLEANUP_COMPLETE: an operator bridges the two
\* places where the code does not go on by itself.  One AWS call raises, a
\* FAILED server is reset once, and one request is hasty.
SPECIFICATION FairSpec
CONSTANTS
  w1 = w1
  w2 = w2
  p1 = p1
  p2 = p2
  r1 = r1
  r2 = r2
  o1 = o1
  NoTask = NoTask
  Servers = {"srv1"}
  AwsIds = {"mgn1"}
  Engineers = {"alice"}
  MgnWorkers = {w1}
  PollerWorkers = {p1}
  Requests = {r1}
  Orphans = {}
  MaxPollAttempts = 2
  MaxAwsErrors = 1
  MaxHasty = 1
  MaxResets = 1
  MaxCrashes = 0
  MaxFaults = 0
  ManualStates = {"TEST_INSTANCE_RUNNING", "CUTOVER_INSTANCE_RUNNING"}
  ManualJobs = {"LAUNCH_CUTOVER_INSTANCE"}
INVARIANTS
  NoServerStranded
  CutoverFailureIsFrozen
PROPERTIES
  DeadLettersAreResolved
  ServedStatesAreLeft
  CompleteIsCleanedUp
  ProductionIsNotTerminated
\* Engineers may stop asking.
CHECK_DEADLOCK FALSE
