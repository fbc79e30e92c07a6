\* The whole pipeline, with two processes killed, one AWS call that raises and
\* one reset of a FAILED server.  Engineers wait until the system is done.
SPECIFICATION FairSpec
CONSTANTS
  w1 = w1
  w2 = w2
  p1 = p1
  p2 = p2
  r1 = r1
  r2 = r2
  o1 = o1
  NoTask = NoTask
  Servers = {"srv1"}
  AwsIds = {"mgn1"}
  Engineers = {"alice"}
  MgnWorkers = {w1}
  PollerWorkers = {p1}
  Requests = {r1}
  Orphans = {}
  MaxPollAttempts = 2
  MaxAwsErrors = 1
  MaxHasty = 0
  MaxResets = 1
  MaxCrashes = 2
  MaxFaults = 0
  ManualStates = {"TEST_INSTANCE_RUNNING", "CUTOVER_INSTANCE_RUNNING"}
  ManualJobs = {"LAUNCH_CUTOVER_INSTANCE"}
PROPERTIES
  ConfiguredGateIsHeld
  DeadLettersAreResolved
\* Engineers may stop asking.
CHECK_DEADLOCK FALSE
