CONSTANTS
  Campaigns = {c1}
  ApiRuns = {a1}
  SchedRuns = {r1}
  NoCampaign = NoCampaign
  NoRun = NoRun
  MaxRetries = 1
  Faults = {}
  MaxFaults = 0
  Requests = {q1}
  Schedulers = {s1}
  Limit = 1
  LoggingExports = {"JsonFormatter", "setup_logging"}
  Workers = {w1}
SPECIFICATION FairSpec
PROPERTIES
  DueIsClaimed
CHECK_DEADLOCK FALSE
