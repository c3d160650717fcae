CONSTANTS
  Campaigns = {c1}
  ApiRuns = {a1}
  SchedRuns = {r1}
  NoCampaign = NoCampaign
  NoRun = NoRun
  MaxRetries = 1
  Faults = {"crash", "db"}
  MaxFaults = 1
  Requests = {q1}
  Schedulers = {s1}
  Limit = 1
  LoggingExports = {"JsonFormatter", "setup_logging", "configure_logging"}
  Workers = {w1, w2}
SPECIFICATION FairSpec
PROPERTIES
  RunsEnd
  DueIsClaimed
CHECK_DEADLOCK FALSE
