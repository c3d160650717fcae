CONSTANTS
  Campaigns = {c1, c2, c3}
  ApiRuns = {}
  SchedRuns = {r1, r2, r3}
  NoCampaign = NoCampaign
  NoRun = NoRun
  MaxRetries = 0
  Faults = {"sched"}
  MaxFaults = 1
  Requests = {q1}
  Schedulers = {s1, s2}
  Limit = 2
  LoggingExports = {"JsonFormatter", "setup_logging", "configure_logging"}
  Workers = {w1}
SYMMETRY Symmetry
SPECIFICATION Spec
INVARIANTS
  UnfinishedRunHasCarrier
  ClaimedOnce
PROPERTIES
  RefinesLedger
CHECK_DEADLOCK FALSE
