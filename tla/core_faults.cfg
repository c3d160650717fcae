CONSTANTS
  Campaigns = {c1}
  ApiRuns = {a1}
  SchedRuns = {r1}
  NoCampaign = NoCampaign
  NoRun = NoRun
  MaxRetries = 1
  Faults = {"api", "sched", "crash", "lost", "db", "time", "broker"}
  MaxFaults = 2
  Requests = {q1}
  Schedulers = {s1}
  Limit = 1
  LoggingExports = {"JsonFormatter", "setup_logging", "configure_logging"}
  Workers = {w1, w2}
SYMMETRY Symmetry
SPECIFICATION Spec
INVARIANTS
  IndInv
  CarrierInv
  UnfinishedRunHasCarrier
  StatusWitnessed
  FindingsBoundedByFaults
PROPERTIES
  RefinesLedger
  EndedIsFinal
CHECK_DEADLOCK FALSE
