CONSTANTS
  Schemes = {"http", "https"}
  Hosts = {"localhost", "owned"}
  Ports = {80, 443, 8001, 8443, 9999}
  Loopback = {"localhost"}
  DefaultPort <- MCDefaultPort
  NoHost = NoHost
  NoPort = NoPort
  BadPort = BadPort
  Unparsable = Unparsable
  Processes = {p1, p2}
  Requests = {q1, q2}
  ConfigKeys = {"k1", "k2", "g1"}
  IssuedKeys = {"g1"}
  NoKey = NoKey
  ConfiguredName <- MCConfiguredName
  OtherNames = {"team"}
  NoName = NoName
  Configurations <- MCConfigurations
  Entries <- MCEntries
  Sorted <- MCSorted
  TargetLists <- MCTargetLists
  Targets <- MCTargets
  NoTarget = NoTarget
  LocalTargets <- MCLocalTargets
  MaxChanges = 2
SPECIFICATION FairSpec
INVARIANTS
  TypeOK
  KeysProvisioned
  LogTellsTargets
  GrantsHeld
  CheckAgrees
PROPERTIES
  TenantsKeepKeys
  ProcessesServe
CHECK_DEADLOCK FALSE
