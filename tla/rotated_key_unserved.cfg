CONSTANTS
  Schemes = {"http", "https"}
  Hosts = {"localhost", "owned"}
  Ports = {80, 443, 8001, 8443, 9999}
  Loopback = {"localhost"}
  DefaultPort <- MCDefaultPort
  NoHost = NoHost
  NoPort = NoPort
  BadPort = BadPort
  Unparsable = Unparsable
  Processes = {p1}
  Requests = {q1}
  ConfigKeys = {"k1", "k2"}
  IssuedKeys = {"g1"}
  NoKey = NoKey
  ConfiguredName <- MCConfiguredName
  OtherNames = {"team"}
  NoName = NoName
  Configurations <- MCRotation
  Entries <- MCEntries
  Sorted <- MCSorted
  TargetLists <- MCTargetLists
  Targets <- MCTargets
  NoTarget = NoTarget
  LocalTargets <- MCLocalTargets
  MaxChanges = 2
SPECIFICATION FairSpec
PROPERTIES
  ConfiguredKeysServed
CHECK_DEADLOCK FALSE
