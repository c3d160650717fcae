CONSTANTS
  Dependencies = {"postgres", "redis"}
  Threads = {t1, t2}
  FailureThreshold = 2
  RecoveryTimeout = 2
  NotOpened = NotOpened
SPECIFICATION FairSpec
INVARIANTS
  IndInv
  AttributesAgree
  HealthIsFresh
PROPERTIES
  RefinesStreak
  Heals
