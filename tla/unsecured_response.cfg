CONSTANTS
  Requests = {q1, q2}
  Identities = {i1}
  Limit = 1
  LastWindow = 0
SPECIFICATION Spec
INVARIANTS
  EveryResponseSecured
CHECK_DEADLOCK FALSE
