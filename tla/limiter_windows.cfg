CONSTANTS
  Requests = {q1, q2, q3}
  Identities = {i1}
  Limit = 2
  LastWindow = 1
SPECIFICATION FairSpec
INVARIANTS
  TypeOK
  WindowLimit
  GrantsCover
  NoKeyForgotten
PROPERTIES
  KeysDisappear
CHECK_DEADLOCK FALSE
