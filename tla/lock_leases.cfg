CONSTANTS
  Clients = {c1, c2}
  Ttl = 2
  NoOwner = NoOwner
SPECIFICATION FairSpec
INVARIANTS
  IndInv
  Exclusive
PROPERTIES
  OwnershipSafe
  LockIsFreed
