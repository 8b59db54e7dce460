SPECIFICATION Spec
CONSTANTS
  k1 = k1
  k2 = k2
  Keys <- MCKeys
  Chain <- MCChain
  MaxDeliveries = 4
INVARIANTS
  PrefixPersisted
  SettledIsComplete
  LatestIsNewest
CHECK_DEADLOCK FALSE
