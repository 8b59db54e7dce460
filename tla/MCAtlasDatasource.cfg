SPECIFICATION FairSpec
CONSTANTS
  Slots <- MCSlots
  MaxTx = 3
  Unusable <- MCUnusable
  Capacity = 1
  MaxAttempts = 2
INVARIANT SingleActiveIteration
INVARIANT NoSilentGap
PROPERTY WatchdogReconnects
PROPERTY LiveTaskDelivers
PROPERTY CancelReleasesAll
PROPERTY GivesUp
CHECK_DEADLOCK FALSE
