SPECIFICATION FairDaemonSpec
CONSTANTS
  Sources = {atlas}
  Capacity = 2
  MaxUpdates = 3
  Failing <- MCFailing
  Immediate = FALSE
  TokenGiven = FALSE
  MayFail = TRUE
  MaxDelay = 6
  MaxOrphans = 2
INVARIANT BackoffMatches
PROPERTY FeederlessRunRestarts
CHECK_DEADLOCK FALSE
