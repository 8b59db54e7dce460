SPECIFICATION FairSourcesSpec
CONSTANTS
  Sources = {subscriber, backfill}
  Subscriber = subscriber
  Backfill = backfill
  Capacity = 2
  MaxUpdates = 4
  MaxSlot = 1
  MaxAttempts = 2
  Accounts = 3
  Failing <- MCFailing
  Immediate = FALSE
  TokenGiven = TRUE
INVARIANT SamplesAreShown
INVARIANT TagsNeverAhead
PROPERTY RunProgresses
PROPERTY RefinesInOrder
CHECK_DEADLOCK FALSE
