SPECIFICATION GrantingSpec
CONSTANTS
  Slots <- MCSlots
  MaxTx = 2
  Unusable = {}
  Capacity = 1
  MaxAttempts = 2
PROPERTY SubscriptionRestored
CHECK_DEADLOCK FALSE
