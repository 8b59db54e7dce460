SPECIFICATION Spec
CONSTANTS
  k1 = k1
  k2 = k2
  Keys <- MCKeys
  Chain <- MCChain
  MaxDeliveries = 3
INVARIANT OneRowPerSwap
CHECK_DEADLOCK FALSE
