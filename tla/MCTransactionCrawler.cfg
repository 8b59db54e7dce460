SPECIFICATION FairStartSpec
CONSTANTS
  MaxSig = 3
  BatchLimit = 2
  MaxConcurrent = 2
  MaxRetries = 1
  SigCapacity = 1
  TxCapacity = 1
  OutCapacity = 1
  StartBefore <- MCStartBefore
  SlotOf <- MCSlotOf
  Args <- MCArgs
  Envs <- MCEnvs
  PageLimit = 1
  MaxPages = 2
  Unusable <- MCUnusable
INVARIANT ListedExactlyOnce
INVARIANT StartsWithinBlock
PROPERTY EveryoneDecided
PROPERTY CancelEndsTasks
PROPERTY RefinesDelivery
CHECK_DEADLOCK FALSE
