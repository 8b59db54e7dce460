SPECIFICATION ReadSpec
CONSTANTS
  Listings <- AllListings
  MaxRows = 4
  MaxWrites = 1
  Holdings <- MCHoldings
  Amounts <- MCAmounts
  AskedLimits <- MCLimits
  DefaultLimit = 2
  MaxLimit = 3
INVARIANT NothingSlipsPast
INVARIANT MissedAreLate
CHECK_DEADLOCK FALSE
