SPECIFICATION EmaSpec
CONSTANTS
  Swaps <- MCSwaps
  TxOf <- MCTxOf
  Earlier <- MCEarlier
  Unknowns <- MCUnknowns
  Batch = 1
  Limits <- MCLimits
  MaxScripted = 2
  PairOf <- MCPairOf
  PairBatch = 1
  RowBatch = 1
  Alone = TRUE
INVARIANT NeverBackToPlain
INVARIANT StreamAgreesWithTable
INVARIANT NoSwapVanishes
INVARIANT ReportsAreTrue
PROPERTY BufferIsFlushed
PROPERTY BackfillEnds
CHECK_DEADLOCK FALSE
