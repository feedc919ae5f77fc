CONSTANTS
  hash1 = hash1
  hash2 = hash2
  hash3 = hash3
  hash4 = hash4
  Blocks <- MCBlocks
  Txs <- MCTxs
  HeightOf <- MCHeightOf
  HashOf <- MCHashOf
  EthTxs <- MCEthTxs
  Absent <- MCAbsent
  Heights <- MCHeights
  BatchSize = 2
  InitialTargets <- MCInitialTargets
  MaxRuns = 2
  MaxFailures = 1
SPECIFICATION Spec
INVARIANTS  PatchedTxIsWhole RerunCompletes DeclinedIsKept OnlyChosenKeysChange
CHECK_DEADLOCK FALSE
