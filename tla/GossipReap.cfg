CONSTANTS
  o = o t1 = t1 u1 = u1 t2 = t2 c0 = c0 c1 = c1 c2 = c2
  Txs <- MCTxs
  ByPriority <- MCByPriority
  Content <- MCContent
  Size <- MCSize
  Gas <- MCGas
  Uncached <- MCUncached
  CacheCap = 2
  TTL = 2
  MaxBytes = 2
  MaxGas = 2
  MaxPerReap = 2
  MaxFaults = 1
  None = None
SPECIFICATION FairSpec
INVARIANTS CacheSound ReapWithinLimits TrackerIsExact
PROPERTIES OncePerTTL EventuallyGossiped
