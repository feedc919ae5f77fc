\* A sender with two pending txs, batches of one.
CONSTANTS
  a = a
  b = b
  a0 = a0
  a1 = a1
  b0 = b0
  b1 = b1
  x0 = x0
  m = m
  NoTx = NoTx
  NotSeen = NotSeen
  Senders <- Accounts
  Txs <- Siblings
  First <- FirstOf
  Seqs <- SeqsOf
  EthTxs <- Nothing
  Priority <- PriorityOf
  PoolOrder <- Order
  TimeoutHeight <- NoTimeout
  Stamped <- OnlyA1
  Unencodable <- Nothing
  Fickle <- Nothing
  MaxTx = 0
  FeeBump = 10
  MaxRecheckBatch = 1
  TTLNumBlocks = 0
  MaxHeight = 1
SPECIFICATION FairSpec
INVARIANTS
  NoDoubleRecheck
PROPERTIES
  OwedEventuallyRechecked
  TimedOutTxLeaves
