\* Two pending txs of one sender, batches of one.
CONSTANTS
  a = a
  b = b
  a0 = a0
  a1 = a1
  b0 = b0
  b1 = b1
  x0 = x0
  m = m
  NoTx = NoTx
  NotSeen = NotSeen
  Senders <- Accounts
  Txs <- Siblings
  First <- FirstOf
  Seqs <- SeqsOf
  EthTxs <- Nothing
  Priority <- PriorityOf
  PoolOrder <- Order
  TimeoutHeight <- NoTimeout
  Stamped <- Nothing
  Unencodable <- Nothing
  Fickle <- Nothing
  MaxTx = 0
  FeeBump = 10
  MaxRecheckBatch = 1
  TTLNumBlocks = 0
  MaxHeight = 2
SPECIFICATION Spec
PROPERTY CarriedTxNotDropped
