\* A cosigned tx that times out, a rival bid for its sequence, a cosigner's next tx.
CONSTANTS
  a = a
  b = b
  a0 = a0
  a1 = a1
  b0 = b0
  b1 = b1
  x0 = x0
  m = m
  NoTx = NoTx
  NotSeen = NotSeen
  Senders <- Accounts
  Txs <- Contenders
  First <- FirstOf
  Seqs <- SeqsOf
  EthTxs <- OnlyX0
  Priority <- PriorityOf
  PoolOrder <- Order
  TimeoutHeight <- MTimesOut
  Stamped <- Nothing
  Unencodable <- OnlyX0
  Fickle <- OnlyM
  MaxTx = 2
  FeeBump = 10
  MaxRecheckBatch = 1
  TTLNumBlocks = 1
  MaxHeight = 2
SPECIFICATION Spec
INVARIANT NoOwedTxForgotten
