CONSTANTS
  n1 = n1 n2 = n2
  t1 = t1 t2 = t2 t3 = t3
  a1 = a1 a2 = a2 a3 = a3
  Nodes <- MCNodes
  Identified <- MCNodes
  IgnoreFailure <- MCIgnore
  Quorums <- MCQuorums
  Txs <- MCTxs
  Involves <- MCInvolves
  Size <- MCSize
  Gas <- MCGas
  FeeCap <- MCFeeCap
  Unblockable <- MCUnblockable
  Blobs <- MCBlobs
  Empty = Empty
  Fees <- MCFees
  NoFee = NoFee
  MaxBytes = 4
  MaxGas = 3
  MaxHeight = 3
  MaxFailures = 1
  MaxCrashes = 1
SPECIFICATION Spec
INVARIANTS ListFollowsChain WithinLimits StagedAreStranded
PROPERTIES HonestProposalAccepted UnpaidOnlyAfterRise
CHECK_DEADLOCK FALSE
