\* One unit of two vouchers abroad and of a source token at home.
CONSTANTS
  ibc1 = ibc1
  ibc2 = ibc2
  cronos1 = cronos1
  c1 = c1
  c3 = c3
  None = None
  Denoms <- TestDenoms
  SourceDenoms <- TestSources
  Contracts <- TestContracts
  Embedded <- TestEmbedded
  Stock <- TestStock
  SourceSupply = 1
  EvmSupply = 1
  Scale = 2
  MaxAmount = 2
  MaxSent = 2
SPECIFICATION ConvSpec
INVARIANTS
  TokensBacked
  SourceCoinsBacked
  CroBacked
  VouchersConserved
