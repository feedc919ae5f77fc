\* Two vouchers, a source denom, three contracts, every legacy store.
CONSTANTS
  ibc1 = ibc1
  ibc2 = ibc2
  cronos1 = cronos1
  c1 = c1
  c2 = c2
  c3 = c3
  None = None
  Denoms <- TestDenoms
  SourceDenoms <- TestSources
  Contracts <- TestContracts
  Embedded <- TestEmbedded
SPECIFICATION Spec
SYMMETRY MappingSymmetry
INVARIANTS
  RoundTrip
  PanicOnlyOnTorn
  ImportKeepsMapping
PROPERTY
  MappingChanges
CHECK_DEADLOCK FALSE
