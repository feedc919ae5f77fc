--------------------------- MODULE MCTokenMapping ---------------------------
(* Two vouchers and a source denom, and three contracts, one of them the    *)
(* one the source denom names.                                              *)
EXTENDS TokenMapping, TLC

CONSTANTS ibc1, ibc2, cronos1, c1, c2, c3

TestDenoms == {ibc1, ibc2, cronos1}
TestSources == {cronos1}
TestContracts == {c1, c2, c3}
TestEmbedded == cronos1 :> c3

MappingSymmetry == Permutations({ibc1, ibc2}) \cup Permutations({c1, c2})
=============================================================================
