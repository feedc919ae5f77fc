------------------------- MODULE MCTokenConversion -------------------------
(* Two vouchers and a source denom; an ordinary contract, to be deployed    *)
(* and mapped, and the contract of the source denom.                        *)
EXTENDS TokenConversion, TLC

CONSTANTS ibc1, ibc2, cronos1, c1, c3

TestDenoms == {ibc1, ibc2, cronos1}
TestSources == {cronos1}
TestContracts == {c1, c3}
TestEmbedded == cronos1 :> c3
TestStock == ibc1 :> 2 @@ ibc2 :> 1 @@ cronos1 :> 0
=============================================================================
