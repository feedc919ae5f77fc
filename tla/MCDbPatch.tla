------------------------------ MODULE MCDbPatch ------------------------------
(* Heights 1 and 2 are patched, 3 is not.  Inclusions 11 and 21 are of one  *)
(* Ethereum tx, in two blocks; 22 is of an Ethereum tx whose result the     *)
(* source has lost, 12 of a tx that is no Ethereum tx.                      *)
EXTENDS DbPatch, TLC

CONSTANTS hash1, hash2, hash3, hash4

MCBlocks   == <<1, 2, 3>>
MCTxs      == <<11, 12, 21, 22, 31>>
MCHeightOf == 11 :> 1 @@ 12 :> 1 @@ 21 :> 2 @@ 22 :> 2 @@ 31 :> 3
MCHashOf   == 11 :> hash1 @@ 12 :> hash2 @@ 21 :> hash1 @@ 22 :> hash4 @@ 31 :> hash3
MCEthTxs   == {hash1, hash3, hash4}
MCAbsent   == {<<"hash", hash4>>}
MCHeights  == {1, 2}

(* Everything, or all but the second block.                                 *)
MCInitialTargets == {Keys, {k \in Keys : 2 \notin HeightsOf(k)}}
=============================================================================
