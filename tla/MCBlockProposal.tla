--------------------------- MODULE MCBlockProposal ---------------------------
(* Two validators.  n1 alone is a quorum, so n2 can lag or disagree.        *)
EXTENDS BlockProposal, TLC

CONSTANTS n1, n2, t1, t2, t3, a1, a2, a3

MCNodes   == {n1, n2}
MCIgnore  == {n2}
MCQuorums == {{n1}, {n1, n2}}

MCTxs      == {t1, t2, t3}
MCInvolves == t1 :> {a1} @@ t2 :> {a1, a2} @@ t3 :> {a3}
MCSize     == t1 :> 1 @@ t2 :> 2 @@ t3 :> 2
MCGas      == t1 :> 2 @@ t2 :> 1 @@ t3 :> 2
MCFeeCap   == t1 :> 2 @@ t2 :> 1 @@ t3 :> 3

(* Both read the first blob, only n2 the second; the third is malformed.    *)
MCBlobs == { [addresses |-> {a1, a3}, readers |-> {n1, n2}],
             [addresses |-> {a2}, readers |-> {n2}],
             [addresses |-> {}, readers |-> {}] }
MCUnblockable == {a3}
MCFees == {NoFee, 1, 2}
=============================================================================
