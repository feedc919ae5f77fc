-------------------------- MODULE MCMempoolManager --------------------------
(* Instances of MempoolManager.  Account a sends a0 and then a1, account b  *)
(* sends b0 and then b1; x0 bids more than a0 for the same sequence; m is   *)
(* signed by a and then by b, each with its first sequence.                 *)
EXTENDS MempoolManager

CONSTANTS a, b, a0, a1, b0, b1, x0, m

Accounts == {a, b}
FirstOf == [tx \in Txs |-> IF tx \in {b0, b1} THEN b ELSE a]
SeqsOf == [tx \in Txs |->
             CASE tx \in {a0, x0} -> [s \in {a} |-> 0]
               [] tx = a1 -> [s \in {a} |-> 1]
               [] tx = b0 -> [s \in {b} |-> 0]
               [] tx = b1 -> [s \in {b} |-> 1]
               [] tx = m -> [s \in {a, b} |-> 0]]
EthOnly == Txs \ {m}
PriorityOf == [tx \in Txs |-> IF tx = x0 THEN 12 ELSE 10]
Order == Filter(<<x0, a0, a1, m, b0, b1>>, Txs)

\* Sets of txs, and timeout heights.
Contenders == {m, x0, b1}
Siblings == {a0, a1}
OnlyX0 == {x0}
OnlyA1 == {a1}
OnlyM == {m}
Nothing == {}
NoTimeout == [tx \in Txs |-> 0]
MTimesOut == [tx \in Txs |-> IF tx = m THEN 2 ELSE 0]
=============================================================================
