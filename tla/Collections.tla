----------------------------- MODULE Collections -----------------------------
(***************************************************************************)
(* Sums over finite sets, for balances and for sizes of txs, and parts of  *)
(* sequences, for snapshots and queues.                                    *)
(***************************************************************************)
EXTENDS Sequences, FiniteSetsExt

(* The sum of f[x] over the members x of the finite set S.                  *)
SumOver(f, S) == MapThenSumSet(LAMBDA x : f[x], S)

(* The elements of the sequence s that are in S, in their order.            *)
Filter(s, S) ==
  LET kept[n \in 0 .. Len(s)] ==
        IF n = 0 THEN <<>>
        ELSE IF s[n] \in S THEN Append(kept[n - 1], s[n]) ELSE kept[n - 1]
  IN  kept[Len(s)]
=============================================================================
