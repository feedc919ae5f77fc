-------------------------- MODULE MCPendingTxCache --------------------------
(* Two RPC readers and two threads that change the pool.                    *)
EXTENDS PendingTxCache, TLC

CONSTANTS r1, r2, w1, w2

TwoReaders == {r1, r2}
TwoWriters == {w1, w2}

ThreadSymmetry == Permutations(TwoReaders) \cup Permutations(TwoWriters)
=============================================================================
