---------------------------- MODULE MCGossipReap ----------------------------
(* o is oversized and hides all others; t1 and u1 are two pointers to the   *)
(* same content, before t2.  One content fits a reap.                       *)
EXTENDS GossipReap, TLC

CONSTANTS o, t1, u1, t2, c0, c1, c2

MCTxs        == {o, t1, u1, t2}
MCByPriority == <<o, t1, u1, t2>>
MCContent    == o :> c0 @@ t1 :> c1 @@ u1 :> c1 @@ t2 :> c2
MCSize       == o :> 3 @@ t1 :> 1 @@ u1 :> 1 @@ t2 :> 2
MCGas        == o :> 1 @@ t1 :> 2 @@ u1 :> 2 @@ t2 :> 1
MCUncached   == {o}
=============================================================================
