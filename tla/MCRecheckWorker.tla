-------------------------- MODULE MCRecheckWorker ---------------------------
(* The callers of RecheckWorker's model-checked instance.                   *)
EXTENDS RecheckWorker

CONSTANTS r1, r2, s1, s2, v1

TwoRequesters == {r1, r2}
TwoStoppers   == {s1, s2}
OneWaiter     == {v1}
=============================================================================
