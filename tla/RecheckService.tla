--------------------------- MODULE RecheckService ---------------------------
(***************************************************************************)
(* What the recheck worker promises to the consensus path, without gates,  *)
(* channels or locks.  Commit asks for a recheck; the service runs one     *)
(* recheck at a time; a run accounts for every request made before it      *)
(* started, so several requests may share a run; there are never more runs *)
(* than requests; and once the service is shut down no request is accepted *)
(* and no run is started.                                                  *)
(***************************************************************************)
EXTENDS Naturals

VARIABLES
  requests,   \* requests accepted so far
  covered,    \* requests accounted for by finished runs
  covering,   \* requests the current (or last) run accounts for
  runs,       \* runs started so far
  running,    \* whether a run is in progress
  shut        \* whether the service has been shut down

svcVars == <<requests, covered, covering, runs, running, shut>>

Init ==
  /\ requests = 0
  /\ covered = 0
  /\ covering = 0
  /\ runs = 0
  /\ running = FALSE
  /\ shut = FALSE

Request ==
  /\ ~shut
  /\ requests' = requests + 1
  /\ UNCHANGED <<covered, covering, runs, running, shut>>

Start ==
  /\ ~shut
  /\ ~running
  /\ runs < requests
  /\ running' = TRUE
  /\ runs' = runs + 1
  /\ covering' = requests
  /\ UNCHANGED <<requests, covered, shut>>

Finish ==
  /\ running
  /\ running' = FALSE
  /\ covered' = covering
  /\ UNCHANGED <<requests, covering, runs, shut>>

Shut ==
  /\ ~shut
  /\ shut' = TRUE
  /\ UNCHANGED <<requests, covered, covering, runs, running>>

Next == Request \/ Start \/ Finish \/ Shut

Spec == Init /\ [][Next]_svcVars
=============================================================================
