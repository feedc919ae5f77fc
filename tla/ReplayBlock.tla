----------------------------- MODULE ReplayBlock -----------------------------
(***************************************************************************)
(* The ReplayBlock query (x/cronos/keeper/grpc_query.go), which re-executes*)
(* a block.  It runs for any number of callers at once, lets at most       *)
(* replayBlockConcurrency of them replay and at most replayBlockMaxQueued  *)
(* of them in, and turns the others away.  The counter of callers is an    *)
(* atomic and the slots are a buffered channel: each step below is one     *)
(* operation on one of them.                                               *)
(*                                                                         *)
(* What is replayed changes nothing that outlives the query, and every way *)
(* out of it (the gas limits, a failing message, the caller gone between   *)
(* two messages, the result) runs the same deferred calls.                 *)
(***************************************************************************)
EXTENDS Naturals, FiniteSets

CONSTANT Callers

replayBlockConcurrency == 4
replayBlockMaxQueued   == 4 * replayBlockConcurrency

VARIABLES
  replayBlockQueued,  \* the counter of callers
  replayBlockSem,     \* number of slots taken
  cpc                 \* where each caller is

replayVars == <<replayBlockQueued, replayBlockSem, cpc>>

ReplayInit ==
  /\ replayBlockQueued = 0
  /\ replayBlockSem = 0
  /\ cpc = [c \in Callers |-> "away"]

Goto(c, label) == cpc' = [cpc EXCEPT ![c] = label]

(* The caller counts itself and looks at the result.  (A request with too   *)
(* many messages is refused before.)                                        *)
Enter(c) ==
  /\ cpc[c] = "away"
  /\ replayBlockQueued' = replayBlockQueued + 1
  /\ Goto(c, IF replayBlockQueued + 1 > replayBlockMaxQueued THEN "refused" ELSE "waiting")
  /\ UNCHANGED replayBlockSem

(* One too many: it takes itself off the count.                             *)
Refuse(c) ==
  /\ cpc[c] = "refused"
  /\ replayBlockQueued' = replayBlockQueued - 1
  /\ Goto(c, "away")
  /\ UNCHANGED replayBlockSem

(* select: a slot is free ...                                               *)
TakeSlot(c) ==
  /\ cpc[c] = "waiting"
  /\ replayBlockSem < replayBlockConcurrency
  /\ replayBlockSem' = replayBlockSem + 1
  /\ Goto(c, "replaying")
  /\ UNCHANGED replayBlockQueued

(* ... or the client has gone.                                              *)
GiveUp(c) ==
  /\ cpc[c] = "waiting"
  /\ Goto(c, "leaving")
  /\ UNCHANGED <<replayBlockQueued, replayBlockSem>>

(* The replay ends, in whatever way: the slot is given back first, ...      *)
FreeSlot(c) ==
  /\ cpc[c] = "replaying"
  /\ replayBlockSem' = replayBlockSem - 1
  /\ Goto(c, "leaving")
  /\ UNCHANGED replayBlockQueued

(* ... the place in the queue after it.                                     *)
Leave(c) ==
  /\ cpc[c] = "leaving"
  /\ replayBlockQueued' = replayBlockQueued - 1
  /\ Goto(c, "away")
  /\ UNCHANGED replayBlockSem

ReplayNext ==
  \E c \in Callers :
    Enter(c) \/ Refuse(c) \/ TakeSlot(c) \/ GiveUp(c) \/ FreeSlot(c) \/ Leave(c)

ReplaySpec == ReplayInit /\ [][ReplayNext]_replayVars

-----------------------------------------------------------------------------
At(labels) == {c \in Callers : cpc[c] \in labels}

(* Those that are running or wait for a slot, in the words of the comment   *)
(* on the counter, and those it counts.                                     *)
Admitted == At({"waiting", "replaying", "leaving"})
Counted  == At({"refused", "waiting", "replaying", "leaving"})

ReplayTypeOK ==
  /\ replayBlockQueued \in Nat /\ replayBlockSem \in Nat
  /\ cpc \in [Callers -> {"away", "refused", "waiting", "replaying", "leaving"}]

(* Every way through the query gives back exactly what it took: the counter *)
(* and the channel hold one unit for each caller that is still inside, and  *)
(* nothing when they have all left, so that the endpoint never closes for   *)
(* good (grpc_query.go:82-95).                                              *)
NothingLeaks ==
  /\ IsFiniteSet(Counted)
  /\ replayBlockQueued = Cardinality(Counted)
  /\ replayBlockSem = Cardinality(At({"replaying"}))

(* However many call at once, at most replayBlockConcurrency blocks are     *)
(* replayed at a time and at most replayBlockMaxQueued callers are let in,  *)
(* although a caller counts itself before it knows whether it may stay      *)
(* (grpc_query.go:27-39).                                                   *)
LimitsHold ==
  /\ Cardinality(At({"replaying"})) <= replayBlockConcurrency
  /\ Cardinality(Admitted) <= replayBlockMaxQueued
=============================================================================
