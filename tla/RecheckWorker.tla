--------------------------- MODULE RecheckWorker ----------------------------
(***************************************************************************)
(* The recheck worker of the app-side mempool (app/mempool/                *)
(* recheck_worker.go): a goroutine that runs one recheck per drained       *)
(* trigger, a buffered-1 channel of gates that coalesces triggers, and the *)
(* gate PrepareProposal waits on.                                          *)
(*                                                                         *)
(* A gate (a chan struct{}) is a number; it is closed when it is in        *)
(* closed.  Gate 0 is the one closed at construction.  Every process step  *)
(* that touches shared state is an action of its own, so that every        *)
(* interleaving the mutex readyMu leaves open is explored.                 *)
(***************************************************************************)
EXTENDS Naturals

CONSTANTS
  Requesters,   \* threads that call recheck() (App.Commit)
  Waiters,      \* threads that call wait() (PrepareProposal)
  Stoppers,     \* threads that call stop() (App.Close)
  Free,         \* readyMu when nobody holds it
  MaxRequests   \* bound on the calls of recheck()

ASSUME WorkerAssumption ==
  /\ Requesters \cap Stoppers = {}
  /\ Free \notin Requesters \cup Stoppers
  /\ MaxRequests \in Nat

VARIABLES
  trigger,    \* gates buffered in the trigger channel (at most one)
  ready,      \* w.ready: the gate queued last
  lastGate,   \* gates made so far
  closed,     \* gates that are closed
  quit,       \* whether w.quit is closed
  done,       \* whether w.done is closed
  readyMu,    \* holder of w.readyMu, or Free
  once,       \* state of w.stopOnce: "new", "running" or "done"
  wpc,        \* where the worker goroutine is
  wgate,      \* the gate it received from trigger
  rpc,        \* where each requester is
  spc,        \* where each stopper is
  vpc,        \* where each waiter is
  vgate,      \* the gate each waiter waits on
  calls,      \* calls of recheck() begun
  requests,   \* calls of recheck() that found the worker open
  covering,   \* value of requests when the current or last run began
  runs,       \* calls of fn begun
  covered,    \* value of requests when the last finished run began
  vseen       \* value of requests when each waiter read w.ready

vars == <<trigger, ready, lastGate, closed, quit, done, readyMu, once, wpc,
          wgate, rpc, spc, vpc, vgate, calls, requests, covering, runs,
          covered, vseen>>

chanVars == <<trigger, ready, lastGate, closed>>
stopVars == <<quit, done, once, spc>>
workVars == <<wpc, wgate, covering, covered, runs>>
reqVars  == <<rpc, calls, requests>>
waitVars == <<vpc, vgate, vseen>>

-----------------------------------------------------------------------------
(* newRecheckWorker and start: the idle gate is closed, the goroutine is    *)
(* at its select.                                                           *)
Init ==
  /\ trigger = {}
  /\ ready = 0
  /\ lastGate = 0
  /\ closed = {0}
  /\ quit = FALSE
  /\ done = FALSE
  /\ readyMu = Free
  /\ once = "new"
  /\ wpc = "select"
  /\ wgate = 0
  /\ rpc = [r \in Requesters |-> "idle"]
  /\ spc = [s \in Stoppers |-> "idle"]
  /\ vpc = [v \in Waiters |-> "idle"]
  /\ vgate = [v \in Waiters |-> 0]
  /\ calls = 0
  /\ requests = 0
  /\ covering = 0
  /\ covered = 0
  /\ runs = 0
  /\ vseen = [v \in Waiters |-> 0]

-----------------------------------------------------------------------------
(* recheck(): lock, leave if quit is closed, try to send a fresh gate.      *)
RecheckLock(r) ==
  /\ rpc[r] = "idle"
  /\ calls < MaxRequests
  /\ readyMu = Free
  /\ readyMu' = r
  /\ calls' = calls + 1
  /\ rpc' = [rpc EXCEPT ![r] = "checkQuit"]
  /\ UNCHANGED <<requests, chanVars, stopVars, workVars, waitVars>>

(* Mutant: readyMu narrowed to guard ready only, released before the send.  *)
RecheckCheckQuitNarrowLock(r) ==
  /\ rpc[r] = "checkQuit"
  /\ rpc' = [rpc EXCEPT ![r] = IF quit THEN "idle" ELSE "send"]
  /\ readyMu' = Free
  /\ UNCHANGED <<calls, requests, chanVars, stopVars, workVars, waitVars>>

RecheckCheckQuit(r) ==
  /\ rpc[r] = "checkQuit"
  /\ \/ /\ quit
        /\ rpc' = [rpc EXCEPT ![r] = "idle"]
        /\ readyMu' = Free
     \/ /\ ~quit
        /\ rpc' = [rpc EXCEPT ![r] = "send"]
        /\ UNCHANGED readyMu
  /\ UNCHANGED <<calls, requests, chanVars, stopVars, workVars, waitVars>>

(* Mutant: wakeups share the current gate instead of carrying their own.    *)
RecheckSendSharedGate(r) ==
  /\ rpc[r] = "send"
  /\ trigger' = {ready}
  /\ requests' = requests + 1
  /\ rpc' = [rpc EXCEPT ![r] = "idle"]
  /\ readyMu' = Free
  /\ UNCHANGED <<lastGate, ready, closed, calls, stopVars, workVars, waitVars>>

(* Mutant: the gate is sent but w.ready keeps the older one.                *)
RecheckSendStaleReady(r) ==
  /\ rpc[r] = "send"
  /\ \/ /\ trigger = {}
        /\ trigger' = {lastGate + 1}
        /\ lastGate' = lastGate + 1
     \/ /\ trigger # {}
        /\ UNCHANGED <<trigger, lastGate>>
  /\ requests' = requests + 1
  /\ rpc' = [rpc EXCEPT ![r] = "idle"]
  /\ readyMu' = Free
  /\ UNCHANGED <<ready, closed, calls, stopVars, workVars, waitVars>>

(* Mutant: the trigger channel is unbuffered, so a wakeup that finds the    *)
(* worker busy is dropped.                                                  *)
RecheckSendUnbuffered(r) ==
  /\ rpc[r] = "send"
  /\ \/ /\ trigger = {} /\ wpc = "select"
        /\ trigger' = {lastGate + 1}
        /\ lastGate' = lastGate + 1
        /\ ready' = lastGate + 1
     \/ /\ trigger # {} \/ wpc # "select"
        /\ UNCHANGED <<trigger, lastGate, ready>>
  /\ requests' = requests + 1
  /\ rpc' = [rpc EXCEPT ![r] = "idle"]
  /\ readyMu' = Free
  /\ UNCHANGED <<closed, calls, stopVars, workVars, waitVars>>

RecheckSend(r) ==
  /\ rpc[r] = "send"
  /\ \/ /\ trigger = {}
        /\ trigger' = {lastGate + 1}
        /\ lastGate' = lastGate + 1
        /\ ready' = lastGate + 1
     \/ /\ trigger # {}
        /\ UNCHANGED <<trigger, lastGate, ready>>
  /\ requests' = requests + 1
  /\ rpc' = [rpc EXCEPT ![r] = "idle"]
  /\ readyMu' = Free
  /\ UNCHANGED <<closed, calls, stopVars, workVars, waitVars>>

-----------------------------------------------------------------------------
(* run(): the goroutine's loop.  When both quit and trigger are ready the  *)
(* select takes either case.                                               *)
(* Mutant: the loop ranges over trigger and never selects on quit.          *)
RunQuitNotSelected ==
  /\ wpc = "select"
  /\ quit
  /\ FALSE
  /\ UNCHANGED vars

RunQuit ==
  /\ wpc = "select"
  /\ quit
  /\ wpc' = "drain"
  /\ UNCHANGED <<wgate, covering, covered, runs, readyMu, chanVars, stopVars, reqVars, waitVars>>

RunTake ==
  /\ wpc = "select"
  /\ \E g \in trigger : wgate' = g
  /\ trigger' = {}
  /\ wpc' = "checkQuit"
  /\ UNCHANGED <<ready, lastGate, closed, covering, covered, runs, readyMu, stopVars, reqVars, waitVars>>

(* Mutant: fn runs for every gate taken, quit is not looked at again.       *)
RunCheckQuitSkipped ==
  /\ wpc = "checkQuit"
  /\ wpc' = "fn"
  /\ covering' = requests
  /\ runs' = runs + 1
  /\ UNCHANGED <<chanVars, wgate, covered, readyMu, stopVars, reqVars, waitVars>>

(* The second look at quit; fn begins here when it is still open.           *)
RunCheckQuit ==
  /\ wpc = "checkQuit"
  /\ \/ /\ quit
        /\ closed' = closed \cup {wgate}
        /\ wpc' = "drain"
        /\ UNCHANGED <<covering, runs>>
     \/ /\ ~quit
        /\ wpc' = "fn"
        /\ covering' = requests
        /\ runs' = runs + 1
        /\ UNCHANGED closed
  /\ UNCHANGED <<trigger, ready, lastGate, wgate, covered, readyMu, stopVars, reqVars, waitVars>>

RunFnReturns ==
  /\ wpc = "fn"
  /\ wpc' = "close"
  /\ covered' = covering
  /\ UNCHANGED <<wgate, covering, runs, readyMu, chanVars, stopVars, reqVars, waitVars>>

RunCloseGate ==
  /\ wpc = "close"
  /\ closed' = closed \cup {wgate}
  /\ wpc' = "select"
  /\ UNCHANGED <<trigger, ready, lastGate, wgate, covering, covered, runs, readyMu, stopVars, reqVars, waitVars>>

(* Mutant: run returns on quit without draining the trigger channel.        *)
DrainTriggerSkipped ==
  /\ wpc = "drain"
  /\ wpc' = "exited"
  /\ done' = TRUE
  /\ UNCHANGED <<chanVars, wgate, covering, covered, runs, quit, once, spc, readyMu, reqVars, waitVars>>

(* drainTrigger, then the deferred close(w.done).                           *)
DrainTrigger ==
  /\ wpc = "drain"
  /\ \/ /\ trigger # {}
        /\ closed' = closed \cup trigger
        /\ trigger' = {}
        /\ UNCHANGED <<wpc, done>>
     \/ /\ trigger = {}
        /\ wpc' = "exited"
        /\ done' = TRUE
        /\ UNCHANGED <<trigger, closed>>
  /\ UNCHANGED <<ready, lastGate, wgate, covering, covered, runs, quit, once, spc, readyMu, reqVars, waitVars>>

-----------------------------------------------------------------------------
(* stop(): sync.Once lets one caller close quit under readyMu and makes the *)
(* others wait for it; every caller then waits for done.  The model begins  *)
(* after start(): stop() of a worker never started, whose quit is nil,      *)
(* returns at once and changes nothing.                                     *)
StopOnce(s) ==
  /\ spc[s] = "idle"
  /\ \/ /\ once = "new"
        /\ once' = "running"
        /\ spc' = [spc EXCEPT ![s] = "lock"]
     \/ /\ once = "done"
        /\ spc' = [spc EXCEPT ![s] = "waitDone"]
        /\ UNCHANGED once
  /\ UNCHANGED <<quit, done, readyMu, chanVars, workVars, reqVars, waitVars>>

StopLock(s) ==
  /\ spc[s] = "lock"
  /\ readyMu = Free
  /\ readyMu' = s
  /\ spc' = [spc EXCEPT ![s] = "closeQuit"]
  /\ UNCHANGED <<quit, done, once, chanVars, workVars, reqVars, waitVars>>

StopCloseQuit(s) ==
  /\ spc[s] = "closeQuit"
  /\ quit' = TRUE
  /\ readyMu' = Free
  /\ once' = "done"
  /\ spc' = [spc EXCEPT ![s] = "waitDone"]
  /\ UNCHANGED <<done, chanVars, workVars, reqVars, waitVars>>

(* Mutant: stop() signals the worker and does not wait for it.              *)
StopReturnEarly(s) ==
  /\ spc[s] = "waitDone"
  /\ spc' = [spc EXCEPT ![s] = "returned"]
  /\ UNCHANGED <<quit, done, once, readyMu, chanVars, workVars, reqVars, waitVars>>

StopReturn(s) ==
  /\ spc[s] = "waitDone"
  /\ done
  /\ spc' = [spc EXCEPT ![s] = "returned"]
  /\ UNCHANGED <<quit, done, once, readyMu, chanVars, workVars, reqVars, waitVars>>

-----------------------------------------------------------------------------
(* wait(ctx): read ready under readyMu, then select on the gate and on the  *)
(* context.  The context may expire at any moment; the gate is looked at    *)
(* once more before a timeout is reported.                                  *)
WaitReadReady(v) ==
  /\ vpc[v] \in {"idle", "finished", "timedOut"}
  /\ readyMu = Free
  /\ vgate' = [vgate EXCEPT ![v] = ready]
  /\ vseen' = [vseen EXCEPT ![v] = requests]
  /\ vpc' = [vpc EXCEPT ![v] = "waiting"]
  /\ UNCHANGED <<readyMu, chanVars, stopVars, workVars, reqVars>>

WaitGateClosed(v) ==
  /\ vpc[v] = "waiting"
  /\ vgate[v] \in closed
  /\ vpc' = [vpc EXCEPT ![v] = "finished"]
  /\ UNCHANGED <<vgate, vseen, readyMu, chanVars, stopVars, workVars, reqVars>>

WaitCtxDone(v) ==
  /\ vpc[v] = "waiting"
  /\ vpc' = [vpc EXCEPT ![v] = "ctxDone"]
  /\ UNCHANGED <<vgate, vseen, readyMu, chanVars, stopVars, workVars, reqVars>>

WaitLastLook(v) ==
  /\ vpc[v] = "ctxDone"
  /\ vpc' = [vpc EXCEPT ![v] = IF vgate[v] \in closed THEN "finished" ELSE "timedOut"]
  /\ UNCHANGED <<vgate, vseen, readyMu, chanVars, stopVars, workVars, reqVars>>

-----------------------------------------------------------------------------
Worker == RunQuit \/ RunTake \/ RunCheckQuit \/ RunFnReturns \/ RunCloseGate \/ DrainTrigger

Requester(r) == RecheckLock(r) \/ RecheckCheckQuit(r) \/ RecheckSend(r)

Stopper(s) == StopOnce(s) \/ StopLock(s) \/ StopCloseQuit(s) \/ StopReturn(s)

Waiter(v) == WaitReadReady(v) \/ WaitGateClosed(v) \/ WaitCtxDone(v) \/ WaitLastLook(v)

Next ==
  \/ Worker
  \/ \E r \in Requesters : Requester(r)
  \/ \E s \in Stoppers : Stopper(s)
  \/ \E v \in Waiters : Waiter(v)

Spec == Init /\ [][Next]_vars

(* Every goroutine that can run is eventually scheduled: the worker (whose  *)
(* fn, RecheckTxs, terminates), a requester inside recheck(), a stopper     *)
(* once it has called stop(), and a waiter whose gate is closed.  A Go      *)
(* mutex hands over to a starved waiter, hence strong fairness of StopLock. *)
(* Nobody is obliged to call recheck(), stop() or wait(), and no wait       *)
(* relies on its context expiring.                                          *)
Fairness ==
  /\ WF_vars(Worker)
  /\ \A r \in Requesters : WF_vars(RecheckCheckQuit(r) \/ RecheckSend(r))
  /\ \A s \in Stoppers :
       /\ SF_vars(StopLock(s))
       /\ WF_vars(StopCloseQuit(s) \/ StopReturn(s))
  /\ \A v \in Waiters : WF_vars(WaitGateClosed(v) \/ WaitLastLook(v))

FairSpec == Spec /\ Fairness

-----------------------------------------------------------------------------
Gates == Nat

(* Types; trigger is a channel with one place.                              *)
TypeOK ==
  /\ trigger \subseteq Gates
  /\ \A g, h \in trigger : g = h
  /\ ready \in Gates
  /\ lastGate \in Gates
  /\ closed \subseteq Gates
  /\ quit \in BOOLEAN
  /\ done \in BOOLEAN
  /\ readyMu \in Requesters \cup Stoppers \cup {Free}
  /\ once \in {"new", "running", "done"}
  /\ wpc \in {"select", "checkQuit", "fn", "close", "drain", "exited"}
  /\ wgate \in Gates
  /\ rpc \in [Requesters -> {"idle", "checkQuit", "send"}]
  /\ spc \in [Stoppers -> {"idle", "lock", "closeQuit", "waitDone", "returned"}]
  /\ vpc \in [Waiters -> {"idle", "waiting", "ctxDone", "finished", "timedOut"}]
  /\ vgate \in [Waiters -> Gates]
  /\ calls \in Nat
  /\ requests \in Nat
  /\ covering \in Nat
  /\ covered \in Nat
  /\ runs \in Nat
  /\ vseen \in [Waiters -> Nat]

(* No gate outlives the worker (readyMu's comment, recheck_worker.go:16-18):*)
(* once run() has returned, nothing is left in trigger and the gate a later *)
(* wait() would block on is closed.                                         *)
NoOrphanGate == done => trigger = {} /\ ready \in closed

(* close() of a closed channel panics: a gate that is buffered, or that the *)
(* worker holds and has yet to close, is still open.                        *)
GateClosedOnce ==
  /\ trigger \cap closed = {}
  /\ wpc \in {"checkQuit", "fn", "close"} => wgate \notin closed \cup trigger

(* wait() reporting "not timed out" before shutdown means that a run that   *)
(* began after every recheck() which preceded the wait has finished: the    *)
(* proposal is not built on a pool that the last Commit left unchecked.     *)
WaitCoversRequests ==
  \A v \in Waiters : vpc[v] = "finished" /\ ~quit => vseen[v] <= covered

(* App.Close tears the stores down after stop(): whoever returned from      *)
(* stop(), first caller or not, knows the worker goroutine is gone.         *)
StopMeansExited ==
  \A s \in Stoppers : spc[s] = "returned" => wpc = "exited"

-----------------------------------------------------------------------------
(* The inductive invariant behind the properties above, in named parts.     *)

(* Only the holder of readyMu is inside recheck()'s critical section or     *)
(* about to close quit, and quit stays open while a gate is being sent.     *)
LockInv ==
  /\ \A r \in Requesters : rpc[r] \in {"checkQuit", "send"} => readyMu = r
  /\ \A r \in Requesters : rpc[r] = "send" => ~quit
  /\ \A s \in Stoppers : spc[s] = "closeQuit" => readyMu = s

(* sync.Once: the quit channel is closed exactly when the Once is done, and *)
(* at most one stopper is on its way to close it.                           *)
OnceInv ==
  /\ quit <=> once = "done"
  /\ \A s \in Stoppers : spc[s] \in {"lock", "closeQuit"} => once = "running"
  /\ \A s, t \in Stoppers :
       spc[s] \in {"lock", "closeQuit"} /\ spc[t] \in {"lock", "closeQuit"} => s = t

(* The worker leaves its loop only after quit, and done only with it.       *)
ExitInv ==
  /\ wpc \in {"drain", "exited"} => quit
  /\ done <=> wpc = "exited"
  /\ done => trigger = {}
  /\ \A s \in Stoppers : spc[s] = "returned" => done

(* Gates are made in order; the buffered one is the newest.                 *)
GateInv ==
  /\ ready = lastGate
  /\ trigger \subseteq {lastGate}
  /\ closed \subseteq 0..lastGate
  /\ wgate <= lastGate
  /\ GateClosedOnce

(* Progress of the counters: no more runs than gates taken, no more gates   *)
(* than requests.                                                           *)
CountInv ==
  /\ covered <= covering
  /\ covering <= requests
  /\ lastGate <= requests
  /\ runs <= wgate
  /\ wpc = "checkQuit" => runs < wgate
  /\ trigger # {} => wgate < lastGate

(* Gate g accounts for the first n requests: it is closed and they are      *)
(* covered (or the worker is being stopped), or it is on its way to that.   *)
Serves(g, n) ==
  \/ g \in closed /\ (quit \/ n <= covered)
  \/ g \in trigger
  \/ g = wgate /\ wpc = "checkQuit"
  \/ g = wgate /\ wpc = "fn" /\ n <= covering
  \/ g = wgate /\ wpc = "close" /\ n <= covered

ServeInv ==
  /\ Serves(ready, requests)
  /\ \A v \in Waiters :
       /\ vseen[v] <= requests
       /\ vpc[v] \in {"waiting", "ctxDone"} => Serves(vgate[v], vseen[v])

(* Everything the worker relies on, at once: every gate a thread may be     *)
(* blocked on is closed, or is still owned by a worker that will close it   *)
(* after a run that covers the blocked thread's requests.                   *)
WorkerInv ==
  LockInv /\ OnceInv /\ ExitInv /\ GateInv /\ CountInv /\ ServeInv /\ WaitCoversRequests

(* The worker implements the recheck service: one run at a time, none       *)
(* without an outstanding request, none begun after shutdown, each covering *)
(* all the requests that precede it.                                        *)
Service == INSTANCE RecheckService WITH running <- (wpc = "fn"), shut <- quit

ServiceSpec == Service!Spec

(* A thread blocked in wait() returns without help from its context.        *)
WaitReturns == \A v \in Waiters : vpc[v] = "waiting" ~> vpc[v] # "waiting"

(* stop() returns to each of its callers.                                   *)
StopReturns == \A s \in Stoppers : spc[s] \in {"lock", "waitDone"} ~> spc[s] = "returned"

(* Coalescing loses no request: each one is covered by a run that begins    *)
(* after it and finishes, unless the worker is being stopped.               *)
RequestsServed ==
  \A n \in 1..MaxRequests : requests >= n ~> covered >= n \/ quit
=============================================================================
