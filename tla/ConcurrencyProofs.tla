-------------------------- MODULE ConcurrencyProofs --------------------------
(***************************************************************************)
(* Where the threads of a node meet, for any number of them: the worker    *)
(* that rechecks the pool and its callers, the cache of pending txs, the   *)
(* decode cache, and the counter and slots of the ReplayBlock query.  The  *)
(* four are independent, and each has a specification of its own.          *)
(***************************************************************************)
EXTENDS RecheckWorker, PendingTxCache, DecodeCache, ReplayBlock, FiniteSetTheorems, TLAPS

-----------------------------------------------------------------------------
(* Every step of the worker or of a caller keeps each variable of the       *)
(* recheck worker in its type.                                              *)
LEMMA WorkerTypeStep == TypeOK /\ [Next]_vars => TypeOK'
<1> SUFFICES ASSUME TypeOK, [Next]_vars PROVE TypeOK'
  BY Zenon
<1> USE WorkerAssumption DEF TypeOK, Gates, chanVars, stopVars, workVars, reqVars, waitVars
<1>1. ASSUME NEW r \in Requesters, RecheckLock(r) PROVE TypeOK'
  BY <1>1 DEF RecheckLock
<1>2. ASSUME NEW r \in Requesters, RecheckCheckQuit(r) PROVE TypeOK'
  BY <1>2, Zenon DEF RecheckCheckQuit
<1>3. ASSUME NEW r \in Requesters, RecheckSend(r) PROVE TypeOK'
  <2>1. lastGate + 1 \in Nat /\ {lastGate + 1} \subseteq Nat
    OBVIOUS
  <2>2. trigger' \subseteq Gates /\ ready' \in Gates /\ lastGate' \in Gates
    BY <1>3, <2>1, Zenon DEF RecheckSend
  <2> QED
    BY <1>3, <2>2 DEF RecheckSend
<1>4. ASSUME RunQuit PROVE TypeOK'
  BY <1>4, Zenon DEF RunQuit
<1>5. ASSUME RunTake PROVE TypeOK'
  BY <1>5, Zenon DEF RunTake
<1>6. ASSUME RunCheckQuit PROVE TypeOK'
  <2> USE <1>6
  <2>1. closed' \subseteq Gates
    BY Zenon DEF RunCheckQuit
  <2>2. wpc' \in {"fn", "drain"} /\ covering' \in Nat /\ runs' \in Nat
    BY DEF RunCheckQuit
  <2> QED
    BY <2>1, <2>2, Zenon DEF RunCheckQuit
<1>7. ASSUME RunFnReturns PROVE TypeOK'
  BY <1>7, Zenon DEF RunFnReturns
<1>8. ASSUME RunCloseGate PROVE TypeOK'
  BY <1>8, Zenon DEF RunCloseGate
<1>9. ASSUME DrainTrigger PROVE TypeOK'
  BY <1>9, Zenon DEF DrainTrigger
<1>10. ASSUME NEW s \in Stoppers, StopOnce(s) PROVE TypeOK'
  BY <1>10, Zenon DEF StopOnce
<1>11. ASSUME NEW s \in Stoppers, StopLock(s) PROVE TypeOK'
  BY <1>11, Zenon DEF StopLock
<1>12. ASSUME NEW s \in Stoppers, StopCloseQuit(s) PROVE TypeOK'
  BY <1>12, Zenon DEF StopCloseQuit
<1>13. ASSUME NEW s \in Stoppers, StopReturn(s) PROVE TypeOK'
  BY <1>13, Zenon DEF StopReturn
<1>14. ASSUME NEW v \in Waiters, WaitReadReady(v) PROVE TypeOK'
  BY <1>14, Zenon DEF WaitReadReady
<1>15. ASSUME NEW v \in Waiters, WaitGateClosed(v) PROVE TypeOK'
  BY <1>15, Zenon DEF WaitGateClosed
<1>16. ASSUME NEW v \in Waiters, WaitCtxDone(v) PROVE TypeOK'
  BY <1>16, Zenon DEF WaitCtxDone
<1>17. ASSUME NEW v \in Waiters, WaitLastLook(v) PROVE TypeOK'
  BY <1>17, Zenon DEF WaitLastLook
<1>18. CASE UNCHANGED vars
  BY <1>18, Zenon DEF vars
<1> QED
  BY <1>1, <1>2, <1>3, <1>4, <1>5, <1>6, <1>7, <1>8, <1>9, <1>10, <1>11, <1>12, <1>13, <1>14,
     <1>15, <1>16, <1>17, <1>18, Zenon
     DEF Next, Worker, Requester, Stopper, Waiter

(* Type correctness of the recheck worker's state.                          *)
THEOREM WorkerTypeOKHolds == Spec => []TypeOK
<1>1. {0} \subseteq Nat
  OBVIOUS
<1>2. Init => TypeOK
  BY <1>1, Zenon DEF Init, TypeOK, Gates
<1> QED
  BY <1>2, WorkerTypeStep, PTL DEF Spec

-----------------------------------------------------------------------------
(* The inductive invariant holds of the freshly built worker.               *)
LEMMA WorkerInvInit == Init => WorkerInv
  BY WorkerAssumption
  DEF Init, WorkerInv, LockInv, OnceInv, ExitInv, GateInv, GateClosedOnce, CountInv,
      ServeInv, Serves, WaitCoversRequests

(* Every step of the worker or of a caller preserves the inductive          *)
(* invariant.                                                               *)
LEMMA WorkerInvStep == TypeOK /\ WorkerInv /\ [Next]_vars => WorkerInv'
<1> SUFFICES ASSUME TypeOK, WorkerInv, [Next]_vars PROVE WorkerInv'
  BY Zenon
<1> USE WorkerAssumption DEF TypeOK, WorkerInv, Gates, chanVars, stopVars, workVars, reqVars, waitVars
<1>1. ASSUME NEW r \in Requesters, RecheckLock(r) PROVE WorkerInv'
  <2> USE <1>1
  <2>1. LockInv'
    BY Zenon DEF RecheckLock, LockInv, OnceInv
  <2>2. OnceInv'
    BY Zenon DEF RecheckLock, OnceInv, LockInv
  <2>3. ExitInv'
    BY Zenon DEF RecheckLock, ExitInv, LockInv
  <2>4. GateInv'
    BY Zenon DEF RecheckLock, GateInv, GateClosedOnce, CountInv
  <2>5. CountInv'
    BY Zenon DEF RecheckLock, CountInv, GateInv, GateClosedOnce
  <2>6. ServeInv'
    BY Zenon DEF RecheckLock, ServeInv, Serves, GateInv, CountInv, ExitInv, LockInv
  <2>7. WaitCoversRequests'
    BY Zenon DEF RecheckLock, WaitCoversRequests, ServeInv, Serves, GateInv, GateClosedOnce,
       CountInv
  <2> QED
    BY <2>1, <2>2, <2>3, <2>4, <2>5, <2>6, <2>7, Zenon
<1>2. ASSUME NEW r \in Requesters, RecheckCheckQuit(r) PROVE WorkerInv'
  <2> USE <1>2
  <2>1. LockInv'
    BY Zenon DEF RecheckCheckQuit, LockInv, OnceInv
  <2>2. OnceInv'
    BY Zenon DEF RecheckCheckQuit, OnceInv, LockInv
  <2>3. ExitInv'
    BY Zenon DEF RecheckCheckQuit, ExitInv, LockInv
  <2>4. GateInv'
    BY Zenon DEF RecheckCheckQuit, GateInv, GateClosedOnce, CountInv
  <2>5. CountInv'
    BY Zenon DEF RecheckCheckQuit, CountInv, GateInv, GateClosedOnce
  <2>6. ServeInv'
    BY Zenon DEF RecheckCheckQuit, ServeInv, Serves, GateInv, CountInv, ExitInv, LockInv
  <2>7. WaitCoversRequests'
    BY Zenon DEF RecheckCheckQuit, WaitCoversRequests, ServeInv, Serves, GateInv,
       GateClosedOnce, CountInv
  <2> QED
    BY <2>1, <2>2, <2>3, <2>4, <2>5, <2>6, <2>7, Zenon
<1>3. ASSUME NEW r \in Requesters, RecheckSend(r) PROVE WorkerInv'
  <2> USE <1>3
  <2>1. LockInv'
    BY DEF RecheckSend, LockInv, OnceInv
  <2>2. OnceInv'
    BY Zenon DEF RecheckSend, OnceInv, LockInv
  <2>3. ExitInv'
    BY Zenon DEF RecheckSend, ExitInv, LockInv
  <2>4. GateInv'
    <3>1. CASE trigger = {}
      <4>1. closed' \subseteq 0..lastGate' /\ lastGate' \notin closed'
        BY <3>1 DEF RecheckSend, GateInv
      <4> QED
        BY <3>1, <4>1 DEF RecheckSend, GateInv, GateClosedOnce
    <3>2. CASE trigger # {}
      BY <3>2, Zenon DEF RecheckSend, GateInv, GateClosedOnce
    <3> QED
      BY <3>1, <3>2, Zenon
  <2>5. CountInv'
    BY DEF RecheckSend, CountInv, GateInv, GateClosedOnce
  <2>6. ServeInv'
    <3>1. ready' \in trigger'
      <4>1. CASE trigger = {}
        BY <4>1, Zenon DEF RecheckSend
      <4>2. CASE trigger # {}
        BY <4>2, Zenon DEF RecheckSend, GateInv
      <4> QED
        BY <4>1, <4>2, Zenon
    <3>2. Serves(ready, requests)'
      BY <3>1, Zenon DEF Serves
    <3>3. ASSUME NEW v \in Waiters, vpc[v] \in {"waiting", "ctxDone"}, Serves(vgate[v], vseen[v])
          PROVE  Serves(vgate[v], vseen[v])'
      BY <3>3, Zenon DEF RecheckSend, Serves
    <3>4. \A v \in Waiters : vseen[v] <= requests'
      BY DEF RecheckSend, ServeInv
    <3> QED
      BY <3>2, <3>3, <3>4, Zenon DEF RecheckSend, ServeInv
  <2>7. WaitCoversRequests'
    BY Zenon DEF RecheckSend, WaitCoversRequests, ServeInv, Serves, GateInv, GateClosedOnce,
       CountInv
  <2> QED
    BY <2>1, <2>2, <2>3, <2>4, <2>5, <2>6, <2>7, Zenon
<1>4. ASSUME RunQuit PROVE WorkerInv'
  <2> USE <1>4
  <2>1. LockInv'
    BY Zenon DEF RunQuit, LockInv, OnceInv
  <2>2. OnceInv'
    BY Zenon DEF RunQuit, OnceInv, LockInv
  <2>3. ExitInv'
    BY Zenon DEF RunQuit, ExitInv, LockInv
  <2>4. GateInv'
    BY Zenon DEF RunQuit, GateInv, GateClosedOnce, CountInv
  <2>5. CountInv'
    BY Zenon DEF RunQuit, CountInv, GateInv, GateClosedOnce
  <2>6. ServeInv'
    BY Zenon DEF RunQuit, ServeInv, Serves, GateInv, CountInv, ExitInv, LockInv
  <2>7. WaitCoversRequests'
    BY Zenon DEF RunQuit, WaitCoversRequests, ServeInv, Serves, GateInv, GateClosedOnce,
       CountInv
  <2> QED
    BY <2>1, <2>2, <2>3, <2>4, <2>5, <2>6, <2>7, Zenon
<1>5. ASSUME RunTake PROVE WorkerInv'
  <2> USE <1>5
  <2>1. LockInv'
    BY Zenon DEF RunTake, LockInv, OnceInv
  <2>2. OnceInv'
    BY Zenon DEF RunTake, OnceInv, LockInv
  <2>3. ExitInv'
    BY Zenon DEF RunTake, ExitInv, LockInv
  <2>4. GateInv'
    BY DEF RunTake, GateInv, GateClosedOnce, CountInv
  <2>5. CountInv'
    BY DEF RunTake, CountInv, GateInv, GateClosedOnce
  <2>6. ServeInv'
    BY DEF RunTake, ServeInv, Serves, GateInv, CountInv, ExitInv, LockInv
  <2>7. WaitCoversRequests'
    BY Zenon DEF RunTake, WaitCoversRequests, ServeInv, Serves, GateInv, GateClosedOnce,
       CountInv
  <2> QED
    BY <2>1, <2>2, <2>3, <2>4, <2>5, <2>6, <2>7, Zenon
<1>6. ASSUME RunCheckQuit PROVE WorkerInv'
  <2> USE <1>6
  <2>1. LockInv'
    BY Zenon DEF RunCheckQuit, LockInv, OnceInv
  <2>2. OnceInv'
    BY Zenon DEF RunCheckQuit, OnceInv, LockInv
  <2>3. ExitInv'
    BY Zenon DEF RunCheckQuit, ExitInv, LockInv
  <2>4. GateInv'
    <3>1. CASE quit
      <4> USE <3>1
      <4>1. closed' \subseteq 0..lastGate
        <5>1. wgate \in 0..lastGate /\ closed \subseteq 0..lastGate
          BY DEF GateInv
        <5>2. closed' = closed \cup {wgate}
          BY Zenon DEF RunCheckQuit
        <5> QED
          BY <5>1, <5>2, Zenon
      <4>2. trigger' \cap closed' = {}
        BY Zenon DEF RunCheckQuit, GateInv, GateClosedOnce
      <4>3. wpc' = "drain"
        BY Zenon DEF RunCheckQuit
      <4> QED
        BY <4>1, <4>2, <4>3, Zenon DEF RunCheckQuit, GateInv, GateClosedOnce
    <3>2. CASE ~quit
      BY <3>2, Zenon DEF RunCheckQuit, GateInv, GateClosedOnce
    <3> QED
      BY <3>1, <3>2, Zenon
  <2>5. CountInv'
    BY DEF RunCheckQuit, CountInv, GateInv, GateClosedOnce
  <2>6. ServeInv'
    BY DEF RunCheckQuit, ServeInv, Serves, GateInv, CountInv, ExitInv, LockInv
  <2>7. WaitCoversRequests'
    BY Zenon DEF RunCheckQuit, WaitCoversRequests, ServeInv, Serves, GateInv, GateClosedOnce,
       CountInv
  <2> QED
    BY <2>1, <2>2, <2>3, <2>4, <2>5, <2>6, <2>7, Zenon
<1>7. ASSUME RunFnReturns PROVE WorkerInv'
  <2> USE <1>7
  <2>1. LockInv'
    BY Zenon DEF RunFnReturns, LockInv, OnceInv
  <2>2. OnceInv'
    BY Zenon DEF RunFnReturns, OnceInv, LockInv
  <2>3. ExitInv'
    BY Zenon DEF RunFnReturns, ExitInv, LockInv
  <2>4. GateInv'
    BY Zenon DEF RunFnReturns, GateInv, GateClosedOnce, CountInv
  <2>5. CountInv'
    BY DEF RunFnReturns, CountInv, GateInv, GateClosedOnce
  <2>6. ServeInv'
    BY DEF RunFnReturns, ServeInv, Serves, GateInv, CountInv, ExitInv, LockInv
  <2>7. WaitCoversRequests'
    BY DEF RunFnReturns, WaitCoversRequests, ServeInv, Serves, GateInv, GateClosedOnce,
       CountInv
  <2> QED
    BY <2>1, <2>2, <2>3, <2>4, <2>5, <2>6, <2>7, Zenon
<1>8. ASSUME RunCloseGate PROVE WorkerInv'
  <2> USE <1>8
  <2>1. LockInv'
    BY Zenon DEF RunCloseGate, LockInv, OnceInv
  <2>2. OnceInv'
    BY Zenon DEF RunCloseGate, OnceInv, LockInv
  <2>3. ExitInv'
    BY Zenon DEF RunCloseGate, ExitInv, LockInv
  <2>4. GateInv'
    BY DEF RunCloseGate, GateInv, GateClosedOnce, CountInv
  <2>5. CountInv'
    BY Zenon DEF RunCloseGate, CountInv, GateInv, GateClosedOnce
  <2>6. ServeInv'
    BY Zenon DEF RunCloseGate, ServeInv, Serves, GateInv, CountInv, ExitInv, LockInv
  <2>7. WaitCoversRequests'
    BY Zenon DEF RunCloseGate, WaitCoversRequests, ServeInv, Serves, GateInv, GateClosedOnce,
       CountInv
  <2> QED
    BY <2>1, <2>2, <2>3, <2>4, <2>5, <2>6, <2>7, Zenon
<1>9. ASSUME DrainTrigger PROVE WorkerInv'
  <2> USE <1>9
  <2>1. LockInv'
    BY Zenon DEF DrainTrigger, LockInv, OnceInv
  <2>2. OnceInv'
    BY Zenon DEF DrainTrigger, OnceInv, LockInv
  <2>3. ExitInv'
    <3>1. CASE trigger = {}
      BY <3>1, Zenon DEF DrainTrigger, ExitInv
    <3>2. CASE trigger # {}
      <4>1. wpc = "drain" /\ wpc' = "drain" /\ ~done /\ UNCHANGED <<done, quit, spc>>
        BY <3>2, Zenon DEF DrainTrigger, ExitInv
      <4> QED
        BY <4>1, Zenon DEF ExitInv
    <3> QED
      BY <3>1, <3>2, Zenon
  <2>4. GateInv'
    <3>1. CASE trigger = {}
      BY <3>1, Zenon DEF DrainTrigger, GateInv, GateClosedOnce
    <3>2. CASE trigger # {}
      <4>1. trigger' = {} /\ wpc' = "drain" /\ UNCHANGED <<ready, lastGate, wgate>>
        BY <3>2, Zenon DEF DrainTrigger
      <4>2. closed' \subseteq 0..lastGate
        <5>1. trigger \subseteq 0..lastGate /\ closed \subseteq 0..lastGate
          <6>1. lastGate \in 0..lastGate
            OBVIOUS
          <6> QED
            BY <6>1, Zenon DEF GateInv
        <5>2. closed' = closed \cup trigger
          BY <3>2, Zenon DEF DrainTrigger
        <5> QED
          BY <5>1, <5>2, Zenon
      <4> QED
        BY <4>1, <4>2, Zenon DEF GateInv, GateClosedOnce
    <3> QED
      BY <3>1, <3>2, Zenon
  <2>5. CountInv'
    BY Zenon DEF DrainTrigger, CountInv, GateInv, GateClosedOnce
  <2>6. ServeInv'
    BY Zenon DEF DrainTrigger, ServeInv, Serves, GateInv, CountInv, ExitInv, LockInv
  <2>7. WaitCoversRequests'
    BY Zenon DEF DrainTrigger, WaitCoversRequests, ServeInv, Serves, GateInv, GateClosedOnce,
       CountInv
  <2> QED
    BY <2>1, <2>2, <2>3, <2>4, <2>5, <2>6, <2>7, Zenon
<1>10. ASSUME NEW s \in Stoppers, StopOnce(s) PROVE WorkerInv'
  <2> USE <1>10
  <2>1. LockInv'
    BY Zenon DEF StopOnce, LockInv, OnceInv
  <2>2. OnceInv'
    BY DEF StopOnce, OnceInv, LockInv
  <2>3. ExitInv'
    BY DEF StopOnce, ExitInv, LockInv
  <2>4. GateInv'
    BY Zenon DEF StopOnce, GateInv, GateClosedOnce, CountInv
  <2>5. CountInv'
    BY Zenon DEF StopOnce, CountInv, GateInv, GateClosedOnce
  <2>6. ServeInv'
    BY Zenon DEF StopOnce, ServeInv, Serves, GateInv, CountInv, ExitInv, LockInv
  <2>7. WaitCoversRequests'
    BY Zenon DEF StopOnce, WaitCoversRequests, ServeInv, Serves, GateInv, GateClosedOnce,
       CountInv
  <2> QED
    BY <2>1, <2>2, <2>3, <2>4, <2>5, <2>6, <2>7, Zenon
<1>11. ASSUME NEW s \in Stoppers, StopLock(s) PROVE WorkerInv'
  <2> USE <1>11
  <2>1. LockInv'
    BY Zenon DEF StopLock, LockInv, OnceInv
  <2>2. OnceInv'
    BY DEF StopLock, OnceInv, LockInv
  <2>3. ExitInv'
    BY Zenon DEF StopLock, ExitInv, LockInv
  <2>4. GateInv'
    BY Zenon DEF StopLock, GateInv, GateClosedOnce, CountInv
  <2>5. CountInv'
    BY Zenon DEF StopLock, CountInv, GateInv, GateClosedOnce
  <2>6. ServeInv'
    BY Zenon DEF StopLock, ServeInv, Serves, GateInv, CountInv, ExitInv, LockInv
  <2>7. WaitCoversRequests'
    BY Zenon DEF StopLock, WaitCoversRequests, ServeInv, Serves, GateInv, GateClosedOnce,
       CountInv
  <2> QED
    BY <2>1, <2>2, <2>3, <2>4, <2>5, <2>6, <2>7, Zenon
<1>12. ASSUME NEW s \in Stoppers, StopCloseQuit(s) PROVE WorkerInv'
  <2> USE <1>12
  <2>1. LockInv'
    BY Zenon DEF StopCloseQuit, LockInv, OnceInv
  <2>2. OnceInv'
    BY DEF StopCloseQuit, OnceInv, LockInv
  <2>3. ExitInv'
    BY Zenon DEF StopCloseQuit, ExitInv, LockInv
  <2>4. GateInv'
    BY Zenon DEF StopCloseQuit, GateInv, GateClosedOnce, CountInv
  <2>5. CountInv'
    BY Zenon DEF StopCloseQuit, CountInv, GateInv, GateClosedOnce
  <2>6. ServeInv'
    BY Zenon DEF StopCloseQuit, ServeInv, Serves, GateInv, CountInv, ExitInv, LockInv
  <2>7. WaitCoversRequests'
    BY Zenon DEF StopCloseQuit, WaitCoversRequests, ServeInv, Serves, GateInv,
       GateClosedOnce, CountInv
  <2> QED
    BY <2>1, <2>2, <2>3, <2>4, <2>5, <2>6, <2>7, Zenon
<1>13. ASSUME NEW s \in Stoppers, StopReturn(s) PROVE WorkerInv'
  <2> USE <1>13
  <2>1. LockInv'
    BY Zenon DEF StopReturn, LockInv, OnceInv
  <2>2. OnceInv'
    BY DEF StopReturn, OnceInv, LockInv
  <2>3. ExitInv'
    BY Zenon DEF StopReturn, ExitInv, LockInv
  <2>4. GateInv'
    BY Zenon DEF StopReturn, GateInv, GateClosedOnce, CountInv
  <2>5. CountInv'
    BY Zenon DEF StopReturn, CountInv, GateInv, GateClosedOnce
  <2>6. ServeInv'
    BY Zenon DEF StopReturn, ServeInv, Serves, GateInv, CountInv, ExitInv, LockInv
  <2>7. WaitCoversRequests'
    BY Zenon DEF StopReturn, WaitCoversRequests, ServeInv, Serves, GateInv, GateClosedOnce,
       CountInv
  <2> QED
    BY <2>1, <2>2, <2>3, <2>4, <2>5, <2>6, <2>7, Zenon
<1>14. ASSUME NEW v \in Waiters, WaitReadReady(v) PROVE WorkerInv'
  <2> USE <1>14
  <2>1. LockInv'
    BY Zenon DEF WaitReadReady, LockInv, OnceInv
  <2>2. OnceInv'
    BY Zenon DEF WaitReadReady, OnceInv, LockInv
  <2>3. ExitInv'
    BY Zenon DEF WaitReadReady, ExitInv, LockInv
  <2>4. GateInv'
    BY Zenon DEF WaitReadReady, GateInv, GateClosedOnce, CountInv
  <2>5. CountInv'
    BY Zenon DEF WaitReadReady, CountInv, GateInv, GateClosedOnce
  <2>6. ServeInv'
    BY DEF WaitReadReady, ServeInv, Serves, GateInv, CountInv, ExitInv, LockInv
  <2>7. WaitCoversRequests'
    BY Zenon DEF WaitReadReady, WaitCoversRequests, ServeInv, Serves, GateInv,
       GateClosedOnce, CountInv
  <2> QED
    BY <2>1, <2>2, <2>3, <2>4, <2>5, <2>6, <2>7, Zenon
<1>15. ASSUME NEW v \in Waiters, WaitGateClosed(v) PROVE WorkerInv'
  <2> USE <1>15
  <2>1. LockInv'
    BY Zenon DEF WaitGateClosed, LockInv, OnceInv
  <2>2. OnceInv'
    BY Zenon DEF WaitGateClosed, OnceInv, LockInv
  <2>3. ExitInv'
    BY Zenon DEF WaitGateClosed, ExitInv, LockInv
  <2>4. GateInv'
    BY Zenon DEF WaitGateClosed, GateInv, GateClosedOnce, CountInv
  <2>5. CountInv'
    BY Zenon DEF WaitGateClosed, CountInv, GateInv, GateClosedOnce
  <2>6. ServeInv'
    BY DEF WaitGateClosed, ServeInv, Serves, GateInv, CountInv, ExitInv, LockInv
  <2>7. WaitCoversRequests'
    BY Zenon DEF WaitGateClosed, WaitCoversRequests, ServeInv, Serves, GateInv,
       GateClosedOnce, CountInv
  <2> QED
    BY <2>1, <2>2, <2>3, <2>4, <2>5, <2>6, <2>7, Zenon
<1>16. ASSUME NEW v \in Waiters, WaitCtxDone(v) PROVE WorkerInv'
  <2> USE <1>16
  <2>1. LockInv'
    BY Zenon DEF WaitCtxDone, LockInv, OnceInv
  <2>2. OnceInv'
    BY Zenon DEF WaitCtxDone, OnceInv, LockInv
  <2>3. ExitInv'
    BY Zenon DEF WaitCtxDone, ExitInv, LockInv
  <2>4. GateInv'
    BY Zenon DEF WaitCtxDone, GateInv, GateClosedOnce, CountInv
  <2>5. CountInv'
    BY Zenon DEF WaitCtxDone, CountInv, GateInv, GateClosedOnce
  <2>6. ServeInv'
    BY DEF WaitCtxDone, ServeInv, Serves, GateInv, CountInv, ExitInv, LockInv
  <2>7. WaitCoversRequests'
    BY Zenon DEF WaitCtxDone, WaitCoversRequests, ServeInv, Serves, GateInv, GateClosedOnce,
       CountInv
  <2> QED
    BY <2>1, <2>2, <2>3, <2>4, <2>5, <2>6, <2>7, Zenon
<1>17. ASSUME NEW v \in Waiters, WaitLastLook(v) PROVE WorkerInv'
  <2> USE <1>17
  <2>1. LockInv'
    BY Zenon DEF WaitLastLook, LockInv, OnceInv
  <2>2. OnceInv'
    BY Zenon DEF WaitLastLook, OnceInv, LockInv
  <2>3. ExitInv'
    BY Zenon DEF WaitLastLook, ExitInv, LockInv
  <2>4. GateInv'
    BY Zenon DEF WaitLastLook, GateInv, GateClosedOnce, CountInv
  <2>5. CountInv'
    BY Zenon DEF WaitLastLook, CountInv, GateInv, GateClosedOnce
  <2>6. ServeInv'
    BY DEF WaitLastLook, ServeInv, Serves, GateInv, CountInv, ExitInv, LockInv
  <2>7. WaitCoversRequests'
    BY Zenon DEF WaitLastLook, WaitCoversRequests, ServeInv, Serves, GateInv,
       GateClosedOnce, CountInv
  <2> QED
    BY <2>1, <2>2, <2>3, <2>4, <2>5, <2>6, <2>7, Zenon
<1>18. CASE UNCHANGED vars
  BY <1>18, Zenon DEF vars, LockInv, OnceInv, ExitInv, GateInv, GateClosedOnce, CountInv,
     ServeInv, Serves,
     WaitCoversRequests
<1> QED
  BY <1>1, <1>2, <1>3, <1>4, <1>5, <1>6, <1>7, <1>8, <1>9, <1>10, <1>11, <1>12, <1>13, <1>14,
     <1>15, <1>16, <1>17, <1>18, Zenon
     DEF Next, Worker, Requester, Stopper, Waiter

(* The inductive invariant holds in every reachable state.                  *)
THEOREM WorkerInvHolds == Spec => []WorkerInv
  BY WorkerTypeOKHolds, WorkerInvInit, WorkerInvStep, PTL DEF Spec

-----------------------------------------------------------------------------
(* After run() has returned, no gate is buffered and the gate a later       *)
(* wait() reads is closed: wait() never blocks on a run that cannot happen. *)
THEOREM NoOrphanGateHolds == Spec => []NoOrphanGate
<1>1. WorkerInv => NoOrphanGate
  BY Zenon DEF WorkerInv, NoOrphanGate, ExitInv, ServeInv, Serves
<1> QED
  BY <1>1, WorkerInvHolds, PTL

(* Neither run() nor drainTrigger() ever closes a closed gate.              *)
THEOREM GateClosedOnceHolds == Spec => []GateClosedOnce
<1>1. WorkerInv => GateClosedOnce
  BY Zenon DEF WorkerInv, GateInv
<1> QED
  BY <1>1, WorkerInvHolds, PTL

(* A wait() that reports completion before shutdown was preceded by a       *)
(* finished run covering every recheck() issued before the wait.            *)
THEOREM WaitCoversRequestsHolds == Spec => []WaitCoversRequests
<1>1. WorkerInv => WaitCoversRequests
  BY Zenon DEF WorkerInv
<1> QED
  BY <1>1, WorkerInvHolds, PTL

(* When stop() has returned to any of its callers the worker has exited.    *)
THEOREM StopMeansExitedHolds == Spec => []StopMeansExited
<1>1. WorkerInv => StopMeansExited
  BY Zenon DEF WorkerInv, ExitInv, StopMeansExited
<1> QED
  BY <1>1, WorkerInvHolds, PTL

-----------------------------------------------------------------------------
(* Each step of the worker or of a caller is a step of the recheck service, *)
(* or leaves the service's state alone.                                     *)
LEMMA ServiceStep ==
  TypeOK /\ WorkerInv /\ [Next]_vars => [Service!Next]_(Service!svcVars)
<1> SUFFICES ASSUME TypeOK, WorkerInv, [Next]_vars
             PROVE  [Service!Next]_(Service!svcVars)
  BY Zenon
<1> USE DEF chanVars, stopVars, workVars, reqVars, waitVars, Service!svcVars, Service!Next
<1>1. ASSUME NEW r \in Requesters, RecheckLock(r) PROVE UNCHANGED Service!svcVars
  BY <1>1, Zenon DEF RecheckLock
<1>2. ASSUME NEW r \in Requesters, RecheckCheckQuit(r) PROVE UNCHANGED Service!svcVars
  BY <1>2, Zenon DEF RecheckCheckQuit
<1>3. ASSUME NEW r \in Requesters, RecheckSend(r) PROVE Service!Request
  BY <1>3, Zenon DEF RecheckSend, WorkerInv, LockInv, Service!Request
<1>4. ASSUME RunQuit PROVE UNCHANGED Service!svcVars
  BY <1>4, Zenon DEF RunQuit
<1>5. ASSUME RunTake PROVE UNCHANGED Service!svcVars
  BY <1>5, Zenon DEF RunTake
<1>6. ASSUME RunCheckQuit PROVE Service!Start \/ UNCHANGED Service!svcVars
  <2> USE <1>6
  <2>1. CASE quit
    BY <2>1, Zenon DEF RunCheckQuit
  <2>2. CASE ~quit
    <3>1. runs < requests
      BY DEF RunCheckQuit, TypeOK, Gates, WorkerInv, CountInv, GateInv
    <3> QED
      BY <2>2, <3>1, Zenon DEF RunCheckQuit, Service!Start
  <2> QED
    BY <2>1, <2>2, Zenon
<1>7. ASSUME RunFnReturns PROVE Service!Finish
  BY <1>7, Zenon DEF RunFnReturns, Service!Finish
<1>8. ASSUME RunCloseGate PROVE UNCHANGED Service!svcVars
  BY <1>8, Zenon DEF RunCloseGate
<1>9. ASSUME DrainTrigger PROVE UNCHANGED Service!svcVars
  BY <1>9, Zenon DEF DrainTrigger
<1>10. ASSUME NEW s \in Stoppers, StopOnce(s) PROVE UNCHANGED Service!svcVars
  BY <1>10, Zenon DEF StopOnce
<1>11. ASSUME NEW s \in Stoppers, StopLock(s) PROVE UNCHANGED Service!svcVars
  BY <1>11, Zenon DEF StopLock
<1>12. ASSUME NEW s \in Stoppers, StopCloseQuit(s) PROVE Service!Shut
  <2>1. ~quit
    BY <1>12, Zenon DEF StopCloseQuit, WorkerInv, OnceInv
  <2> QED
    BY <1>12, <2>1, Zenon DEF StopCloseQuit, Service!Shut
<1>13. ASSUME NEW s \in Stoppers, StopReturn(s) PROVE UNCHANGED Service!svcVars
  BY <1>13, Zenon DEF StopReturn
<1>14. ASSUME NEW v \in Waiters, WaitReadReady(v) PROVE UNCHANGED Service!svcVars
  BY <1>14, Zenon DEF WaitReadReady
<1>15. ASSUME NEW v \in Waiters, WaitGateClosed(v) PROVE UNCHANGED Service!svcVars
  BY <1>15, Zenon DEF WaitGateClosed
<1>16. ASSUME NEW v \in Waiters, WaitCtxDone(v) PROVE UNCHANGED Service!svcVars
  BY <1>16, Zenon DEF WaitCtxDone
<1>17. ASSUME NEW v \in Waiters, WaitLastLook(v) PROVE UNCHANGED Service!svcVars
  BY <1>17, Zenon DEF WaitLastLook
<1>18. CASE UNCHANGED vars
  BY <1>18, Zenon DEF vars
<1> QED
  BY <1>1, <1>2, <1>3, <1>4, <1>5, <1>6, <1>7, <1>8, <1>9, <1>10, <1>11, <1>12, <1>13, <1>14,
     <1>15, <1>16, <1>17, <1>18, Zenon
     DEF Next, Worker, Requester, Stopper, Waiter

(* The recheck worker implements the recheck service.                       *)
THEOREM RefinesService == Spec => ServiceSpec
<1>1. Init => Service!Init
  BY Zenon DEF Init, Service!Init
<1> QED
  BY <1>1, WorkerTypeOKHolds, WorkerInvHolds, ServiceStep, PTL DEF Spec, ServiceSpec, Service!Spec

(* The cache of pending txs, for any readers and writers.                   *)

(* The steps of readers and writers keep every variable in its type.        *)
LEMMA CacheTypeStep == CacheTypeOK /\ [CacheNext]_cacheVars => CacheTypeOK'
<1> SUFFICES ASSUME CacheTypeOK, [CacheNext]_cacheVars PROVE CacheTypeOK'
  BY Zenon
<1> USE CacheAssumption DEF CacheTypeOK, cache, writes, reads
<1>1. ASSUME NEW w \in Writers, ChangePool(w) PROVE CacheTypeOK'
  BY <1>1 DEF ChangePool
<1>2. ASSUME NEW w \in Writers, Invalidate(w) PROVE CacheTypeOK'
  BY <1>2 DEF Invalidate
<1>3. ASSUME NEW r \in Readers, GetCall(r) PROVE CacheTypeOK'
  BY <1>3, Zenon DEF GetCall
<1>4. ASSUME NEW r \in Readers, GetDirect(r) PROVE CacheTypeOK'
  BY <1>4, Zenon DEF GetDirect
<1>5. ASSUME NEW r \in Readers, GetLock(r) PROVE CacheTypeOK'
  BY <1>5, Zenon DEF GetLock
<1>6. ASSUME NEW r \in Readers, GetHit(r) PROVE CacheTypeOK'
  BY <1>6, Zenon DEF GetHit
<1>7. ASSUME NEW r \in Readers, GetLoad(r) PROVE CacheTypeOK'
  BY <1>7, Zenon DEF GetLoad
<1>8. ASSUME NEW r \in Readers, GetStore(r) PROVE CacheTypeOK'
  BY <1>8, Zenon DEF GetStore
<1>9. CASE UNCHANGED cacheVars
  BY <1>9, Zenon DEF cacheVars
<1> QED
  BY <1>1, <1>2, <1>3, <1>4, <1>5, <1>6, <1>7, <1>8, <1>9, Zenon DEF CacheNext

(* The invariant holds of the empty cache and of the empty pool.            *)
LEMMA CacheInvInit == CacheInit => CacheTypeOK /\ CacheInv
<1> SUFFICES ASSUME CacheInit PROVE CacheTypeOK /\ CacheInv
  BY Zenon
<1>1. CacheTypeOK
  BY CacheAssumption, Zenon DEF CacheInit, CacheTypeOK
<1>2. CacheInv
  BY DEF CacheInit, CacheInv, FreshRead
<1> QED
  BY <1>1, <1>2, Zenon

(* Every step of get, invalidate and of a pool change keeps the invariant.  *)
LEMMA CacheInvStep == CacheTypeOK /\ CacheInv /\ [CacheNext]_cacheVars => CacheInv'
<1> SUFFICES ASSUME CacheTypeOK, CacheInv, [CacheNext]_cacheVars PROVE CacheInv'
  BY Zenon
<1> USE CacheAssumption DEF CacheTypeOK, CacheInv, FreshRead, cache, writes, reads
<1>1. ASSUME NEW w \in Writers, ChangePool(w) PROVE CacheInv'
  BY <1>1 DEF ChangePool
<1>2. ASSUME NEW w \in Writers, Invalidate(w) PROVE CacheInv'
  BY <1>2 DEF Invalidate
<1>3. ASSUME NEW r \in Readers, GetCall(r) PROVE CacheInv'
  BY <1>3 DEF GetCall
<1>4. ASSUME NEW r \in Readers, GetDirect(r) PROVE CacheInv'
  BY <1>4 DEF GetDirect
<1>5. ASSUME NEW r \in Readers, GetLock(r) PROVE CacheInv'
  BY <1>5 DEF GetLock
<1>6. ASSUME NEW r \in Readers, GetHit(r) PROVE CacheInv'
  BY <1>6, Zenon DEF GetHit
<1>7. ASSUME NEW r \in Readers, GetLoad(r) PROVE CacheInv'
  BY <1>7 DEF GetLoad
<1>8. ASSUME NEW r \in Readers, GetStore(r) PROVE CacheInv'
  BY <1>8, Zenon DEF GetStore
<1>9. CASE UNCHANGED cacheVars
  BY <1>9, Zenon DEF cacheVars
<1> QED
  BY <1>1, <1>2, <1>3, <1>4, <1>5, <1>6, <1>7, <1>8, <1>9, Zenon DEF CacheNext

(* The invariant of the cache holds in every reachable state.               *)
THEOREM CacheInvHolds == CacheSpec => [](CacheTypeOK /\ CacheInv)
<1>1. CacheTypeOK /\ CacheInv /\ [CacheNext]_cacheVars => (CacheTypeOK /\ CacheInv)'
  BY CacheTypeStep, CacheInvStep, Zenon
<1> QED
  BY CacheInvInit, <1>1, PTL DEF CacheSpec

(* PendingTxs never misses a change whose invalidate() returned before the  *)
(* call, for any number of RPC readers, admissions and blocks.              *)
THEOREM FreshReadHolds == CacheSpec => []FreshRead
<1>1. CacheInv => FreshRead
  BY Zenon DEF CacheInv
<1> QED
  BY CacheInvHolds, <1>1, PTL

-----------------------------------------------------------------------------
(* The decode cache, for any decoders, bytes, hash and shards of any        *)
(* positive capacity.                                                       *)

DecodedTxs == [id : Nat, of : Bytes]

DecodeTypeOK ==
  /\ dpc \in [Decoders -> {"idle", "decode", "set"}]
  /\ bz \in [Decoders -> Bytes]
  /\ got \in [Decoders -> DecodedTxs \cup {NoTx}]
  /\ made \in Nat

(* An entry has the hash of its key, and its tx was decoded from it; so was *)
(* the tx that a decoder is about to store.                                 *)
EntriesSound ==
  /\ \A i \in items : i.key \in Bytes /\ i.tx \in DecodedTxs /\ i.tx.of = i.key
  /\ \A d \in Decoders : dpc[d] = "set" => got[d] \in DecodedTxs /\ got[d].of = bz[d]

(* The types, the entries and what the decoders have hold initially.        *)
LEMMA SoundInit == DecodeInit => DecodeTypeOK /\ EntriesSound /\ DecodesOwnBytes
  BY DEF DecodeInit, DecodeTypeOK, EntriesSound, DecodesOwnBytes

(* get, decode and set keep them: a hit compares the bytes, and set stores  *)
(* the tx under the bytes it was decoded from.                              *)
LEMMA SoundStep ==
  DecodeTypeOK /\ EntriesSound /\ DecodesOwnBytes /\ [DecodeNext]_decodeVars
    => DecodeTypeOK' /\ EntriesSound' /\ DecodesOwnBytes'
<1> SUFFICES ASSUME DecodeTypeOK, EntriesSound, DecodesOwnBytes, [DecodeNext]_decodeVars
             PROVE  DecodeTypeOK' /\ EntriesSound' /\ DecodesOwnBytes'
  BY Zenon
<1> USE DEF DecodeTypeOK, EntriesSound, DecodesOwnBytes
<1>1. ASSUME NEW d \in Decoders, NEW b \in Bytes, DecodeHit(d, b)
      PROVE  DecodeTypeOK' /\ EntriesSound' /\ DecodesOwnBytes'
  <2>1. PICK i \in items : i.key = b /\ got' = [got EXCEPT ![d] = i.tx]
    BY <1>1, Zenon DEF DecodeHit, Hits
  <2> QED
    BY <1>1, <2>1, Zenon DEF DecodeHit
<1>2. ASSUME NEW d \in Decoders, NEW b \in Bytes, DecodeMiss(d, b)
      PROVE  DecodeTypeOK' /\ EntriesSound' /\ DecodesOwnBytes'
  BY <1>2, Zenon DEF DecodeMiss
<1>3. ASSUME NEW d \in Decoders, Decode(d)
      PROVE  DecodeTypeOK' /\ EntriesSound' /\ DecodesOwnBytes'
  <2>1. CASE bz[d] \in Invalid
    BY <1>3, <2>1, Zenon DEF Decode
  <2>2. CASE bz[d] \notin Invalid
    <3> DEFINE tx == [id |-> made, of |-> bz[d]]
    <3>1. tx \in DecodedTxs /\ tx.of = bz[d]
      BY Zenon DEF DecodedTxs
    <3>2. /\ got' = [got EXCEPT ![d] = tx] /\ made' = made + 1
          /\ dpc' = [dpc EXCEPT ![d] = "set"] /\ UNCHANGED <<items, bz>>
      BY <1>3, <2>2, Zenon DEF Decode
    <3> HIDE DEF tx
    <3> QED
      BY <3>1, <3>2
  <2> QED
    BY <2>1, <2>2, Zenon
<1>4. ASSUME NEW d \in Decoders, Set(d)
      PROVE  DecodeTypeOK' /\ EntriesSound' /\ DecodesOwnBytes'
  <2> DEFINE entry == [h |-> Hash[bz[d]], key |-> bz[d], tx |-> got[d]]
  <2> USE <1>4
  <2>1. items' \subseteq items \cup {entry}
    BY Zenon DEF Set, Insert
  <2>2. entry.key \in Bytes /\ entry.tx \in DecodedTxs /\ entry.tx.of = entry.key
    BY Zenon DEF Set
  <2> HIDE DEF entry
  <2> QED
    BY <2>1, <2>2, Zenon DEF Set
<1>5. CASE UNCHANGED decodeVars
  BY <1>5, Zenon DEF decodeVars
<1> QED
  BY <1>1, <1>2, <1>3, <1>4, <1>5, Zenon DEF DecodeNext

(* NewCachingDecoder returns the tx of the bytes it is given, whatever      *)
(* hashes collide and however get, decode and set interleave.               *)
THEOREM DecodesOwnBytesHolds == DecodeSpec => []DecodesOwnBytes
  BY SoundInit, SoundStep, PTL DEF DecodeSpec

-----------------------------------------------------------------------------
(* A shard without entries is bounded too.                                  *)
LEMMA EveryShard ==
  ASSUME ShardCap \in Nat \ {0}, ShardsBounded, NEW s
  PROVE  /\ IsFiniteSet(InShard(items, s))
         /\ Cardinality(InShard(items, s)) \in Nat
         /\ Cardinality(InShard(items, s)) <= ShardCap
<1>1. CASE InShard(items, s) = {}
  BY <1>1, FS_EmptySet
<1>2. CASE InShard(items, s) # {}
  <2>1. PICK i \in InShard(items, s) : TRUE
    BY <1>2, Zenon
  <2>2. i \in items /\ Shard[i.h] = s
    BY <2>1, Zenon DEF InShard
  <2> QED
    BY <2>2, FS_CardinalityType, Zenon DEF ShardsBounded
<1> QED
  BY <1>1, <1>2, Zenon

(* set keeps a shard bounded: what it adds replaces what it evicts.         *)
LEMMA InsertBounded ==
  ASSUME ShardCap \in Nat \ {0}, ShardsBounded, NEW b, NEW tx, Insert(b, tx)
  PROVE  ShardsBounded'
<1> DEFINE others == {i \in items : i.h # Hash[b]}
           entry == [h |-> Hash[b], key |-> b, tx |-> tx]
           home == Shard[Hash[b]]
           full == InShard(others, home)
<1>1. PICK rest \in SUBSET others :
        /\ items' = rest \cup {entry}
        /\ InShard(rest, home) \subseteq full
        /\ Cardinality(full) >= ShardCap =>
             \E back \in full : InShard(rest, home) = full \ {back}
  <2>1. CASE Cardinality(full) >= ShardCap
    <3>1. PICK back \in full : items' = (others \ {back}) \cup {entry}
      BY <2>1, Zenon DEF Insert
    <3>2. InShard(others \ {back}, home) = full \ {back}
      BY Zenon DEF InShard
    <3> QED
      BY <3>1, <3>2, Zenon
  <2>2. CASE ~(Cardinality(full) >= ShardCap)
    <3>1. items' = others \cup {entry}
      BY <2>2, Zenon DEF Insert
    <3> QED
      BY <2>2, <3>1, Zenon
  <2> QED
    BY <2>1, <2>2, Zenon
<1>2. entry.h = Hash[b]
  BY Zenon
<1> HIDE DEF entry
<1>3. \A i, j \in items' : i.h = j.h => i = j
  BY <1>1, <1>2, Zenon DEF ShardsBounded
<1>4. /\ IsFiniteSet(InShard(items', home))
      /\ Cardinality(InShard(items', home)) <= ShardCap
  <2>1. full \subseteq InShard(items, home)
    BY Zenon DEF InShard
  <2>2. /\ IsFiniteSet(full) /\ Cardinality(full) \in Nat /\ Cardinality(full) <= ShardCap
    BY <2>1, EveryShard, FS_Subset, FS_CardinalityType
  <2>3. /\ IsFiniteSet(InShard(rest, home)) /\ Cardinality(InShard(rest, home)) \in Nat
        /\ Cardinality(InShard(rest, home)) < ShardCap
    <3> USE <2>2
    <3>1. CASE Cardinality(full) >= ShardCap
      <4>1. PICK back \in full : InShard(rest, home) = full \ {back}
        BY <1>1, <3>1, Zenon
      <4>2. /\ IsFiniteSet(full \ {back}) /\ Cardinality(full \ {back}) = Cardinality(full) - 1
            /\ Cardinality(full \ {back}) \in Nat
        BY <4>1, FS_RemoveElement, FS_CardinalityType, Zenon
      <4> QED
        BY <4>1, <4>2
    <3>2. CASE ~(Cardinality(full) >= ShardCap)
      <4>1. /\ IsFiniteSet(InShard(rest, home)) /\ Cardinality(InShard(rest, home)) \in Nat
            /\ Cardinality(InShard(rest, home)) <= Cardinality(full)
        BY <1>1, FS_Subset, FS_CardinalityType, Zenon
      <4> QED
        BY <3>2, <4>1
    <3> QED
      BY <3>1, <3>2, Zenon
  <2>4. InShard(items', home) = InShard(rest, home) \cup {entry}
    BY <1>1, <1>2, Zenon DEF InShard
  <2>5. /\ IsFiniteSet(InShard(rest, home) \cup {entry})
        /\ Cardinality(InShard(rest, home) \cup {entry}) =
             IF entry \in InShard(rest, home) THEN Cardinality(InShard(rest, home))
             ELSE Cardinality(InShard(rest, home)) + 1
    BY <2>3, FS_AddElement, Zenon
  <2> QED
    BY <2>3, <2>4, <2>5
<1>5. ASSUME NEW i \in items', Shard[i.h] # home
      PROVE  /\ IsFiniteSet(InShard(items', Shard[i.h]))
             /\ Cardinality(InShard(items', Shard[i.h])) <= ShardCap
  <2>1. InShard(items', Shard[i.h]) \subseteq InShard(items, Shard[i.h])
    BY <1>1, <1>2, <1>5, Zenon DEF InShard
  <2>2. /\ IsFiniteSet(InShard(items, Shard[i.h]))
        /\ Cardinality(InShard(items, Shard[i.h])) \in Nat
        /\ Cardinality(InShard(items, Shard[i.h])) <= ShardCap
    BY EveryShard, Zenon
  <2>3. /\ IsFiniteSet(InShard(items', Shard[i.h]))
        /\ Cardinality(InShard(items', Shard[i.h])) \in Nat
        /\ Cardinality(InShard(items', Shard[i.h])) <= Cardinality(InShard(items, Shard[i.h]))
    BY <2>1, <2>2, FS_Subset, FS_CardinalityType, Zenon
  <2> QED
    BY <2>2, <2>3
<1> QED
  BY <1>3, <1>4, <1>5, Zenon DEF ShardsBounded, InShard

(* No shard outgrows its capacity or holds two entries for one hash, for    *)
(* any number of decoders (cacheShard.set).                                 *)
THEOREM ShardsBoundedHolds ==
  ASSUME ShardCap \in Nat \ {0} PROVE DecodeSpec => []ShardsBounded
<1>1. DecodeInit => ShardsBounded
  BY Zenon DEF DecodeInit, ShardsBounded
<1>2. ShardsBounded /\ [DecodeNext]_decodeVars => ShardsBounded'
  <2> SUFFICES ASSUME ShardsBounded, [DecodeNext]_decodeVars PROVE ShardsBounded'
    BY Zenon
  <2>1. CASE UNCHANGED items
    BY <2>1, Zenon DEF ShardsBounded, InShard
  <2>2. ASSUME NEW d \in Decoders, Insert(bz[d], got[d]) PROVE ShardsBounded'
    BY <2>2, InsertBounded, Zenon
  <2>3. UNCHANGED items \/ \E d \in Decoders : Insert(bz[d], got[d])
    BY Zenon DEF DecodeNext, decodeVars, DecodeHit, DecodeMiss, Decode, Set
  <2> QED
    BY <2>1, <2>2, <2>3, Zenon
<1> QED
  BY <1>1, <1>2, PTL DEF DecodeSpec

-----------------------------------------------------------------------------
(* The ReplayBlock query, for any number of callers.                        *)

ReplayInv == ReplayTypeOK /\ NothingLeaks /\ LimitsHold

Replaying == At({"replaying"})

(* A caller that goes to a label joins the sets of callers at it and leaves *)
(* the others.                                                              *)
LEMMA GotoMoves ==
  ASSUME ReplayTypeOK, NEW c \in Callers, NEW label, Goto(c, label), NEW labels
  PROVE  At(labels)' = IF label \in labels THEN At(labels) \cup {c} ELSE At(labels) \ {c}
  BY Zenon DEF ReplayTypeOK, Goto, At

(* The three sets the invariant counts, when a caller goes to a label.      *)
LEMMA SetsMove ==
  ASSUME ReplayTypeOK, NEW c \in Callers, NEW label, Goto(c, label)
  PROVE  /\ Counted' = IF label \in {"refused", "waiting", "replaying", "leaving"}
                         THEN Counted \cup {c} ELSE Counted \ {c}
         /\ Admitted' = IF label \in {"waiting", "replaying", "leaving"}
                          THEN Admitted \cup {c} ELSE Admitted \ {c}
         /\ Replaying' = IF label = "replaying"
                           THEN Replaying \cup {c} ELSE Replaying \ {c}
<1>1. Counted' = IF label \in {"refused", "waiting", "replaying", "leaving"}
                   THEN Counted \cup {c} ELSE Counted \ {c}
  BY GotoMoves DEF Counted
<1>2. Admitted' = IF label \in {"waiting", "replaying", "leaving"}
                    THEN Admitted \cup {c} ELSE Admitted \ {c}
  BY GotoMoves DEF Admitted
<1>3. Replaying' = IF label \in {"replaying"} THEN Replaying \cup {c} ELSE Replaying \ {c}
  BY GotoMoves, Zenon DEF Replaying
<1> QED
  BY <1>1, <1>2, <1>3, Zenon

(* The callers the limits are about are among the counted ones.             *)
LEMMA Finite ==
  ASSUME NothingLeaks
  PROVE  /\ IsFiniteSet(Counted) /\ Cardinality(Counted) \in Nat
         /\ IsFiniteSet(Admitted) /\ Cardinality(Admitted) \in Nat
         /\ IsFiniteSet(Replaying) /\ Cardinality(Replaying) \in Nat
         /\ Cardinality(Admitted) <= Cardinality(Counted)
<1>1. Admitted \subseteq Counted /\ Replaying \subseteq Counted
  BY Zenon DEF Admitted, Counted, Replaying, At
<1>2. IsFiniteSet(Counted)
  BY Zenon DEF NothingLeaks
<1> USE <1>2
<1>3. IsFiniteSet(Admitted) /\ Cardinality(Admitted) <= Cardinality(Counted)
  BY <1>1, FS_Subset, Zenon
<1>4. IsFiniteSet(Replaying)
  BY <1>1, FS_Subset, Zenon
<1> QED
  BY <1>3, <1>4, FS_CardinalityType, Zenon

(* Nobody has called.                                                       *)
LEMMA ReplayInvInit == ReplayInit => ReplayInv
<1> SUFFICES ASSUME ReplayInit PROVE ReplayInv
  BY Zenon
<1>1. Counted = {} /\ Admitted = {} /\ Replaying = {}
  BY Zenon DEF ReplayInit, Counted, Admitted, Replaying, At
<1>2. NothingLeaks /\ LimitsHold
  BY <1>1, FS_EmptySet DEF ReplayInit, NothingLeaks, LimitsHold, Replaying,
     replayBlockConcurrency, replayBlockMaxQueued
<1>3. ReplayTypeOK
  BY Zenon DEF ReplayInit, ReplayTypeOK
<1> QED
  BY <1>2, <1>3, Zenon DEF ReplayInv

(* Every operation on the counter and on the channel keeps them in step     *)
(* with the callers.                                                        *)
LEMMA ReplayInvStep == ReplayInv /\ [ReplayNext]_replayVars => ReplayInv'
<1> SUFFICES ASSUME ReplayInv, [ReplayNext]_replayVars PROVE ReplayInv'
  BY Zenon
<1> USE DEF replayBlockConcurrency, replayBlockMaxQueued
<1>0. ReplayTypeOK /\ NothingLeaks /\ LimitsHold
  BY Zenon DEF ReplayInv
<1>a. /\ replayBlockQueued = Cardinality(Counted)
      /\ replayBlockSem = Cardinality(Replaying)
      /\ Cardinality(Replaying) <= 4 /\ Cardinality(Admitted) <= 16
  BY <1>0 DEF NothingLeaks, LimitsHold, Replaying
<1>b. /\ IsFiniteSet(Counted) /\ IsFiniteSet(Admitted) /\ IsFiniteSet(Replaying)
      /\ Cardinality(Counted) \in Nat /\ Cardinality(Admitted) \in Nat
      /\ Cardinality(Replaying) \in Nat
      /\ Cardinality(Admitted) <= Cardinality(Counted)
  BY <1>0, Finite, Zenon
<1> DEFINE Kept == /\ ReplayTypeOK' /\ IsFiniteSet(Counted')
                   /\ replayBlockQueued' = Cardinality(Counted')
                   /\ replayBlockSem' = Cardinality(Replaying')
                   /\ Cardinality(Replaying') <= 4 /\ Cardinality(Admitted') <= 16
<1>c. Kept => ReplayInv'
  BY DEF ReplayInv, NothingLeaks, LimitsHold, Replaying
<1>d. ASSUME NEW c \in Callers
      PROVE  /\ Cardinality(Counted \cup {c}) =
                  IF c \in Counted THEN Cardinality(Counted) ELSE Cardinality(Counted) + 1
             /\ Cardinality(Admitted \cup {c}) =
                  IF c \in Admitted THEN Cardinality(Admitted) ELSE Cardinality(Admitted) + 1
             /\ Cardinality(Replaying \cup {c}) =
                  IF c \in Replaying THEN Cardinality(Replaying) ELSE Cardinality(Replaying) + 1
             /\ Cardinality(Counted \ {c}) =
                  IF c \in Counted THEN Cardinality(Counted) - 1 ELSE Cardinality(Counted)
             /\ Cardinality(Admitted \ {c}) =
                  IF c \in Admitted THEN Cardinality(Admitted) - 1 ELSE Cardinality(Admitted)
             /\ Cardinality(Replaying \ {c}) =
                  IF c \in Replaying THEN Cardinality(Replaying) - 1 ELSE Cardinality(Replaying)
             /\ IsFiniteSet(Counted \cup {c}) /\ IsFiniteSet(Counted \ {c})
             /\ Cardinality(Counted \ {c}) \in Nat /\ Cardinality(Replaying \ {c}) \in Nat
             /\ Cardinality(Counted \cup {c}) \in Nat /\ Cardinality(Replaying \cup {c}) \in Nat
  BY <1>b, FS_AddElement, FS_RemoveElement, FS_CardinalityType, Zenon
<1>e. ASSUME NEW c \in Callers
      PROVE  /\ c \in Counted <=> cpc[c] \in {"refused", "waiting", "replaying", "leaving"}
             /\ c \in Admitted <=> cpc[c] \in {"waiting", "replaying", "leaving"}
             /\ c \in Replaying <=> cpc[c] = "replaying"
  BY Zenon DEF Counted, Admitted, Replaying, At
<1>1. ASSUME NEW c \in Callers, Enter(c) PROVE Kept
  <2> USE <1>1
  <2>1. CASE replayBlockQueued + 1 > 16
    <3>1. Goto(c, "refused")
      BY <2>1 DEF Enter
    <3>2. /\ Counted' = Counted \cup {c}
          /\ Admitted' = Admitted \ {c} /\ Replaying' = Replaying \ {c}
      BY <1>0, <3>1, SetsMove DEF Enter
    <3> USE <1>b
    <3>3. /\ IsFiniteSet(Counted')
          /\ Cardinality(Counted') = Cardinality(Counted) + 1
          /\ Cardinality(Admitted') = Cardinality(Admitted)
          /\ Cardinality(Replaying') = Cardinality(Replaying)
          /\ Cardinality(Counted') \in Nat /\ Cardinality(Replaying') \in Nat
      BY <1>d, <1>e, <3>2, Zenon DEF Enter
    <3> USE <3>3
    <3>4. replayBlockQueued' = Cardinality(Counted') /\ replayBlockSem' = Cardinality(Replaying')
      BY <1>a, Zenon DEF Enter
    <3>5. ReplayTypeOK'
      BY <1>0, <3>4, Zenon DEF Enter, Goto, ReplayTypeOK
    <3>6. Cardinality(Replaying') <= 4 /\ Cardinality(Admitted') <= 16
      BY <1>a, <2>1, Zenon DEF Enter
    <3> QED
      BY <3>4, <3>5, <3>6, Zenon
  <2>2. CASE ~(replayBlockQueued + 1 > 16)
    <3>1. Goto(c, "waiting")
      BY <2>2 DEF Enter
    <3>2. /\ Counted' = Counted \cup {c}
          /\ Admitted' = Admitted \cup {c} /\ Replaying' = Replaying \ {c}
      BY <1>0, <3>1, SetsMove DEF Enter
    <3> USE <1>b
    <3>3. /\ IsFiniteSet(Counted')
          /\ Cardinality(Counted') = Cardinality(Counted) + 1
          /\ Cardinality(Admitted') = Cardinality(Admitted) + 1
          /\ Cardinality(Replaying') = Cardinality(Replaying)
          /\ Cardinality(Counted') \in Nat /\ Cardinality(Replaying') \in Nat
      BY <1>d, <1>e, <3>2, Zenon DEF Enter
    <3> USE <3>3
    <3>4. replayBlockQueued' = Cardinality(Counted') /\ replayBlockSem' = Cardinality(Replaying')
      BY <1>a, Zenon DEF Enter
    <3>5. ReplayTypeOK'
      BY <1>0, <3>4, Zenon DEF Enter, Goto, ReplayTypeOK
    <3>6. Cardinality(Replaying') <= 4 /\ Cardinality(Admitted') <= 16
      BY <1>a, <2>2 DEF Enter
    <3> QED
      BY <3>4, <3>5, <3>6, Zenon
  <2> QED
    BY <2>1, <2>2, Zenon
<1>2. ASSUME NEW c \in Callers, Refuse(c) PROVE Kept
  <2> USE <1>2
  <2>1. /\ Counted' = Counted \ {c}
        /\ Admitted' = Admitted \ {c} /\ Replaying' = Replaying \ {c}
    BY <1>0, SetsMove DEF Refuse
  <2> USE <1>b
  <2>2. /\ IsFiniteSet(Counted')
        /\ Cardinality(Counted') = Cardinality(Counted) - 1
        /\ Cardinality(Admitted') = Cardinality(Admitted)
        /\ Cardinality(Replaying') = Cardinality(Replaying)
        /\ Cardinality(Counted') \in Nat /\ Cardinality(Replaying') \in Nat
    BY <1>d, <1>e, <2>1, Zenon DEF Refuse
  <2> USE <2>2
  <2>3. replayBlockQueued' = Cardinality(Counted') /\ replayBlockSem' = Cardinality(Replaying')
    BY <1>a, Zenon DEF Refuse
  <2>4. ReplayTypeOK'
    BY <1>0, <2>3, Zenon DEF Refuse, Goto, ReplayTypeOK
  <2>5. Cardinality(Replaying') <= 4 /\ Cardinality(Admitted') <= 16
    BY <1>a, Zenon DEF Refuse
  <2> QED
    BY <2>3, <2>4, <2>5, Zenon
<1>3. ASSUME NEW c \in Callers, TakeSlot(c) PROVE Kept
  <2> USE <1>3
  <2>1. /\ Counted' = Counted \cup {c}
        /\ Admitted' = Admitted \cup {c} /\ Replaying' = Replaying \cup {c}
    BY <1>0, SetsMove, Zenon DEF TakeSlot
  <2> USE <1>b
  <2>2. /\ IsFiniteSet(Counted')
        /\ Cardinality(Counted') = Cardinality(Counted)
        /\ Cardinality(Admitted') = Cardinality(Admitted)
        /\ Cardinality(Replaying') = Cardinality(Replaying) + 1
        /\ Cardinality(Counted') \in Nat /\ Cardinality(Replaying') \in Nat
    BY <1>d, <1>e, <2>1, Zenon DEF TakeSlot
  <2> USE <2>2
  <2>3. replayBlockQueued' = Cardinality(Counted') /\ replayBlockSem' = Cardinality(Replaying')
    BY <1>a, Zenon DEF TakeSlot
  <2>4. ReplayTypeOK'
    BY <1>0, <2>3, Zenon DEF TakeSlot, Goto, ReplayTypeOK
  <2>5. Cardinality(Replaying') <= 4 /\ Cardinality(Admitted') <= 16
    BY <1>a DEF TakeSlot
  <2> QED
    BY <2>3, <2>4, <2>5, Zenon
<1>4. ASSUME NEW c \in Callers, GiveUp(c) PROVE Kept
  <2> USE <1>4
  <2>1. /\ Counted' = Counted \cup {c}
        /\ Admitted' = Admitted \cup {c} /\ Replaying' = Replaying \ {c}
    BY <1>0, SetsMove DEF GiveUp
  <2> USE <1>b
  <2>2. /\ IsFiniteSet(Counted')
        /\ Cardinality(Counted') = Cardinality(Counted)
        /\ Cardinality(Admitted') = Cardinality(Admitted)
        /\ Cardinality(Replaying') = Cardinality(Replaying)
        /\ Cardinality(Counted') \in Nat /\ Cardinality(Replaying') \in Nat
    BY <1>d, <1>e, <2>1, Zenon DEF GiveUp
  <2> USE <2>2
  <2>3. replayBlockQueued' = Cardinality(Counted') /\ replayBlockSem' = Cardinality(Replaying')
    BY <1>a, Zenon DEF GiveUp
  <2>4. ReplayTypeOK'
    BY <1>0, <2>3, Zenon DEF GiveUp, Goto, ReplayTypeOK
  <2>5. Cardinality(Replaying') <= 4 /\ Cardinality(Admitted') <= 16
    BY <1>a, Zenon DEF GiveUp
  <2> QED
    BY <2>3, <2>4, <2>5, Zenon
<1>5. ASSUME NEW c \in Callers, FreeSlot(c) PROVE Kept
  <2> USE <1>5
  <2>1. /\ Counted' = Counted \cup {c}
        /\ Admitted' = Admitted \cup {c} /\ Replaying' = Replaying \ {c}
    BY <1>0, SetsMove DEF FreeSlot
  <2> USE <1>b
  <2>2. /\ IsFiniteSet(Counted')
        /\ Cardinality(Counted') = Cardinality(Counted)
        /\ Cardinality(Admitted') = Cardinality(Admitted)
        /\ Cardinality(Replaying') = Cardinality(Replaying) - 1
        /\ Cardinality(Counted') \in Nat /\ Cardinality(Replaying') \in Nat
    BY <1>d, <1>e, <2>1, Zenon DEF FreeSlot
  <2> USE <2>2
  <2>3. replayBlockQueued' = Cardinality(Counted') /\ replayBlockSem' = Cardinality(Replaying')
    BY <1>a, Zenon DEF FreeSlot
  <2>4. ReplayTypeOK'
    BY <1>0, <2>3, Zenon DEF FreeSlot, Goto, ReplayTypeOK
  <2>5. Cardinality(Replaying') <= 4 /\ Cardinality(Admitted') <= 16
    BY <1>a DEF FreeSlot
  <2> QED
    BY <2>3, <2>4, <2>5, Zenon
<1>6. ASSUME NEW c \in Callers, Leave(c) PROVE Kept
  <2> USE <1>6
  <2>1. /\ Counted' = Counted \ {c}
        /\ Admitted' = Admitted \ {c} /\ Replaying' = Replaying \ {c}
    BY <1>0, SetsMove DEF Leave
  <2> USE <1>b
  <2>2. /\ IsFiniteSet(Counted')
        /\ Cardinality(Counted') = Cardinality(Counted) - 1
        /\ Cardinality(Admitted') = Cardinality(Admitted) - 1
        /\ Cardinality(Replaying') = Cardinality(Replaying)
        /\ Cardinality(Counted') \in Nat /\ Cardinality(Replaying') \in Nat
    BY <1>d, <1>e, <2>1, Zenon DEF Leave
  <2> USE <2>2
  <2>3. replayBlockQueued' = Cardinality(Counted') /\ replayBlockSem' = Cardinality(Replaying')
    BY <1>a, Zenon DEF Leave
  <2>4. ReplayTypeOK'
    BY <1>0, <2>3, Zenon DEF Leave, Goto, ReplayTypeOK
  <2>5. Cardinality(Replaying') <= 4 /\ Cardinality(Admitted') <= 16
    BY <1>a DEF Leave
  <2> QED
    BY <2>3, <2>4, <2>5, Zenon
<1>7. CASE UNCHANGED replayVars
  BY <1>0, <1>7, Zenon DEF ReplayInv, replayVars, ReplayTypeOK, NothingLeaks, LimitsHold,
                    Counted, Admitted, At
<1> HIDE DEF Kept
<1> QED
  BY <1>1, <1>2, <1>3, <1>4, <1>5, <1>6, <1>7, <1>c, Zenon DEF ReplayNext

(* The counter of callers and the channel of slots always hold one unit for *)
(* each caller inside the query (replayBlockQueued, replayBlockSem).        *)
THEOREM NothingLeaksHolds == ReplaySpec => []NothingLeaks
<1>1. ReplayInv => NothingLeaks
  BY Zenon DEF ReplayInv
<1> QED
  BY ReplayInvInit, ReplayInvStep, <1>1, PTL DEF ReplaySpec

(* At most four blocks are replayed at a time and at most sixteen callers   *)
(* are let in, however many call (ReplayBlock).                             *)
THEOREM LimitsHoldAlways == ReplaySpec => []LimitsHold
<1>1. ReplayInv => LimitsHold
  BY Zenon DEF ReplayInv
<1> QED
  BY ReplayInvInit, ReplayInvStep, <1>1, PTL DEF ReplaySpec
=============================================================================
