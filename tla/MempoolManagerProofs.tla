------------------------ MODULE MempoolManagerProofs ------------------------
(***************************************************************************)
(* Proofs, for any txs, signers, batch size and time-to-live, that the     *)
(* mempool manager forgets no tx that it must recheck and rechecks none    *)
(* twice in a run, whatever is admitted, committed and evicted meanwhile.  *)
(***************************************************************************)
EXTENDS MempoolManager, CollectionTheorems, FiniteSetTheorems

(* The types of the pool, of the chain and of the recheck goroutine.        *)
PoolTypeOK ==
  /\ pool \subseteq Txs /\ encCache \subseteq Txs /\ owed \subseteq pool
  /\ anteCache \subseteq {Key(tx) : tx \in EthTxs}
  /\ admitting \in Txs \cup {NoTx} /\ passed \subseteq Stamped /\ trigger \in BOOLEAN

ChainTypeOK ==
  /\ checkSeq \in [Senders -> Nat] /\ chainSeq \in [Senders -> Nat]
  /\ height \in 0..MaxHeight /\ checkHeight \in 0..height
  /\ cpc \in {"idle", "finalized", "staged", "committed"}
  /\ blockSenders \subseteq Senders
  /\ lastCommittedHeight \in 0..MaxHeight /\ rHeight \in 0..MaxHeight
  /\ arrival \in [Txs -> (0..MaxHeight) \cup {NotSeen}]

RunTypeOK ==
  /\ recheckSenders \subseteq Senders /\ rSenders \subseteq Senders
  /\ deferred \in Seq(Txs) /\ rDeferred \in Seq(Txs)
  /\ expired \in Seq(Txs) /\ live \in Seq(Txs) /\ todo \in Seq(Txs)
  /\ rpc \in {"idle", "snapshot", "sweep", "sweepCaches", "recheck", "evictPool", "evictCaches"}

(* The types, of the pool, of the chain and of the recheck goroutine.       *)
LEMMA TypeParts == TypeOK <=> PoolTypeOK /\ ChainTypeOK /\ RunTypeOK
BY Zenon DEF TypeOK, PoolTypeOK, ChainTypeOK, RunTypeOK

(* The same after a step.                                                   *)
LEMMA TypePartsNext == TypeOK' <=> PoolTypeOK' /\ ChainTypeOK' /\ RunTypeOK'
BY Zenon DEF TypeOK, PoolTypeOK, ChainTypeOK, RunTypeOK

(* What the invariant says beside the types.                                *)
RecheckInv == RunInv /\ EvictedInv /\ NoOwedTxForgotten /\ NoDoubleRecheck

(* The invariant is the types and RecheckInv.                               *)
LEMMA InvParts == ManagerInv <=> TypeOK /\ RecheckInv
BY Zenon DEF ManagerInv, RecheckInv

(* The same after a step.                                                   *)
LEMMA InvPartsNext == ManagerInv' <=> TypeOK' /\ RecheckInv'
BY Zenon DEF ManagerInv, RecheckInv

-----------------------------------------------------------------------------
(* The lists a run makes of the pool and of its carry.                      *)

(* The txs the run looks at are those of the pool, each once.               *)
LEMMA SnapshotFacts ==
  ASSUME pool \subseteq Txs, NEW S \in SUBSET pool
  PROVE  /\ Filter(Snapshot, S) \in Seq(Txs) /\ Range(Filter(Snapshot, S)) = S
         /\ IsInjective(Filter(Snapshot, S))
<1>1. PoolOrder \in Seq(Txs) /\ Range(PoolOrder) = Txs /\ IsInjective(PoolOrder)
  BY ManagerAssumption, Zenon
<1> DEFINE q == Filter(PoolOrder, pool)
           r == Filter(q, S)
<1>2. q \in Seq(Txs \cap pool) /\ Range(q) = Range(PoolOrder) \cap pool /\ IsInjective(q)
  BY <1>1, FilterFacts, Zenon
<1> HIDE DEF q
<1>3. r \in Seq(Txs \cap pool \cap S) /\ Range(r) = Range(q) \cap S /\ IsInjective(r)
  BY <1>2, FilterFacts
<1> HIDE DEF r
<1>4. r \in Seq(Txs) /\ Range(r) = S
  BY <1>1, <1>2, <1>3
<1> QED
  BY <1>3, <1>4, Zenon DEF q, r, Snapshot

(* selectTxs takes the surviving carry and the surviving txs of a sender to *)
(* recheck, each once.                                                      *)
LEMMA SelectFacts ==
  ASSUME RunTypeOK, IsInjective(rDeferred), IsInjective(live)
  PROVE  /\ SelectTxs \in Seq(Txs) /\ IsInjective(SelectTxs)
         /\ Range(SelectTxs) = Range(live) \cap (Range(rDeferred) \cup SignedBy(rSenders))
<1> DEFINE F == SignedBy(rSenders) \ Range(rDeferred)
           p == Filter(rDeferred, Range(live))
           q == Filter(live, F)
<1>1. rDeferred \in Seq(Txs) /\ live \in Seq(Txs)
  BY Zenon DEF RunTypeOK
<1>2. p \in Seq(Txs \cap Range(live)) /\ Range(p) = Range(rDeferred) \cap Range(live) /\ IsInjective(p)
  BY <1>1, FilterFacts
<1>3. q \in Seq(Txs \cap F) /\ Range(q) = Range(live) \cap F /\ IsInjective(q)
  BY <1>1, FilterFacts, Zenon
<1>4. SelectTxs = p \o q
  BY Zenon DEF SelectTxs
<1> HIDE DEF p, q
<1> USE <1>2, <1>3
<1>5. p \in Seq(Txs) /\ q \in Seq(Txs) /\ Range(p) \cap Range(q) = {}
  OBVIOUS
<1>6. /\ p \o q \in Seq(Txs) /\ Range(p \o q) = Range(p) \cup Range(q)
      /\ IsInjective(p \o q)
  BY <1>5, ConcatFacts
<1> QED
  BY <1>4, <1>6, Zenon

-----------------------------------------------------------------------------
(* A step of another thread: it leaves the run alone, and what it makes     *)
(* suspect it stages.                                                       *)
LEMMA OthersKeep ==
  ASSUME RecheckInv, UNCHANGED <<runVars, deferred>>, recheckSenders \subseteq recheckSenders',
         \A tx \in owed' \ owed : Signers(tx) \cap recheckSenders' # {}
  PROVE  RecheckInv'
<1>1. /\ rpc' = rpc /\ todo' = todo /\ expired' = expired /\ live' = live /\ rDeferred' = rDeferred
      /\ rSenders' = rSenders /\ deferred' = deferred
  BY Zenon DEF runVars
<1> USE <1>1
<1>2. RunInv' /\ NoDoubleRecheck'
  BY Zenon DEF RecheckInv, RunInv, NoDoubleRecheck
<1>3. ASSUME NEW tx, StagedIfOwed(tx) PROVE StagedIfOwed(tx)'
  BY <1>3, Zenon DEF StagedIfOwed
<1>4. EvictedInv'
  BY <1>3, Zenon DEF RecheckInv, EvictedInv
<1>5. ASSUME NEW tx, InFlight(tx) PROVE InFlight(tx)'
  BY <1>5, Zenon DEF InFlight
<1>6. ASSUME NEW tx \in owed' \ Unencodable
      PROVE  Signers(tx) \cap recheckSenders' # {} \/ tx \in Range(deferred') \/ InFlight(tx)'
  BY <1>5, <1>6, Zenon DEF RecheckInv, NoOwedTxForgotten
<1>7. NoOwedTxForgotten'
  BY <1>6, Zenon DEF NoOwedTxForgotten
<1> QED
  BY <1>2, <1>4, <1>7, Zenon DEF RecheckInv

-----------------------------------------------------------------------------
(* The run drains what is staged: the senders and the carry are in flight.  *)
LEMMA DrainKeeps == ASSUME RunTypeOK, RecheckInv, DrainStaging PROVE RecheckInv'
<1>1. /\ rpc = "idle" /\ rSenders' = recheckSenders /\ rDeferred' = deferred
      /\ recheckSenders' = {} /\ deferred' = <<>>
      /\ todo' = todo /\ expired' = expired /\ live' = live /\ owed' = owed
      /\ \/ rpc' = "snapshot"
         \/ rpc' = "idle" /\ recheckSenders = {} /\ deferred = <<>>
  BY Zenon DEF DrainStaging
<1> USE <1>1
<1>2. todo = <<>> /\ Range(<<>>) = {} /\ IsInjective(<<>>)
  BY DEF RecheckInv, RunInv, Range, IsInjective
<1> USE <1>2
<1>3. RunInv' /\ EvictedInv' /\ NoDoubleRecheck'
  BY Zenon DEF RecheckInv, RunInv, EvictedInv, NoDoubleRecheck
<1>4. ASSUME NEW tx \in owed' \ Unencodable PROVE InFlight(tx)'
  <2>1. ~InFlight(tx)
    BY Zenon DEF InFlight
  <2>2. Signers(tx) \cap recheckSenders # {} \/ tx \in Range(deferred)
    BY <2>1, Zenon DEF RecheckInv, NoOwedTxForgotten
  <2>3. rpc' = "snapshot"
    BY <2>2, Zenon
  <2> QED
    BY <2>2, <2>3, Zenon DEF InFlight
<1>5. NoOwedTxForgotten'
  BY <1>4, Zenon DEF NoOwedTxForgotten
<1> QED
  BY <1>3, <1>5, Zenon DEF RecheckInv

(* The snapshot: every owed tx is in the pool, so that it is evicted or     *)
(* selected, and evictions stage the txs of all their signers.              *)
LEMMA SnapshotKeeps == ASSUME PoolTypeOK, RunTypeOK, RecheckInv, TakeSnapshot PROVE RecheckInv' /\ owed' \subseteq pool
<1> DEFINE evicted == {tx \in pool : TxTimedout(tx) \/ TxTTLExpired(tx)}
           kept == pool \ evicted
<1>1. /\ rpc = "snapshot" /\ rpc' = "sweep"
      /\ expired' = Filter(Snapshot, evicted) /\ live' = Filter(Snapshot, kept)
      /\ rSenders' = rSenders \cup EvictedSigners(evicted)
      /\ owed' = owed \cup (kept \cap SignedBy(UNION {Signers(tx) : tx \in evicted}))
      /\ todo' = todo /\ deferred' = deferred /\ rDeferred' = rDeferred
      /\ recheckSenders' = recheckSenders
  BY Zenon DEF TakeSnapshot, stageVars
<1>2. evicted \subseteq pool /\ kept \subseteq pool /\ evicted \cup kept = pool
  BY Zenon
<1> HIDE DEF evicted, kept
<1>3. pool \subseteq Txs /\ owed \subseteq pool
  BY Zenon DEF PoolTypeOK
<1> USE <1>1
<1>4. Range(expired') = evicted /\ Range(live') = kept /\ IsInjective(live')
  BY <1>2, <1>3, SnapshotFacts, Zenon
<1>5. RunInv' /\ EvictedInv' /\ NoDoubleRecheck'
  BY <1>4, Zenon DEF RecheckInv, RunInv, EvictedInv, NoDoubleRecheck
<1>6. owed' \subseteq pool
  BY <1>2, <1>3, Zenon
<1>7. ASSUME NEW tx \in owed' \ Unencodable
      PROVE  Signers(tx) \cap recheckSenders' # {} \/ tx \in Range(deferred') \/ InFlight(tx)'
  <2>1. tx \in Range(live') \cup Range(expired')
    BY <1>2, <1>4, <1>6, Zenon
  <2>2. ASSUME tx \in owed, InFlight(tx) PROVE InFlight(tx)'
    BY <2>1, <2>2, Zenon DEF InFlight
  <2>3. ASSUME tx \notin owed PROVE InFlight(tx)'
    <3>1. Signers(tx) \cap EvictedSigners(evicted) # {}
      BY <2>3, Zenon DEF SignedBy, EvictedSigners
    <3> QED
      BY <2>1, <3>1, Zenon DEF InFlight
  <2> QED
    BY <2>2, <2>3, Zenon DEF RecheckInv, NoOwedTxForgotten
<1>8. NoOwedTxForgotten'
  BY <1>7, Zenon DEF NoOwedTxForgotten
<1> QED
  BY <1>5, <1>6, <1>8, Zenon DEF RecheckInv

(* An eviction takes the tx out of the pool, and with it what it owes.      *)
LEMMA EvictionFacts ==
  ASSUME NEW tx, EvictFromPool(tx)
  PROVE  pool' \subseteq pool /\ owed' \subseteq owed /\ owed' \subseteq pool' /\ tx \notin owed'
BY Zenon DEF EvictFromPool, Without

(* The sweep, first half.                                                   *)
LEMMA SweepPoolKeeps == ASSUME RecheckInv, SweepPool PROVE RecheckInv'
<1> DEFINE t == Head(expired)
<1>1. /\ rpc = "sweep" /\ rpc' = "sweepCaches" /\ expired # <<>> /\ expired' = expired
      /\ live' = live /\ todo' = todo /\ deferred' = deferred /\ rDeferred' = rDeferred
      /\ rSenders' = rSenders /\ recheckSenders' = recheckSenders
  BY Zenon DEF SweepPool, stageVars
<1>2. owed' \subseteq owed /\ t \notin owed'
  BY EvictionFacts, Zenon DEF SweepPool
<1> USE <1>1
<1>3. RunInv' /\ NoDoubleRecheck'
  BY Zenon DEF RecheckInv, RunInv, NoDoubleRecheck
<1>4. EvictedInv'
  BY <1>2, Zenon DEF EvictedInv, StagedIfOwed
<1>5. ASSUME NEW tx, InFlight(tx) PROVE InFlight(tx)'
  BY <1>5, Zenon DEF InFlight
<1>6. NoOwedTxForgotten'
  BY <1>2, <1>5, Zenon DEF RecheckInv, NoOwedTxForgotten
<1> QED
  BY <1>3, <1>4, <1>6, Zenon DEF RecheckInv

(* The sweep, second half: if the evicted tx is owed again, it is staged.   *)
LEMMA SweepCachesKeeps == ASSUME RunTypeOK, RecheckInv, SweepCaches PROVE RecheckInv'
<1> DEFINE t == Head(expired)
<1>1. /\ rpc = "sweepCaches" /\ rpc' = "sweep" /\ expired' = Tail(expired)
      /\ live' = live /\ todo' = todo /\ deferred' = deferred /\ rDeferred' = rDeferred
      /\ rSenders' = rSenders /\ recheckSenders' = recheckSenders /\ owed' = owed
  BY Zenon DEF SweepCaches, EvictFromCaches, stageVars
<1> USE <1>1
<1>2. Range(expired) = {t} \cup Range(expired')
  BY HeadTail, Zenon DEF RunTypeOK, RecheckInv, RunInv
<1>3. RunInv' /\ EvictedInv' /\ NoDoubleRecheck'
  BY Zenon DEF RecheckInv, RunInv, EvictedInv, NoDoubleRecheck
<1>4. StagedIfOwed(t)
  BY Zenon DEF RecheckInv, EvictedInv
<1>5. ASSUME NEW tx, tx # t, InFlight(tx) PROVE InFlight(tx)'
  BY <1>2, <1>5, Zenon DEF InFlight
<1>6. ASSUME NEW tx \in owed' \ Unencodable
      PROVE  Signers(tx) \cap recheckSenders' # {} \/ tx \in Range(deferred') \/ InFlight(tx)'
  BY <1>4, <1>5, Zenon DEF RecheckInv, NoOwedTxForgotten, StagedIfOwed
<1>7. NoOwedTxForgotten'
  BY <1>6, Zenon DEF NoOwedTxForgotten
<1> QED
  BY <1>3, <1>7, Zenon DEF RecheckInv

(* selectTxs and the cap: every owed tx of the snapshot is selected, to be  *)
(* run now or to be carried, not both.                                      *)
LEMMA SelectKeeps == ASSUME RunTypeOK, RecheckInv, SelectAndCap PROVE RecheckInv' /\ RunTypeOK'
<1> DEFINE s == SelectTxs
           n == Len(s)
           c == Capped(n)
           now == SubSeq(s, 1, c)
           carried == SubSeq(s, c + 1, n)
<1>1. /\ rpc = "sweep" /\ rpc' = "recheck" /\ expired = <<>> /\ expired' = expired
      /\ todo' = now /\ deferred' = (IF carried = <<>> THEN deferred ELSE carried)
      /\ live' = <<>> /\ rDeferred' = rDeferred /\ rSenders' = {}
      /\ recheckSenders' = recheckSenders /\ owed' = owed
  BY Zenon DEF SelectAndCap
<1>2. /\ todo = <<>> /\ deferred = <<>> /\ IsInjective(rDeferred) /\ IsInjective(live)
  BY <1>1, Zenon DEF RecheckInv, RunInv
<1>3. /\ s \in Seq(Txs) /\ IsInjective(s)
      /\ Range(s) = Range(live) \cap (Range(rDeferred) \cup SignedBy(rSenders))
  BY <1>2, SelectFacts, Zenon
<1> HIDE DEF s
<1>4. n \in Nat /\ c \in 0 .. n
  BY <1>3, ManagerAssumption DEF Capped
<1> HIDE DEF c
<1>5. now \in Seq(Txs) /\ carried \in Seq(Txs) /\ now \o carried = s
  BY <1>3, <1>4, CutFacts, Zenon
<1> HIDE DEF now, carried
<1>6. deferred' = carried
  BY <1>1, <1>2, Zenon
<1>7. /\ Range(s) = Range(now) \cup Range(carried)
      /\ IsInjective(now \o carried) /\ IsInjective(carried)
  <2>1. now \in Seq(Txs) /\ carried \in Seq(Txs)
    BY <1>5, Zenon
  <2>2. Range(now \o carried) = Range(now) \cup Range(carried)
    BY ONLY <2>1, ConcatFacts
  <2>3. IsInjective(now \o carried) => IsInjective(carried)
    BY ONLY <2>1, ConcatFacts, Zenon
  <2> QED
    BY <1>3, <1>5, <2>2, <2>3, Zenon
<1>8. Range(<<>>) = {} /\ IsInjective(<<>>) /\ <<>> \in Seq(Txs)
  BY DEF Range, IsInjective
<1> USE <1>8
<1>9. RunInv' /\ EvictedInv' /\ NoDoubleRecheck'
  BY <1>1, <1>2, <1>6, <1>7, Zenon DEF RunInv, EvictedInv, NoDoubleRecheck
<1>10. ASSUME NEW tx \in owed' \ Unencodable
       PROVE  Signers(tx) \cap recheckSenders' # {} \/ tx \in Range(deferred') \/ InFlight(tx)'
  <2> USE <1>1
  <2>1. ASSUME InFlight(tx) PROVE tx \in Range(s)
    <3>1. tx \in Range(live) /\ (Signers(tx) \cap rSenders # {} \/ tx \in Range(rDeferred))
      BY <1>2, <2>1, Zenon DEF InFlight
    <3>2. Range(live) \subseteq Txs
      BY DEF RunTypeOK, Range
    <3> QED
      BY <1>3, <3>1, <3>2, Zenon DEF SignedBy
  <2>2. ASSUME tx \in Range(s) PROVE tx \in Range(deferred') \/ InFlight(tx)'
    BY <1>6, <1>7, <2>2, Zenon DEF InFlight
  <2> QED
    BY <1>2, <2>1, <2>2, Zenon DEF RecheckInv, NoOwedTxForgotten
<1>11. NoOwedTxForgotten'
  BY <1>10, Zenon DEF NoOwedTxForgotten
<1>12. RunTypeOK'
  BY <1>1, <1>5, <1>6, Zenon DEF RunTypeOK
<1> QED
  BY <1>9, <1>11, <1>12, Zenon DEF RecheckInv

(* The run is done with a candidate that is not owed, or is staged again.   *)
LEMMA CandidateDone ==
  ASSUME RunTypeOK, RecheckInv, rpc \in {"recheck", "evictPool", "evictCaches"}, todo # <<>>,
         rpc' = "recheck", todo' = Tail(todo), owed' \subseteq owed,
         \A tx \in owed' \ Unencodable : tx = Head(todo) => Signers(tx) \cap recheckSenders # {},
         UNCHANGED <<rDeferred, live, stageVars>>
  PROVE  RecheckInv' /\ Tail(todo) \in Seq(Txs)
<1>1. todo \in Seq(Txs) /\ deferred \in Seq(Txs) /\ deferred' = deferred /\ recheckSenders' = recheckSenders
  BY Zenon DEF RunTypeOK, stageVars
<1> USE <1>1
<1>2. /\ Range(todo) = {Head(todo)} \cup Range(Tail(todo)) /\ Tail(todo) \in Seq(Txs)
      /\ IsInjective(todo) => IsInjective(Tail(todo))
  BY HeadTail, Zenon
<1>3. IsInjective(todo \o deferred)
  BY Zenon DEF RecheckInv, NoDoubleRecheck
<1>4. IsInjective(todo) /\ IsInjective(deferred) /\ Range(todo) \cap Range(deferred) = {}
  BY <1>3, ConcatFacts, Zenon
<1> USE <1>2
<1>5. IsInjective(Tail(todo) \o deferred)
  <2>1. /\ IsInjective(Tail(todo)) /\ IsInjective(deferred)
        /\ Range(Tail(todo)) \cap Range(deferred) = {}
    BY <1>4, Zenon
  <2> QED
    BY <2>1, ConcatFacts, Zenon
<1>6. RunInv' /\ EvictedInv' /\ NoDoubleRecheck'
  BY <1>5, Zenon DEF RecheckInv, RunInv, EvictedInv, NoDoubleRecheck
<1>7. ASSUME NEW tx \in owed' \ Unencodable
      PROVE  Signers(tx) \cap recheckSenders' # {} \/ tx \in Range(deferred') \/ InFlight(tx)'
  <2>1. ASSUME InFlight(tx), tx # Head(todo) PROVE InFlight(tx)'
    BY <2>1, Zenon DEF InFlight
  <2> QED
    BY <2>1, Zenon DEF RecheckInv, NoOwedTxForgotten
<1>8. NoOwedTxForgotten'
  BY <1>7, Zenon DEF NoOwedTxForgotten
<1> QED
  BY <1>6, <1>8, Zenon DEF RecheckInv

(* The run goes on with a candidate it has taken out of the pool.           *)
LEMMA CandidateOut ==
  ASSUME RecheckInv, rpc \in {"recheck", "evictPool"}, todo # <<>>,
         rpc' \in {"evictPool", "evictCaches"}, owed' \subseteq owed, Head(todo) \notin owed',
         UNCHANGED <<todo, rDeferred, live, stageVars>>
  PROVE  RecheckInv'
<1>1. deferred' = deferred /\ recheckSenders' = recheckSenders /\ todo' = todo
  BY Zenon DEF stageVars
<1> USE <1>1
<1>2. RunInv' /\ NoDoubleRecheck'
  BY Zenon DEF RecheckInv, RunInv, NoDoubleRecheck
<1>3. EvictedInv'
  BY Zenon DEF EvictedInv, StagedIfOwed
<1>4. ASSUME NEW tx, InFlight(tx) PROVE InFlight(tx)'
  BY <1>4, Zenon DEF InFlight
<1>5. ASSUME NEW tx \in owed' \ Unencodable
      PROVE  Signers(tx) \cap recheckSenders' # {} \/ tx \in Range(deferred') \/ InFlight(tx)'
  BY <1>4, Zenon DEF RecheckInv, NoOwedTxForgotten
<1>6. NoOwedTxForgotten'
  BY <1>5, Zenon DEF NoOwedTxForgotten
<1> QED
  BY <1>2, <1>3, <1>6, Zenon DEF RecheckInv

(* The recheck of one candidate, whatever comes of it.                      *)
LEMMA RunRecheckKeeps ==
  ASSUME PoolTypeOK, RunTypeOK, RecheckInv,
         RecheckPasses \/ RecheckFails \/ RecheckSkips \/ EvictFailedPool \/ EvictFailedCaches
  PROVE  RecheckInv' /\ RunTypeOK' /\ owed' \subseteq pool' /\ pool' \subseteq pool
<1>0. owed \subseteq pool
  BY Zenon DEF PoolTypeOK
<1>1. CASE RecheckPasses
  <2>1. /\ rpc = "recheck" /\ rpc' = rpc /\ todo # <<>> /\ todo' = Tail(todo)
        /\ owed' = owed \ {Head(todo)} /\ pool' = pool
        /\ UNCHANGED <<rSenders, rDeferred, expired, live, stageVars>>
    BY <1>1, Zenon DEF RecheckPasses
  <2>2. RecheckInv' /\ Tail(todo) \in Seq(Txs)
    BY <2>1, CandidateDone, Zenon
  <2> QED
    BY <1>0, <2>1, <2>2, Zenon DEF RunTypeOK, stageVars
<1>2. CASE RecheckSkips
  <2>1. /\ rpc = "recheck" /\ rpc' = rpc /\ todo # <<>> /\ todo' = Tail(todo)
        /\ Head(todo) \in Unencodable /\ owed' = owed /\ pool' = pool
        /\ UNCHANGED <<rSenders, rDeferred, expired, live, stageVars>>
    BY <1>2, Zenon DEF RecheckSkips, Encodes
  <2>2. RecheckInv' /\ Tail(todo) \in Seq(Txs)
    BY <2>1, CandidateDone, Zenon
  <2> QED
    BY <1>0, <2>1, <2>2, Zenon DEF RunTypeOK, stageVars
<1>3. CASE EvictFailedCaches
  <2>1. /\ rpc = "evictCaches" /\ rpc' = "recheck" /\ todo' = Tail(todo)
        /\ owed' = owed /\ pool' = pool
        /\ UNCHANGED <<rSenders, rDeferred, expired, live, stageVars>>
    BY <1>3, Zenon DEF EvictFailedCaches, EvictFromCaches
  <2> USE <2>1
  <2>2. todo # <<>> /\ StagedIfOwed(Head(todo))
    BY Zenon DEF RecheckInv, RunInv, EvictedInv
  <2>3. RecheckInv' /\ Tail(todo) \in Seq(Txs)
    BY <2>2, CandidateDone, Zenon DEF StagedIfOwed
  <2> QED
    BY <1>0, <2>3, Zenon DEF RunTypeOK, stageVars
<1>4. CASE RecheckFails
  <2>1. /\ rpc = "recheck" /\ rpc' = "evictPool" /\ todo # <<>> /\ todo' = todo
        /\ pool' = Without(pool, Head(todo)) /\ owed' = owed \cap pool'
        /\ UNCHANGED <<rSenders, rDeferred, expired, live, stageVars>>
    BY <1>4, Zenon DEF RecheckFails
  <2> USE <2>1
  <2>2. Head(todo) \notin pool' /\ pool' \subseteq pool
    BY Zenon DEF Without
  <2>3. RecheckInv'
    BY <2>2, CandidateOut, Zenon
  <2> QED
    BY <2>2, <2>3, Zenon DEF RunTypeOK, stageVars
<1>5. CASE EvictFailedPool
  <2>1. /\ rpc = "evictPool" /\ rpc' = "evictCaches" /\ todo' = todo /\ EvictFromPool(Head(todo))
        /\ UNCHANGED <<rSenders, rDeferred, expired, live, stageVars>>
    BY <1>5, Zenon DEF EvictFailedPool
  <2> USE <2>1
  <2>2. todo # <<>>
    BY Zenon DEF RecheckInv, RunInv
  <2>3. /\ pool' \subseteq pool /\ owed' \subseteq owed /\ owed' \subseteq pool'
        /\ Head(todo) \notin owed'
    BY EvictionFacts, Zenon
  <2>4. RecheckInv'
    BY <2>2, <2>3, CandidateOut, Zenon
  <2> QED
    BY <2>3, <2>4, Zenon DEF RunTypeOK, stageVars
<1> QED
  BY <1>1, <1>2, <1>3, <1>4, <1>5, Zenon

(* The run ends with nothing in flight.                                     *)
LEMMA RecheckDoneKeeps == ASSUME RunTypeOK, RecheckInv, RecheckDone PROVE RecheckInv' /\ RunTypeOK'
<1>1. /\ rpc = "recheck" /\ rpc' = "idle" /\ todo = <<>> /\ todo' = todo /\ rDeferred' = <<>>
      /\ UNCHANGED <<rSenders, expired, live, owed, stageVars>>
  BY Zenon DEF RecheckDone
<1>2. Range(<<>>) = {} /\ IsInjective(<<>>) /\ <<>> \in Seq(Txs)
  BY DEF Range, IsInjective
<1> USE <1>1, <1>2
<1>3. RunInv' /\ EvictedInv' /\ NoDoubleRecheck'
  BY Zenon DEF RecheckInv, RunInv, EvictedInv, NoDoubleRecheck, stageVars
<1>4. \A tx : ~InFlight(tx)
  BY Zenon DEF InFlight
<1>5. NoOwedTxForgotten'
  BY <1>4, Zenon DEF RecheckInv, NoOwedTxForgotten, stageVars
<1>6. RunTypeOK'
  BY Zenon DEF RunTypeOK, stageVars
<1> QED
  BY <1>3, <1>5, <1>6, Zenon DEF RecheckInv

-----------------------------------------------------------------------------
(* The ante handler's writes keep their types.                              *)
LEMMA AnteTypes ==
  ASSUME PoolTypeOK, ChainTypeOK, NEW tx \in Txs, AnteWrites(tx)
  PROVE  checkSeq' \in [Senders -> Nat] /\ anteCache' \subseteq {Key(t) : t \in EthTxs}
<1>1. \A s \in Signers(tx) : Seqs[tx][s] + 1 \in Nat
  BY ManagerAssumption
<1>2. BumpSeqs(checkSeq, tx) \in [Senders -> Nat]
  BY <1>1, Zenon DEF BumpSeqs, ChainTypeOK
<1>3. checkSeq' \in [Senders -> Nat]
  BY <1>2, Zenon DEF AnteWrites, ChainTypeOK
<1>4. anteCache' \subseteq {Key(t) : t \in EthTxs}
  BY Zenon DEF AnteWrites, PoolTypeOK
<1> QED
  BY <1>3, <1>4, Zenon

(* Admissions.                                                              *)
LEMMA AdmissionKeeps == ASSUME ManagerInv, Admission PROVE ManagerInv'
<1>1. PoolTypeOK /\ ChainTypeOK /\ RunTypeOK /\ RecheckInv
  BY InvParts, TypeParts, Zenon
<1> USE <1>1
<1>2. /\ UNCHANGED runVars /\ UNCHANGED stageVars /\ UNCHANGED consVars
      /\ UNCHANGED <<passed, trigger>> /\ owed' \subseteq owed
  BY Zenon DEF Admission, AdmitRunTx, AdmitRefused, CacheTx, PoolTypeOK
<1>3. RunTypeOK' /\ RecheckInv'
  BY <1>2, OthersKeep, Zenon DEF RunTypeOK, runVars, stageVars
<1>4. ASSUME checkSeq' \in [Senders -> Nat] PROVE ChainTypeOK'
  BY <1>2, <1>4, Zenon DEF ChainTypeOK, consVars, runVars, stageVars
<1>5. ASSUME NEW tx \in Txs, AdmitRunTx(tx) PROVE PoolTypeOK' /\ ChainTypeOK'
  <2>1. checkSeq' \in [Senders -> Nat] /\ anteCache' \subseteq {Key(t) : t \in EthTxs}
    BY <1>5, AnteTypes, Zenon DEF AdmitRunTx
  <2>2. /\ pool' = Without(pool, tx) \cup {tx} /\ admitting' = tx
        /\ owed' = (owed \cap pool') \ {tx} /\ encCache' = encCache
    BY <1>5, Zenon DEF AdmitRunTx
  <2> QED
    BY <1>2, <1>4, <2>1, <2>2, Zenon DEF PoolTypeOK, Without
<1>6. ASSUME NEW tx \in Txs, AdmitRefused(tx) PROVE PoolTypeOK' /\ ChainTypeOK'
  <2>1. checkSeq' \in [Senders -> Nat] /\ anteCache' \subseteq {Key(t) : t \in EthTxs}
    BY <1>6, AnteTypes, Zenon DEF AdmitRefused
  <2>2. UNCHANGED <<pool, encCache, admitting, owed>>
    BY <1>6, Zenon DEF AdmitRefused
  <2> QED
    BY <1>2, <1>4, <2>1, <2>2, Zenon DEF PoolTypeOK
<1>7. CASE CacheTx
  <2>1. /\ encCache' = encCache \cup ({admitting} \cap Unencodable) /\ admitting' = NoTx
        /\ UNCHANGED <<pool, anteCache, checkSeq, owed>>
    BY <1>7, Zenon DEF CacheTx
  <2>2. PoolTypeOK'
    BY <1>2, <2>1, ManagerAssumption, Zenon DEF PoolTypeOK
  <2> QED
    BY <1>3, <1>4, <2>1, <2>2, InvPartsNext, TypePartsNext, Zenon DEF ChainTypeOK
<1> QED
  BY <1>3, <1>5, <1>6, <1>7, InvPartsNext, TypePartsNext, Zenon DEF Admission

(* The signers of txs are senders.                                          *)
LEMMA SignersAreSenders ==
  ASSUME NEW T \in SUBSET Txs PROVE UNION {Signers(tx) : tx \in T} \subseteq Senders
<1>1. \A tx \in T : Signers(tx) \subseteq Senders
  BY ManagerAssumption, Zenon
<1> QED
  BY <1>1, Zenon

(* The consensus thread: what it makes suspect it stages.                   *)
LEMMA FinalizeKeeps == ASSUME ManagerInv, NEW B \in SUBSET Txs, FinalizeBlock(B) PROVE ManagerInv'
<1>1. PoolTypeOK /\ ChainTypeOK /\ RunTypeOK /\ RecheckInv
  BY InvParts, TypeParts, Zenon
<1>2. /\ height' = Min({height + 1, MaxHeight})
      /\ chainSeq' = [s \in Senders |-> chainSeq[s] + Cardinality({t \in B : s \in Signers(t)})]
      /\ pool' \subseteq pool /\ anteCache' \subseteq anteCache
      /\ blockSenders' = UNION {Signers(t) : t \in B} /\ owed' = owed \cap pool' /\ cpc' = "finalized"
      /\ UNCHANGED <<checkHeight, encCache, checkSeq, admitting, passed, trigger, stageVars, runVars>>
  BY Zenon DEF FinalizeBlock
<1> USE <1>1, <1>2
<1>3. RunTypeOK' /\ RecheckInv'
  BY OthersKeep, Zenon DEF RunTypeOK, runVars, stageVars
<1>4. PoolTypeOK'
  BY Zenon DEF PoolTypeOK
<1>5. ASSUME NEW s \in Senders PROVE Cardinality({t \in B : s \in Signers(t)}) \in Nat
  <2>1. IsFiniteSet({t \in B : s \in Signers(t)})
    BY ManagerAssumption, FS_Subset, Zenon
  <2> QED
    BY <2>1, FS_CardinalityType, Zenon
<1>6. chainSeq' \in [Senders -> Nat]
  BY <1>5 DEF ChainTypeOK
<1>7. height' \in 0 .. MaxHeight /\ height <= height' /\ height \in 0 .. MaxHeight
  <2>1. height \in 0 .. MaxHeight /\ MaxHeight \in Nat
    BY ManagerAssumption, Zenon DEF ChainTypeOK
  <2> USE <2>1
  <2>2. height' \in {height + 1, MaxHeight} /\ \A x \in {height + 1, MaxHeight} : height' <= x
    <3>1. height + 1 \in Nat /\ (height + 1 <= MaxHeight \/ MaxHeight <= height + 1)
      OBVIOUS
    <3> QED
      BY <3>1 DEF Min
  <2> QED
    BY <2>2
<1>8. checkHeight' \in 0 .. height'
  BY <1>7 DEF ChainTypeOK
<1>9. blockSenders' \subseteq Senders
  BY SignersAreSenders, Zenon
<1>10. ChainTypeOK'
  BY <1>6, <1>7, <1>8, <1>9, Zenon DEF ChainTypeOK, stageVars, runVars
<1> QED
  BY <1>3, <1>4, <1>10, InvPartsNext, TypePartsNext, Zenon

(* StageRecheckSenders, Commit, TriggerRecheck and the senders that a       *)
(* proposal stages keep the invariant, as FinalizeBlock does.               *)
LEMMA ConsensusKeeps == ASSUME ManagerInv, Consensus PROVE ManagerInv'
<1>1. PoolTypeOK /\ ChainTypeOK /\ RunTypeOK /\ RecheckInv
  BY InvParts, TypeParts, Zenon
<1>2. CASE StageRecheckSenders
  <2>1. /\ lastCommittedHeight' = height /\ recheckSenders' = recheckSenders \cup blockSenders
        /\ owed' = owed \cup (pool \cap SignedBy(blockSenders)) /\ blockSenders' = {} /\ cpc' = "staged"
        /\ UNCHANGED <<deferred, pool, checkSeq, admitting, passed, trigger, checkHeight, chainSeq,
                       height, cacheVars, runVars>>
    BY <1>2, Zenon DEF StageRecheckSenders
  <2> USE <2>1
  <2>2. \A tx \in owed' \ owed : Signers(tx) \cap recheckSenders' # {}
    BY Zenon DEF SignedBy
  <2>3. RecheckInv'
    BY <1>1, <2>2, OthersKeep, Zenon
  <2>4. RunTypeOK' /\ ChainTypeOK' /\ PoolTypeOK'
    BY <1>1, Zenon DEF RunTypeOK, ChainTypeOK, PoolTypeOK, runVars, cacheVars
  <2> QED
    BY <2>3, <2>4, InvPartsNext, TypePartsNext, Zenon
<1>3. CASE Commit
  <2>1. /\ checkSeq' = chainSeq /\ checkHeight' = height /\ cpc' = "committed"
        /\ UNCHANGED <<pool, admitting, passed, trigger, owed, chainSeq, height, blockSenders,
                       cacheVars, stageVars, runVars>>
    BY <1>3, Zenon DEF Commit
  <2>2. RecheckInv'
    BY <1>1, <2>1, OthersKeep, Zenon DEF stageVars
  <2>3. RunTypeOK' /\ ChainTypeOK' /\ PoolTypeOK'
    BY <1>1, <2>1 DEF RunTypeOK, ChainTypeOK, PoolTypeOK, runVars, cacheVars, stageVars
  <2> QED
    BY <2>2, <2>3, InvPartsNext, TypePartsNext, Zenon
<1>4. CASE TriggerRecheck
  <2>1. /\ trigger' = TRUE /\ cpc' = "idle"
        /\ UNCHANGED <<pool, checkSeq, admitting, passed, owed, checkHeight, chainSeq, height,
                       blockSenders, cacheVars, stageVars, runVars>>
    BY <1>4, Zenon DEF TriggerRecheck
  <2>2. RecheckInv'
    BY <1>1, <2>1, OthersKeep, Zenon DEF stageVars
  <2>3. RunTypeOK' /\ ChainTypeOK' /\ PoolTypeOK'
    BY <1>1, <2>1, Zenon DEF RunTypeOK, ChainTypeOK, PoolTypeOK, runVars, cacheVars, stageVars
  <2> QED
    BY <2>2, <2>3, InvPartsNext, TypePartsNext, Zenon
<1>5. ASSUME NEW skipped \in SUBSET pool, StageSkippedSenders(skipped) PROVE ManagerInv'
  <2> DEFINE senders == UNION {Signers(tx) : tx \in skipped}
  <2>1. /\ recheckSenders' = recheckSenders \cup senders
        /\ owed' = owed \cup (pool \cap SignedBy(senders))
        /\ UNCHANGED <<deferred, lastCommittedHeight, pool, checkSeq, admitting, passed, trigger,
                       cacheVars, consVars, runVars>>
    BY <1>5, Zenon DEF StageSkippedSenders
  <2> USE <1>1
  <2>2. skipped \in SUBSET Txs
    BY Zenon DEF PoolTypeOK
  <2>3. senders \subseteq Senders
    BY <2>2, SignersAreSenders, Zenon
  <2> HIDE DEF senders
  <2> USE <2>1
  <2>4. \A tx \in owed' \ owed : Signers(tx) \cap recheckSenders' # {}
    BY Zenon DEF SignedBy
  <2>5. RecheckInv'
    BY <2>4, OthersKeep, Zenon
  <2>6. RunTypeOK' /\ ChainTypeOK' /\ PoolTypeOK'
    BY <2>3, Zenon DEF RunTypeOK, ChainTypeOK, PoolTypeOK, runVars, cacheVars, consVars
  <2> QED
    BY <2>5, <2>6, InvPartsNext, TypePartsNext, Zenon
<1> QED
  BY <1>2, <1>3, <1>4, <1>5, FinalizeKeeps, Zenon DEF Consensus

-----------------------------------------------------------------------------
(* The recheck goroutine.                                                   *)

(* drainStaging, which takes the staged senders and the carry, keeps the    *)
(* invariant.                                                               *)
LEMMA DrainInv == ASSUME ManagerInv, DrainStaging PROVE ManagerInv'
<1>1. PoolTypeOK /\ ChainTypeOK /\ RunTypeOK /\ RecheckInv
  BY InvParts, TypeParts, Zenon
<1>2. /\ trigger' = FALSE /\ rSenders' = recheckSenders /\ rHeight' = lastCommittedHeight
      /\ rDeferred' = deferred /\ recheckSenders' = {} /\ deferred' = <<>>
      /\ rpc' \in {"idle", "snapshot"}
      /\ UNCHANGED <<lastCommittedHeight, expired, live, todo, arrival, pool, checkSeq, admitting,
                     passed, owed, cacheVars, consVars>>
  BY Zenon DEF DrainStaging
<1>3. <<>> \in Seq(Txs)
  OBVIOUS
<1>4. PoolTypeOK' /\ ChainTypeOK' /\ RunTypeOK'
  BY <1>1, <1>2, <1>3, Zenon DEF PoolTypeOK, ChainTypeOK, RunTypeOK, cacheVars, consVars
<1> QED
  BY <1>1, <1>4, DrainKeeps, InvPartsNext, TypePartsNext, Zenon

(* PoolSnapshot and pass 1 of selectTxs, which decides what to evict and    *)
(* records arrivals, keep the invariant.                                    *)
LEMMA SnapshotInv == ASSUME ManagerInv, TakeSnapshot PROVE ManagerInv'
<1> DEFINE evicted == {tx \in pool : TxTimedout(tx) \/ TxTTLExpired(tx)}
           kept == pool \ evicted
<1>1. PoolTypeOK /\ ChainTypeOK /\ RunTypeOK /\ RecheckInv
  BY InvParts, TypeParts, Zenon
<1>2. /\ expired' = Filter(Snapshot, evicted) /\ live' = Filter(Snapshot, kept)
      /\ rSenders' = rSenders \cup EvictedSigners(evicted)
      /\ arrival' = [tx \in Txs |-> IF TTLNumBlocks > 0 /\ tx \in kept THEN Arrived(tx) ELSE NotSeen]
      /\ rpc' = "sweep"
      /\ UNCHANGED <<rHeight, rDeferred, todo, pool, checkSeq, admitting, passed, trigger,
                     cacheVars, consVars, stageVars>>
  BY Zenon DEF TakeSnapshot
<1> USE <1>1
<1>3. evicted \in SUBSET pool /\ kept \in SUBSET pool /\ pool \subseteq Txs
  BY Zenon DEF PoolTypeOK
<1> HIDE DEF evicted, kept
<1> USE <1>2
<1>4. expired' \in Seq(Txs) /\ live' \in Seq(Txs)
  BY <1>3, SnapshotFacts, Zenon
<1>5. EvictedSigners(evicted) \subseteq Senders
  BY <1>3, SignersAreSenders, Zenon DEF EvictedSigners
<1>6. \A tx \in Txs : Arrived(tx) \in (0 .. MaxHeight) \cup {NotSeen}
  BY Zenon DEF Arrived, ChainTypeOK
<1>7. arrival' \in [Txs -> (0 .. MaxHeight) \cup {NotSeen}]
  BY <1>6, Zenon
<1>8. ChainTypeOK'
  BY <1>7, Zenon DEF ChainTypeOK, consVars, stageVars
<1>9. RunTypeOK'
  BY <1>4, <1>5, Zenon DEF RunTypeOK, stageVars
<1>10. RecheckInv' /\ owed' \subseteq pool
  BY SnapshotKeeps, Zenon
<1>11. PoolTypeOK'
  BY <1>10, Zenon DEF PoolTypeOK, cacheVars
<1> QED
  BY <1>8, <1>9, <1>10, <1>11, InvPartsNext, TypePartsNext, Zenon

(* The sweep of what timed out.                                             *)
LEMMA SweepInv == ASSUME ManagerInv, SweepPool \/ SweepCaches PROVE ManagerInv'
<1>1. PoolTypeOK /\ ChainTypeOK /\ RunTypeOK /\ RecheckInv
  BY InvParts, TypeParts, Zenon
<1> USE <1>1
<1>2. CASE SweepPool
  <2> USE <1>2
  <2>1. /\ rpc' = "sweepCaches" /\ UNCHANGED cacheVars
        /\ UNCHANGED <<rSenders, rHeight, rDeferred, expired, live, todo, arrival, checkSeq,
                       admitting, passed, trigger, consVars, stageVars>>
    BY Zenon DEF SweepPool, EvictFromPool
  <2>2. pool' \subseteq pool /\ owed' \subseteq pool'
    BY EvictionFacts, Zenon DEF SweepPool
  <2>3. PoolTypeOK' /\ ChainTypeOK' /\ RunTypeOK'
    BY <2>1, <2>2, Zenon DEF PoolTypeOK, ChainTypeOK, RunTypeOK, cacheVars, consVars, stageVars
  <2> QED
    BY <2>3, SweepPoolKeeps, InvPartsNext, TypePartsNext, Zenon
<1>3. CASE SweepCaches
  <2>1. /\ rpc = "sweepCaches" /\ rpc' = "sweep" /\ expired' = Tail(expired)
        /\ encCache' \subseteq encCache /\ anteCache' \subseteq anteCache
        /\ UNCHANGED <<rSenders, rHeight, rDeferred, live, todo, arrival, checkSeq, admitting,
                       passed, trigger, consVars, stageVars, pool, owed>>
    BY <1>3, Zenon DEF SweepCaches, EvictFromCaches
  <2>2. Tail(expired) \in Seq(Txs)
    BY <2>1, HeadTail, Zenon DEF RunTypeOK, RecheckInv, RunInv
  <2>3. PoolTypeOK' /\ ChainTypeOK' /\ RunTypeOK'
    BY <2>1, <2>2, Zenon DEF PoolTypeOK, ChainTypeOK, RunTypeOK, consVars, stageVars
  <2> QED
    BY <1>3, <2>3, SweepCachesKeeps, InvPartsNext, TypePartsNext, Zenon
<1> QED
  BY <1>2, <1>3, Zenon

(* The selection and the cap of RecheckTxs keep the invariant.              *)
LEMMA SelectInv == ASSUME ManagerInv, SelectAndCap PROVE ManagerInv'
<1>1. PoolTypeOK /\ ChainTypeOK /\ RunTypeOK /\ RecheckInv
  BY InvParts, TypeParts, Zenon
<1>2. /\ rHeight' = 0
      /\ UNCHANGED <<lastCommittedHeight, arrival, pool, checkSeq, admitting, passed, trigger, owed,
                     cacheVars, consVars>>
  BY Zenon DEF SelectAndCap
<1>3. PoolTypeOK' /\ ChainTypeOK'
  BY <1>1, <1>2, ManagerAssumption DEF PoolTypeOK, ChainTypeOK, cacheVars, consVars
<1> QED
  BY <1>1, <1>3, SelectKeeps, InvPartsNext, TypePartsNext, Zenon

(* Each tx that a run rechecks, skips or evicts keeps the invariant.        *)
LEMMA RunRecheckInv ==
  ASSUME ManagerInv,
         RecheckPasses \/ RecheckFails \/ RecheckSkips \/ EvictFailedPool \/ EvictFailedCaches
  PROVE  ManagerInv'
<1>1. PoolTypeOK /\ ChainTypeOK /\ RunTypeOK /\ RecheckInv
  BY InvParts, TypeParts, Zenon
<1> USE <1>1
<1>2. RecheckInv' /\ RunTypeOK' /\ owed' \subseteq pool' /\ pool' \subseteq pool
  BY RunRecheckKeeps, Zenon
<1>3. /\ encCache' \subseteq encCache /\ anteCache' \subseteq anteCache
      /\ UNCHANGED <<rHeight, arrival, admitting, passed, trigger, lastCommittedHeight, consVars>>
  BY Zenon DEF RecheckPasses, RecheckFails, RecheckSkips, EvictFailedPool, EvictFailedCaches,
         EvictFromPool, EvictFromCaches, cacheVars, stageVars
<1>4. checkSeq' \in [Senders -> Nat]
  <2>1. CASE RecheckPasses
    <3>1. todo # <<>> /\ checkSeq' = BumpSeqs(checkSeq, Head(todo))
      BY <2>1, Zenon DEF RecheckPasses
    <3>2. Head(todo) \in Txs
      BY <3>1, HeadTail, Zenon DEF RunTypeOK
    <3>3. \A s \in Signers(Head(todo)) : Seqs[Head(todo)][s] + 1 \in Nat
      BY <3>2, ManagerAssumption
    <3> QED
      BY <3>1, <3>3, Zenon DEF BumpSeqs, ChainTypeOK
  <2>2. CASE checkSeq' = checkSeq
    BY <2>2, Zenon DEF ChainTypeOK
  <2> QED
    BY <2>1, <2>2, Zenon DEF RecheckFails, RecheckSkips, EvictFailedPool, EvictFailedCaches
<1>5. PoolTypeOK' /\ ChainTypeOK'
  BY <1>2, <1>3, <1>4, Zenon DEF PoolTypeOK, ChainTypeOK, consVars
<1> QED
  BY <1>2, <1>5, InvPartsNext, TypePartsNext, Zenon

(* The end of a run keeps the invariant.                                    *)
LEMMA RecheckDoneInv == ASSUME ManagerInv, RecheckDone PROVE ManagerInv'
<1>1. PoolTypeOK /\ ChainTypeOK /\ RunTypeOK /\ RecheckInv
  BY InvParts, TypeParts, Zenon
<1>2. UNCHANGED <<rHeight, arrival, pool, checkSeq, admitting, passed, trigger, owed, cacheVars,
                  consVars, stageVars>>
  BY Zenon DEF RecheckDone
<1>3. PoolTypeOK' /\ ChainTypeOK'
  BY <1>1, <1>2, Zenon DEF PoolTypeOK, ChainTypeOK, cacheVars, consVars, stageVars
<1> QED
  BY <1>1, <1>3, RecheckDoneKeeps, InvPartsNext, TypePartsNext, Zenon

-----------------------------------------------------------------------------
(* An empty pool owes nothing.                                              *)
LEMMA ManagerInit == Init => ManagerInv
<1> SUFFICES ASSUME Init PROVE ManagerInv
  BY Zenon
<1>1. <<>> \in Seq(Txs) /\ IsInjective(<<>>) /\ MaxHeight \in Nat
  BY ManagerAssumption DEF IsInjective
<1> USE <1>1
<1>2. PoolTypeOK /\ ChainTypeOK /\ RunTypeOK
  <2>1. PoolTypeOK
    BY Zenon DEF Init, PoolTypeOK
  <2>2. ChainTypeOK
    BY DEF Init, ChainTypeOK
  <2>3. RunTypeOK
    BY Zenon DEF Init, RunTypeOK
  <2> QED
    BY <2>1, <2>2, <2>3, Zenon
<1>3. RecheckInv
  BY Zenon DEF Init, RecheckInv, RunInv, EvictedInv, NoOwedTxForgotten, NoDoubleRecheck
<1> QED
  BY <1>2, <1>3, InvParts, TypeParts, Zenon

(* Every step of every thread keeps the manager's invariant.                *)
LEMMA ManagerStep == ManagerInv /\ [Next]_vars => ManagerInv'
<1> SUFFICES ASSUME ManagerInv, [Next]_vars PROVE ManagerInv'
  BY Zenon
<1>1. PoolTypeOK /\ ChainTypeOK /\ RunTypeOK /\ RecheckInv
  BY InvParts, TypeParts, Zenon
<1>2. CASE Recheck
  BY <1>2, DrainInv, SnapshotInv, SweepInv, SelectInv, RunRecheckInv, RecheckDoneInv,
     Zenon DEF Recheck
<1> USE <1>1
<1>3. ASSUME NEW tx \in Txs, ClockPasses(tx) PROVE ManagerInv'
  <2>1. /\ passed' \subseteq Stamped
        /\ UNCHANGED <<pool, checkSeq, admitting, trigger, owed, cacheVars, consVars, stageVars, runVars>>
    BY <1>3, Zenon DEF ClockPasses, PoolTypeOK
  <2>2. RecheckInv'
    BY <2>1, OthersKeep, Zenon DEF stageVars
  <2>3. PoolTypeOK' /\ ChainTypeOK' /\ RunTypeOK'
    BY <2>1, Zenon
       DEF PoolTypeOK, ChainTypeOK, RunTypeOK, cacheVars, consVars, stageVars, runVars
  <2> QED
    BY <2>2, <2>3, InvPartsNext, TypePartsNext, Zenon
<1>4. CASE UNCHANGED vars
  <2>1. UNCHANGED <<pool, checkSeq, admitting, passed, trigger, owed, cacheVars, consVars, stageVars, runVars>>
    BY <1>4, Zenon DEF vars
  <2>2. RecheckInv'
    BY <2>1, OthersKeep, Zenon DEF stageVars
  <2>3. PoolTypeOK' /\ ChainTypeOK' /\ RunTypeOK'
    BY <2>1, Zenon
       DEF PoolTypeOK, ChainTypeOK, RunTypeOK, cacheVars, consVars, stageVars, runVars
  <2> QED
    BY <2>2, <2>3, InvPartsNext, TypePartsNext, Zenon
<1> QED
  BY <1>2, <1>3, <1>4, AdmissionKeeps, ConsensusKeeps, Zenon DEF Next

(* The invariant of the manager for any txs, signers, batch size and        *)
(* time-to-live: what a run finds, and why an evicted tx that comes back is *)
(* not lost (RecheckTxs, drainStaging, selectTxs, capRecheckTxs).           *)
THEOREM ManagerInvHolds == Spec => []ManagerInv
<1> QED
  BY ManagerInit, ManagerStep, PTL DEF Spec

(* A pooled tx that shares a signer with a staged block, with a tx that a   *)
(* proposal skipped or with one that a run evicted for its timeout or age   *)
(* is not forgotten before it has been rechecked: it is staged, in flight   *)
(* or deferred (manager.go:50-54).  Nothing is owed to the siblings of a tx *)
(* that failed its recheck (manager.go:519-521).                            *)
THEOREM NoOwedTxForgottenHolds == Spec => []NoOwedTxForgotten
<1>1. ManagerInv => NoOwedTxForgotten
  BY Zenon DEF ManagerInv
<1> QED
  BY <1>1, ManagerInvHolds, PTL

(* One run rechecks a tx at most once and never both runs and carries it    *)
(* (manager.go:468-470).                                                    *)
THEOREM NoDoubleRecheckHolds == Spec => []NoDoubleRecheck
<1>1. ManagerInv => NoDoubleRecheck
  BY Zenon DEF ManagerInv
<1> QED
  BY <1>1, ManagerInvHolds, PTL
=============================================================================
