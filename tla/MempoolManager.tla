--------------------------- MODULE MempoolManager ---------------------------
(***************************************************************************)
(* The app-side mempool manager (app/mempool/manager.go) between its three *)
(* kinds of threads: admission (InsertTx, CheckTx), the consensus path     *)
(* (FinalizeBlock, Commit, PrepareProposal's skipped senders) and the      *)
(* recheck goroutine (RecheckTxs).                                         *)
(*                                                                         *)
(* External, modelled as the manager uses them: the pool keeps one tx per  *)
(* (first signer, sequence) key and removes by key; RunTx runs the ante    *)
(* handler on checkState, whose part that matters is the next sequence of  *)
(* each account, and inserts (Check) or, on failure, removes (ReCheck);    *)
(* FinalizeBlock removes the executed txs from the pool.  The recheck      *)
(* goroutine is the service of RecheckService with its one-place buffer.   *)
(***************************************************************************)
EXTENDS Integers, Sequences, FiniteSets, Collections

CONSTANTS
  Txs, Senders,
  First,          \* first signer of each tx
  Seqs,           \* sequence of each signer of each tx: a function on its signers
  EthTxs,         \* txs made of MsgEthereumTx, known to the ante cache
  Priority,       \* priority of each tx
  PoolOrder,      \* all the txs in the order the pool selects them
  TimeoutHeight,  \* declared timeout height of each tx, 0 for none
  Stamped,        \* txs that declare a timeout timestamp
  Unencodable,    \* txs the encoder fails on
  Fickle,         \* txs that a recheck may refuse for their fee or balance
  MaxTx,          \* capacity of the pool, 0 for none
  FeeBump,        \* percentage a replacement must add
  MaxRecheckBatch, TTLNumBlocks,
  MaxHeight,      \* heights from MaxHeight on are identified with it
  NoTx, NotSeen   \* no tx; no arrival height

Signers(tx) == DOMAIN Seqs[tx]
Key(tx) == <<First[tx], Seqs[tx][First[tx]]>>
SignedBy(S) == {tx \in Txs : Signers(tx) \cap S # {}}

ASSUME ManagerAssumption ==
  /\ \A tx \in Txs : First[tx] \in Signers(tx) /\ Signers(tx) \subseteq Senders
  /\ \A tx \in Txs : \A s \in Signers(tx) : Seqs[tx][s] \in Nat
  /\ PoolOrder \in Seq(Txs) /\ Range(PoolOrder) = Txs /\ IsInjective(PoolOrder)
  /\ IsFiniteSet(Txs)
  /\ EthTxs \subseteq Txs /\ Stamped \subseteq Txs
  /\ Unencodable \subseteq Txs /\ Fickle \subseteq Txs
  /\ \A tx \in EthTxs : Signers(tx) = {First[tx]}
  /\ MaxTx \in Nat /\ MaxRecheckBatch \in Nat /\ TTLNumBlocks \in Nat /\ MaxHeight \in Nat \ {0}
  /\ NoTx \notin Txs /\ NotSeen \notin Nat

VARIABLES
  pool,                \* the app mempool
  encCache,            \* txs whose cached bytes spare them an encoder that fails
  anteCache,           \* keys known to the ante cache
  checkSeq,            \* checkState: the next sequence it expects of each account
  checkHeight,         \* height of the block checkState was last reset to
  chainSeq,            \* the same in the state after the last FinalizeBlock
  height,              \* height of the last FinalizeBlock
  cpc,                 \* where the consensus thread is
  blockSenders,        \* signers of the block being finalized
  admitting,           \* tx whose admission holds mu, or NoTx when mu is free
  recheckSenders, deferred, lastCommittedHeight, \* the fields stagingMu guards
  arrival,             \* height at which RecheckTxs first saw each tx
  passed,              \* stamped txs whose timeout timestamp has passed
  trigger,             \* whether a recheck is buffered in the worker's channel
  rpc,                 \* where the recheck goroutine is
  rSenders, rHeight, rDeferred, \* what RecheckTxs drained
  expired, live,       \* the snapshot split by pass 1 of selectTxs
  todo,                \* candidates runRecheck has yet to run
  owed                 \* history: pooled txs the manager undertook to recheck: those
                       \* of the signers of a staged block, of a skipped proposal or
                       \* of a tx evicted for its timeout or age

consVars  == <<checkHeight, chainSeq, height, cpc, blockSenders>>
cacheVars == <<encCache, anteCache>>
stageVars == <<recheckSenders, deferred, lastCommittedHeight>>
runVars   == <<rpc, rSenders, rHeight, rDeferred, expired, live, todo, arrival>>
vars == <<pool, checkSeq, admitting, passed, trigger, owed,
          cacheVars, consVars, stageVars, runVars>>

Init ==
  /\ pool = {} /\ encCache = {} /\ anteCache = {}
  /\ checkSeq = [s \in Senders |-> 0]
  /\ chainSeq = [s \in Senders |-> 0]
  /\ checkHeight = 0 /\ height = 0 /\ cpc = "idle" /\ blockSenders = {}
  /\ admitting = NoTx
  /\ recheckSenders = {} /\ deferred = <<>> /\ lastCommittedHeight = 0
  /\ arrival = [tx \in Txs |-> NotSeen]
  /\ passed = {} /\ trigger = FALSE
  /\ rpc = "idle" /\ rSenders = {} /\ rHeight = 0 /\ rDeferred = <<>>
  /\ expired = <<>> /\ live = <<>> /\ todo = <<>>
  /\ owed = {}

-----------------------------------------------------------------------------
(* The pool and the ante handler (external).                                *)

(* Remove(tx): whatever tx holds tx's key leaves the pool.                  *)
Without(p, tx) == {u \in p : Key(u) # Key(tx)}

(* PoolSnapshot.                                                            *)
Snapshot == Filter(PoolOrder, pool)

SeqsMatch(tx) == \A s \in Signers(tx) : Seqs[tx][s] = checkSeq[s]

BumpSeqs(seq, tx) == [s \in Senders |-> IF s \in Signers(tx) THEN Seqs[tx][s] + 1 ELSE seq[s]]

(* The replacement rule installed in the pool: np >= op*threshold/100.      *)
TxReplacement(op, np) == np >= (op * (100 + FeeBump)) \div 100

(* The pool refuses any tx when it is full, and else one that does not      *)
(* outbid the tx that has its key.                                          *)
Insertable(tx) ==
  /\ MaxTx = 0 \/ Cardinality(pool) < MaxTx
  /\ \A u \in pool : Key(u) = Key(tx) => TxReplacement(Priority[u], Priority[tx])

-----------------------------------------------------------------------------
(* Admission: admit and CheckTxHandler.  Decoding and pre-verification come *)
(* before mu and change nothing; a tx that RunTx rejects in the ante        *)
(* handler leaves no trace.                                                 *)

(* A known key skips the sequence check: this is how a replacement gets in. *)
AnteAccepts(tx) ==
  /\ \/ tx \in EthTxs /\ Key(tx) \in anteCache
     \/ SeqsMatch(tx)
  /\ TimeoutHeight[tx] = 0 \/ checkHeight <= TimeoutHeight[tx]

(* checkState and the ante cache after the ante handler has accepted tx.    *)
AnteWrites(tx) ==
  /\ checkSeq' = IF SeqsMatch(tx) THEN BumpSeqs(checkSeq, tx) ELSE checkSeq
  /\ anteCache' = IF tx \in EthTxs THEN anteCache \cup {Key(tx)} ELSE anteCache

(* mu.Lock and RunTx(ExecModeCheck), up to the insertion.                   *)
AdmitRunTx(tx) ==
  /\ admitting = NoTx
  /\ AnteAccepts(tx)
  /\ AnteWrites(tx)
  /\ Insertable(tx)
  /\ pool' = Without(pool, tx) \cup {tx}
  /\ admitting' = tx
  /\ owed' = (owed \cap pool') \ {tx}
  /\ UNCHANGED <<encCache, passed, trigger, consVars, stageVars, runVars>>

(* RunTx fails at the insertion: the ante handler's writes stay.            *)
AdmitRefused(tx) ==
  /\ admitting = NoTx
  /\ AnteAccepts(tx)
  /\ AnteWrites(tx)
  /\ ~Insertable(tx)
  /\ UNCHANGED <<pool, encCache, admitting, passed, trigger, owed, consVars, stageVars, runVars>>

(* cacheTx and mu.Unlock.                                                   *)
CacheTx ==
  /\ admitting # NoTx
  /\ encCache' = encCache \cup ({admitting} \cap Unencodable)
  /\ admitting' = NoTx
  /\ UNCHANGED <<pool, anteCache, checkSeq, passed, trigger, owed, consVars, stageVars, runVars>>

-----------------------------------------------------------------------------
(* The consensus thread.                                                    *)

(* A block is any set of txs that execute in sequence on the chain state:   *)
(* they need not have been in this node's pool.                             *)
Executes(B) ==
  /\ \A t, u \in B : Key(t) = Key(u) => t = u
  /\ \A s \in Senders :
       LET used == {Seqs[tx][s] : tx \in {t \in B : s \in Signers(t)}}
       IN  /\ Cardinality(used) = Cardinality({t \in B : s \in Signers(t)})
           /\ used = chainSeq[s] .. (chainSeq[s] + Cardinality(used) - 1)

(* BaseApp.FinalizeBlock: executes the block and removes its txs from the   *)
(* pool and from the ante cache.                                            *)
FinalizeBlock(B) ==
  /\ cpc = "idle"
  /\ Executes(B)
  /\ height' = Min({height + 1, MaxHeight})
  /\ chainSeq' = [s \in Senders |->
                    chainSeq[s] + Cardinality({t \in B : s \in Signers(t)})]
  /\ pool' = {u \in pool : \A t \in B : Key(u) # Key(t)}
  /\ anteCache' = anteCache \ {Key(t) : t \in B}
  /\ blockSenders' = UNION {Signers(t) : t \in B}
  /\ owed' = owed \cap pool'
  /\ cpc' = "finalized"
  /\ UNCHANGED <<checkHeight, encCache, checkSeq, admitting, passed, trigger, stageVars, runVars>>

(* Mutant: a new block's senders overwrite the ones awaiting recheck.       *)
StageRecheckSendersOverwrite ==
  /\ cpc = "finalized"
  /\ lastCommittedHeight' = height
  /\ recheckSenders' = blockSenders
  /\ owed' = owed \cup (pool \cap SignedBy(blockSenders))
  /\ blockSenders' = {}
  /\ cpc' = "staged"
  /\ UNCHANGED <<deferred, pool, checkSeq, admitting, passed, trigger, checkHeight, chainSeq,
                 height, cacheVars, runVars>>

(* App.FinalizeBlock then stages the block's signers and its height.        *)
StageRecheckSenders ==
  /\ cpc = "finalized"
  /\ lastCommittedHeight' = height
  /\ recheckSenders' = recheckSenders \cup blockSenders
  /\ owed' = owed \cup (pool \cap SignedBy(blockSenders))
  /\ blockSenders' = {}
  /\ cpc' = "staged"
  /\ UNCHANGED <<deferred, pool, checkSeq, admitting, passed, trigger, checkHeight, chainSeq,
                 height, cacheVars, runVars>>

(* BaseApp.Commit under mu: checkState is reset to the committed state.     *)
Commit ==
  /\ cpc = "staged"
  /\ admitting = NoTx
  /\ checkSeq' = chainSeq
  /\ checkHeight' = height
  /\ cpc' = "committed"
  /\ UNCHANGED <<pool, admitting, passed, trigger, owed, chainSeq, height, blockSenders,
                 cacheVars, stageVars, runVars>>

(* TriggerRecheck, after mu is released.                                    *)
TriggerRecheck ==
  /\ cpc = "committed"
  /\ trigger' = TRUE
  /\ cpc' = "idle"
  /\ UNCHANGED <<pool, checkSeq, admitting, passed, owed, checkHeight, chainSeq, height, blockSenders,
                 cacheVars, stageVars, runVars>>

(* PrepareProposal stages the senders of the pooled txs its base-fee gate   *)
(* rejected.                                                                *)
StageSkippedSenders(skipped) ==
  /\ cpc = "idle"
  /\ LET senders == UNION {Signers(tx) : tx \in skipped}
     IN  /\ recheckSenders' = recheckSenders \cup senders
         /\ owed' = owed \cup (pool \cap SignedBy(senders))
  /\ UNCHANGED <<deferred, lastCommittedHeight, pool, checkSeq, admitting, passed, trigger,
                 cacheVars, consVars, runVars>>

-----------------------------------------------------------------------------
(* RecheckTxs, on the recheck goroutine.                                    *)

(* Mutant: a run with no sender and no carry does not scan for timeouts.    *)
DrainStagingNoScan ==
  /\ rpc = "idle"
  /\ trigger
  /\ trigger' = FALSE
  /\ rSenders' = recheckSenders
  /\ rHeight' = lastCommittedHeight
  /\ rDeferred' = deferred
  /\ recheckSenders' = {}
  /\ deferred' = <<>>
  /\ rpc' = IF recheckSenders = {} /\ deferred = <<>> THEN "idle" ELSE "snapshot"
  /\ UNCHANGED <<lastCommittedHeight, expired, live, todo, arrival, pool, checkSeq, admitting,
                 passed, owed, cacheVars, consVars>>

(* The worker takes the trigger; drainStaging.  Nothing is left to do when  *)
(* no sender, no carry and no block has been staged.                        *)
DrainStaging ==
  /\ rpc = "idle"
  /\ trigger
  /\ trigger' = FALSE
  /\ rSenders' = recheckSenders
  /\ rHeight' = lastCommittedHeight
  /\ rDeferred' = deferred
  /\ recheckSenders' = {}
  /\ deferred' = <<>>
  /\ rpc' = IF recheckSenders = {} /\ deferred = <<>> /\ lastCommittedHeight = 0
            THEN "idle" ELSE "snapshot"
  /\ UNCHANGED <<lastCommittedHeight, expired, live, todo, arrival, pool, checkSeq, admitting,
                 passed, owed, cacheVars, consVars>>

TxTimedout(tx) ==
  \/ TimeoutHeight[tx] > 0 /\ rHeight >= TimeoutHeight[tx]
  \/ tx \in passed

Arrived(tx) == IF arrival[tx] = NotSeen THEN rHeight ELSE arrival[tx]

TxTTLExpired(tx) == TTLNumBlocks > 0 /\ rHeight - Arrived(tx) >= TTLNumBlocks

(* Mutant: only the signer the pool keys an evicted tx by is rechecked.     *)
EvictedFirstSigners(evicted) == {First[tx] : tx \in evicted}

(* evictForRecheck folds the signers of an evicted tx into the senders.     *)
EvictedSigners(evicted) == UNION {Signers(tx) : tx \in evicted}

(* PoolSnapshot and the decisions of pass 1 of selectTxs: what to evict,    *)
(* whose remaining txs must be rechecked because of it, the new arrivals.   *)
(* These evictions alone put siblings up for a recheck: an eviction after a *)
(* failed recheck does not (RecheckFails).                                  *)
TakeSnapshot ==
  /\ rpc = "snapshot"
  /\ LET evicted == {tx \in pool : TxTimedout(tx) \/ TxTTLExpired(tx)}
         kept == pool \ evicted
         siblings == SignedBy(UNION {Signers(tx) : tx \in evicted})
     IN  /\ expired' = Filter(Snapshot, evicted)
         /\ live' = Filter(Snapshot, kept)
         /\ rSenders' = rSenders \cup EvictedSigners(evicted)
         /\ arrival' = [tx \in Txs |-> IF TTLNumBlocks > 0 /\ tx \in kept
                                       THEN Arrived(tx) ELSE NotSeen]
         /\ owed' = owed \cup (kept \cap siblings)
  /\ rpc' = "sweep"
  /\ UNCHANGED <<rHeight, rDeferred, todo, pool, checkSeq, admitting, passed, trigger,
                 cacheVars, consVars, stageVars>>

(* evict(tx), first half: the pool.                                         *)
EvictFromPool(tx) ==
  /\ pool' = Without(pool, tx)
  /\ owed' = owed \cap pool'
  /\ UNCHANGED cacheVars

(* evict(tx), second half: the encoder cache and the ante cache.            *)
EvictFromCaches(tx) ==
  /\ encCache' = encCache \ {tx}
  /\ anteCache' = IF tx \in EthTxs THEN anteCache \ {Key(tx)} ELSE anteCache
  /\ UNCHANGED <<pool, owed>>

SweepPool ==
  /\ rpc = "sweep"
  /\ expired # <<>>
  /\ EvictFromPool(Head(expired))
  /\ rpc' = "sweepCaches"
  /\ UNCHANGED <<rSenders, rHeight, rDeferred, expired, live, todo, arrival, checkSeq,
                 admitting, passed, trigger, consVars, stageVars>>

SweepCaches ==
  /\ rpc = "sweepCaches"
  /\ EvictFromCaches(Head(expired))
  /\ expired' = Tail(expired)
  /\ rpc' = "sweep"
  /\ UNCHANGED <<rSenders, rHeight, rDeferred, live, todo, arrival, checkSeq, admitting,
                 passed, trigger, consVars, stageVars>>

(* Mutant: a carried tx whose sender is touched again is selected twice.    *)
SelectTxsTwice ==
  Filter(rDeferred, Range(live)) \o Filter(live, SignedBy(rSenders))

(* Mutant: fresh candidates go ahead of the carry.                          *)
SelectTxsFreshFirst ==
  Filter(live, SignedBy(rSenders)) \o Filter(rDeferred, Range(live) \ SignedBy(rSenders))

(* Pass 2 of selectTxs: the surviving carry first, then the surviving txs   *)
(* of a sender to recheck that are not carried already.                     *)
SelectTxs ==
  Filter(rDeferred, Range(live)) \o Filter(live, SignedBy(rSenders) \ Range(rDeferred))

(* capRecheckTxs: at most MaxRecheckBatch now, the overflow is carried.     *)
Capped(n) == IF MaxRecheckBatch = 0 \/ n <= MaxRecheckBatch THEN n ELSE MaxRecheckBatch

SelectAndCap ==
  /\ rpc = "sweep"
  /\ expired = <<>>
  /\ LET n == Len(SelectTxs)
         carried == SubSeq(SelectTxs, Capped(n) + 1, n)
     IN  /\ todo' = SubSeq(SelectTxs, 1, Capped(n))
         /\ deferred' = IF carried = <<>> THEN deferred ELSE carried
  /\ rpc' = "recheck"
  /\ rSenders' = {} /\ rHeight' = 0 /\ live' = <<>>
  /\ UNCHANGED <<recheckSenders, lastCommittedHeight, rDeferred, expired, arrival, pool,
                 checkSeq, admitting, passed, trigger, owed, cacheVars, consVars>>

Encodes(tx) == tx \in encCache \/ tx \notin Unencodable

(* runRecheck, one candidate: EncodeTx, then RunTx(ReCheck) under mu.       *)
RecheckPasses ==
  /\ rpc = "recheck"
  /\ todo # <<>>
  /\ admitting = NoTx
  /\ Encodes(Head(todo)) /\ SeqsMatch(Head(todo))
  /\ checkSeq' = BumpSeqs(checkSeq, Head(todo))
  /\ owed' = owed \ {Head(todo)}
  /\ todo' = Tail(todo)
  /\ UNCHANGED <<rpc, rSenders, rHeight, rDeferred, expired, live, arrival, pool, admitting,
                 passed, trigger, cacheVars, consVars, stageVars>>

(* RunTx fails, on a sequence or for another reason, and takes the tx out   *)
(* of the pool.  No sibling is put up for a recheck: what m(a, b) leaves    *)
(* behind of b when it fails is not owed anything.                          *)
RecheckFails ==
  /\ rpc = "recheck"
  /\ todo # <<>>
  /\ admitting = NoTx
  /\ Encodes(Head(todo))
  /\ ~SeqsMatch(Head(todo)) \/ Head(todo) \in Fickle
  /\ pool' = Without(pool, Head(todo))
  /\ owed' = owed \cap pool'
  /\ rpc' = "evictPool"
  /\ UNCHANGED <<rSenders, rHeight, rDeferred, expired, live, todo, arrival, checkSeq,
                 admitting, passed, trigger, cacheVars, consVars, stageVars>>

RecheckSkips ==
  /\ rpc = "recheck"
  /\ todo # <<>>
  /\ ~Encodes(Head(todo))
  /\ todo' = Tail(todo)
  /\ UNCHANGED <<rpc, rSenders, rHeight, rDeferred, expired, live, arrival, pool, checkSeq,
                 admitting, passed, trigger, owed, cacheVars, consVars, stageVars>>

(* The eviction that follows a failed RunTx, after mu is released.          *)
EvictFailedPool ==
  /\ rpc = "evictPool"
  /\ EvictFromPool(Head(todo))
  /\ rpc' = "evictCaches"
  /\ UNCHANGED <<rSenders, rHeight, rDeferred, expired, live, todo, arrival, checkSeq,
                 admitting, passed, trigger, consVars, stageVars>>

EvictFailedCaches ==
  /\ rpc = "evictCaches"
  /\ EvictFromCaches(Head(todo))
  /\ todo' = Tail(todo)
  /\ rpc' = "recheck"
  /\ UNCHANGED <<rSenders, rHeight, rDeferred, expired, live, arrival, checkSeq, admitting,
                 passed, trigger, consVars, stageVars>>

RecheckDone ==
  /\ rpc = "recheck"
  /\ todo = <<>>
  /\ rpc' = "idle"
  /\ rDeferred' = <<>>
  /\ UNCHANGED <<rSenders, rHeight, expired, live, todo, arrival, pool, checkSeq, admitting,
                 passed, trigger, owed, cacheVars, consVars, stageVars>>

-----------------------------------------------------------------------------
(* The wall clock passes a tx's timeout timestamp.                          *)
ClockPasses(tx) ==
  /\ tx \in Stamped \ passed
  /\ passed' = passed \cup {tx}
  /\ UNCHANGED <<pool, checkSeq, admitting, trigger, owed, cacheVars, consVars, stageVars, runVars>>

Admission == CacheTx \/ \E tx \in Txs : AdmitRunTx(tx) \/ AdmitRefused(tx)

Consensus ==
  \/ \E B \in SUBSET Txs : FinalizeBlock(B)
  \/ StageRecheckSenders \/ Commit \/ TriggerRecheck
  \/ \E skipped \in SUBSET pool : StageSkippedSenders(skipped)

Recheck ==
  \/ DrainStaging \/ TakeSnapshot \/ SweepPool \/ SweepCaches \/ SelectAndCap
  \/ RecheckPasses \/ RecheckFails \/ RecheckSkips
  \/ EvictFailedPool \/ EvictFailedCaches \/ RecheckDone

Next == Admission \/ Consensus \/ Recheck \/ \E tx \in Txs : ClockPasses(tx)

Spec == Init /\ [][Next]_vars

(* Consensus keeps committing blocks, the goroutines keep running, and      *)
(* whoever holds mu releases it.  A Go mutex hands over to a starved        *)
(* waiter, hence strong fairness of the steps that take mu.  No tx need     *)
(* ever be submitted and no proposal need ever be prepared.                 *)
Fairness ==
  /\ WF_vars(CacheTx)
  /\ WF_vars(\E B \in SUBSET Txs : FinalizeBlock(B))
  /\ WF_vars(StageRecheckSenders) /\ SF_vars(Commit) /\ WF_vars(TriggerRecheck)
  /\ WF_vars(Recheck)
  /\ SF_vars(RecheckPasses \/ RecheckFails)

FairSpec == Spec /\ Fairness

-----------------------------------------------------------------------------
TypeOK ==
  /\ pool \subseteq Txs /\ encCache \subseteq Txs /\ owed \subseteq pool
  /\ anteCache \subseteq {Key(tx) : tx \in EthTxs}
  /\ checkSeq \in [Senders -> Nat] /\ chainSeq \in [Senders -> Nat]
  /\ height \in 0..MaxHeight /\ checkHeight \in 0..height
  /\ cpc \in {"idle", "finalized", "staged", "committed"}
  /\ blockSenders \subseteq Senders /\ recheckSenders \subseteq Senders
  /\ admitting \in Txs \cup {NoTx}
  /\ deferred \in Seq(Txs) /\ rDeferred \in Seq(Txs)
  /\ expired \in Seq(Txs) /\ live \in Seq(Txs) /\ todo \in Seq(Txs)
  /\ lastCommittedHeight \in 0..MaxHeight /\ rHeight \in 0..MaxHeight
  /\ arrival \in [Txs -> (0..MaxHeight) \cup {NotSeen}]
  /\ passed \subseteq Stamped /\ trigger \in BOOLEAN
  /\ rpc \in {"idle", "snapshot", "sweep", "sweepCaches", "recheck", "evictPool", "evictCaches"}
  /\ rSenders \subseteq Senders

(* A tx the current run will still look at: drained but not yet selected,   *)
(* or selected and not yet run.                                             *)
InFlight(tx) ==
  \/ tx \in Range(todo)
  \/ /\ rpc \in {"snapshot", "sweep", "sweepCaches"}
     /\ Signers(tx) \cap rSenders # {} \/ tx \in Range(rDeferred)
     /\ rpc = "snapshot" \/ tx \in Range(live) \cup Range(expired)

(* A pooled tx that has a signer of a staged block, of a tx a proposal      *)
(* skipped or of a tx evicted for its timeout or its age is not forgotten   *)
(* before it has been rechecked, whatever is staged, drained, capped or     *)
(* carried in between: it is staged, in flight or deferred                  *)
(* (manager.go:50-54, 476-492).  Not claimed: that a tx is rechecked after  *)
(* a sibling was replaced or failed its own recheck (manager.go:519-521     *)
(* stages nothing), or when it cannot be encoded (manager.go:512-515).      *)
NoOwedTxForgotten ==
  \A tx \in owed \ Unencodable :
    \/ Signers(tx) \cap recheckSenders # {}
    \/ tx \in Range(deferred)
    \/ InFlight(tx)

(* One run rechecks a tx at most once and never both runs and carries it:   *)
(* a second ReCheck on the same checkState would fail on its own sequence   *)
(* (manager.go:468-470).  Two runs between which no block commits are not   *)
(* covered: each may recheck the tx.                                        *)
NoDoubleRecheck ==
  rpc \in {"recheck", "evictPool", "evictCaches"} => IsInjective(todo \o deferred)

(* Whatever a recheck still owes is eventually rechecked or leaves the      *)
(* pool, even when proposals and blocks keep touching the same senders and  *)
(* every batch overflows (manager.go:53-54, 460-461).                       *)
OwedEventuallyRechecked ==
  \A tx \in Txs : tx \in owed ~> tx \notin owed

PastTimeout(tx) ==
  \/ TimeoutHeight[tx] > 0 /\ checkHeight >= TimeoutHeight[tx]
  \/ tx \in passed

(* A tx whose timeout height or timestamp has passed leaves the pool,       *)
(* whether or not a block touches its signers (manager.go:362-363,          *)
(* 411-416, 530-544).                                                       *)
TimedOutTxLeaves ==
  \A tx \in Txs : tx \in pool /\ PastTimeout(tx) ~> tx \notin pool

-----------------------------------------------------------------------------
(* What comments in the code say of the manager, and the code does not do.  *)

(* A tx with a sequence the chain has already used.                         *)
Consumed(tx) == \E s \in Signers(tx) : Seqs[tx][s] < chainSeq[s]

(* A tx the next block could execute: its sequences are the chain's next    *)
(* ones, counting the pooled txs before it.                                 *)
Executable(tx) ==
  \A s \in Signers(tx) :
    /\ Seqs[tx][s] >= chainSeq[s]
    /\ \A n \in chainSeq[s] .. Seqs[tx][s] - 1 :
         \E u \in pool : s \in Signers(u) /\ Seqs[u][s] = n

AtRest ==
  /\ cpc = "idle" /\ rpc = "idle" /\ ~trigger /\ admitting = NoTx
  /\ recheckSenders = {} /\ deferred = <<>>

(* manager.go:354: RecheckTxs evicts pool txs invalidated by the last       *)
(* block.  At rest, with nothing staged or carried, none is left.           *)
NoStaleTxAtRest == AtRest => \A tx \in pool : ~Consumed(tx)

(* manager.go:53-54: a deep per-sender queue eventually drains instead of   *)
(* being silently dropped.  A carried tx that is still executable passes    *)
(* its recheck.                                                             *)
CarriedTxNotDropped ==
  [][RecheckFails /\ Head(todo) \in pool /\ Head(todo) \in Range(rDeferred)
       => ~Executable(Head(todo))]_vars

-----------------------------------------------------------------------------
(* The inductive invariant of the proofs.                                   *)

(* What a run of the recheck goroutine finds: nothing left of the run       *)
(* before it, no carry beside the one it drained, and no list with a tx     *)
(* twice.                                                                   *)
RunInv ==
  /\ rpc = "idle" => todo = <<>>
  /\ rpc \in {"snapshot", "sweep", "sweepCaches"} => todo = <<>> /\ deferred = <<>>
  /\ rpc = "sweepCaches" => expired # <<>>
  /\ rpc \in {"evictPool", "evictCaches"} => todo # <<>>
  /\ IsInjective(deferred) /\ IsInjective(rDeferred) /\ IsInjective(live)

(* A tx that the run has taken out of the pool can be admitted again before *)
(* its eviction is complete; what makes it suspect then is staged.          *)
StagedIfOwed(tx) == tx \in owed => Signers(tx) \cap recheckSenders # {}

EvictedInv ==
  /\ rpc = "sweepCaches" => StagedIfOwed(Head(expired))
  /\ rpc \in {"evictPool", "evictCaches"} => StagedIfOwed(Head(todo))

ManagerInv == TypeOK /\ RunInv /\ EvictedInv /\ NoOwedTxForgotten /\ NoDoubleRecheck
=============================================================================
