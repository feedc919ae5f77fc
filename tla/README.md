# Cronos: TLA+ models and proofs

Cronos is an EVM chain built on the Cosmos SDK, ethermint, CometBFT and ibc-go. This
directory models the parts of the node in `src/` that keep state and are hard to test,
checks the models with TLC on small instances, and proves with TLAPS, for every value of
the constants, the safety properties of all of them.

Run a model with `tlc -config X.cfg MCModule`, a proof with `tlapm XProofs.tla`.
`PROJECT.json` maps every definition to the lines it models and lists the runs, the
mutants that show each property can fail, the hazards and the theorems.

## 1. Inventory

| component | state it keeps | operations | what is hard | what makes it correct |
|---|---|---|---|---|
| recheck worker (`app/mempool/recheck_worker.go`) | trigger channel of one place, newest gate, quit and done channels, mutex | `recheck`, `run`, `stop`, `wait` | a trigger racing a stop; a gate read under the lock and waited on after it; coalescing | every gate is closed once; a wait stands for all earlier requests; stop means exited |
| mempool manager (`app/mempool/manager.go`, hooks in `app/app.go`) | staged senders, carried txs, arrival heights, last height | admission, staging by blocks and proposals, recheck, sweep, eviction | three kinds of threads; a pool that changes under a running recheck; a batch limit | nothing that owes a recheck is forgotten, starved or checked twice |
| pending tx cache (`pending_cache.go`) | snapshot and its epoch | `get`, `invalidate` | invalidation is outside the lock | a reader sees every change published before it asked |
| encoder cache, gossip tracker, reap (`encoder_cache.go`, `gossip.go`, `reap.go`) | LRU of encodings and hashes; time of the last gossip per hash | admission, eviction, reap | hashing without the lock; two limits; pruning | no hash of other bytes; limits kept; once per time-to-live; what can be gossiped is, unless something too large or too many others are before it |
| decode cache, pre-verification (`decoder_cache.go`, `preverify.go`) | sharded LRU by 64-bit hash | decode, pre-verify | hash collision, double miss | a decoded tx is the one of its bytes |
| block proposal and block list (`app/proposal.go`, `app/app.go`) | tx selector with cached base fee; decrypted block list | prepare, process, execute optimistically, commit, refresh, start | the list is changed by executions that may be abandoned; blobs only some can read; crash | the list is a function of the chain; honest proposals are accepted; limits hold; a tx that cannot pay is due to a rise of the fee |
| ante decorators (`block_address.go`, `unblockable.go`) | none | predicates on txs | – | – |
| token mapping (`x/cronos/keeper/keeper.go`, `genesis.go`) | denom to external contract, denom to auto contract, contract to denom | register, delete, auto-deploy, export, import | three tables that older releases filled by looser rules | denom and contract resolve to each other, unless an older release left them otherwise; import reproduces the tables |
| token conversion and IBC (`keeper/evm.go`, `ibc.go`, `evmhandlers/`, `middleware/`) | bank balances, CRC21 supplies, packets in flight | convert, transfer, receive, acknowledge, refund, contract hooks | a mapping changes while a packet is under way; one step of several fails | every token is backed, no coin is made or lost |
| permissions, params (`permissions.go`, `params.go`, `msg_server.go`) | params, permissions, the encrypted blob | updates by authority | – | – |
| database patch (`cmd/cronosd/dbmigrate/patch.go`) | two databases, a batch, what one phase collects for the next | patch per key kind with conflict answers | interruption between phases, conflicts, failed reads | what is patched can be looked up, as far as the phases collect it; a rerun completes |
| database migration and swap (`migrate.go`, `swap-migrated-db.sh`) | source, temporary copy, backup | copy, verify, swap | an interrupted run's leftovers; crash between two moves; reruns for other databases | a verified copy is exact; no database needs its backup unless an unverified copy was swapped in, and then it has one |
| precompiles and callbacks (`keeper/precompiles/`) | none of their own | bank, ICA, relayer calls | – | – |
| block replay and JSON-RPC (`grpc_query.go`, `rpc/api.go`) | counter and semaphore of replays | replay, receipts | cancellation while waiting; a caller counts itself before it knows it may stay | slots are given back; limits kept |
| start-up, upgrades, shutdown (`app/`) | the wiring | start, upgrade, close | order of shutdown | – |
| e2ee, events, command line | one table; none; none | set and get; translation; flags | – | – |

How they interact. CheckTx and the reactor's insertions go through the manager into the
SDK's priority mempool. FinalizeBlock removes what a block executed and stages its
senders; Commit resets the check state and triggers the recheck worker, which runs the
manager's `RecheckTxs`. PrepareProposal waits for the worker, offers the pool's txs to
the selector (block list, limits, base fee) and stages the senders it skipped. The reap
handler reads the same pool and caches for gossip. On the application side x/cronos
converts between bank coins and CRC21 contracts by the token mapping, called from
messages, from contract logs and from the IBC middleware.

## 2. Modules

| module | models | composed of |
|---|---|---|
| `RecheckService` | what the worker promises, without gates or locks | – |
| `RecheckWorker` | the worker; implements `RecheckService` | `INSTANCE RecheckService` |
| `MempoolManager` | the manager, with the consensus path and the worker as a one-place trigger | – |
| `PendingTxCache` | the cache of pending txs | – |
| `GossipReap` | encoder cache, gossip tracker and reap handler | – |
| `BlockProposal` | selection, vote, execution and block list of several validators | – |
| `TokenMapping` | the three tables and genesis | – |
| `TokenConversion` | conversion and IBC on top of the mapping | `EXTENDS TokenMapping` |
| `DbPatch` | the patch command | – |
| `DbMigrate` | the migration command and the swap script | – |
| `ReplayBlock` | the callers of the replay query | – |
| `DecodeCache` | the threads that decode through the decode cache | – |
| `MC*` | the constants of the instances TLC checks | the module after `MC` |
| `Collections` | sums over finite sets and parts of sequences, for the modules above | – |
| `CollectionTheorems` | what these compute, and induction on finite sets | `EXTENDS Collections` |
| `BlockProposalProofs`, `DbMigrateProofs`, `DbPatchProofs`, `MempoolManagerProofs`, `GossipReapProofs` | theorems | the module before `Proofs` |
| `TokenProofs` | theorems | `TokenMapping`, `TokenConversion` |
| `ConcurrencyProofs` | theorems | `RecheckWorker`, `PendingTxCache`, `DecodeCache`, `ReplayBlock` |

A definition whose comment begins with "Mutant" is a plausible bug in the definition
after it. No specification uses one; each is there to show that a property fails with it.

### RecheckWorker

Every channel operation, lock and close is a step of its own, so that all interleavings
the mutex leaves open are explored. A gate is a number, in `closed` once it is closed;
`trigger` is the buffer of the channel, `ready` the newest gate. `RecheckLock`,
`RecheckCheckQuit`, `RecheckSend` are `recheck()`; `RunQuit`, `RunTake`, `RunCheckQuit`,
`RunFnReturns`, `RunCloseGate`, `DrainTrigger` are `run()`; `StopOnce`, `StopLock`,
`StopCloseQuit`, `StopReturn` are `stop()`; `WaitReadReady`, `WaitGateClosed`,
`WaitCtxDone`, `WaitLastLook` are `wait()`. A Go `select` with two ready cases may take
either. `requests`, `covering`, `covered`, `runs`, `vseen` are counters of the model:
they say which requests a run accounts for, and are the state of `RecheckService`. The
model begins after `start()`; before it `quit` is nil and `stop()` returns at once.

### MempoolManager

State: the pool, the two caches keyed by tx, the staged senders (`recheckSenders`), the
carried txs (`deferred`), arrival heights, the sequences in check state and on the chain,
and where the consensus thread (`cpc`) and the recheck goroutine (`rpc`) are. `owed` is
a ghost: the pooled txs the manager undertook to recheck and has not yet. These are the
txs with a signer in a staged block, in a tx a proposal skipped, or in a tx swept out for
its timeout or age. A tx whose sibling failed its own recheck or was replaced is not owed
one, as the code stages nothing then (see Observations).
Admission is `AdmitRunTx`/`AdmitRefused` and `CacheTx` (run under `mu`, the caches
filled after the pool). The consensus path is `FinalizeBlock`, `StageRecheckSenders`,
`Commit`, `TriggerRecheck`, and `StageSkippedSenders` from a proposal. A recheck is
`DrainStaging`, `TakeSnapshot`, `SweepPool`/`SweepCaches` per timed-out or expired tx,
`SelectAndCap`, then per tx `RecheckPasses`, `RecheckFails` with its two eviction steps,
or `RecheckSkips`, and `RecheckDone`. The SDK's mempool (one tx per first signer and
sequence, removal by that key) and the ante handler (the sequences, the ante cache, the
timeout height, and the fee or balance for which it may refuse the txs in `Fickle` at a
recheck) are external. `MaxTx` is the pool's capacity, 0 for none. Heights from
`MaxHeight` on are identified with it, so that the model is finite and liveness can be
checked.

### PendingTxCache

The pool's content is the number of changes made to it. Writers change it and then call
`invalidate`; readers take the epoch, look, walk the pool and store. `rseen` is a ghost:
what had been published when the reader called.

### GossipReap

A tx pointer has a content and can be encoded in one of its `Forms` (the bytes CheckTx
gave, or those the encoder makes). `lru` is the encoder cache with its optional hashes;
`seen` the tracker, with ages for wall-clock times; `sentAge` a ghost of the last time
bytes were really sent. A reap is a sequence of steps that take the locks tx by tx:
`StartReap`, `ScanTx`, `LookupHash`, `RecordTx`, `EndReap`, with `Admit`, `Include`,
`evict` and `Tick` in between. `Admit` puts a tx into the pool and the cache in one step:
a reap between the two would find the tx without an entry, which it also finds when the
cache is full. `Oversized` txs exceed a limit of the reap on their own; the
scan stops at the first tx that does not fit, so what is behind one is `Hidden`. `SkipTx`
is a failed encoding, at most `MaxFaults` times.

### BlockProposal

A round: `StartProposal`, `SelectTxForProposal` tx by tx, `FinishProposal` or
`FailProposal`; `ProcessProposal` by each validator; `OptimisticEndBlock` (EndBlocker,
with its refresh of the list, before the block is decided); `Decide` or `RoundFails`;
then `FinalizeBlock` and `Commit` per validator, `Crash` and `Restart` at any time. A
blob is its addresses and who can read it. `baseFee` is the fee the last block left in the
committed state, which is what the gate of a proposal reads (`app.go:808-809`); `Decide`
may change it, as BeginBlocker does for the block itself. The ghosts `ahead` and `adrift`
mark the validators whose list comes from an execution that was abandoned; see
Observations.

### TokenMapping and TokenConversion

`ext`, `auto` and `rev` are the three tables. `RegisterMapping`, `DeleteMapping` and
`AutoDeploy` are the keeper's setters with their checks; `ExportGenesis`,
`ImportExternal`, `ImportAuto`, `ImportDone` the genesis round trip, entry by entry,
with phase `"panic"` when a setter refuses. `Init` is any store older releases can have
left (`LegacyState`: the stores the keeper's tests build), not only the empty one. The
ghost `torn` has the denoms whose contract was mapped back to another denom in that
store, as in `keeper_test.go:325`; an import that succeeds leaves none.
`TokenConversion` adds balances, tokens and packets: `ConvertVouchers` (with or without
a deployment), `TransferTokens`, `TransferCro`, `OnRecvPacket` with the conversion that
may fail after it, `OnAcknowledgementSuccess`, `Refund` for an error or a timeout with
the conversion that may fail in it, the hooks `SendToIbc` (whose log names no channel, so
that it fails for a source denom), `SendToIbcV2`, `SendCroToIbc` and `SendToAccount`, and
governance (`ChangeMapping`, `UpdateParams`) and contract owners (`OwnerStops`) in
between. A transaction that fails as a whole is rolled back and is not a step; an amount
of CRO that overflows is such a failure. `ibcCroDenom` is never empty, which
`params.go:69` refuses.

### DbPatch

A run (`Start`) is for one database, dry or not, and goes through the phases of that
database key by key in iterator order. `PatchBlockKey`, `PatchTxHeightKey`,
`PatchTxHashKey`, `PatchEthereumEventKey` patch a key with the answer to its conflict;
`KeyFails` and `IteratorFails` are failed reads; `EndPhase` writes the rest of the
batch; `Interrupt` ends the process anywhere and loses what is in memory. Ghosts:
`before` (the target when the run began), `declined`, and `lost` (source reads that
failed without being counted). `Absent` has the keys the source lacks: a tx.height key
can be there without its result, which the phase of the results passes over without an
error. A tx has an event key for its first Ethereum message and one, of kind `"later"`,
for those after it; no phase collects the latter, as `extractEthereumTxHash` returns the
first hash it finds (`Traced`).

### DbMigrate

Per database: the directory in its place (`live`), the temporary copy (`temp`), the
backups. A migration is `StartMigrate` for some databases, then per database `OpenDbs`,
`CopyKey` or `SetFails` per key with a batch written when full, `FinishCopy` and, with
`--verify`, `VerifyMigration`. A swap is `StartSwap`, then `MoveAside` and `Install` per
database. `Interrupt` is any failure or kill, between any two of these steps; the batch
is lost and the directories stay. `NodeRuns` is a session of the node between commands,
which makes copies out of date. The swap takes every copy there is, as the script does
(`swap-migrated-db.sh:177-188`): incomplete, outdated, or made with `--verify=false`.
Ghosts: `chain` (what the node stored, up to the first swap of an unverified copy),
`vouched` (copies verified since the node last ran), `unchecked` (databases moved aside
for a copy that was not vouched for), `created` (directories a migration created by
opening them). Assumed of the operator: one command at a time, never beside the node.

### ReplayBlock and DecodeCache

`ReplayBlock`: each operation on the atomic counter or on the channel of slots is a step:
`Enter` (count oneself and look), `Refuse`, `TakeSlot`, `GiveUp` (cancelled while
waiting), `FreeSlot`, `Leave`.

`DecodeCache`: a lookup (`DecodeHit`, `DecodeMiss`), `Decode` without the lock, and `Set`. Keys
are found by hash and different bytes can share one; any entry of a full shard may be the
one to be evicted.

Both are small and their properties are proved for any number of threads (section 5), so
that no run is about them. What two pointers for one tx, the result of two decoders that
miss together, do to the pool and its caches is in `GossipReap`, whose `Admit` takes any
pointer.

## 3. Runs

Bounds are named constants. "n states" are distinct states.

| run | instance | shows |
|---|---|---|
| `recheck_worker` | two committing threads, two stoppers, a waiter, three requests; 23,413 states | `NoOrphanGate`, `GateClosedOnce`, `WaitCoversRequests`, `StopMeansExited`; the refinement `ServiceSpec`; `WaitReturns`, `StopReturns`, `RequestsServed` |
| `mempool_contention` | a tx of two signers that times out and that a recheck may refuse for its fee, a higher bid for its sequence, the one Ethereum tx, that cannot be encoded, and the second signer's next tx; a pool for two, a time-to-live of a block, batches of one, two heights; 1,014,789 states | `NoOwedTxForgotten` through replacement, a full pool, expiry, timeout and skipped encodings: the gap a sweep leaves is staged for every signer |
| `mempool_siblings` | two txs of one sender, one with a timestamp, batches of one; 77,348 states | `NoDoubleRecheck`; `OwedEventuallyRechecked` although every batch overflows; `TimedOutTxLeaves` with nothing staged |
| `pending_cache` | two readers, two writers, three changes; 42,088 states | `FreshRead` |
| `gossip_reap` | four pointers with three contents, the first of them too large for any reap; room for two in the cache, a budget for one tx, a time-to-live of two; 230,904 states | `CacheSound`, `ReapWithinLimits`, `TrackerIsExact`, `OncePerTTL`, `EventuallyGossiped` |
| `block_proposal` | two validators, one of them a quorum; three txs, three blobs, no base fee and two base fees; three blocks, one failed round, one crash; 1,186,344 states | `ListFollowsChain`, `HonestProposalAccepted`, `WithinLimits`, `UnpaidOnlyAfterRise`, `StagedAreStranded` |
| `token_mapping` | two vouchers, a source denom, three contracts, every legacy store; 23,842 states | `RoundTrip`, `PanicOnlyOnTorn`, `ImportKeepsMapping`, `MappingChanges` |
| `token_conversion` | two vouchers (two units and one abroad), a source denom, two contracts; amounts to two, two packets; 435,424 states | `TokensBacked`, `SourceCoinsBacked`, `CroBacked`, `VouchersConserved` |
| `db_patch` | three blocks, five inclusions, one Ethereum tx in two blocks, another whose result the source lacks; two runs, one failed read, batches of two; 422,710 states | `BlockFoundByHash`, `PatchedTxIsWhole`, `RerunCompletes`, `DeclinedIsKept`, `OnlyChosenKeysChange` |
| `db_migrate` | two databases of three keys, batches of two; two migrations in either direction, verified or not, swaps of whatever copies there are, one session of the node, two failures or kills; 657,026 states | `VerifiedIsExact`, `DataSurvives`, `SwapResumes` |
| `mempool_stale_at_rest` | two txs of one sender | `NoStaleTxAtRest` is violated (finding 1) |
| `mempool_carried_dropped` | two txs of one sender, batches of one | `CarriedTxNotDropped` is violated (finding 2) |

Why the bounds are enough for the cases the properties are about. Three requests let one
be running, one buffered and one coalesced while a stop arrives. Two txs and batches of
one make every batch overflow; two blocks let a run begun for one drain what the next
staged. Three changes let one fall on each side of a reader's epoch read and walk. In
`block_proposal` two decided blocks separate a list that is stale from one that is
ahead, and a third shows that it recovers. In `token_conversion` two packets let one
return while another is in flight, two amounts give remainders (`Scale` is 2), and one
ordinary contract can be remapped between the two vouchers while it has tokens out. In
`db_patch` a second run meets what the first left, and batches of two leave a rest. In
`db_migrate` the second migration meets the leftovers of the first with a key deleted or
changed in between, and two kills let a swap and the migration after it both be cut off.
In `gossip_reap` one rival and a time-to-live of two are the tight case of
`EventuallyGossiped`, which is about txs with fewer rivals than the time-to-live.

What some properties do not say, because the code does not do it:

- `NoOwedTxForgotten` says nothing of txs stranded by a failed recheck or a replacement,
  `NoDoubleRecheck` nothing of two runs between which no block commits. In
  `mempool_siblings`, the run for liveness, only a timestamp times out; a timeout height
  is in `mempool_contention`, for safety.
- `EventuallyGossiped` excepts a tx that is oversized or `Hidden`, or that has as many
  `Rivals` (other contents before it) as there are reaps in a time-to-live.
- `UnpaidOnlyAfterRise`: the gate cannot see the fee of the block it builds, so a tx of a
  decided block can fail to pay it (the "residual waste" of `app.go:1662-1665`). It says
  that a rise of the fee with that block is the only cause.
- `RoundTrip` excepts the denoms in `torn`, and `PanicOnlyOnTorn` says that they alone can
  make an import panic.
- `PatchedTxIsWhole` and `RerunCompletes` except results the source lacks, event keys of
  further Ethereum messages of a tx, and those of displaced inclusions.
- `DataSurvives` finds a database in its place while only verified copies were swapped;
  after the swap of an unverified copy it finds it in a backup.

Deadlock is checked except in `block_proposal`, `db_patch` and `db_migrate`, which stop
at their bounds on blocks, runs and migrations.

Symmetry: `pending_cache` permutes readers and writers, `token_mapping` the two vouchers
and the two ordinary contracts. No liveness property is checked in either.

### Fairness

- `RecheckWorker`: the goroutines are scheduled, `fn` returns (`RecheckTxs` is a loop
  over a finite selection). Strong fairness only for taking `readyMu` in `stop()`: a Go
  mutex hands over to a waiter that has starved for a millisecond. Nobody is obliged to
  call `recheck`, `stop` or `wait`, and no wait is helped by its context.
- `MempoolManager`: consensus keeps committing blocks, which may be empty; the goroutines
  run; the steps that take `mu` have strong fairness for the same reason. No tx need be
  submitted and no proposal prepared.
- `GossipReap`: the reactor keeps reaping (it polls on a timer) and time passes.
- `DbMigrate`: a command that is not killed goes on to its end, and an operator whose swap
  was interrupted runs it again for the databases that are missing. Nobody need migrate.

Liveness is checked by TLC only.

## 4. Findings

1. `mempool_stale_at_rest`. The comment at `src/app/mempool/manager.go:354` says
   "RecheckTxs evicts pool txs invalidated by the last block." `App.FinalizeBlock` stages
   the block's senders before `Commit` resets the check state. A run that is still working
   for the previous `Commit` can drain them in that window and rechecks on the old state;
   the run of the new `Commit` then finds nothing staged, and a tx the block invalidated
   stays in the pool until its sender is staged again.
2. `mempool_carried_dropped`. The comment at `src/app/mempool/manager.go:53-54` says that
   carrying lets a deep queue drain "instead of being silently dropped". The carried tail
   is rechecked first in the next cycle, on a check state that `Commit` has reset, without
   the sender's earlier txs before it; it fails on its sequence and is evicted although
   the next block could have executed it.

### Observations

Behaviour met while modelling that no run is about.

- Block list. A validator that cannot read the committed blob, and that executed
  optimistically an abandoned proposal whose blob it can read, keeps the list of the blob
  that was never committed until a readable one is committed (`adrift`). The exceptions in
  `ListFollowsChain` and `HonestProposalAccepted` are wider than these validators: they
  take in every validator that has executed a block optimistically and not yet committed
  one (`ahead`), whether or not its list changed, and those that ignored a failure at
  start-up.
- Genesis. On a store in which two denoms have one contract (`keeper_test.go:325`) the
  import of what was exported can panic: the second registration is refused with
  ErrContractAlreadyRegistered, which `genesis.go:41-48` does not skip (`torn`).
- `genesis.go:63-64` says SetExternalContractForDenom retires any auto mapping. The setter
  refuses a denom that has any mapping and leaves the auto table alone; it is the import
  that leaves out auto entries shadowed by an external one. After an import, deleting the
  external mapping therefore no longer falls back to the auto contract.
- Patch. `dbmigrate/README.md:1249` says "Can re-run db patch to complete". That holds for
  each key whose conflict is replaced (`RerunCompletes`): declining a tx.height key already
  in place means its result and event keys are not collected. `dbmigrate/README.md:701`
  says "This ensures all tx_index keys (including event-indexed keys) are properly patched."
  Of a tx with several Ethereum messages (`integration_tests/test_basic.py:784`) only the
  first has its event keys patched, however often the command is run (`patch.go:704-726`),
  and a result the source lacks is passed over without an error (`patch.go:607-610`).
  Failed reads at
  `patch.go:354-357`, `430-433` and `1052-1053` are not counted, so a run can report no
  errors and be incomplete (`lost`). `ethTxInfos` keeps one inclusion per Ethereum hash,
  so of two only the later gets its event key (`LaterInclusion`). The event prefix at
  `patch.go:778` ends in the tx index without a delimiter; this is not modelled.
- Migration. `migrate.go:101` says "Open source database in read-only mode"; the call at 103
  opens it for writing and creates a missing one. A migration run after an interrupted swap
  therefore leaves an empty database in place, and with `--verify` fails on the extra keys
  of the copy (`created`; the exception in `SwapResumes`). Keys that `batch.Set` refuses
  are counted, and without `--verify` the migration is reported as successful.
- Swap. The script does not look whether the migration finished or verified, and
  `dbmigrate/README.md:399` advises `--verify=false` for large databases. What an incomplete
  copy lacks is then only in the backup. With the `--backup-suffix` of an earlier swap,
  `mv` puts the new backup inside the old one.
- Replay. The comment at `grpc_query.go:38` says that `replayBlockQueued` counts callers
  running or waiting; a caller about to be refused is counted for a moment too, so that
  another can be refused although one place is free.
- Receipts. `rpc/api.go:370-381` patches the last receipt when a tx exceeded the block gas
  limit, which is right if that tx is the last one and has one Ethereum message.
- Recheck. The sweep stages every signer of what it takes out; a tx that fails its recheck
  stages none (`manager.go:519-521`). When m, signed by a and b, fails in a run that was
  for a, b's next tx stays in the pool behind a gap until something else stages b.
- Reap. The scan ends at the first tx that does not fit (`reap.go:19-21`, `48-58`), so a tx
  larger than the limits at the head of the pool keeps all others from being gossiped for
  as long as it stays.
- The mempool removes by signer and sequence: evicting a tx after it was replaced removes
  its replacement.

## 5. Proofs

`tlapm` proves every step of the eight modules with theorems. Assumptions are the named
ASSUMEs of the modules, which TLC evaluates on each instance, and the hypotheses of a
theorem. A property is seldom inductive; what each proof adds to it is named below. One
step per action shows that the invariant is preserved, and the theorem about each
property follows from it.

A leaf cites `Zenon` where that prover is enough, and is left to the SMT solver where it
needs arithmetic, functions or sequences. The longest module, `DbPatchProofs`, takes
`tlapm` about ten minutes.

### CollectionTheorems

The library's induction theorems take an operator as a parameter, which the provers
cannot instantiate. A well-founded relation, however, gives a least member of a set
(`WFMin`): `LeastNatural`, and from it induction for a set of numbers (`NatSetInduction`)
and for a set of finite sets (`FiniteInduction`; a finite set is one that can be listed
without repetition, `Listed`). With it the lemmas show that `SumOver` is well defined
(`SumUnfold`), what it is of the empty set, of a set with one more member and of a function
changed at one point (`SumEmpty`, `SumAdd`, `SumChange`), and that `Filter` keeps just the
wanted elements, each as often as before (`FilterFacts`).

### ConcurrencyProofs

The four models are independent; each has its own specification and invariant.

`RecheckWorker`, for any sets of requesters, stoppers and waiters and any number of requests
(`WorkerAssumption`: requesters and stoppers are disjoint, `Free` is none of them).
`WorkerTypeOKHolds` is by itself inductive. `NoOrphanGate` is not: it needs that the worker's
exit comes after quit, that no gate is sent after quit (the lock), and that whatever is
buffered is the newest gate. `WaitCoversRequests` needs to know of every gate somebody may
block on who will close it, after a run that covers what. `WorkerInv` is the conjunction
of these parts: `LockInv`, `OnceInv`, `ExitInv`, `GateInv`, `CountInv` and `ServeInv`, in
which `Serves(g, n)` says that gate g accounts for the first n requests. The four safety
properties follow from it (`WorkerInvHolds`), and `RefinesService` uses `CountInv` to show
that each step of the worker is one of the service or a stutter.

`PendingTxCache`, for any readers, writers and number of changes. `FreshRead` needs that a
snapshot of the current epoch misses no published change, and the same of the value a
reader is about to store (`CacheInv`).

`DecodeCache`, for any threads, bytes, hash and assignment of shards. `DecodesOwnBytes`
needs `EntriesSound`: the tx of an entry is made of the entry's bytes, and so is the tx a
thread is about to store. `ShardsBounded` is inductive by itself, for a positive capacity
(`NewDecodeCache` rounds up a size that is not zero): an insertion into a full shard
evicts one entry, and one over a colliding hash replaces it (`InsertBounded`).

`ReplayBlock`, for any set of callers. `NothingLeaks` (the counter and the channel hold
one unit per caller inside) is inductive with the types. `LimitsHold` needs it: a caller
is let in when the counter it has just raised is within the limit, and the counter is at
least the number of callers let in. Each action moves one caller from one set to another
(`SetsMove`), and the cardinalities follow.

### MempoolManagerProofs

For any txs, signers, sequences, order of the pool, batch size and time-to-live
(`ManagerAssumption`: finitely many txs, each signed by its first signer, an Ethereum tx by
nobody else). `NoOwedTxForgotten` and `NoDoubleRecheck` need `RunInv` (a run starts with
nothing left of the one before, holds no carry beside the one it drained, and has no list
with a tx twice) and `EvictedInv`. The latter is about a tx that the run has taken out of
the pool and whose cache entries it has yet to drop: it can be admitted again in between,
and if it is suspect then, one of its signers is staged. `ManagerInvHolds` states the
conjunction.

### GossipReapProofs

For any pool, priorities, limits, cache capacity and time-to-live (`ReapAssumption`).
`OncePerTTL` needs `TrackerInv`: the tracker has the age of everything sent within the
time-to-live. `CacheSound` needs `CursorInv`: between the look at the cache and the use of
the hash the entry can be evicted and made again, and its hash is still none or that of
the bytes at hand. `CursorInv` also says that the tx at hand fits the limits that
`ReapWithinLimits` is about. `TrackerIsExact` follows from `TrackerInv` and the pruning
at the end of a reap.

### BlockProposalProofs

For any validators, quorums, txs, blobs and readers of blobs, any number of failed rounds,
crashes and blocks (`ProposalAssumption`: finitely many txs, a positive byte limit). The
invariant is `ProposalIndInv`. `ListFollowsChain` needs `ListInv`, which says of every list
which blob it comes from: after a start-up or a refresh the last readable one of the chain,
in a validator that has executed the next block already the one of that block.
`WithinLimits`, `UnpaidOnlyAfterRise` and `StagedAreStranded` need `SelectorInv`: the gas a
selector has counted is the sum over what it has selected, its cached base fee is that of
the last block, and a selector not in use is empty; this is where the sums of
`CollectionTheorems` are used. `UnpaidOnlyAfterRise` follows from `PaysCommittedFee`: every
tx of a proposal pays the fee it was gated on. `HonestProposalAccepted` is an action
property: a proposer whose list follows the chain selects no tx that this list blocks
(`BlockInv`), and a validator that reads the same blobs has the same list.

### TokenProofs

`TokenMapping`, for any denoms and contracts (`MappingAssumption`: the contract a source
denom names is a contract, `None` is neither). `MappingInv` says that the contract of a
denom that is not torn maps back to it (`WayBack`) and that a source denom has only its own
contract, and during an import `ImportInv`: no two denoms have one contract in the file,
torn ones excepted, and the tables so far are the file's, up to what is still to be read,
with shadowed auto entries left out. So a setter refuses an entry only for a torn denom
(`PanicOnlyOnTornHolds`), every denom of the tables during an import has its way back, and
none is torn once it is done. `RoundTripHolds`, `ImportKeepsMappingHolds` and the action
property `MappingChangesHolds` follow.

`TokenConversion`, for any finite sets of denoms and contracts, any stocks, amounts and
number of packets, and any scale of CRO (`ConversionAssumption`). `ConvInv` is the types,
the mapping's invariant and the four books: CRO against its escrow, vouchers against their
stock, tokens against the coins of their contract, source coins against the tokens the
module holds. `SourceCoinsBacked` needs `SourceInv`, in which a source denom that is not
mapped has no coins at all: otherwise the coins of one denom and the tokens of another
that embeds the same contract could be confused. A transfer is a movement of coins
(`Moved`) followed by a conversion (`Converts`), and one lemma for each kind shows that
the books stay balanced (`ConversionKeeps`).

### DbMigrateProofs

For any databases, keys, values and batch size and two backends (`MigrateAssumption`).
`VerifiedIsExact` and `DataSurvives` need `CommandInv` (a copy is of a database that
has no verified copy, only keys of the source are copied, a swap takes copies that are
there, each once, and notes those that are not verified), `CreatedIsEmpty` (a directory
that a migration created by opening it is empty as long as it is in place, so moving it
aside loses nothing) and `MovedIsBackedUp` (where the database is not in its place its
original is in a backup). `MigrateInvHolds` states the conjunction.

### DbPatchProofs

For any source, chosen heights, batch size and bounds on runs and failures
(`PatchAssumption`: an iterator yields no key twice). `PatchInv` follows every key from
the question to the target:

- `WorkInv`: each phase belongs to the run's database and works on the rest of its
  iterator, or on what was collected for it; outside a run the batch is empty.
- `DecidedInv`: a key that was declined or lost is no longer `Pending`. A key is
  `Approved` when it is of a chosen height and neither pending, declined nor lost, so
  within a run what is approved stays so.
- `TouchedInv`: whatever is in the batch, changed in the target or collected for a later
  phase has a ground, a key the operator may be asked about, that is approved.
  `OnlyChosenKeysChange` and `DeclinedIsKept` follow: a declined key is nobody's ground.
- `CompleteInv`: the converse. What is approved is settled (in the batch, in the target,
  absent from the source, or an error was counted), its hash is in `txhashes`, its event
  in `ethTxInfos` unless a later inclusion may have displaced it, and what is collected is
  pending or settled. At the end of a run nothing is pending and the batch is empty, which
  gives `PatchedTxIsWhole` and `RerunCompletes`.
- `BatchInv`: an H: key waits in the batch with its BH: key. With `BlockFoundByHash` it is
  preserved by a write, and by an interruption because the batch goes as a whole.

That a displaced event key has a later inclusion is `RestFacts`: what an iterator has
passed comes before what it is at.

### Only model-checked

- Liveness: `WaitReturns`, `StopReturns`, `RequestsServed`, `OwedEventuallyRechecked`,
  `TimedOutTxLeaves`, `EventuallyGossiped`, `SwapResumes`. Fairness and ENABLED are outside
  what the prover does.

The inductive invariants are established by the proofs and are not listed again in the
runs.

## 6. Not modelled

- Cryptography, encoding, gas metering, EVM execution: libraries. What the code in `src/`
  relies on of them is external in the map.
- Ante decorators and event translation are stateless; the e2ee module is one table; the
  command line is flags and database options. Signature pre-verification fills a library's
  cache and changes no result.
- Precompiles decode arguments and call the message servers of the SDK and ibc-go, which
  keep the state. The packet callback is one call of the sender's contract, made by
  ibc-go's callbacks middleware.
- JSON-RPC receipts are a sequential translation of one block's results; see Observations.
- `integration_tests/contracts/hardhat.config.ts` is compiler settings, and the files of
  `client/docs/swagger-ui/` are third-party bundles that show the API documentation.
- In `MempoolManager`: telemetry, response codes, the switch that disables rechecks. In
  `TokenConversion`: which bridge contracts are authorised, Gravity denoms, and who may
  send a governance message; `ConvertCoinFromCRC21ToNative`, which only tests call. In
  `BlockProposal`: how the addresses of a tx are found. In
  `DbPatch`: parsing of keys and flags, and the internal option `SkipConflictChecks`,
  which the command never sets. In `DbMigrate`: statistics, retries of an open, RocksDB's
  options. In `ReplayBlock`: the execution of the block, which changes nothing that
  outlives the query. In `DecodeCache`: the order of the LRU lists.

## 7. Plan

Done, in this order: the worker and its service, the manager, the pending cache, mapping
and conversion, proposal, gossip, patch, migration and swap, replay, decode cache; proofs
of the worker, the pending cache, the mapping, the replay and the decode cache; proofs of
the conversion, the proposal, the migration, the manager, the reap and the patch.

Models to follow: an abstract ledger that `TokenConversion` implements; `MempoolManager`
with `RecheckService` in place of its one-place trigger.
