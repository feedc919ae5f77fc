------------------------------- MODULE DbPatch -------------------------------
(***************************************************************************)
(* "cronosd database patch" (cmd/cronosd/dbmigrate/patch.go) copies the    *)
(* keys of chosen heights from a source database into a target, in         *)
(* batches, and asks the operator about keys the target already has.  A    *)
(* run can be interrupted at any point, which loses its batch; reads can   *)
(* fail key by key; and the command can be run again.                      *)
(*                                                                         *)
(* In the blockstore a block has the keys H:<height>, P:<height>: and,     *)
(* without a height, BH:<hash>; C:, SC: and EC: are treated as P: is.  In  *)
(* the tx index every inclusion of a tx in a block has a tx.height key     *)
(* and, if it is an Ethereum tx, event keys: "event" is the one of its     *)
(* first Ethereum message, "later" stands for those of the messages after  *)
(* it.  The result of a tx is under its hash, which two inclusions of one  *)
(* tx share.  The source may lack a result or an event key.                *)
(***************************************************************************)
EXTENDS Integers, Sequences, Collections

CONSTANTS
  Blocks,       \* sequence: heights of the source's blocks, in key order
  Txs,          \* sequence: inclusions of txs, in order of their tx.height keys
  HeightOf,     \* function: the height of an inclusion
  HashOf,       \* function: the tx hash of an inclusion
  EthTxs,       \* the tx hashes of Ethereum txs
  Absent,       \* the results and event keys that the source does not have
  Heights,      \* the heights to patch (HeightRange)
  BatchSize,
  InitialTargets,  \* sets of keys the target may have at first
  MaxRuns,      \* bound on the times the command is run
  MaxFailures   \* bound on the reads that fail

BlockSet == Range(Blocks)
TxSet == Range(Txs)
Hashes == {HashOf[t] : t \in TxSet}

ASSUME PatchAssumption ==
  /\ Blocks \in Seq(Nat) /\ IsInjective(Blocks)
  /\ Txs \in Seq(TxSet) /\ IsInjective(Txs)
  /\ BatchSize \in Nat \ {0}
  /\ MaxRuns \in Nat /\ MaxFailures \in Nat
  /\ Absent \subseteq {"hash"} \X Hashes \cup {"event"} \X TxSet

BlockKeys == {"H", "P", "BH"} \X BlockSet
TxKeys    == {"height", "event", "later"} \X TxSet \cup {"hash"} \X Hashes
Keys      == BlockKeys \cup TxKeys

Phases == {"H", "P", "height", "hash", "event"}

VARIABLES
  target,       \* the value of each key in the target: "none", "old" or "source"
  pc,           \* "idle", the phase of the run, or "done"
  db,           \* the database of the run
  todo,         \* what is left of the phase
  strategy,     \* currentStrategy: "ask", "skip" or "replaceAll"
  batch,        \* keys set in the batch
  batchCount,
  txhashes,     \* hashes collected for the hash phase
  ethTxInfos,   \* function: Ethereum tx to the inclusion collected for it
  dryRun,
  errors,       \* ErrorCount is not zero
  before,       \* the target when the run began
  declined,     \* keys that the operator chose to leave in this run
  lost,         \* keys left out for a failure that the code does not count
  runs, failures

vars == <<target, pc, db, todo, strategy, batch, batchCount, txhashes, ethTxInfos,
          dryRun, errors, before, declined, lost, runs, failures>>
run == <<db, dryRun, before, runs>>

NoInfo == [e \in {} |-> e]

Init ==
  /\ \E ks \in InitialTargets : target = [k \in Keys |-> IF k \in ks THEN "old" ELSE "none"]
  /\ pc = "idle" /\ db = "blockstore" /\ todo = <<>> /\ strategy = "ask"
  /\ batch = {} /\ batchCount = 0 /\ txhashes = <<>> /\ ethTxInfos = NoInfo
  /\ dryRun = FALSE /\ errors = FALSE /\ before = target
  /\ declined = {} /\ lost = {} /\ runs = 0 /\ failures = 0

-----------------------------------------------------------------------------
(* Mutant: every height is in the range.                                    *)
shouldProcessAll(k) == TRUE

shouldProcessKey(k) ==
  IF k[1] \in {"H", "P"} THEN k[2] \in Heights ELSE HeightOf[k[2]] \in Heights

(* The answers to a conflict: whether to write, and the strategy from then  *)
(* on.  An answer that cannot be read is a skip.                            *)
promptKeyConflict ==
  {[write |-> TRUE,  strategy |-> "ask"], [write |-> TRUE,  strategy |-> "replaceAll"],
   [write |-> FALSE, strategy |-> "ask"], [write |-> FALSE, strategy |-> "skip"]}

handleKeyConflict(k) ==
  IF target[k] = "none" THEN {[write |-> TRUE, strategy |-> strategy]}
  ELSE IF strategy = "ask" THEN promptKeyConflict
  ELSE {[write |-> strategy = "replaceAll", strategy |-> strategy]}

Written(b) == [k \in Keys |-> IF k \in b THEN "source" ELSE target[k]]

(* batch.Write(), which a dry run does not do.                              *)
WriteBatch(b) ==
  /\ batch' = {} /\ batchCount' = 0
  /\ IF dryRun THEN UNCHANGED target ELSE target' = Written(b)

(* Key k and those that go with it are set in the batch, which is written   *)
(* when it is full; the others are not counted.                             *)
Patch(k, others) ==
  LET b == batch \cup {k} \cup others
  IN  IF batchCount + 1 >= BatchSize
        THEN WriteBatch(b)
        ELSE batch' = b /\ batchCount' = batchCount + 1 /\ UNCHANGED target

Leave == UNCHANGED <<target, batch, batchCount>>

(* Keys ks are left out unnoticed.  A BH: key stays lost until a run writes *)
(* it, the others are lost for the run.                                     *)
Lose(ks) ==
  lost' = {k \in lost \cup (IF dryRun THEN {} ELSE ks) : k[1] = "BH" => target'[k] # "source"}

FailsRead == failures < MaxFailures /\ failures' = failures + 1

-----------------------------------------------------------------------------
Start(d, dry) ==
  /\ pc \in {"idle", "done"} /\ runs < MaxRuns
  /\ runs' = runs + 1 /\ db' = d /\ dryRun' = dry
  /\ pc' = IF d = "blockstore" THEN "H" ELSE "height"
  /\ todo' = IF d = "blockstore" THEN Blocks ELSE Txs
  /\ strategy' = "ask" /\ errors' = FALSE /\ declined' = {} /\ before' = target
  /\ batch' = {} /\ batchCount' = 0 /\ txhashes' = <<>> /\ ethTxInfos' = NoInfo
  /\ lost' = lost \cap BlockKeys
  /\ UNCHANGED <<target, failures>>

Key == <<pc, Head(todo)>>

(* A key of another height.                                                 *)
PassOver ==
  /\ pc \in {"H", "P", "height"} /\ todo # <<>> /\ ~shouldProcessKey(Key)
  /\ todo' = Tail(todo) /\ Leave
  /\ UNCHANGED <<pc, strategy, txhashes, ethTxInfos, errors, declined, lost, failures, run>>

(* The operator's answer or the strategy decides.                           *)
Resolve(a) ==
  /\ a \in handleKeyConflict(Key)
  /\ strategy' = a.strategy
  /\ declined' = IF a.write THEN declined ELSE declined \cup {Key}

(* Mutant: the BH: key is not in the batch of the H: key.                   *)
patchSingleKeyApart(k, found) ==
  /\ Patch(k, {})
  /\ Lose({}) /\ UNCHANGED failures

(* patchSingleKey: an H: key takes the BH: key of its block with it, if     *)
(* the source could be read; if not, nothing is counted.                    *)
patchSingleKey(k, found) ==
  LET bh == IF k[1] = "H" THEN {<<"BH", k[2]>>} ELSE {}
  IN  /\ Patch(k, IF found THEN bh ELSE {})
      /\ Lose(IF found THEN {} ELSE bh)
      /\ IF found THEN UNCHANGED failures ELSE bh # {} /\ FailsRead

(* patchWithIterator, for one key.                                          *)
PatchBlockKey(a, found) ==
  /\ pc \in {"H", "P"} /\ todo # <<>> /\ shouldProcessKey(Key)
  /\ todo' = Tail(todo) /\ Resolve(a)
  /\ IF a.write THEN patchSingleKey(Key, found)
     ELSE found /\ Leave /\ UNCHANGED <<lost, failures>>
  /\ UNCHANGED <<pc, txhashes, ethTxInfos, errors, run>>

(* Mutant: what the operator skips is collected too.                        *)
CollectsSkipped(t, write, found) ==
  /\ txhashes' = Append(txhashes, HashOf[t])
  /\ UNCHANGED ethTxInfos

(* extractEthereumTxHash finds an Ethereum message in the result of t.  It  *)
(* returns the hash of the first: no phase looks for the "later" keys.      *)
Traced(t) == HashOf[t] \in EthTxs /\ <<"hash", HashOf[t]>> \notin Absent

(* patchTxHeightKeyAndCollect and collectEthereumTxInfo: a later inclusion  *)
(* of an Ethereum tx takes the place of an earlier one.                     *)
Collect(t, write, found) ==
  /\ txhashes' = IF write THEN Append(txhashes, HashOf[t]) ELSE txhashes
  /\ ethTxInfos' = IF write /\ found /\ Traced(t)
                     THEN [e \in DOMAIN ethTxInfos \cup {HashOf[t]} |->
                             IF e = HashOf[t] THEN t ELSE ethTxInfos[e]]
                     ELSE ethTxInfos

(* patchTxHeightKeys, for one key.                                          *)
PatchTxHeightKey(a, found) ==
  /\ pc = "height" /\ todo # <<>> /\ shouldProcessKey(Key)
  /\ todo' = Tail(todo) /\ Resolve(a)
  /\ Collect(Head(todo), a.write, found)
  /\ IF a.write THEN Patch(Key, {}) ELSE Leave
  /\ Lose(IF found THEN {} ELSE {<<"event", Head(todo)>>})
  /\ IF found THEN UNCHANGED failures ELSE a.write /\ Traced(Head(todo)) /\ FailsRead
  /\ UNCHANGED <<pc, errors, run>>

(* Mutant: "ask" keeps what is there.                                       *)
PatchUnaskedKeeps(k) ==
  IF k \in Absent \/ (target[k] # "none" /\ strategy # "replaceAll") THEN Leave ELSE Patch(k, {})

(* The later phases of the tx index do not ask: only "skip" keeps a key.    *)
(* One that the source lacks is passed over, and not counted as an error.   *)
PatchUnasked(k) ==
  IF k \in Absent \/ (target[k] # "none" /\ strategy = "skip") THEN Leave ELSE Patch(k, {})

(* patchTxHashKeys, for one hash.                                           *)
PatchTxHashKey ==
  /\ pc = "hash" /\ todo # <<>>
  /\ todo' = Tail(todo)
  /\ PatchUnasked(Key) /\ Lose({})
  /\ UNCHANGED <<pc, strategy, txhashes, ethTxInfos, errors, declined, failures, run>>

(* patchEthereumEventKeysFromSource, for one collected inclusion.           *)
PatchEthereumEventKey ==
  /\ pc = "event" /\ todo # <<>>
  /\ todo' = Tail(todo)
  /\ PatchUnasked(Key) /\ Lose({})
  /\ UNCHANGED <<pc, strategy, txhashes, ethTxInfos, errors, declined, failures, run>>

(* Mutant: a tx.height key whose conflict cannot be checked is written, and *)
(* its tx is not collected.                                                 *)
KeyFailsWrites ==
  /\ pc \in Phases /\ todo # <<>>
  /\ pc \in {"H", "P", "height"} => shouldProcessKey(Key)
  /\ FailsRead
  /\ todo' = Tail(todo)
  /\ IF pc = "height" THEN Patch(Key, {}) ELSE Leave
  /\ errors' = (errors \/ pc # "height")
  /\ Lose(IF pc = "height" THEN {Key} ELSE {})
  /\ UNCHANGED <<pc, strategy, txhashes, ethTxInfos, declined, run>>

(* The key's value cannot be read, or not be set in the batch: it is left   *)
(* out and counted, but for checkTxHeightKeyConflict, which does not count. *)
KeyFails ==
  /\ pc \in Phases /\ todo # <<>>
  /\ pc \in {"H", "P", "height"} => shouldProcessKey(Key)
  /\ FailsRead
  /\ todo' = Tail(todo) /\ Leave
  /\ errors' = (errors \/ pc # "height")
  /\ Lose(IF pc = "height" THEN {Key} ELSE {})
  /\ UNCHANGED <<pc, strategy, txhashes, ethTxInfos, declined, run>>

-----------------------------------------------------------------------------
NextPhase ==
  [H |-> "P", P |-> "done", height |-> "hash", hash |-> "event", event |-> "done"][pc]

(* The event phase follows the order of a Go map; its keys do not depend on *)
(* each other, so one order stands for all.                                 *)
WorkOf(ph) ==
  CASE ph = "P"     -> Blocks
    [] ph = "hash"  -> txhashes
    [] ph = "event" -> Filter(Txs, Range(ethTxInfos))
    [] OTHER        -> <<>>

(* The rest of the batch.                                                   *)
WriteRest == WriteBatch(batch)

(* A phase ends.  Every iterator of the blockstore begins again with the    *)
(* strategy of the command; the phases of the tx index hand theirs on.      *)
EndPhase ==
  /\ pc \in Phases /\ todo = <<>>
  /\ WriteRest /\ Lose({})
  /\ pc' = NextPhase /\ todo' = WorkOf(NextPhase)
  /\ strategy' = IF db = "blockstore" THEN "ask" ELSE strategy
  /\ UNCHANGED <<txhashes, ethTxInfos, errors, declined, failures, run>>

(* An iterator stops with an error, seen after the rest of the batch is     *)
(* written, and the command gives up.                                       *)
IteratorFails ==
  /\ pc \in {"H", "P", "height"} /\ FailsRead
  /\ WriteRest /\ Lose({})
  /\ pc' = "idle" /\ todo' = <<>> /\ txhashes' = <<>> /\ ethTxInfos' = NoInfo
  /\ UNCHANGED <<strategy, errors, declined, run>>

(* The process dies, or a batch cannot be written.                          *)
Interrupt ==
  /\ pc \in Phases
  /\ pc' = "idle" /\ todo' = <<>> /\ batch' = {} /\ batchCount' = 0
  /\ txhashes' = <<>> /\ ethTxInfos' = NoInfo
  /\ UNCHANGED <<target, strategy, errors, declined, lost, failures, run>>

Answers == [write : BOOLEAN, strategy : {"ask", "skip", "replaceAll"}]

Next ==
  \/ \E d \in {"blockstore", "tx_index"}, dry \in BOOLEAN : Start(d, dry)
  \/ PassOver
  \/ \E a \in Answers, found \in BOOLEAN : PatchBlockKey(a, found)
  \/ \E a \in Answers, found \in BOOLEAN : PatchTxHeightKey(a, found)
  \/ PatchTxHashKey
  \/ PatchEthereumEventKey
  \/ KeyFails
  \/ EndPhase
  \/ IteratorFails
  \/ Interrupt

Spec == Init /\ [][Next]_vars

-----------------------------------------------------------------------------
(* Types; the batch holds no more counted keys than BatchSize allows.       *)
TypeOK ==
  /\ target \in [Keys -> {"none", "old", "source"}]
  /\ before \in [Keys -> {"none", "old", "source"}]
  /\ pc \in Phases \cup {"idle", "done"} /\ db \in {"blockstore", "tx_index"}
  /\ strategy \in {"ask", "skip", "replaceAll"}
  /\ batch \subseteq Keys /\ batchCount \in 0 .. BatchSize - 1
  /\ txhashes \in Seq(Hashes) /\ ethTxInfos \in [DOMAIN ethTxInfos -> TxSet]
  /\ declined \subseteq Keys /\ lost \subseteq Keys
  /\ dryRun \in BOOLEAN /\ errors \in BOOLEAN
  /\ runs \in 0 .. MaxRuns /\ failures \in 0 .. MaxFailures

(* At every moment, and so after a crash at any point, a block whose H: key *)
(* was patched can also be found by its hash (patchSingleKey puts BH: into  *)
(* the batch of H:), unless the source's BH: key could not be read.         *)
BlockFoundByHash ==
  \A h \in BlockSet :
    target[<<"H", h>>] = "source" /\ <<"BH", h>> \notin lost => target[<<"BH", h>>] = "source"

(* The inclusions of t's tx that the run can have displaced t's event for.  *)
LaterInclusion(t) ==
  \E i, j \in DOMAIN Txs :
    /\ i < j /\ Txs[i] = t /\ HashOf[Txs[j]] = HashOf[t]
    /\ HeightOf[Txs[j]] \in Heights

(* When a run ends without errors, an inclusion whose tx.height key it      *)
(* added can be looked up: the target has the result of its tx, if the      *)
(* source has it, and the event key of its first Ethereum message, if the   *)
(* source has that and neither a later inclusion took its place nor a read  *)
(* of the result failed (patchTxIndexData hands on what patchTxHeightKeys   *)
(* collects; patch.go:607-610 passes over an absent result in silence, and  *)
(* patch.go:704-726 takes one Ethereum hash from a result).                 *)
PatchedTxIsWhole ==
  pc = "done" /\ ~errors =>
    \A t \in TxSet :
      target[<<"height", t>>] # "none" /\ before[<<"height", t>>] = "none" =>
        /\ <<"hash", HashOf[t]>> \in Absent \/ target[<<"hash", HashOf[t]>>] # "none"
        /\ Traced(t) /\ ~LaterInclusion(t) /\ <<"event", t>> \notin lost \cup Absent
             => target[<<"event", t>>] # "none"

(* The target has the source's k, or what it had when the operator said to  *)
(* skip the rest, or the source has none.                                   *)
Brought(k) ==
  \/ target[k] = "source" \/ k \in Absent
  \/ strategy = "skip" /\ target[k] # "none"

(* "Can re-run db patch to complete": whatever was interrupted before, a    *)
(* run that ends without errors has brought to the source's value each key  *)
(* of its heights that was not declined or lost, and with a tx.height key   *)
(* the result and the event key of the first Ethereum message of its tx.    *)
(* Not claimed, as the code does not do it: the event keys of further       *)
(* messages, and of an inclusion that a later one has displaced.            *)
RerunCompletes ==
  pc = "done" /\ ~dryRun /\ ~errors =>
    /\ db = "blockstore" =>
         \A h \in BlockSet \cap Heights :
           /\ \A p \in {"H", "P"} : <<p, h>> \in declined \/ target[<<p, h>>] = "source"
           /\ <<"H", h>> \in declined \/ <<"BH", h>> \in lost \/ target[<<"BH", h>>] = "source"
    /\ db = "tx_index" =>
         \A t \in {u \in TxSet : HeightOf[u] \in Heights} :
           \/ <<"height", t>> \in declined \cup lost
           \/ /\ target[<<"height", t>>] = "source" /\ Brought(<<"hash", HashOf[t]>>)
              /\ Traced(t) /\ ~LaterInclusion(t) /\ <<"event", t>> \notin lost
                   => Brought(<<"event", t>>)

(* What the operator declines to replace stays as it was, and with it what  *)
(* is patched on its account without a question: the BH: key of a block,    *)
(* the event key of an inclusion, and the result of a tx all of whose       *)
(* inclusions in range were declined.                                       *)
DeclinedIsKept ==
  \A k \in declined :
    /\ target[k] = before[k]
    /\ k[1] = "H" => target[<<"BH", k[2]>>] = before[<<"BH", k[2]>>]
    /\ k[1] = "height" =>
         /\ target[<<"event", k[2]>>] = before[<<"event", k[2]>>]
         /\ (\A t \in TxSet : HashOf[t] = HashOf[k[2]] /\ HeightOf[t] \in Heights
               => <<"height", t>> \in declined)
            => target[<<"hash", HashOf[k[2]]>>] = before[<<"hash", HashOf[k[2]]>>]

(* The heights a key belongs to.                                            *)
HeightsOf(k) ==
  IF k \in BlockKeys THEN {k[2]}
  ELSE IF k[1] = "hash" THEN {HeightOf[t] : t \in {u \in TxSet : HashOf[u] = k[2]}}
  ELSE {HeightOf[k[2]]}

(* A dry run changes nothing, a run changes only the database it is for,    *)
(* and no run changes what belongs to other heights only.                   *)
OnlyChosenKeysChange ==
  \A k \in Keys :
    target[k] # before[k] =>
      /\ ~dryRun /\ HeightsOf(k) \cap Heights # {}
      /\ k \in (IF db = "blockstore" THEN BlockKeys ELSE TxKeys)
-----------------------------------------------------------------------------
(* The inductive invariant of the proofs.                                   *)

(* What an iterator over s has left is an end of s.                         *)
IsRestOf(s) ==
  /\ todo \in Seq(Range(s)) /\ Len(todo) <= Len(s)
  /\ \A i \in 1 .. Len(todo) : todo[i] = s[Len(s) - Len(todo) + i]

(* Keys that the operator may be asked about.                               *)
AskedKeys == {"H", "P"} \X BlockSet \cup {"height"} \X TxSet

(* Each phase is of the run's database and works on what it should.         *)
WorkInv ==
  /\ pc \in {"H", "P"} => db = "blockstore" /\ IsRestOf(Blocks)
  /\ pc = "height" => db = "tx_index" /\ IsRestOf(Txs)
  /\ pc = "hash"  => db = "tx_index" /\ todo \in Seq(Range(txhashes))
  /\ pc = "event" => db = "tx_index" /\ todo \in Seq(Range(ethTxInfos))
  /\ pc \notin Phases => todo = <<>> /\ batch = {}
  /\ dryRun => target = before

(* The run has yet to come to key k.                                        *)
Pending(k) ==
  \/ pc = k[1] /\ k[2] \in Range(todo)
  \/ pc = "H" /\ k[1] = "P"
  \/ pc = "height" /\ k[1] \in {"hash", "event"}
  \/ pc = "hash" /\ k[1] = "event"

(* What is declined or lost is not pending.                                 *)
DecidedInv ==
  /\ declined \subseteq AskedKeys /\ \A k \in lost : k[1] \notin {"H", "P"}
  /\ \A a \in (declined \cup lost) \cap AskedKeys : ~Pending(a)

Approved(k) ==
  shouldProcessKey(k) /\ ~Pending(k) /\ k \notin declined \cup lost

(* The keys on whose account k is patched.                                  *)
Grounds(k) ==
  {a \in AskedKeys :
     \/ k = a
     \/ a[1] = "H" /\ k = <<"BH", a[2]>>
     \/ a[1] = "height" /\ k \in {<<"event", a[2]>>, <<"hash", HashOf[a[2]]>>}}

Collected(k) ==
  \/ k[1] = "hash" /\ k[2] \in Range(txhashes)
  \/ k[1] = "event" /\ k[2] \in Range(ethTxInfos)

(* The run has changed k or is about to.                                    *)
Touched(k) == k \in batch \/ target[k] # before[k] \/ Collected(k)

KeysOf(d) == IF d = "blockstore" THEN BlockKeys ELSE TxKeys

(* Nothing is touched but on account of a key that was approved.            *)
TouchedInv ==
  \A k \in Keys : Touched(k) => k \in KeysOf(db) /\ \E a \in Grounds(k) : Approved(a)

(* The run is done with k.                                                  *)
Settled(k) ==
  \/ errors \/ k \in batch \/ target[k] = "source" \/ k \in Absent
  \/ k[1] \in {"hash", "event"} /\ strategy = "skip" /\ target[k] # "none"

(* What is approved is patched, and what goes with it is patched or         *)
(* collected; what is collected is patched in its phase.                    *)
BlockComplete(h) ==
  /\ \A p \in {"H", "P"} : Approved(<<p, h>>) => Settled(<<p, h>>)
  /\ Approved(<<"H", h>>) => <<"BH", h>> \in lost \/ Settled(<<"BH", h>>)

TxComplete(t) ==
  Approved(<<"height", t>>) =>
    /\ Settled(<<"height", t>>) /\ HashOf[t] \in Range(txhashes)
    /\ Traced(t) /\ ~LaterInclusion(t) /\ <<"event", t>> \notin lost =>
         HashOf[t] \in DOMAIN ethTxInfos /\ ethTxInfos[HashOf[t]] = t

CollectedComplete ==
  /\ \A h \in Range(txhashes) : Pending(<<"hash", h>>) \/ Settled(<<"hash", h>>)
  /\ \A t \in Range(ethTxInfos) : Pending(<<"event", t>>) \/ Settled(<<"event", t>>)

CompleteInv ==
  pc # "idle" /\ ~dryRun =>
    /\ db = "blockstore" => \A h \in BlockSet : BlockComplete(h)
    /\ db = "tx_index" => (\A t \in TxSet : TxComplete(t)) /\ CollectedComplete

(* An H: key waits in the batch with its BH: key.                           *)
BatchInv ==
  ~dryRun =>
    \A h \in BlockSet :
      <<"H", h>> \in batch =>
        <<"BH", h>> \in batch \cup lost \/ target[<<"BH", h>>] = "source"

PatchInv ==
  TypeOK /\ WorkInv /\ DecidedInv /\ TouchedInv /\ CompleteInv /\ BatchInv /\ BlockFoundByHash
=============================================================================
