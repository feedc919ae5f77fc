---------------------------- MODULE DbPatchProofs ----------------------------
(***************************************************************************)
(* What a run of the patch command leaves in the target, for any blocks,   *)
(* txs, heights and batch size, and wherever runs are interrupted.         *)
(***************************************************************************)
EXTENDS DbPatch, CollectionTheorems

-----------------------------------------------------------------------------
(* Keys.                                                                    *)

(* The kind of a key and what it is the key of.                             *)
LEMMA KeyParts ==
  /\ \A p, x : <<p, x>>[1] = p /\ <<p, x>>[2] = x
  /\ \A p, q, x, y : <<p, x>> = <<q, y>> <=> p = q /\ x = y
  /\ \A k \in Keys : k = <<k[1], k[2]>>
<1>1. \A p, x : <<p, x>>[1] = p /\ <<p, x>>[2] = x
  BY Zenon
<1>2. \A p, q, x, y : <<p, x>> = <<q, y>> <=> p = q /\ x = y
  BY Zenon
<1>3. \A k \in Keys : k = <<k[1], k[2]>>
  BY DEF Keys, BlockKeys, TxKeys
<1> QED
  BY <1>1, <1>2, <1>3, Zenon

(* Which keys there are.                                                    *)
LEMMA KeyKinds ==
  /\ \A k \in BlockKeys : k[1] \in {"H", "P", "BH"} /\ k[2] \in BlockSet
  /\ \A k \in TxKeys : \/ k[1] \in {"height", "event", "later"} /\ k[2] \in TxSet
                       \/ k[1] = "hash" /\ k[2] \in Hashes
  /\ \A h \in BlockSet : {<<"H", h>>, <<"P", h>>, <<"BH", h>>} \subseteq BlockKeys
  /\ \A t \in TxSet : {<<"height", t>>, <<"event", t>>, <<"hash", HashOf[t]>>} \subseteq TxKeys
  /\ \A h \in Hashes : <<"hash", h>> \in TxKeys
  /\ \A h \in BlockSet : {<<"H", h>>, <<"P", h>>} \subseteq AskedKeys
  /\ \A t \in TxSet : <<"height", t>> \in AskedKeys
  /\ \A a \in AskedKeys : \/ a[1] \in {"H", "P"} /\ a[2] \in BlockSet
                          \/ a[1] = "height" /\ a[2] \in TxSet
  /\ AskedKeys \subseteq Keys /\ Keys = BlockKeys \cup TxKeys
  /\ \A k \in Absent : k[1] \in {"hash", "event"}
<1>1. /\ \A k \in BlockKeys : k[1] \in {"H", "P", "BH"} /\ k[2] \in BlockSet
      /\ \A h \in BlockSet : {<<"H", h>>, <<"P", h>>, <<"BH", h>>} \subseteq BlockKeys
  BY DEF BlockKeys
<1>2. /\ \A k \in TxKeys : \/ k[1] \in {"height", "event", "later"} /\ k[2] \in TxSet
                           \/ k[1] = "hash" /\ k[2] \in Hashes
      /\ \A h \in Hashes : <<"hash", h>> \in TxKeys
  BY Zenon DEF TxKeys
<1>3. \A t \in TxSet : {<<"height", t>>, <<"event", t>>, <<"hash", HashOf[t]>>} \subseteq TxKeys
  <2>1. \A t \in TxSet : HashOf[t] \in Hashes
    BY Zenon DEF Hashes
  <2> QED
    BY <2>1 DEF TxKeys
<1>4. /\ \A h \in BlockSet : {<<"H", h>>, <<"P", h>>} \subseteq AskedKeys
      /\ \A t \in TxSet : <<"height", t>> \in AskedKeys
      /\ \A a \in AskedKeys : \/ a[1] \in {"H", "P"} /\ a[2] \in BlockSet
                              \/ a[1] = "height" /\ a[2] \in TxSet
  BY DEF AskedKeys
<1>5. AskedKeys \subseteq Keys
  BY Zenon DEF AskedKeys, Keys, BlockKeys, TxKeys
<1>6. \A k \in Absent : k[1] \in {"hash", "event"}
  BY PatchAssumption
<1> QED
  BY <1>1, <1>2, <1>3, <1>4, <1>5, <1>6, Zenon DEF Keys

(* What is patched without a question is patched on account of a key that   *)
(* the operator may be asked about.                                         *)
LEMMA GroundKinds ==
  /\ \A k : Grounds(k) \subseteq AskedKeys
  /\ \A a \in AskedKeys : Grounds(a) = {a}
  /\ \A h \in BlockSet : Grounds(<<"BH", h>>) = {<<"H", h>>}
  /\ \A t \in TxSet : Grounds(<<"event", t>>) = {<<"height", t>>}
  /\ \A t \in TxSet : <<"height", t>> \in Grounds(<<"hash", HashOf[t]>>)
<1>1. \A k : Grounds(k) \subseteq AskedKeys
  BY Zenon DEF Grounds
<1>2. ASSUME NEW a \in AskedKeys, NEW b \in Grounds(a) PROVE b = a
  BY KeyKinds, KeyParts DEF Grounds
<1>3. \A a \in AskedKeys : a \in Grounds(a)
  BY Zenon DEF Grounds
<1>4. ASSUME NEW h \in BlockSet, NEW b \in AskedKeys
      PROVE  b \in Grounds(<<"BH", h>>) <=> b = <<"H", h>>
  <2>1. b = <<b[1], b[2]>> /\ b[1] # "BH"
    BY KeyKinds, KeyParts, Zenon
  <2> QED
    BY <2>1, KeyParts DEF Grounds
<1>5. ASSUME NEW t \in TxSet, NEW b \in AskedKeys
      PROVE  b \in Grounds(<<"event", t>>) <=> b = <<"height", t>>
  <2>1. b = <<b[1], b[2]>> /\ b[1] # "event"
    BY KeyKinds, KeyParts, Zenon
  <2> QED
    BY <2>1, KeyParts DEF Grounds
<1>6. ASSUME NEW t \in TxSet PROVE <<"height", t>> \in Grounds(<<"hash", HashOf[t]>>)
  BY KeyKinds, KeyParts, Zenon DEF Grounds
<1>7. \A a \in AskedKeys : Grounds(a) = {a}
  BY <1>2, <1>3, Zenon
<1>8. ASSUME NEW h \in BlockSet PROVE Grounds(<<"BH", h>>) = {<<"H", h>>}
  <2>1. <<"H", h>> \in AskedKeys
    BY KeyKinds, Zenon
  <2> QED
    BY <1>1, <1>4, <2>1, Zenon
<1>9. ASSUME NEW t \in TxSet PROVE Grounds(<<"event", t>>) = {<<"height", t>>}
  BY <1>1, <1>5, KeyKinds
<1> QED
  BY <1>1, <1>6, <1>7, <1>8, <1>9, Zenon

-----------------------------------------------------------------------------
(* What the invariant says of the target.                                   *)

(* The empty collections of a new run.                                      *)
LEMMA NothingCollected ==
  /\ Range(<<>>) = {} /\ Range(NoInfo) = {}
  /\ <<>> \in Seq(Hashes) /\ NoInfo \in [DOMAIN NoInfo -> TxSet]
<1>1. NoInfo \in [DOMAIN NoInfo -> TxSet] /\ Range(NoInfo) = {}
  BY Zenon DEF NoInfo, Range
<1>2. Range(<<>>) = {} /\ <<>> \in Seq(Hashes)
  BY DEF Range
<1> QED
  BY <1>1, <1>2, Zenon

(* What a key approved for a height touches belongs to that height.         *)
LEMMA TouchedOfHeight ==
  ASSUME NEW k \in Keys, NEW a \in Grounds(k), Approved(a)
  PROVE  HeightsOf(k) \cap Heights # {}
<1>1. /\ a \in AskedKeys
      /\ \/ k = a
         \/ a[1] = "H" /\ k = <<"BH", a[2]>>
         \/ a[1] = "height" /\ k \in {<<"event", a[2]>>, <<"hash", HashOf[a[2]]>>}
  BY Zenon DEF Grounds
<1>2. CASE a[1] \in {"H", "P"}
  <2>1. a[2] \in Heights /\ a[2] \in BlockSet
    BY <1>1, <1>2, KeyKinds, Zenon DEF Approved, shouldProcessKey
  <2>2. k[2] = a[2] /\ k \in BlockKeys
    BY <1>1, <1>2, <2>1, KeyKinds, KeyParts DEF AskedKeys, BlockKeys
  <2> QED
    BY <2>1, <2>2, Zenon DEF HeightsOf
<1>3. CASE a[1] = "height"
  <2>1. HeightOf[a[2]] \in Heights /\ a[2] \in TxSet
    BY <1>1, <1>3, KeyKinds, Zenon DEF Approved, shouldProcessKey
  <2>2. /\ k[1] \in {"height", "event", "hash"}
        /\ k[1] = "hash" => k[2] = HashOf[a[2]]
        /\ k[1] # "hash" => k[2] = a[2]
    BY <1>1, <1>3, KeyParts
  <2>3. k \notin BlockKeys
    BY <2>2, KeyKinds, Zenon
  <2>4. CASE k[1] = "hash"
    BY <2>1, <2>2, <2>3, <2>4, Zenon DEF HeightsOf
  <2>5. CASE k[1] # "hash"
    BY <2>1, <2>2, <2>3, <2>5, Zenon DEF HeightsOf
  <2> QED
    BY <2>4, <2>5, Zenon
<1> QED
  BY <1>1, <1>2, <1>3, KeyKinds, Zenon

(* What a run changes, it changes on account of an approved key.            *)
LEMMA ChangeFacts ==
  ASSUME PatchInv, NEW k \in Keys, target[k] # before[k]
  PROVE  ~dryRun /\ k \in KeysOf(db) /\ \E a \in Grounds(k) : Approved(a)
BY Zenon DEF PatchInv, WorkInv, TouchedInv, Touched

(* The invariant gives OnlyChosenKeysChange: a change needs an approved key. *)
LEMMA InvImpliesChosen == PatchInv => OnlyChosenKeysChange
<1> SUFFICES ASSUME PatchInv, NEW k \in Keys, target[k] # before[k]
             PROVE  /\ ~dryRun /\ HeightsOf(k) \cap Heights # {}
                    /\ k \in (IF db = "blockstore" THEN BlockKeys ELSE TxKeys)
  BY Zenon DEF OnlyChosenKeysChange
<1> QED
  BY ChangeFacts, TouchedOfHeight, Zenon DEF KeysOf

(* The invariant gives DeclinedIsKept: a declined key is no ground for      *)
(* anything.                                                                *)
LEMMA InvImpliesKept == PatchInv => DeclinedIsKept
<1> SUFFICES ASSUME PatchInv, NEW k \in declined
             PROVE  /\ target[k] = before[k]
                    /\ k[1] = "H" => target[<<"BH", k[2]>>] = before[<<"BH", k[2]>>]
                    /\ k[1] = "height" =>
                         /\ target[<<"event", k[2]>>] = before[<<"event", k[2]>>]
                         /\ (\A t \in TxSet : HashOf[t] = HashOf[k[2]] /\ HeightOf[t] \in Heights
                               => <<"height", t>> \in declined)
                            => target[<<"hash", HashOf[k[2]]>>] = before[<<"hash", HashOf[k[2]]>>]
  BY Zenon DEF DeclinedIsKept
<1>1. k \in AskedKeys /\ k \in Keys /\ ~Approved(k)
  BY Zenon DEF PatchInv, DecidedInv, TypeOK, Approved
<1>2. ASSUME NEW x \in Keys, Grounds(x) \subseteq {k} PROVE target[x] = before[x]
  BY <1>1, <1>2, ChangeFacts, Zenon
<1>3. target[k] = before[k]
  BY <1>1, <1>2, GroundKinds, Zenon
<1>4. ASSUME k[1] = "H" PROVE target[<<"BH", k[2]>>] = before[<<"BH", k[2]>>]
  <2>1. k[2] \in BlockSet /\ k = <<"H", k[2]>>
    BY <1>1, <1>4, KeyKinds, KeyParts, Zenon
  <2>2. <<"BH", k[2]>> \in Keys
    BY <2>1, KeyKinds, Zenon DEF Keys
  <2>3. Grounds(<<"BH", k[2]>>) \subseteq {k}
    BY <2>1, GroundKinds, Zenon
  <2> QED
    BY <1>2, <2>2, <2>3, Zenon
<1>5. ASSUME k[1] = "height"
      PROVE  /\ target[<<"event", k[2]>>] = before[<<"event", k[2]>>]
             /\ (\A t \in TxSet : HashOf[t] = HashOf[k[2]] /\ HeightOf[t] \in Heights
                   => <<"height", t>> \in declined)
                => target[<<"hash", HashOf[k[2]]>>] = before[<<"hash", HashOf[k[2]]>>]
  <2>1. k[2] \in TxSet /\ k = <<"height", k[2]>>
    BY <1>1, <1>5, KeyKinds, KeyParts, Zenon
  <2>2. <<"event", k[2]>> \in Keys /\ <<"hash", HashOf[k[2]]>> \in Keys
    BY <2>1, KeyKinds, Zenon DEF Keys
  <2>3. Grounds(<<"event", k[2]>>) \subseteq {k}
    BY <2>1, GroundKinds, Zenon
  <2>4. target[<<"event", k[2]>>] = before[<<"event", k[2]>>]
    BY <1>2, <2>2, <2>3, Zenon
  <2>5. ASSUME target[<<"hash", HashOf[k[2]]>>] # before[<<"hash", HashOf[k[2]]>>]
        PROVE  \E t \in TxSet : /\ HashOf[t] = HashOf[k[2]] /\ HeightOf[t] \in Heights
                                /\ <<"height", t>> \notin declined
    <3>1. PICK a \in Grounds(<<"hash", HashOf[k[2]]>>) : Approved(a)
      BY <2>2, <2>5, ChangeFacts, Zenon
    <3>2. a \in AskedKeys /\ a[1] = "height" /\ HashOf[a[2]] = HashOf[k[2]]
      <4>1. /\ a \in AskedKeys
            /\ \/ <<"hash", HashOf[k[2]]>> = a
               \/ a[1] = "H" /\ <<"hash", HashOf[k[2]]>> = <<"BH", a[2]>>
               \/ /\ a[1] = "height"
                  /\ <<"hash", HashOf[k[2]]>> \in {<<"event", a[2]>>, <<"hash", HashOf[a[2]]>>}
        BY Zenon DEF Grounds
      <4> QED
        BY <4>1, KeyKinds, KeyParts
    <3>3. a[2] \in TxSet /\ a = <<"height", a[2]>>
      BY <3>2, KeyKinds, KeyParts, Zenon
    <3>4. HeightOf[a[2]] \in Heights /\ a \notin declined
      BY <3>1, <3>2, Zenon DEF Approved, shouldProcessKey
    <3> QED
      BY <3>2, <3>3, <3>4, Zenon
  <2> QED
    BY <2>4, <2>5, Zenon
<1> QED
  BY <1>3, <1>4, <1>5, Zenon

(* When a run has ended, nothing is pending and the batch is written.       *)
LEMMA DoneFacts ==
  ASSUME PatchInv, pc = "done"
  PROVE  /\ \A k : ~Pending(k)
         /\ ~errors => \A k : Settled(k) => Brought(k)
         /\ ~errors => \A k : Settled(k) /\ k[1] \notin {"hash", "event"} => target[k] = "source"
<1>1. todo = <<>> /\ batch = {}
  BY Zenon DEF PatchInv, WorkInv, Phases
<1>2. \A k : ~Pending(k)
  BY <1>1, NothingCollected, Zenon DEF Pending
<1>3. ASSUME ~errors, NEW k, Settled(k) PROVE Brought(k)
  BY <1>1, <1>3, Zenon DEF Settled, Brought
<1>4. ASSUME ~errors, NEW k, Settled(k), k[1] \notin {"hash", "event"} PROVE target[k] = "source"
  BY <1>1, <1>4, KeyKinds, Zenon DEF Settled
<1> QED
  BY <1>2, <1>3, <1>4, Zenon

(* When a run over the tx index has ended, an approved inclusion is whole.  *)
LEMMA ApprovedTxIsWhole ==
  ASSUME PatchInv, pc = "done", ~dryRun, db = "tx_index", NEW t \in TxSet,
         Approved(<<"height", t>>)
  PROVE  /\ Settled(<<"height", t>>) /\ Settled(<<"hash", HashOf[t]>>)
         /\ Traced(t) /\ ~LaterInclusion(t) /\ <<"event", t>> \notin lost =>
              Settled(<<"event", t>>)
<1>1. TxComplete(t) /\ CollectedComplete
  <2>1. pc # "idle"
    BY Zenon
  <2> QED
    BY <2>1, Zenon DEF PatchInv, CompleteInv
<1>2. ethTxInfos \in [DOMAIN ethTxInfos -> TxSet]
  BY Zenon DEF PatchInv, TypeOK
<1>3. \A e \in DOMAIN ethTxInfos : ethTxInfos[e] \in Range(ethTxInfos)
  BY Zenon DEF Range
<1> QED
  BY <1>1, <1>3, DoneFacts, Zenon DEF TxComplete, CollectedComplete

(* The invariant gives PatchedTxIsWhole: what was added was approved, and    *)
(* what was approved was collected and patched.                             *)
LEMMA InvImpliesWhole == PatchInv => PatchedTxIsWhole
<1> SUFFICES ASSUME PatchInv, pc = "done", ~errors, NEW t \in TxSet,
                    target[<<"height", t>>] # "none", before[<<"height", t>>] = "none"
             PROVE  /\ <<"hash", HashOf[t]>> \in Absent \/ target[<<"hash", HashOf[t]>>] # "none"
                    /\ Traced(t) /\ ~LaterInclusion(t) /\ <<"event", t>> \notin lost \cup Absent
                         => target[<<"event", t>>] # "none"
  BY Zenon DEF PatchedTxIsWhole
<1>1. <<"height", t>> \in AskedKeys /\ <<"height", t>> \in Keys /\ <<"height", t>> \notin BlockKeys
  BY KeyKinds, KeyParts, Zenon DEF Keys
<1>2. ~dryRun /\ <<"height", t>> \in KeysOf(db) /\ Approved(<<"height", t>>)
  BY <1>1, ChangeFacts, GroundKinds, Zenon
<1>3. db = "tx_index"
  BY <1>1, <1>2, Zenon DEF KeysOf, PatchInv, TypeOK
<1>4. \A k : Settled(k) => k \in Absent \/ target[k] # "none"
  BY DoneFacts, Zenon DEF Brought
<1> QED
  BY <1>2, <1>3, <1>4, ApprovedTxIsWhole, Zenon

(* The invariant gives RerunCompletes: a key of the chosen heights that was  *)
(* neither declined nor lost was approved.                                  *)
LEMMA InvImpliesRerun == PatchInv => RerunCompletes
<1> SUFFICES ASSUME PatchInv, pc = "done", ~dryRun, ~errors
             PROVE  /\ db = "blockstore" =>
                         \A h \in BlockSet \cap Heights :
                           /\ \A p \in {"H", "P"} :
                                <<p, h>> \in declined \/ target[<<p, h>>] = "source"
                           /\ \/ <<"H", h>> \in declined \/ <<"BH", h>> \in lost
                              \/ target[<<"BH", h>>] = "source"
                    /\ db = "tx_index" =>
                         \A t \in {u \in TxSet : HeightOf[u] \in Heights} :
                           \/ <<"height", t>> \in declined \cup lost
                           \/ /\ target[<<"height", t>>] = "source"
                              /\ Brought(<<"hash", HashOf[t]>>)
                              /\ Traced(t) /\ ~LaterInclusion(t) /\ <<"event", t>> \notin lost
                                   => Brought(<<"event", t>>)
  BY Zenon DEF RerunCompletes
<1>1. \A k : shouldProcessKey(k) /\ k \notin declined \cup lost => Approved(k)
  BY DoneFacts, Zenon DEF Approved
<1>2. ASSUME db = "blockstore", NEW h \in BlockSet \cap Heights
      PROVE  /\ \A p \in {"H", "P"} : <<p, h>> \in declined \/ target[<<p, h>>] = "source"
             /\ <<"H", h>> \in declined \/ <<"BH", h>> \in lost \/ target[<<"BH", h>>] = "source"
  <2>1. \A p \in {"H", "P"} : <<p, h>> \notin lost
    BY KeyParts, Zenon DEF PatchInv, DecidedInv
  <2>2. \A p \in {"H", "P"} : <<p, h>> \in declined \/ Approved(<<p, h>>)
    BY <1>1, <2>1, KeyParts, Zenon DEF shouldProcessKey
  <2>3. BlockComplete(h)
    <3>1. pc # "idle"
      BY Zenon
    <3> QED
      BY <1>2, <3>1, Zenon DEF PatchInv, CompleteInv
  <2>4. \A p \in {"H", "P", "BH"} : Settled(<<p, h>>) => target[<<p, h>>] = "source"
    BY DoneFacts, KeyParts, Zenon
  <2> QED
    BY <2>2, <2>3, <2>4, Zenon DEF BlockComplete
<1>3. ASSUME db = "tx_index", NEW t \in TxSet, HeightOf[t] \in Heights,
             <<"height", t>> \notin declined \cup lost
      PROVE  /\ target[<<"height", t>>] = "source" /\ Brought(<<"hash", HashOf[t]>>)
             /\ Traced(t) /\ ~LaterInclusion(t) /\ <<"event", t>> \notin lost
                  => Brought(<<"event", t>>)
  <2>1. Approved(<<"height", t>>)
    BY <1>1, <1>3, KeyParts, Zenon DEF shouldProcessKey
  <2>2. Settled(<<"height", t>>) => target[<<"height", t>>] = "source"
    BY DoneFacts, KeyParts, Zenon
  <2>3. \A k : Settled(k) => Brought(k)
    BY DoneFacts, Zenon
  <2> QED
    BY <1>3, <2>1, <2>2, <2>3, ApprovedTxIsWhole, Zenon
<1> QED
  BY <1>2, <1>3, Zenon

-----------------------------------------------------------------------------
(* The batch.                                                               *)

Values == {"none", "old", "source"}

(* The keys A are added to the batch, which is then kept, written or, in a  *)
(* dry run, dropped.                                                        *)
Puts(A) ==
  \/ target' = target /\ batch' = batch \cup A
  \/ ~dryRun /\ target' = Written(batch \cup A) /\ batch' = {}
  \/ dryRun /\ target' = target /\ batch' = {}

(* What becomes of a key in such a step.                                    *)
LEMMA PutsFacts ==
  ASSUME TypeOK, NEW A \in SUBSET Keys, Puts(A)
  PROVE  /\ target' \in [Keys -> Values] /\ batch' \subseteq batch \cup A
         /\ dryRun => target' = target
         /\ \A k \in Keys :
              \/ target'[k] = target[k]
              \/ ~dryRun /\ k \in batch \cup A /\ target'[k] = "source"
         /\ ~dryRun => \A k \in batch \cup A : k \in batch' \/ target'[k] = "source"
<1>1. target \in [Keys -> Values] /\ batch \subseteq Keys
  BY Zenon DEF TypeOK, Values
<1>2. CASE target' = target /\ batch' = batch \cup A
  BY <1>1, <1>2, Zenon
<1>3. CASE ~dryRun /\ target' = Written(batch \cup A) /\ batch' = {}
  <2>1. /\ target' \in [Keys -> Values]
        /\ \A k \in Keys : target'[k] = IF k \in batch \cup A THEN "source" ELSE target[k]
    BY <1>1, <1>3, Zenon DEF Written, Values
  <2> QED
    BY <1>1, <1>3, <2>1, Zenon
<1>4. CASE dryRun /\ target' = target /\ batch' = {}
  BY <1>1, <1>4, Zenon
<1> QED
  BY <1>2, <1>3, <1>4, Zenon DEF Puts

(* The steps of the code on the batch: nothing, the rest of it is written,  *)
(* or keys are set.                                                         *)
LEMMA BatchSteps ==
  ASSUME TypeOK
  PROVE  /\ Leave => Puts({}) /\ batchCount' \in 0 .. BatchSize - 1
         /\ WriteRest => Puts({}) /\ batchCount' \in 0 .. BatchSize - 1 /\ batch' = {}
         /\ \A k, others :
              Patch(k, others) => Puts({k} \cup others) /\ batchCount' \in 0 .. BatchSize - 1
<1>1. batchCount \in 0 .. BatchSize - 1 /\ dryRun \in BOOLEAN /\ 0 \in 0 .. BatchSize - 1
  BY PatchAssumption DEF TypeOK
<1>2. ASSUME NEW b, WriteBatch(b)
      PROVE  /\ batch' = {} /\ batchCount' \in 0 .. BatchSize - 1
             /\ IF dryRun THEN target' = target ELSE target' = Written(b)
  BY <1>1, <1>2, Zenon DEF WriteBatch
<1>3. batch \cup {} = batch
  BY Zenon
<1>4. ASSUME NEW k, NEW others, Patch(k, others)
      PROVE  Puts({k} \cup others) /\ batchCount' \in 0 .. BatchSize - 1
  <2> DEFINE b == batch \cup {k} \cup others
  <2>1. b = batch \cup ({k} \cup others)
    BY Zenon
  <2>2. CASE batchCount + 1 >= BatchSize
    <3>1. WriteBatch(b)
      BY <1>4, <2>2, Zenon DEF Patch
    <3> QED
      BY <1>1, <1>2, <2>1, <3>1, Zenon DEF Puts
  <2>3. CASE ~(batchCount + 1 >= BatchSize)
    <3>1. batch' = b /\ batchCount' = batchCount + 1 /\ target' = target
      BY <1>4, <2>3, Zenon DEF Patch
    <3>2. batchCount' \in 0 .. BatchSize - 1
      BY <1>1, <2>3, <3>1, PatchAssumption
    <3> QED
      BY <2>1, <3>1, <3>2, Zenon DEF Puts
  <2> QED
    BY <2>2, <2>3, Zenon
<1> QED
  BY <1>1, <1>2, <1>3, <1>4, Zenon DEF Leave, WriteRest, Puts

(* What the run is done with stays so, if "skip" does where it matters.     *)
LEMMA SettledStays ==
  ASSUME TypeOK, ~dryRun, NEW A \in SUBSET Keys, Puts(A), errors => errors'
  PROVE  /\ \A k \in A : Settled(k)'
         /\ \A k \in Keys :
              Settled(k) /\ (k[1] \notin {"hash", "event"} \/ strategy' = strategy) => Settled(k)'
<1>1. /\ \A k \in Keys : target'[k] = target[k] \/ target'[k] = "source"
      /\ \A k \in batch \cup A : k \in batch' \/ target'[k] = "source"
  BY PutsFacts, Zenon
<1>2. \A k \in Keys : target[k] = "source" => target'[k] = "source"
  BY <1>1, Zenon
<1>3. "source" # "none"
  BY Zenon
<1>4. \A k \in Keys : target[k] # "none" => target'[k] # "none"
  BY <1>1, <1>3, Zenon
<1> QED
  BY <1>1, <1>2, <1>4, Zenon DEF Settled

-----------------------------------------------------------------------------
(* Keys that are approved, and those that are touched on their account.     *)

(* Only keys that are pending are declined or lost, and none is pending     *)
(* again.                                                                   *)
Onward ==
  \A a \in AskedKeys :
    /\ Pending(a)' => Pending(a)
    /\ a \in declined' \cup lost' => a \in declined \cup lost \/ Pending(a)

(* In such a step, what is approved stays so.                               *)
LEMMA ApprovedStays == ASSUME Onward PROVE \A a \in AskedKeys : Approved(a) => Approved(a)'
BY Zenon DEF Onward, Approved, shouldProcessKey

(* A step may touch more keys on account of keys it approves.               *)
LEMMA TouchedStays ==
  ASSUME TypeOK, TouchedInv, NEW A \in SUBSET Keys, Puts(A), Onward,
         UNCHANGED <<before, db>>,
         \A k \in Keys :
           k \in A \/ (Collected(k)' /\ ~Collected(k)) =>
             k \in KeysOf(db) /\ \E a \in Grounds(k) : Approved(a)'
  PROVE  TouchedInv'
<1> SUFFICES ASSUME NEW k \in Keys, Touched(k)'
             PROVE  k \in KeysOf(db)' /\ \E a \in Grounds(k) : Approved(a)'
  BY Zenon DEF TouchedInv, Grounds
<1>1. KeysOf(db)' = KeysOf(db)
  BY Zenon DEF KeysOf
<1>2. Touched(k) \/ k \in A \/ (Collected(k)' /\ ~Collected(k))
  <2>1. /\ batch' \subseteq batch \cup A
        /\ target'[k] = target[k] \/ k \in batch \cup A
    BY PutsFacts, Zenon
  <2> QED
    BY <2>1, Zenon DEF Touched
<1>3. Touched(k) => k \in KeysOf(db) /\ \E a \in Grounds(k) : Approved(a)'
  BY ApprovedStays, GroundKinds, Zenon DEF TouchedInv
<1> QED
  BY <1>1, <1>2, <1>3, Zenon

-----------------------------------------------------------------------------
(* Work that is left.                                                       *)

(* A phase begins with all of s, and what is left after one step is an end  *)
(* of s again.                                                              *)
LEMMA RestSteps ==
  ASSUME NEW X, NEW s \in Seq(X)
  PROVE  /\ todo' = s => IsRestOf(s)'
         /\ IsRestOf(s) /\ todo # <<>> /\ todo' = Tail(todo) => IsRestOf(s)'
<1>1. s \in Seq(Range(s))
  BY DEF Range
<1>2. ASSUME todo' = s PROVE IsRestOf(s)'
  BY <1>1, <1>2 DEF IsRestOf
<1>3. ASSUME IsRestOf(s), todo # <<>>, todo' = Tail(todo) PROVE IsRestOf(s)'
  <2>1. todo \in Seq(Range(s)) /\ Len(todo) <= Len(s) /\ Len(s) \in Nat
    BY <1>3 DEF IsRestOf
  <2>2. /\ todo' \in Seq(Range(s)) /\ Len(todo') = Len(todo) - 1 /\ Len(todo) \in Nat \ {0}
        /\ \A i \in 1 .. Len(todo') : todo'[i] = todo[i + 1]
    BY <1>3, <2>1
  <2>3. ASSUME NEW i \in 1 .. Len(todo') PROVE todo'[i] = s[Len(s) - Len(todo') + i]
    <3>1. i + 1 \in 1 .. Len(todo) /\ Len(s) - Len(todo) + (i + 1) = Len(s) - Len(todo') + i
      BY <2>1, <2>2
    <3>2. todo[i + 1] = s[Len(s) - Len(todo) + (i + 1)]
      BY <1>3, <3>1, Zenon DEF IsRestOf
    <3> QED
      BY <2>2, <3>1, <3>2, Zenon
  <2>4. Len(todo') <= Len(s)
    BY <2>1, <2>2
  <2> QED
    BY <2>2, <2>3, <2>4, Zenon DEF IsRestOf
<1> QED
  BY <1>2, <1>3, Zenon

(* An end of s has no element twice if s has none, and what is not in it    *)
(* comes before it.                                                         *)
LEMMA RestFacts ==
  ASSUME NEW X, NEW s \in Seq(X), IsInjective(s), IsRestOf(s)
  PROVE  /\ todo \in Seq(Range(s)) /\ IsInjective(todo)
         /\ todo # <<>> =>
              \A x \in Range(s) \ Range(todo) :
                \E i, j \in DOMAIN s : i < j /\ s[i] = x /\ s[j] = Head(todo)
<1> DEFINE d == Len(s) - Len(todo)
<1>1. /\ todo \in Seq(Range(s)) /\ Len(s) \in Nat /\ Len(todo) \in Nat /\ d \in Nat
      /\ DOMAIN s = 1 .. Len(s) /\ DOMAIN todo = 1 .. Len(todo)
  BY DEF IsRestOf
<1>2. \A i \in 1 .. Len(todo) : todo[i] = s[d + i] /\ d + i \in 1 .. Len(s)
  <2>1. \A i \in 1 .. Len(todo) : d + i \in 1 .. Len(s)
    BY <1>1
  <2> QED
    BY <2>1, Zenon DEF IsRestOf
<1> HIDE DEF d
<1>3. IsInjective(todo)
  <2> SUFFICES ASSUME NEW i \in 1 .. Len(todo), NEW j \in 1 .. Len(todo), todo[i] = todo[j]
               PROVE  i = j
    BY <1>1, Zenon DEF IsInjective
  <2>1. d + i = d + j
    BY <1>1, <1>2, Zenon DEF IsInjective
  <2> QED
    BY <1>1, <2>1
<1>4. ASSUME todo # <<>>, NEW x \in Range(s) \ Range(todo)
      PROVE  \E i, j \in DOMAIN s : i < j /\ s[i] = x /\ s[j] = Head(todo)
  <2>1. PICK i \in 1 .. Len(s) : s[i] = x
    BY <1>1, Zenon DEF Range
  <2>2. Head(todo) = todo[1] /\ 1 \in 1 .. Len(todo)
    BY <1>1, <1>4
  <2>3. i < d + 1
    <3> SUFFICES ASSUME i >= d + 1 PROVE FALSE
      BY <1>1
    <3>1. i - d \in 1 .. Len(todo) /\ d + (i - d) = i
      BY <1>1 DEF d
    <3>2. todo[i - d] = x
      BY <1>2, <2>1, <3>1, Zenon
    <3> QED
      BY <1>1, <3>1, <3>2, Zenon DEF Range
  <2> QED
    BY <1>1, <1>2, <2>1, <2>2, <2>3, Zenon
<1> QED
  BY <1>1, <1>3, <1>4, Zenon

(* In a step of a phase one key ceases to be pending.                       *)
LEMMA Advance ==
  ASSUME NEW X, todo \in Seq(X), todo # <<>>, todo' = Tail(todo), pc' = pc
  PROVE  /\ Head(todo) \in X /\ todo' \in Seq(X)
         /\ \A k : Pending(k)' => Pending(k)
         /\ \A k : Pending(k) /\ ~Pending(k)' => k[1] = pc /\ k[2] = Head(todo)
         /\ \A k : k = Key => Pending(k)
         /\ IsInjective(todo) /\ pc \in {"H", "P", "height"} =>
              \A k : k = Key => ~Pending(k)'
<1>1. /\ Head(todo) \in X /\ Head(todo) \in Range(todo) /\ Tail(todo) \in Seq(X)
      /\ Range(todo) = {Head(todo)} \cup Range(Tail(todo))
      /\ IsInjective(todo) => Head(todo) \notin Range(Tail(todo))
  BY HeadTail, Zenon
<1>2. ASSUME NEW k, k = Key PROVE k[1] = pc /\ k[2] = Head(todo)
  BY <1>2, Zenon DEF Key
<1>3. ASSUME NEW k, k = Key, IsInjective(todo), pc \in {"H", "P", "height"} PROVE ~Pending(k)'
  <2>1. pc' = k[1] /\ k[2] \notin Range(todo')
    BY <1>1, <1>2, <1>3, Zenon
  <2> QED
    BY <1>3, <2>1, Zenon DEF Pending
<1>4. \A k : Pending(k)' => Pending(k)
  BY <1>1, Zenon DEF Pending
<1>5. \A k : Pending(k) /\ ~Pending(k)' => k[1] = pc /\ k[2] = Head(todo)
  BY <1>1, Zenon DEF Pending
<1>6. \A k : k = Key => Pending(k)
  BY <1>1, <1>2, Zenon DEF Pending
<1> QED
  BY <1>1, <1>3, <1>4, <1>5, <1>6, Zenon

(* What Lose takes note of.                                                 *)
LEMMA LoseFacts ==
  ASSUME NEW ks, Lose(ks)
  PROVE  /\ lost' \subseteq lost \cup ks
         /\ \A k \in lost : k \in lost' \/ (k[1] = "BH" /\ target'[k] = "source")
         /\ ~dryRun => \A k \in ks : k \in lost' \/ (k[1] = "BH" /\ target'[k] = "source")
<1>1. lost' = {k \in lost \cup (IF dryRun THEN {} ELSE ks) : k[1] = "BH" => target'[k] # "source"}
  BY Zenon DEF Lose
<1> QED
  BY <1>1, Zenon

(* Only the key at hand is approved in a step that declines and loses none  *)
(* but it.                                                                  *)
LEMMA NewlyApproved ==
  ASSUME NEW X, todo \in Seq(X), todo # <<>>, todo' = Tail(todo), pc' = pc,
         declined \subseteq declined', \A a \in AskedKeys : a \in lost => a \in lost'
  PROVE  \A a \in AskedKeys : Approved(a)' /\ ~Approved(a) => a = Key
<1> SUFFICES ASSUME NEW a \in AskedKeys, Approved(a)', ~Approved(a) PROVE a = Key
  BY Zenon
<1>1. Pending(a) /\ ~Pending(a)'
  BY Zenon DEF Approved, shouldProcessKey
<1>2. a[1] = pc /\ a[2] = Head(todo)
  BY <1>1, Advance, Zenon
<1> QED
  <2>1. a \in Keys
    BY KeyKinds, Zenon
  <2> QED
    BY <1>2, <2>1, KeyParts, Zenon DEF Key

-----------------------------------------------------------------------------
(* What each part of the invariant needs of a step.                         *)

(* What is lost stays so, but for BH: keys that are written.                *)
StaysLost == \A k \in lost : k \in lost' \/ (k[1] = "BH" /\ target'[k] = "source")

(* A step that loses no keys.                                               *)
LEMMA LoseNone == ASSUME Lose({}) PROVE lost' \subseteq lost /\ StaysLost
<1>1. /\ lost' \subseteq lost \cup {}
      /\ \A k \in lost : k \in lost' \/ (k[1] = "BH" /\ target'[k] = "source")
  BY LoseFacts, Zenon
<1> QED
  BY <1>1, Zenon DEF StaysLost

(* A block that is found by its hash stays so if no H: key is set without   *)
(* its BH: key.                                                             *)
LEMMA FoundStays ==
  ASSUME TypeOK, BatchInv, BlockFoundByHash, NEW A \in SUBSET Keys, Puts(A),
         dryRun' = dryRun, StaysLost,
         ~dryRun => \A h \in BlockSet :
           <<"H", h>> \in A =>
             <<"BH", h>> \in A \cup lost' \/ target'[<<"BH", h>>] = "source"
  PROVE  BatchInv' /\ BlockFoundByHash'
<1>1. SUFFICES ASSUME NEW h \in BlockSet
               PROVE  /\ ~dryRun /\ <<"H", h>> \in batch' =>
                           <<"BH", h>> \in batch' \cup lost' \/ target'[<<"BH", h>>] = "source"
                      /\ target'[<<"H", h>>] = "source" /\ <<"BH", h>> \notin lost' =>
                           target'[<<"BH", h>>] = "source"
  BY Zenon DEF BatchInv, BlockFoundByHash
<1> DEFINE H == <<"H", h>>
           BH == <<"BH", h>>
<1>2. H \in Keys /\ BH \in Keys
  BY KeyKinds, Zenon
<1>3. BH \in lost => BH \in lost' \/ target'[BH] = "source"
  BY Zenon DEF StaysLost
<1>4. ~dryRun /\ H \in A => BH \in A \/ BH \in lost' \/ target'[BH] = "source"
  BY Zenon
<1>5. ~dryRun /\ H \in batch => BH \in batch \/ BH \in lost \/ target[BH] = "source"
  BY Zenon DEF BatchInv
<1>6. target[H] = "source" => BH \in lost \/ target[BH] = "source"
  BY Zenon DEF BlockFoundByHash
<1>7. /\ target'[BH] = target[BH] \/ target'[BH] = "source"
      /\ ~dryRun /\ (BH \in batch \/ BH \in A) => BH \in batch' \/ target'[BH] = "source"
      /\ H \in batch' => H \in batch \/ H \in A
      /\ target'[H] = target[H] \/ (~dryRun /\ (H \in batch \/ H \in A))
  BY <1>2, PutsFacts, Zenon
<1>8. ~dryRun /\ target'[H] # target[H] => batch' = {}
  BY Zenon DEF Puts
<1> HIDE DEF H, BH
<1>9. ~dryRun /\ H \in batch' => BH \in batch' \cup lost' \/ target'[BH] = "source"
  BY <1>3, <1>4, <1>5, <1>7, Zenon
<1>10. target'[H] = "source" /\ BH \notin lost' => target'[BH] = "source"
  <2>1. CASE target'[H] = target[H]
    BY <1>3, <1>6, <1>7, <2>1, Zenon
  <2>2. CASE target'[H] # target[H]
    BY <1>3, <1>4, <1>5, <1>7, <1>8, <2>2, Zenon
  <2> QED
    BY <2>1, <2>2, Zenon
<1> QED
  BY <1>9, <1>10, Zenon DEF H, BH

(* A run of the blockstore leaves no approved key behind if it is done with *)
(* those it approves.                                                       *)
LEMMA BlocksStay ==
  ASSUME TypeOK, ~dryRun, NEW A \in SUBSET Keys, Puts(A), errors => errors',
         StaysLost, \A h \in BlockSet : BlockComplete(h),
         \A h \in BlockSet :
           /\ \A p \in {"H", "P"} :
                Approved(<<p, h>>)' /\ ~Approved(<<p, h>>) => Settled(<<p, h>>)'
           /\ Approved(<<"H", h>>)' /\ ~Approved(<<"H", h>>) =>
                <<"BH", h>> \in lost' \/ Settled(<<"BH", h>>)'
  PROVE  \A h \in BlockSet : BlockComplete(h)'
<1> SUFFICES ASSUME NEW h \in BlockSet PROVE BlockComplete(h)'
  BY Zenon
<1>1. \A k \in {<<"H", h>>, <<"P", h>>, <<"BH", h>>} : Settled(k) => Settled(k)'
  <2>1. {<<"H", h>>, <<"P", h>>, <<"BH", h>>} \subseteq Keys
    BY KeyKinds
  <2>2. \A k \in {<<"H", h>>, <<"P", h>>, <<"BH", h>>} : k[1] \notin {"hash", "event"}
    OBVIOUS
  <2> QED
    BY <2>1, <2>2, SettledStays, Zenon
<1>2. ASSUME NEW p \in {"H", "P"}, Approved(<<p, h>>)' PROVE Settled(<<p, h>>)'
  BY <1>1, <1>2, Zenon DEF BlockComplete
<1>3. ASSUME Approved(<<"H", h>>)' PROVE <<"BH", h>> \in lost' \/ Settled(<<"BH", h>>)'
  <2>1. <<"BH", h>> \in lost => <<"BH", h>> \in lost' \/ Settled(<<"BH", h>>)'
    BY Zenon DEF StaysLost, Settled
  <2> QED
    BY <1>1, <1>3, <2>1, Zenon DEF BlockComplete
<1> QED
  BY <1>2, <1>3, Zenon DEF BlockComplete

(* So does a run of the tx index, if it collects for them, and displaces an *)
(* Ethereum tx only by a later inclusion.                                   *)
LEMMA TxsStay ==
  ASSUME TypeOK, ~dryRun, NEW A \in SUBSET Keys, Puts(A), errors => errors',
         StaysLost, \A t \in TxSet : TxComplete(t),
         Range(txhashes) \subseteq Range(txhashes'),
         \A t \in TxSet :
           /\ Approved(<<"height", t>>)' /\ ~Approved(<<"height", t>>) => TxComplete(t)'
           /\ Approved(<<"height", t>>) =>
                \/ LaterInclusion(t)
                \/ HashOf[t] \in DOMAIN ethTxInfos =>
                     /\ HashOf[t] \in DOMAIN ethTxInfos'
                     /\ ethTxInfos'[HashOf[t]] = ethTxInfos[HashOf[t]]
  PROVE  \A t \in TxSet : TxComplete(t)'
<1> SUFFICES ASSUME NEW t \in TxSet, Approved(<<"height", t>>), Approved(<<"height", t>>)'
             PROVE  TxComplete(t)'
  BY Zenon DEF TxComplete
<1>1. /\ Settled(<<"height", t>>) /\ HashOf[t] \in Range(txhashes)
      /\ Traced(t) /\ ~LaterInclusion(t) /\ <<"event", t>> \notin lost =>
           HashOf[t] \in DOMAIN ethTxInfos /\ ethTxInfos[HashOf[t]] = t
  BY Zenon DEF TxComplete
<1>2. Settled(<<"height", t>>)'
  BY <1>1, SettledStays, KeyKinds, KeyParts, Zenon
<1>3. HashOf[t] \in Range(txhashes)'
  BY <1>1, Zenon
<1>4. <<"event", t>> \in lost => <<"event", t>> \in lost'
  BY KeyParts, Zenon DEF StaysLost
<1>5. LaterInclusion(t)' <=> LaterInclusion(t)
  BY Zenon DEF LaterInclusion
<1> QED
  BY <1>1, <1>2, <1>3, <1>4, <1>5, Zenon DEF TxComplete

(* The types after a step of a run.                                         *)
LEMMA TypeStays ==
  ASSUME TypeOK, NEW A \in SUBSET Keys, Puts(A), batchCount' \in 0 .. BatchSize - 1,
         UNCHANGED run, pc' \in Phases \cup {"idle", "done"},
         strategy' \in {"ask", "skip", "replaceAll"}, declined' \subseteq Keys,
         lost' \subseteq Keys, errors' \in BOOLEAN, failures' = failures \/ FailsRead,
         txhashes' \in Seq(Hashes), ethTxInfos' \in [DOMAIN ethTxInfos' -> TxSet]
  PROVE  TypeOK'
<1>1. target' \in [Keys -> Values] /\ batch' \subseteq Keys
  <2>1. batch \subseteq Keys
    BY Zenon DEF TypeOK
  <2> QED
    BY <2>1, PutsFacts, Zenon
<1>2. failures' \in 0 .. MaxFailures
  BY PatchAssumption DEF TypeOK, FailsRead
<1>3. /\ before' \in [Keys -> Values] /\ db' \in {"blockstore", "tx_index"}
      /\ dryRun' \in BOOLEAN /\ runs' \in 0 .. MaxRuns
  BY Zenon DEF TypeOK, run, Values
<1> QED
  BY <1>1, <1>2, <1>3, Zenon DEF TypeOK, Values

(* The key at which an iterator is.                                         *)
LEMMA IteratorFacts ==
  ASSUME TypeOK, WorkInv, DecidedInv, pc \in {"H", "P", "height"}, todo # <<>>,
         todo' = Tail(todo), pc' = pc
  PROVE  /\ pc \in {"H", "P"} => Head(todo) \in BlockSet
         /\ pc = "height" => Head(todo) \in TxSet
         /\ Key \in AskedKeys /\ Key[1] = pc /\ Key[2] = Head(todo)
         /\ Key \notin declined \cup lost
         /\ \A k : Pending(k)' => Pending(k)
         /\ \A k : Pending(k) /\ ~Pending(k)' => k[1] = pc /\ k[2] = Head(todo)
         /\ \A k : k = Key => Pending(k) /\ ~Pending(k)'
         /\ pc \in {"H", "P"} => IsRestOf(Blocks)'
         /\ pc = "height" => IsRestOf(Txs)'
         /\ \E X : todo \in Seq(X)
<1>1. Key[1] = pc /\ Key[2] = Head(todo)
  BY Zenon DEF Key
<1>2. ASSUME pc \in {"H", "P"}
      PROVE  todo \in Seq(BlockSet) /\ IsInjective(todo) /\ IsRestOf(Blocks)'
  <2>1. IsRestOf(Blocks) /\ Blocks \in Seq(Nat) /\ IsInjective(Blocks)
    BY <1>2, PatchAssumption, Zenon DEF WorkInv
  <2> QED
    BY <2>1, RestFacts, RestSteps, Zenon DEF BlockSet
<1>3. ASSUME pc = "height"
      PROVE  todo \in Seq(TxSet) /\ IsInjective(todo) /\ IsRestOf(Txs)'
  <2>1. IsRestOf(Txs) /\ Txs \in Seq(TxSet) /\ IsInjective(Txs)
    BY <1>3, PatchAssumption, Zenon DEF WorkInv
  <2> QED
    BY <2>1, RestFacts, RestSteps, Zenon DEF TxSet
<1>4. PICK X : todo \in Seq(X) /\ IsInjective(todo)
  BY <1>2, <1>3, Zenon
<1>5. /\ \A k : Pending(k)' => Pending(k)
      /\ \A k : Pending(k) /\ ~Pending(k)' => k[1] = pc /\ k[2] = Head(todo)
      /\ \A k : k = Key => Pending(k) /\ ~Pending(k)'
  BY <1>4, Advance, Zenon
<1>6. pc \in {"H", "P"} => Head(todo) \in BlockSet
  BY <1>2, HeadTail, Zenon
<1>7. pc = "height" => Head(todo) \in TxSet
  BY <1>3, HeadTail, Zenon
<1>8. Key \in AskedKeys
  BY <1>6, <1>7, Zenon DEF Key, AskedKeys
<1>9. Key \notin declined \cup lost
  BY <1>5, <1>8, Zenon DEF DecidedInv
<1> QED
  BY <1>1, <1>2, <1>3, <1>4, <1>5, <1>6, <1>7, <1>8, <1>9, Zenon

(* A step of an iterator that decides about the key at hand only.           *)
LEMMA IteratorStays ==
  ASSUME TypeOK, WorkInv, DecidedInv, pc \in {"H", "P", "height"}, todo # <<>>,
         todo' = Tail(todo), pc' = pc, UNCHANGED run, NEW A \in SUBSET Keys, Puts(A),
         declined' \subseteq declined \cup {Key},
         \A k \in lost' \ lost : k[1] \in {"BH", "event"} \/ (pc = "height" /\ k = Key)
  PROVE  WorkInv' /\ DecidedInv' /\ Onward
<1>1. /\ Key \in AskedKeys /\ Key[1] = pc
      /\ \A k : Pending(k)' => Pending(k)
      /\ \A k : k = Key => Pending(k) /\ ~Pending(k)'
      /\ pc \in {"H", "P"} => IsRestOf(Blocks)'
      /\ pc = "height" => IsRestOf(Txs)'
  BY IteratorFacts, Zenon
<1>2. \A a \in AskedKeys : a[1] \notin {"BH", "event"}
  BY KeyKinds, Zenon
<1>3. \A a \in AskedKeys : a \in declined' \cup lost' => a \in declined \cup lost \/ a = Key
  BY <1>2, Zenon
<1>4. WorkInv'
  <2>1. db' = db /\ dryRun' = dryRun /\ before' = before
    BY Zenon DEF run
  <2>2. dryRun => target' = target
    BY PutsFacts, Zenon
  <2>3. pc' \in Phases /\ pc' \notin {"hash", "event"}
    BY Zenon DEF Phases
  <2> QED
    BY <1>1, <2>1, <2>2, <2>3, Zenon DEF WorkInv
<1>5. DecidedInv'
  <2>1. declined' \subseteq AskedKeys
    BY <1>1, Zenon DEF DecidedInv
  <2>2. ASSUME NEW k \in lost' PROVE k[1] \notin {"H", "P"}
    BY <1>1, <2>2, Zenon DEF DecidedInv
  <2>3. \A a \in (declined' \cup lost') \cap AskedKeys : ~Pending(a)'
    BY <1>1, <1>3, Zenon DEF DecidedInv
  <2> QED
    BY <2>1, <2>2, <2>3, Zenon DEF DecidedInv
<1>6. Onward
  BY <1>1, <1>3, Zenon DEF Onward
<1> QED
  BY <1>4, <1>5, <1>6, Zenon

(* A step of the blockstore's iterators is complete if it is done with the  *)
(* key it approves.                                                         *)
LEMMA BlockIteratorComplete ==
  ASSUME TypeOK, WorkInv, DecidedInv, CompleteInv, pc \in {"H", "P"}, todo # <<>>,
         todo' = Tail(todo), pc' = pc, UNCHANGED run, NEW A \in SUBSET Keys, Puts(A),
         errors => errors', declined \subseteq declined', StaysLost,
         ~dryRun => \A h \in BlockSet :
           h = Head(todo) /\ Approved(<<pc, h>>)' =>
             /\ Settled(<<pc, h>>)'
             /\ pc = "H" => <<"BH", h>> \in lost' \/ Settled(<<"BH", h>>)'
  PROVE  CompleteInv'
<1>1. db = "blockstore" /\ db' = db /\ dryRun' = dryRun
  BY Zenon DEF WorkInv, run
<1> SUFFICES ASSUME ~dryRun PROVE \A h \in BlockSet : BlockComplete(h)'
  BY <1>1, Zenon DEF CompleteInv
<1>2. PICK X : todo \in Seq(X)
  BY IteratorFacts, Zenon
<1>3. \A a \in AskedKeys : a \in lost => a \in lost'
  BY KeyKinds, Zenon DEF StaysLost
<1>4. \A a \in AskedKeys : Approved(a)' /\ ~Approved(a) => a = Key
  BY <1>2, <1>3, NewlyApproved, Zenon
<1>5. ASSUME NEW h \in BlockSet, NEW p \in {"H", "P"},
             Approved(<<p, h>>)', ~Approved(<<p, h>>)
      PROVE  p = pc /\ h = Head(todo)
  <2>1. <<p, h>> \in AskedKeys
    BY KeyKinds, Zenon
  <2>2. <<p, h>> = Key
    BY <1>4, <1>5, <2>1, Zenon
  <2> QED
    BY <2>2, KeyParts, Zenon DEF Key
<1>6. pc # "idle" /\ \A h \in BlockSet : BlockComplete(h)
  BY <1>1, Zenon DEF CompleteInv
<1>7. \A h \in BlockSet :
        /\ \A p \in {"H", "P"} :
             Approved(<<p, h>>)' /\ ~Approved(<<p, h>>) => Settled(<<p, h>>)'
        /\ Approved(<<"H", h>>)' /\ ~Approved(<<"H", h>>) =>
             <<"BH", h>> \in lost' \/ Settled(<<"BH", h>>)'
  BY <1>5, Zenon
<1> QED
  BY <1>6, <1>7, BlocksStay, Zenon

(* A step over the tx.height keys is complete if it is done with the key it *)
(* approves and has collected what goes with it.                            *)
LEMMA TxIteratorComplete ==
  ASSUME TypeOK, WorkInv, DecidedInv, CompleteInv, pc = "height", todo # <<>>,
         todo' = Tail(todo), pc' = pc, UNCHANGED run, NEW A \in SUBSET Keys, Puts(A),
         errors => errors', declined \subseteq declined', StaysLost,
         Range(txhashes) \subseteq Range(txhashes'),
         ~dryRun => \A t \in TxSet :
           /\ t = Head(todo) /\ Approved(<<"height", t>>)' => TxComplete(t)'
           /\ Approved(<<"height", t>>) =>
                \/ LaterInclusion(t)
                \/ HashOf[t] \in DOMAIN ethTxInfos =>
                     /\ HashOf[t] \in DOMAIN ethTxInfos'
                     /\ ethTxInfos'[HashOf[t]] = ethTxInfos[HashOf[t]]
  PROVE  CompleteInv'
<1>1. db = "tx_index" /\ db' = db /\ dryRun' = dryRun
  BY Zenon DEF WorkInv, run
<1>2. CollectedComplete'
  BY Zenon DEF CollectedComplete, Pending
<1> SUFFICES ASSUME ~dryRun PROVE \A t \in TxSet : TxComplete(t)'
  BY <1>1, <1>2, Zenon DEF CompleteInv
<1>3. PICK X : todo \in Seq(X)
  BY IteratorFacts, Zenon
<1>4. \A a \in AskedKeys : a \in lost => a \in lost'
  BY KeyKinds, Zenon DEF StaysLost
<1>5. \A a \in AskedKeys : Approved(a)' /\ ~Approved(a) => a = Key
  BY <1>3, <1>4, NewlyApproved, Zenon
<1>6. ASSUME NEW t \in TxSet, Approved(<<"height", t>>)', ~Approved(<<"height", t>>)
      PROVE  t = Head(todo)
  <2>1. <<"height", t>> = Key
    BY <1>5, <1>6, KeyKinds, Zenon
  <2> QED
    BY <2>1, KeyParts, Zenon DEF Key
<1>7. \A t \in TxSet : TxComplete(t)
  BY <1>1, Zenon DEF CompleteInv
<1>8. \A t \in TxSet :
        /\ Approved(<<"height", t>>)' /\ ~Approved(<<"height", t>>) => TxComplete(t)'
        /\ Approved(<<"height", t>>) =>
             \/ LaterInclusion(t)
             \/ HashOf[t] \in DOMAIN ethTxInfos =>
                  /\ HashOf[t] \in DOMAIN ethTxInfos'
                  /\ ethTxInfos'[HashOf[t]] = ethTxInfos[HashOf[t]]
  BY <1>6, Zenon
<1> QED
  BY <1>7, <1>8, TxsStay, Zenon

-----------------------------------------------------------------------------
(* The steps.                                                               *)

(* Whether a key is of a chosen height does not depend on the state.        *)
LEMMA ParsedKey == ASSUME NEW k PROVE shouldProcessKey(k)' <=> shouldProcessKey(k)
BY Zenon DEF shouldProcessKey

(* A key of another height is passed over.                                  *)
LEMMA PassOverInv == ASSUME PatchInv, PassOver PROVE PatchInv'
<1> USE DEF PatchInv
<1>1. /\ pc \in {"H", "P", "height"} /\ todo # <<>> /\ ~shouldProcessKey(Key)
      /\ todo' = Tail(todo) /\ pc' = pc /\ UNCHANGED run /\ Leave
      /\ UNCHANGED <<strategy, txhashes, ethTxInfos, errors, declined, lost, failures>>
  BY Zenon DEF PassOver
<1>2. Puts({}) /\ batchCount' \in 0 .. BatchSize - 1 /\ {} \in SUBSET Keys
  BY <1>1, BatchSteps, Zenon
<1>3. before' = before /\ db' = db /\ dryRun' = dryRun
  BY <1>1, Zenon DEF run
<1>4. TypeOK'
  BY <1>1, <1>2, TypeStays, Zenon DEF TypeOK
<1>5. WorkInv' /\ DecidedInv' /\ Onward
  BY <1>1, <1>2, IteratorStays, Zenon
<1>6. TouchedInv'
  <2>1. \A k \in Keys : k \notin {} /\ (Collected(k)' => Collected(k))
    BY <1>1, Zenon DEF Collected
  <2> QED
    BY <1>2, <1>3, <1>5, <2>1, TouchedStays, Zenon
<1>7. StaysLost
  BY <1>1, Zenon DEF StaysLost
<1>8. BatchInv' /\ BlockFoundByHash'
  BY <1>2, <1>3, <1>7, FoundStays, Zenon
<1>9. \A x : x = Head(todo) => ~Approved(<<pc, x>>)'
  BY <1>1, ParsedKey, Zenon DEF Approved, Key
<1>10. CompleteInv'
  <2>1. CASE pc \in {"H", "P"}
    BY <1>1, <1>2, <1>7, <1>9, <2>1, BlockIteratorComplete, Zenon
  <2>2. CASE pc = "height"
    BY <1>1, <1>2, <1>7, <1>9, <2>2, TxIteratorComplete, Zenon
  <2> QED
    BY <1>1, <2>1, <2>2, Zenon
<1> QED
  BY <1>4, <1>5, <1>6, <1>8, <1>10, Zenon

(* What an answer does to the strategy and to what is declined.             *)
LEMMA ResolveFacts ==
  ASSUME NEW a \in Answers, Resolve(a)
  PROVE  /\ strategy' \in {"ask", "skip", "replaceAll"} /\ a.write \in BOOLEAN
         /\ a.write => declined' = declined
         /\ ~a.write => declined' = declined \cup {Key}
<1>1. a.write \in BOOLEAN /\ a.strategy \in {"ask", "skip", "replaceAll"}
  BY Zenon DEF Answers
<1>2. strategy' = a.strategy /\ declined' = IF a.write THEN declined ELSE declined \cup {Key}
  BY Zenon DEF Resolve
<1> QED
  BY <1>1, <1>2, Zenon

(* The key at hand is approved if nothing is lost or declined with it.      *)
LEMMA KeyApproved ==
  ASSUME TypeOK, WorkInv, DecidedInv, pc \in {"H", "P", "height"}, todo # <<>>,
         todo' = Tail(todo), pc' = pc, shouldProcessKey(Key), declined' = declined,
         \A k \in lost' \ lost : k[1] \in {"BH", "event"}
  PROVE  \A k : k = Key => Approved(k)'
<1> SUFFICES ASSUME NEW k, k = Key PROVE Approved(k)'
  BY Zenon
<1>1. k \in AskedKeys /\ k \notin declined \cup lost /\ ~Pending(k)'
  BY IteratorFacts, Zenon
<1>2. k[1] \notin {"BH", "event"}
  BY <1>1, KeyKinds, Zenon
<1>3. k \notin declined' \cup lost'
  BY <1>1, <1>2, Zenon
<1> QED
  BY <1>1, <1>3, ParsedKey, Zenon DEF Approved

(* A key of the blockstore is set in the batch, an H: key with its BH: key  *)
(* unless that could not be read.                                           *)
LEMMA PatchBlockInv ==
  ASSUME PatchInv, NEW a \in Answers, NEW found \in BOOLEAN, PatchBlockKey(a, found), a.write
  PROVE  PatchInv'
<1> USE DEF PatchInv
<1>1. /\ pc \in {"H", "P"} /\ todo # <<>> /\ shouldProcessKey(Key)
      /\ todo' = Tail(todo) /\ pc' = pc /\ UNCHANGED run /\ Resolve(a)
      /\ patchSingleKey(Key, found) /\ UNCHANGED <<txhashes, ethTxInfos, errors>>
  BY Zenon DEF PatchBlockKey
<1>2. /\ pc \in {"H", "P", "height"} /\ Head(todo) \in BlockSet
      /\ Key \in AskedKeys /\ Key[1] = pc /\ Key[2] = Head(todo)
  <2>1. pc \in {"H", "P", "height"}
    BY <1>1, Zenon
  <2> QED
    BY <1>1, <2>1, IteratorFacts, Zenon
<1> DEFINE bh == IF pc = "H" THEN {<<"BH", Head(todo)>>} ELSE {}
           A == {Key} \cup (IF found THEN bh ELSE {})
<1>3. bh \subseteq BlockKeys /\ \A k \in bh : k[1] = "BH"
  <2>1. <<"BH", Head(todo)>> \in BlockKeys
    BY <1>2, KeyKinds, Zenon
  <2> QED
    BY <2>1
<1>4. Key \in BlockKeys /\ Key \in Keys
  BY <1>1, <1>2, KeyKinds, Zenon DEF Key
<1>5. /\ Patch(Key, IF found THEN bh ELSE {}) /\ Lose(IF found THEN {} ELSE bh)
      /\ failures' = failures \/ FailsRead
  BY <1>1, <1>2, Zenon DEF patchSingleKey
<1>6. A \in SUBSET Keys /\ A \subseteq BlockKeys
  BY <1>3, <1>4, Zenon DEF Keys
<1>7. Puts(A) /\ batchCount' \in 0 .. BatchSize - 1
  BY <1>5, BatchSteps, Zenon
<1>8. /\ lost' \subseteq lost \cup bh /\ StaysLost
      /\ ~dryRun /\ ~found => \A k \in bh : k \in lost' \/ target'[k] = "source"
  <2>1. CASE found
    <3>1. Lose({})
      BY <1>5, <2>1, Zenon
    <3>2. lost' \subseteq lost /\ StaysLost
      BY <3>1, LoseNone, Zenon
    <3> HIDE DEF bh
    <3> QED
      BY <2>1, <3>2, Zenon
  <2>2. CASE ~found
    <3>1. Lose(bh)
      BY <1>5, <2>2, Zenon
    <3> HIDE DEF bh
    <3> QED
      BY <3>1, LoseFacts, Zenon DEF StaysLost
  <2> QED
    BY <2>1, <2>2, Zenon
<1>9. before' = before /\ db' = db /\ dryRun' = dryRun /\ db = "blockstore"
  BY <1>1, Zenon DEF run, WorkInv
<1>10. strategy' \in {"ask", "skip", "replaceAll"} /\ declined' = declined
  BY <1>1, ResolveFacts, Zenon
<1>11. \A k \in lost' \ lost : k[1] \in {"BH", "event"}
  BY <1>3, <1>8, Zenon
<1> HIDE DEF A
<1>12. TypeOK'
  <2>1. lost' \subseteq Keys
    BY <1>3, <1>8, Zenon DEF TypeOK, Keys
  <2>2. pc' \in Phases \cup {"idle", "done"} /\ declined' \subseteq Keys
    BY <1>1, <1>10, Zenon DEF TypeOK
  <2> QED
    BY <1>1, <1>5, <1>6, <1>7, <1>10, <2>1, <2>2, TypeStays, Zenon DEF TypeOK
<1>13. WorkInv' /\ DecidedInv' /\ Onward
  <2>1. declined' \subseteq declined \cup {Key}
    BY <1>10, Zenon
  <2> QED
    BY <1>1, <1>2, <1>6, <1>7, <1>10, <1>11, <2>1, IteratorStays, Zenon
<1>14. \A k : k = Key => Approved(k)'
  BY <1>1, <1>2, <1>10, <1>11, KeyApproved, Zenon
<1>15. TouchedInv'
  <2>1. \A k \in Keys : Collected(k)' => Collected(k)
    BY <1>1, Zenon DEF Collected
  <2>2. ASSUME NEW k \in A PROVE k \in KeysOf(db) /\ \E b \in Grounds(k) : Approved(b)'
    <3>1. k \in KeysOf(db)
      BY <1>6, <1>9, <2>2, Zenon DEF KeysOf
    <3>2. CASE k = Key
      BY <1>2, <1>14, <3>1, <3>2, GroundKinds, Zenon
    <3>3. CASE k # Key
      <4>1. pc = "H" /\ k = <<"BH", Head(todo)>>
        BY <2>2, <3>3, Zenon DEF A
      <4>2. Key \in Grounds(k)
        BY <1>2, <4>1, GroundKinds, ZenonT(30) DEF Key
      <4> QED
        BY <1>14, <3>1, <4>2, Zenon
    <3> QED
      BY <3>2, <3>3, Zenon
  <2> QED
    BY <1>6, <1>7, <1>9, <1>13, <2>1, <2>2, TouchedStays, Zenon
<1>16. ASSUME ~dryRun, NEW h \in BlockSet, <<"H", h>> \in A
       PROVE  <<"BH", h>> \in A \cup lost' \/ target'[<<"BH", h>>] = "source"
  <2>1. <<"H", h>> = Key
    BY <1>3, <1>16, KeyParts, Zenon DEF A
  <2>2. <<"BH", h>> \in bh
    BY <2>1, KeyParts, Zenon DEF Key
  <2> QED
    BY <1>8, <1>16, <2>2, Zenon DEF A
<1>17. BatchInv' /\ BlockFoundByHash'
  BY <1>6, <1>7, <1>8, <1>9, <1>16, FoundStays, Zenon
<1>18. CompleteInv'
  <2>2. ASSUME ~dryRun PROVE \A k \in A : Settled(k)'
    <3>1. declined \subseteq declined' /\ (errors => errors')
      BY <1>1, <1>10, Zenon
    <3> QED
      BY <1>6, <1>7, <2>2, <3>1, SettledStays, Zenon
  <2>3. ASSUME ~dryRun, NEW h \in BlockSet, h = Head(todo)
        PROVE  /\ Settled(<<pc, h>>)'
               /\ pc = "H" => <<"BH", h>> \in lost' \/ Settled(<<"BH", h>>)'
    <3>1. <<pc, h>> \in A /\ (pc = "H" => <<"BH", h>> \in bh)
      BY <2>3, Zenon DEF A, Key
    <3>2. ASSUME pc = "H" PROVE <<"BH", h>> \in lost' \/ Settled(<<"BH", h>>)'
      <4>1. CASE found
        BY <2>2, <2>3, <3>1, <3>2, <4>1, Zenon DEF A
      <4>2. CASE ~found
        BY <1>8, <2>3, <3>1, <3>2, <4>2, Zenon DEF Settled
      <4> QED
        BY <4>1, <4>2, Zenon
    <3>3. Settled(<<pc, h>>)'
      BY <1>1, <2>2, <2>3, <3>1, Zenon
    <3> QED
      BY <3>2, <3>3, Zenon
  <2>4. declined \subseteq declined' /\ (errors => errors')
    BY <1>1, <1>10, Zenon
  <2> QED
    BY <1>1, <1>6, <1>7, <1>8, <2>3, <2>4, BlockIteratorComplete, Zenon
<1> QED
  BY <1>12, <1>13, <1>15, <1>17, <1>18, Zenon

(* A key of the blockstore that the operator declines is left.              *)
LEMMA DeclineBlockInv ==
  ASSUME PatchInv, NEW a \in Answers, NEW found \in BOOLEAN, PatchBlockKey(a, found), ~a.write
  PROVE  PatchInv'
<1> USE DEF PatchInv
<1>1. /\ pc \in {"H", "P"} /\ todo # <<>>
      /\ todo' = Tail(todo) /\ pc' = pc /\ UNCHANGED run /\ Resolve(a)
      /\ Leave /\ UNCHANGED <<txhashes, ethTxInfos, errors, lost, failures>>
  BY Zenon DEF PatchBlockKey
<1>2. pc \in {"H", "P", "height"} /\ pc \in Phases
  BY <1>1, Zenon DEF Phases
<1>3. Key \in AskedKeys
  BY <1>1, <1>2, IteratorFacts, Zenon
<1>4. Puts({}) /\ batchCount' \in 0 .. BatchSize - 1 /\ {} \in SUBSET Keys
  BY <1>1, BatchSteps, Zenon
<1>5. strategy' \in {"ask", "skip", "replaceAll"} /\ declined' = declined \cup {Key}
  BY <1>1, ResolveFacts, Zenon
<1>6. before' = before /\ db' = db /\ dryRun' = dryRun
  BY <1>1, Zenon DEF run
<1>7. TypeOK'
  <2>1. declined' \subseteq Keys
    <3>1. Key \in Keys
      BY <1>3, KeyKinds, Zenon
    <3> QED
      BY <1>5, <3>1, Zenon DEF TypeOK
  <2> QED
    BY <1>1, <1>2, <1>4, <1>5, <2>1, TypeStays, Zenon DEF TypeOK
<1>8. WorkInv' /\ DecidedInv' /\ Onward
  BY <1>1, <1>2, <1>4, <1>5, IteratorStays, Zenon
<1>9. TouchedInv'
  <2>1. \A k \in Keys : k \notin {} /\ (Collected(k)' => Collected(k))
    BY <1>1, Zenon DEF Collected
  <2> QED
    BY <1>4, <1>6, <1>8, <2>1, TouchedStays, Zenon
<1>10. StaysLost
  BY <1>1, Zenon DEF StaysLost
<1>11. BatchInv' /\ BlockFoundByHash'
  BY <1>4, <1>6, <1>10, FoundStays, Zenon
<1>12. \A x : x = Head(todo) => ~Approved(<<pc, x>>)'
  BY <1>1, <1>5, Zenon DEF Approved, Key
<1>13. CompleteInv'
  BY <1>1, <1>4, <1>5, <1>10, <1>12, BlockIteratorComplete, Zenon
<1> QED
  BY <1>7, <1>8, <1>9, <1>11, <1>13, Zenon

(* What is collected for an inclusion whose tx.height key is patched.       *)
LEMMA CollectFacts ==
  ASSUME TypeOK, NEW t \in TxSet, NEW found \in BOOLEAN, Collect(t, TRUE, found)
  PROVE  /\ txhashes' \in Seq(Hashes) /\ Range(txhashes') = Range(txhashes) \cup {HashOf[t]}
         /\ ethTxInfos' \in [DOMAIN ethTxInfos' -> TxSet]
         /\ Range(ethTxInfos') \subseteq Range(ethTxInfos) \cup {t}
         /\ found /\ Traced(t) =>
              HashOf[t] \in DOMAIN ethTxInfos' /\ ethTxInfos'[HashOf[t]] = t
         /\ \A e \in DOMAIN ethTxInfos \ {HashOf[t]} :
              e \in DOMAIN ethTxInfos' /\ ethTxInfos'[e] = ethTxInfos[e]
         /\ ~(found /\ Traced(t)) => ethTxInfos' = ethTxInfos
<1>1. txhashes \in Seq(Hashes) /\ ethTxInfos \in [DOMAIN ethTxInfos -> TxSet]
  BY Zenon DEF TypeOK
<1>2. txhashes' = Append(txhashes, HashOf[t]) /\ HashOf[t] \in Hashes
  BY Zenon DEF Collect, Hashes
<1>3. txhashes' \in Seq(Hashes) /\ Range(txhashes') = Range(txhashes) \cup {HashOf[t]}
  <2>1. /\ txhashes' \in Seq(Hashes) /\ Len(txhashes') = Len(txhashes) + 1
        /\ Len(txhashes) \in Nat /\ txhashes'[Len(txhashes) + 1] = HashOf[t]
        /\ \A i \in 1 .. Len(txhashes) : txhashes'[i] = txhashes[i]
        /\ DOMAIN txhashes = 1 .. Len(txhashes) /\ DOMAIN txhashes' = 1 .. Len(txhashes')
    BY <1>1, <1>2
  <2>2. \A i : i \in 1 .. Len(txhashes') <=> i \in 1 .. Len(txhashes) \/ i = Len(txhashes) + 1
    BY <2>1
  <2> QED
    BY <2>1, <2>2, Zenon DEF Range
<1>4. CASE found /\ Traced(t)
  <2>1. ethTxInfos' = [e \in DOMAIN ethTxInfos \cup {HashOf[t]} |->
                         IF e = HashOf[t] THEN t ELSE ethTxInfos[e]]
    BY <1>4, Zenon DEF Collect
  <2>2. DOMAIN ethTxInfos' = DOMAIN ethTxInfos \cup {HashOf[t]}
    BY <2>1, Zenon
  <2>3. \A e \in DOMAIN ethTxInfos' :
          ethTxInfos'[e] = IF e = HashOf[t] THEN t ELSE ethTxInfos[e]
    BY <2>1, <2>2, Zenon
  <2>4. ethTxInfos' \in [DOMAIN ethTxInfos' -> TxSet]
    BY <1>1, <2>1, Zenon
  <2>5. ASSUME NEW x \in Range(ethTxInfos') PROVE x \in Range(ethTxInfos) \cup {t}
    BY <2>2, <2>3, ZenonT(30) DEF Range
  <2>6. ethTxInfos'[HashOf[t]] = t /\ HashOf[t] \in DOMAIN ethTxInfos'
    BY <2>2, <2>3, Zenon
  <2>7. \A e \in DOMAIN ethTxInfos \ {HashOf[t]} :
          e \in DOMAIN ethTxInfos' /\ ethTxInfos'[e] = ethTxInfos[e]
    BY <2>2, <2>3, Zenon
  <2> QED
    BY <1>3, <1>4, <2>4, <2>5, <2>6, <2>7, Zenon
<1>5. CASE ~(found /\ Traced(t))
  <2>1. ethTxInfos' = ethTxInfos
    BY <1>5, Zenon DEF Collect
  <2> QED
    BY <1>1, <1>3, <1>5, <2>1, Zenon
<1> QED
  BY <1>4, <1>5, Zenon

(* A tx.height key is set in the batch, and what goes with it is collected. *)
LEMMA PatchHeightInv ==
  ASSUME PatchInv, NEW a \in Answers, NEW found \in BOOLEAN, PatchTxHeightKey(a, found), a.write
  PROVE  PatchInv'
<1> USE DEF PatchInv
<1>1. /\ pc = "height" /\ todo # <<>> /\ shouldProcessKey(Key)
      /\ todo' = Tail(todo) /\ pc' = pc /\ UNCHANGED run /\ Resolve(a)
      /\ Collect(Head(todo), a.write, found) /\ Patch(Key, {})
      /\ Lose(IF found THEN {} ELSE {<<"event", Head(todo)>>})
      /\ failures' = failures \/ FailsRead
      /\ errors' = errors
  BY Zenon DEF PatchTxHeightKey
<1>2. pc \in {"H", "P", "height"} /\ pc \in Phases
  BY <1>1, Zenon DEF Phases
<1>3. PICK u \in TxSet : u = Head(todo) /\ Key \in AskedKeys /\ Key = <<"height", u>>
  BY <1>1, <1>2, IteratorFacts, Zenon DEF Key
<1> DEFINE A == {Key} \cup {}
<1>4. Key \in TxKeys /\ <<"event", u>> \in TxKeys /\ <<"hash", HashOf[u]>> \in TxKeys
  BY <1>3, KeyKinds, Zenon
<1>5. A \in SUBSET Keys /\ A = {Key}
  BY <1>4, Zenon DEF Keys
<1>6. Puts(A) /\ batchCount' \in 0 .. BatchSize - 1
  BY <1>1, BatchSteps, Zenon
<1>7. Collect(u, TRUE, found)
  <2>1. a.write = TRUE
    BY Zenon DEF Answers
  <2> QED
    BY <1>1, <1>3, <2>1, Zenon
<1>8. /\ lost' \subseteq lost \cup {<<"event", u>>} /\ StaysLost
      /\ ~dryRun /\ ~found => <<"event", u>> \in lost'
  <2>1. CASE found
    <3>1. Lose({})
      BY <1>1, <2>1, Zenon
    <3> QED
      BY <2>1, <3>1, LoseNone, Zenon
  <2>2. CASE ~found
    <3>1. Lose({<<"event", u>>})
      BY <1>1, <1>3, <2>2, Zenon
    <3>2. /\ lost' \subseteq lost \cup {<<"event", u>>} /\ StaysLost
          /\ ~dryRun => <<"event", u>> \in lost' \/ <<"event", u>>[1] = "BH"
      BY <3>1, LoseFacts, Zenon DEF StaysLost
    <3> QED
      BY <3>2, Zenon
  <2> QED
    BY <2>1, <2>2, Zenon
<1>9. before' = before /\ db' = db /\ dryRun' = dryRun /\ db = "tx_index"
  BY <1>1, Zenon DEF run, WorkInv
<1>10. strategy' \in {"ask", "skip", "replaceAll"} /\ declined' = declined
  BY <1>1, ResolveFacts, Zenon
<1>11. \A k \in lost' \ lost : k[1] \in {"BH", "event"}
  <2>1. <<"event", u>>[1] = "event"
    BY KeyParts, Zenon
  <2> QED
    BY <1>8, <2>1, Zenon
<1> HIDE DEF A
<1>12. /\ txhashes' \in Seq(Hashes) /\ Range(txhashes') = Range(txhashes) \cup {HashOf[u]}
       /\ ethTxInfos' \in [DOMAIN ethTxInfos' -> TxSet]
       /\ Range(ethTxInfos') \subseteq Range(ethTxInfos) \cup {u}
       /\ found /\ Traced(u) =>
            HashOf[u] \in DOMAIN ethTxInfos' /\ ethTxInfos'[HashOf[u]] = u
       /\ \A e \in DOMAIN ethTxInfos \ {HashOf[u]} :
            e \in DOMAIN ethTxInfos' /\ ethTxInfos'[e] = ethTxInfos[e]
  BY <1>7, CollectFacts, ZenonT(30)
<1>13. TypeOK'
  <2>1. lost' \subseteq Keys
    BY <1>4, <1>8, Zenon DEF TypeOK, Keys
  <2>2. pc' \in Phases \cup {"idle", "done"} /\ declined' \subseteq Keys
    BY <1>1, <1>10, Zenon DEF TypeOK
  <2> QED
    BY <1>1, <1>5, <1>6, <1>10, <1>12, <2>1, <2>2, TypeStays, Zenon DEF TypeOK
<1>14. WorkInv' /\ DecidedInv' /\ Onward
  <2>1. declined' \subseteq declined \cup {Key}
    BY <1>10, Zenon
  <2> QED
    BY <1>1, <1>2, <1>5, <1>6, <1>10, <1>11, <2>1, IteratorStays, Zenon
<1>15. \A k : k = Key => Approved(k)'
  BY <1>1, <1>2, <1>10, <1>11, KeyApproved, Zenon
<1>16. TouchedInv'
  <2>1. ASSUME NEW k \in Keys, k \in A \/ (Collected(k)' /\ ~Collected(k))
        PROVE  k = Key \/ k = <<"hash", HashOf[u]>> \/ k = <<"event", u>>
    <3>1. k = <<k[1], k[2]>>
      BY KeyParts, Zenon
    <3> QED
      BY <1>5, <1>12, <2>1, <3>1, Zenon DEF Collected
  <2>2. ASSUME NEW k \in {Key, <<"hash", HashOf[u]>>, <<"event", u>>}
        PROVE  k \in KeysOf(db) /\ Key \in Grounds(k)
    <3>1. k \in KeysOf(db)
      BY <1>4, <1>9, <2>2, Zenon DEF KeysOf
    <3>2. Key \in Grounds(k)
      BY <1>3, <2>2, GroundKinds, ZenonT(30)
    <3> QED
      BY <3>1, <3>2, Zenon
  <2> QED
    BY <1>5, <1>6, <1>9, <1>14, <1>15, <2>1, <2>2, TouchedStays, Zenon
<1>17. BatchInv' /\ BlockFoundByHash'
  <2>1. \A h \in BlockSet : <<"H", h>> \notin A
    BY <1>3, <1>5, KeyParts, Zenon
  <2> QED
    BY <1>5, <1>6, <1>8, <1>9, <2>1, FoundStays, Zenon
<1>18. CompleteInv'
  <2>1. declined \subseteq declined' /\ (errors => errors')
    BY <1>1, <1>10, Zenon
  <2>2. ASSUME ~dryRun PROVE TxComplete(u)'
    <3>1. Settled(<<"height", u>>)'
      <4>1. <<"height", u>> \in A /\ <<"height", u>> \in Keys
        BY <1>3, <1>5, Zenon
      <4> QED
        BY <1>5, <1>6, <2>1, <2>2, <4>1, SettledStays, Zenon
    <3>2. HashOf[u] \in Range(txhashes)'
      BY <1>12, Zenon
    <3>3. Traced(u) /\ <<"event", u>> \notin lost' =>
            HashOf[u] \in DOMAIN ethTxInfos' /\ ethTxInfos'[HashOf[u]] = u
      BY <1>8, <1>12, <2>2, Zenon
    <3> QED
      BY <3>1, <3>2, <3>3, Zenon DEF TxComplete
  <2>3. ASSUME NEW t \in TxSet, Approved(<<"height", t>>)
        PROVE  \/ LaterInclusion(t)
               \/ HashOf[t] \in DOMAIN ethTxInfos =>
                    /\ HashOf[t] \in DOMAIN ethTxInfos'
                    /\ ethTxInfos'[HashOf[t]] = ethTxInfos[HashOf[t]]
    <3>1. CASE HashOf[t] # HashOf[u]
      BY <1>12, <3>1, Zenon
    <3>2. CASE HashOf[t] = HashOf[u]
      <4>1. t \notin Range(todo)
        BY <1>1, <2>3, KeyParts, Zenon DEF Approved, Pending
      <4>2. /\ IsRestOf(Txs) /\ Txs \in Seq(TxSet) /\ IsInjective(Txs) /\ t \in Range(Txs)
        BY <1>1, PatchAssumption, Zenon DEF WorkInv, TxSet
      <4>3. \E i, j \in DOMAIN Txs : i < j /\ Txs[i] = t /\ Txs[j] = u
        BY <1>1, <1>3, <4>1, <4>2, RestFacts, Zenon
      <4>4. HeightOf[u] \in Heights
        BY <1>1, <1>3, Zenon DEF shouldProcessKey
      <4> QED
        BY <3>2, <4>3, <4>4, Zenon DEF LaterInclusion
    <3> QED
      BY <3>1, <3>2, Zenon
  <2>4. Range(txhashes) \subseteq Range(txhashes')
    BY <1>12, Zenon
  <2>5. \A t \in TxSet : t = Head(todo) /\ ~dryRun => TxComplete(t)'
    BY <1>3, <2>2, Zenon
  <2> QED
    BY <1>1, <1>5, <1>6, <1>8, <2>1, <2>3, <2>4, <2>5, TxIteratorComplete, Zenon
<1> QED
  BY <1>13, <1>14, <1>16, <1>17, <1>18, Zenon

(* A tx.height key that the operator declines is left, and nothing is       *)
(* collected for it.                                                        *)
LEMMA DeclineHeightInv ==
  ASSUME PatchInv, NEW a \in Answers, NEW found \in BOOLEAN, PatchTxHeightKey(a, found), ~a.write
  PROVE  PatchInv'
<1> USE DEF PatchInv
<1>1. /\ pc = "height" /\ todo # <<>>
      /\ todo' = Tail(todo) /\ pc' = pc /\ UNCHANGED run /\ Resolve(a)
      /\ Leave /\ Lose({}) /\ UNCHANGED <<txhashes, ethTxInfos, errors, failures>>
  BY Zenon DEF PatchTxHeightKey, Collect
<1>2. pc \in {"H", "P", "height"} /\ pc \in Phases
  BY <1>1, Zenon DEF Phases
<1>3. Key \in AskedKeys
  BY <1>1, <1>2, IteratorFacts, Zenon
<1>4. Puts({}) /\ batchCount' \in 0 .. BatchSize - 1 /\ {} \in SUBSET Keys
  BY <1>1, BatchSteps, Zenon
<1>5. strategy' \in {"ask", "skip", "replaceAll"} /\ declined' = declined \cup {Key}
  BY <1>1, ResolveFacts, Zenon
<1>6. before' = before /\ db' = db /\ dryRun' = dryRun
  BY <1>1, Zenon DEF run
<1>7. lost' \subseteq lost /\ StaysLost
  BY <1>1, LoseNone, Zenon
<1>8. TypeOK'
  <2>1. declined' \subseteq Keys /\ lost' \subseteq Keys
    <3>1. Key \in Keys
      BY <1>3, KeyKinds, Zenon
    <3> QED
      BY <1>5, <1>7, <3>1, Zenon DEF TypeOK
  <2> QED
    BY <1>1, <1>2, <1>4, <1>5, <2>1, TypeStays, Zenon DEF TypeOK
<1>9. WorkInv' /\ DecidedInv' /\ Onward
  BY <1>1, <1>2, <1>4, <1>5, <1>7, IteratorStays, Zenon
<1>10. TouchedInv'
  <2>1. \A k \in Keys : k \notin {} /\ (Collected(k)' => Collected(k))
    BY <1>1, Zenon DEF Collected
  <2> QED
    BY <1>4, <1>6, <1>9, <2>1, TouchedStays, Zenon
<1>11. BatchInv' /\ BlockFoundByHash'
  BY <1>4, <1>6, <1>7, FoundStays, Zenon
<1>12. \A x : x = Head(todo) => ~Approved(<<"height", x>>)'
  BY <1>1, <1>5, Zenon DEF Approved, Key
<1>13. CompleteInv'
  BY <1>1, <1>4, <1>5, <1>7, <1>12, TxIteratorComplete, Zenon
<1> QED
  BY <1>8, <1>9, <1>10, <1>11, <1>13, Zenon

(* The key at which a phase is that does not ask was collected.             *)
LEMMA KeyAtHand ==
  ASSUME TypeOK, WorkInv, pc \in {"hash", "event"}, todo # <<>>
  PROVE  Key \in Keys /\ Collected(Key)
<1>1. Range(txhashes) \subseteq Hashes /\ Range(ethTxInfos) \subseteq TxSet
  BY DEF TypeOK, Range
<1>2. Key[1] = pc /\ Key[2] = Head(todo)
  BY KeyParts, Zenon DEF Key
<1>3. CASE pc = "hash"
  <2>1. Key[1] = "hash" /\ Key[2] \in Range(txhashes)
    <3>1. todo \in Seq(Range(txhashes))
      BY <1>3, Zenon DEF WorkInv
    <3>2. Head(todo) \in Range(txhashes)
      BY <3>1, HeadTail, Zenon
    <3> QED
      BY <1>2, <1>3, <3>2, Zenon
  <2>2. Key \in TxKeys
    BY <1>1, <1>2, <1>3, <2>1, KeyKinds, Zenon DEF Key
  <2> QED
    BY <2>1, <2>2, Zenon DEF Collected, Keys
<1>4. CASE pc = "event"
  <2>1. Key[1] = "event" /\ Key[2] \in Range(ethTxInfos)
    <3>1. todo \in Seq(Range(ethTxInfos))
      BY <1>4, Zenon DEF WorkInv
    <3>2. Head(todo) \in Range(ethTxInfos)
      BY <3>1, HeadTail, Zenon
    <3> QED
      BY <1>2, <1>4, <3>2, Zenon
  <2>2. Key \in TxKeys
    BY <1>1, <1>2, <1>4, <2>1, KeyKinds, Zenon DEF Key
  <2> QED
    BY <2>1, <2>2, Zenon DEF Collected, Keys
<1> QED
  BY <1>3, <1>4, Zenon

(* A step of a phase that does not ask: the key at hand was collected, and  *)
(* the run is done with it.                                                 *)
LEMMA LaterPhaseInv ==
  ASSUME PatchInv, pc \in {"hash", "event"}, todo # <<>>, todo' = Tail(todo),
         UNCHANGED <<pc, strategy, txhashes, ethTxInfos, declined>>, UNCHANGED run,
         errors' \in BOOLEAN, errors => errors', failures' = failures \/ FailsRead, Lose({}),
         NEW A \in SUBSET {Key}, Puts(A), batchCount' \in 0 .. BatchSize - 1,
         ~dryRun => \A k : k = Key => Settled(k)'
  PROVE  PatchInv'
<1> USE DEF PatchInv
<1>1. before' = before /\ db' = db /\ dryRun' = dryRun /\ db = "tx_index"
  BY Zenon DEF run, WorkInv
<1>2. lost' \subseteq lost /\ StaysLost
  BY LoseNone, Zenon
<1>3. /\ pc \in Phases /\ pc \notin {"H", "P", "height"}
      /\ pc = "hash" \/ pc = "event"
  BY Zenon DEF Phases
<1>4. PICK X : /\ todo \in Seq(X)
               /\ pc = "hash" => X = Range(txhashes)
               /\ pc = "event" => X = Range(ethTxInfos)
  BY <1>3, Zenon DEF WorkInv
<1>5. /\ Head(todo) \in X /\ todo' \in Seq(X)
      /\ \A k : Pending(k)' => Pending(k)
      /\ \A k : Pending(k) /\ ~Pending(k)' => k[1] = pc /\ k[2] = Head(todo)
  BY <1>4, Advance, Zenon
<1>6. Range(txhashes) \subseteq Hashes /\ Range(ethTxInfos) \subseteq TxSet
  BY DEF TypeOK, Range
<1>7. Key \in Keys /\ Collected(Key)
  BY KeyAtHand, Zenon
<1>8. A \in SUBSET Keys
  BY <1>7, Zenon
<1>9. TypeOK'
  <2>1. lost' \subseteq Keys /\ pc' \in Phases \cup {"idle", "done"}
    BY <1>2, Zenon DEF TypeOK
  <2> QED
    BY <1>8, <2>1, TypeStays, Zenon DEF TypeOK
<1>10. WorkInv'
  <2>1. dryRun => target' = target
    BY <1>8, PutsFacts, Zenon
  <2>2. pc' = "hash" => todo' \in Seq(Range(txhashes'))
    BY <1>4, <1>5, Zenon
  <2>3. pc' = "event" => todo' \in Seq(Range(ethTxInfos'))
    BY <1>4, <1>5, Zenon
  <2> QED
    BY <1>1, <1>3, <2>1, <2>2, <2>3, Zenon DEF WorkInv
<1>11. DecidedInv'
  BY <1>2, <1>5, Zenon DEF DecidedInv
<1>12. Onward
  BY <1>2, <1>5, Zenon DEF Onward
<1>13. TouchedInv'
  <2>1. \A k \in Keys : Collected(k)' => Collected(k)
    BY Zenon DEF Collected
  <2>2. Key \in KeysOf(db) /\ \E b \in Grounds(Key) : Approved(b)
    BY <1>7, Zenon DEF TouchedInv, Touched
  <2>3. \A k \in A : k \in KeysOf(db) /\ \E b \in Grounds(k) : Approved(b)'
    BY <1>12, <2>2, ApprovedStays, GroundKinds, Zenon
  <2> QED
    BY <1>1, <1>8, <1>12, <2>1, <2>3, TouchedStays, Zenon
<1>14. BatchInv' /\ BlockFoundByHash'
  <2>1. \A h \in BlockSet : <<"H", h>> \notin A
    <3>1. \A h \in BlockSet : <<"H", h>> # Key
      BY <1>3, KeyParts, Zenon DEF Key
    <3> QED
      BY <3>1, Zenon
  <2> QED
    BY <1>1, <1>2, <1>8, <2>1, FoundStays, Zenon
<1>15. CompleteInv'
  <2> SUFFICES ASSUME ~dryRun PROVE (\A t \in TxSet : TxComplete(t)') /\ CollectedComplete'
    BY <1>1, Zenon DEF CompleteInv
  <2>1. (\A t \in TxSet : TxComplete(t)) /\ CollectedComplete
    BY <1>1, Zenon DEF CompleteInv
  <2>2. declined \subseteq declined' /\ Range(txhashes) \subseteq Range(txhashes')
    BY Zenon
  <2>3. \A a \in AskedKeys : Approved(a)' => Approved(a)
    <3>1. \A a \in AskedKeys : a[1] # pc /\ a[1] # "BH"
      BY <1>3, KeyKinds, Zenon
    <3>2. \A a \in AskedKeys : Pending(a) => Pending(a)'
      BY <1>5, <3>1, Zenon
    <3>3. \A a \in AskedKeys : a \in declined \cup lost => a \in declined' \cup lost'
      BY <1>2, <3>1, Zenon DEF StaysLost
    <3> QED
      BY <3>2, <3>3, Zenon DEF Approved, shouldProcessKey
  <2>4. \A t \in TxSet : TxComplete(t)'
    <3>1. \A t \in TxSet : Approved(<<"height", t>>)' => Approved(<<"height", t>>)
      BY <2>3, KeyKinds, Zenon
    <3> QED
      BY <1>2, <1>8, <2>1, <2>2, <3>1, TxsStay, Zenon
  <2>5. ASSUME NEW k \in Keys, Pending(k) \/ Settled(k) PROVE Pending(k)' \/ Settled(k)'
    <3>1. CASE Settled(k)
      BY <1>8, <2>2, <3>1, SettledStays, Zenon
    <3>2. CASE Pending(k) /\ ~Pending(k)'
      <4>1. k[1] = pc /\ k[2] = Head(todo)
        BY <1>5, <3>2, Zenon
      <4>2. k = Key
        BY <4>1, KeyParts, Zenon DEF Key
      <4> QED
        BY <4>2, Zenon
    <3> QED
      BY <2>5, <3>1, <3>2, Zenon
  <2>6. /\ \A h \in Range(txhashes) : <<"hash", h>> \in Keys
        /\ \A t \in Range(ethTxInfos) : <<"event", t>> \in Keys
    BY <1>6, KeyKinds, Zenon
  <2>7. CollectedComplete'
    BY <2>1, <2>5, <2>6, Zenon DEF CollectedComplete
  <2> QED
    BY <2>4, <2>7, Zenon
<1> QED
  BY <1>9, <1>10, <1>11, <1>13, <1>14, <1>15, Zenon

(* The phases that do not ask replace the key or, under "skip", keep it.    *)
LEMMA UnaskedInv ==
  ASSUME PatchInv, pc \in {"hash", "event"}, todo # <<>>, todo' = Tail(todo),
         UNCHANGED <<pc, strategy, txhashes, ethTxInfos, declined, errors, failures>>,
         UNCHANGED run, Lose({}), PatchUnasked(Key)
  PROVE  PatchInv'
<1>1. TypeOK /\ WorkInv /\ TouchedInv
  BY Zenon DEF PatchInv
<1>2. errors' \in BOOLEAN /\ (errors => errors')
  BY <1>1, Zenon DEF TypeOK
<1>3. CASE Key \in Absent \/ (target[Key] # "none" /\ strategy = "skip")
  <2>1. Leave
    BY <1>3, Zenon DEF PatchUnasked
  <2>2. Puts({}) /\ batchCount' \in 0 .. BatchSize - 1 /\ {} \in SUBSET {Key}
    BY <1>1, <2>1, BatchSteps, Zenon
  <2>3. strategy' = strategy /\ target' = target
    BY <2>1, Zenon DEF Leave
  <2>4. ASSUME NEW k, k = Key PROVE Settled(k)'
    <3>1. k[1] \in {"hash", "event"}
      BY <2>4, KeyParts, Zenon DEF Key
    <3> QED
      BY <1>3, <2>3, <2>4, <3>1, Zenon DEF Settled
  <2> QED
    BY <1>2, <2>2, <2>4, LaterPhaseInv, Zenon
<1>4. CASE ~(Key \in Absent \/ (target[Key] # "none" /\ strategy = "skip"))
  <2>1. Patch(Key, {})
    BY <1>4, Zenon DEF PatchUnasked
  <2>2. {Key} \cup {} = {Key}
    BY Zenon
  <2>3. Puts({Key}) /\ batchCount' \in 0 .. BatchSize - 1 /\ {Key} \in SUBSET {Key}
    BY <1>1, <2>1, <2>2, BatchSteps, Zenon
  <2>4. ASSUME ~dryRun, NEW k, k = Key PROVE Settled(k)'
    <3>1. CASE target' = target /\ batch' = batch \cup {Key}
      BY <2>4, <3>1, Zenon DEF Settled
    <3>2. CASE target' = Written(batch \cup {Key})
      <4>1. k \in Keys
        BY <1>1, <2>4, KeyAtHand, Zenon
      <4>2. target'[k] = "source"
        BY <2>4, <3>2, <4>1, Zenon DEF Written
      <4> QED
        BY <4>2, Zenon DEF Settled
    <3> QED
      BY <2>3, <2>4, <3>1, <3>2, Zenon DEF Puts
  <2> QED
    BY <1>2, <2>3, <2>4, LaterPhaseInv, Zenon
<1> QED
  BY <1>3, <1>4, Zenon

(* A key that cannot be read is counted or, if it is a tx.height key, lost. *)
LEMMA KeyFailsInv == ASSUME PatchInv, KeyFails PROVE PatchInv'
<1> USE DEF PatchInv
<1>1. /\ pc \in Phases /\ todo # <<>> /\ FailsRead /\ todo' = Tail(todo) /\ Leave
      /\ errors' = (errors \/ pc # "height")
      /\ Lose(IF pc = "height" THEN {Key} ELSE {})
      /\ UNCHANGED <<pc, strategy, txhashes, ethTxInfos, declined>> /\ UNCHANGED run
  BY Zenon DEF KeyFails
<1>2. Puts({}) /\ batchCount' \in 0 .. BatchSize - 1 /\ {} \in SUBSET Keys
  BY <1>1, BatchSteps, Zenon
<1>3. before' = before /\ db' = db /\ dryRun' = dryRun
  BY <1>1, Zenon DEF run
<1>4. errors' \in BOOLEAN /\ (errors => errors')
  BY <1>1, Zenon DEF TypeOK
<1>5. CASE pc \in {"hash", "event"}
  <2>1. Lose({}) /\ errors'
    <3>1. pc # "height"
      BY <1>5, Zenon
    <3> QED
      BY <1>1, <3>1, Zenon
  <2>2. \A k : Settled(k)'
    BY <2>1, Zenon DEF Settled
  <2> QED
    BY <1>1, <1>2, <1>4, <1>5, <2>1, <2>2, LaterPhaseInv, Zenon
<1>6. CASE pc \in {"H", "P", "height"}
  <2>1. Key \in AskedKeys /\ Key \in Keys
    BY <1>1, <1>6, IteratorFacts, KeyKinds, Zenon
  <2>2. /\ lost' \subseteq lost \cup {Key} /\ StaysLost
        /\ pc # "height" => lost' \subseteq lost
        /\ pc = "height" /\ ~dryRun => Key \in lost'
    <3>1. CASE pc = "height"
      <4>1. Lose({Key}) /\ Key[1] # "BH"
        BY <1>1, <3>1, Zenon DEF Key
      <4> QED
        BY <3>1, <4>1, LoseFacts, Zenon DEF StaysLost
    <3>2. CASE pc # "height"
      <4>1. Lose({})
        BY <1>1, <3>2, Zenon
      <4> QED
        BY <3>2, <4>1, LoseNone, Zenon
    <3> QED
      BY <3>1, <3>2, Zenon
  <2>3. TypeOK'
    <3>1. lost' \subseteq Keys /\ pc' \in Phases \cup {"idle", "done"}
      BY <1>1, <2>1, <2>2, Zenon DEF TypeOK
    <3> QED
      BY <1>1, <1>2, <1>4, <3>1, TypeStays, Zenon DEF TypeOK
  <2>4. WorkInv' /\ DecidedInv' /\ Onward
    <3>1. \A k \in lost' \ lost : pc = "height" /\ k = Key
      BY <2>2, Zenon
    <3> QED
      BY <1>1, <1>2, <1>6, <3>1, IteratorStays, Zenon
  <2>5. TouchedInv'
    <3>1. \A k \in Keys : k \notin {} /\ (Collected(k)' => Collected(k))
      BY <1>1, Zenon DEF Collected
    <3> QED
      BY <1>2, <1>3, <2>4, <3>1, TouchedStays, Zenon
  <2>6. BatchInv' /\ BlockFoundByHash'
    BY <1>2, <1>3, <2>2, FoundStays, Zenon
  <2>7. CompleteInv'
    <3>1. CASE pc \in {"H", "P"}
      <4>1. errors'
        BY <1>1, <3>1, Zenon
      <4>2. \A k : Settled(k)'
        BY <4>1, Zenon DEF Settled
      <4> QED
        BY <1>1, <1>2, <1>4, <2>2, <3>1, <4>2, BlockIteratorComplete, Zenon
    <3>2. CASE pc = "height"
      <4>1. ~dryRun => \A x : x = Head(todo) => ~Approved(<<"height", x>>)'
        BY <2>2, <3>2, Zenon DEF Approved, Key
      <4> QED
        BY <1>1, <1>2, <1>4, <2>2, <3>2, <4>1, TxIteratorComplete, Zenon
    <3> QED
      BY <1>6, <3>1, <3>2, Zenon
  <2> QED
    BY <2>3, <2>4, <2>5, <2>6, <2>7, Zenon
<1> QED
  BY <1>1, <1>5, <1>6, Zenon DEF Phases

(* What is left to do of a run, in the phase that begins.                   *)
LEMMA PhaseWork ==
  ASSUME TypeOK, pc \in Phases, pc' = NextPhase, todo' = WorkOf(NextPhase)
  PROVE  /\ pc = "H" => pc' = "P" /\ todo' = Blocks
         /\ pc \in {"P", "event"} => pc' = "done" /\ todo' = <<>>
         /\ pc = "height" => pc' = "hash" /\ todo' = txhashes
         /\ pc = "hash" => pc' = "event" /\ todo' = Filter(Txs, Range(ethTxInfos))
<1>1. /\ pc = "H" => NextPhase = "P"
      /\ pc \in {"P", "event"} => NextPhase = "done"
      /\ pc = "height" => NextPhase = "hash"
      /\ pc = "hash" => NextPhase = "event"
  BY DEF NextPhase
<1>2. /\ WorkOf("P") = Blocks /\ WorkOf("hash") = txhashes /\ WorkOf("done") = <<>>
      /\ WorkOf("event") = Filter(Txs, Range(ethTxInfos))
  BY Zenon DEF WorkOf
<1> QED
  BY <1>1, <1>2, Zenon

(* A phase ends: the rest of the batch is written, and the next phase has   *)
(* all that was collected for it.                                           *)
LEMMA EndPhaseInv == ASSUME PatchInv, EndPhase PROVE PatchInv'
<1> USE DEF PatchInv
<1>1. /\ pc \in Phases /\ todo = <<>> /\ WriteRest /\ Lose({})
      /\ pc' = NextPhase /\ todo' = WorkOf(NextPhase)
      /\ strategy' = IF db = "blockstore" THEN "ask" ELSE strategy
      /\ UNCHANGED <<txhashes, ethTxInfos, errors, declined, failures>> /\ UNCHANGED run
  BY Zenon DEF EndPhase
<1>2. /\ Puts({}) /\ batchCount' \in 0 .. BatchSize - 1 /\ {} \in SUBSET Keys
      /\ batch' = {}
  BY <1>1, BatchSteps, Zenon
<1>3. before' = before /\ db' = db /\ dryRun' = dryRun
  BY <1>1, Zenon DEF run
<1>4. lost' \subseteq lost /\ StaysLost
  BY <1>1, LoseNone, Zenon
<1>5. /\ pc = "H" => pc' = "P" /\ todo' = Blocks
      /\ pc \in {"P", "event"} => pc' = "done" /\ todo' = <<>>
      /\ pc = "height" => pc' = "hash" /\ todo' = txhashes
      /\ pc = "hash" => pc' = "event" /\ todo' = Filter(Txs, Range(ethTxInfos))
  BY <1>1, PhaseWork, Zenon
<1>6. pc \in {"H", "P", "height", "hash", "event"}
  BY <1>1, Zenon DEF Phases
<1>7. Range(<<>>) = {}
  BY DEF Range
<1>8. Range(txhashes) \subseteq Hashes /\ Range(ethTxInfos) \subseteq TxSet
  BY DEF TypeOK, Range
<1>9. /\ Filter(Txs, Range(ethTxInfos)) \in Seq(Range(ethTxInfos))
      /\ Range(Filter(Txs, Range(ethTxInfos))) = Range(ethTxInfos)
  <2>1. Txs \in Seq(TxSet) /\ Range(Txs) = TxSet
    BY PatchAssumption, Zenon DEF TxSet
  <2>2. TxSet \cap Range(ethTxInfos) = Range(ethTxInfos)
    BY <1>8, Zenon
  <2>3. \A S : Filter(Txs, S) \in Seq(TxSet \cap S) /\ Range(Filter(Txs, S)) = Range(Txs) \cap S
    <3>1. Txs \in Seq(TxSet)
      BY <2>1, Zenon
    <3> QED
      BY <3>1, FilterFacts, Zenon
  <2> QED
    BY <2>1, <2>2, <2>3, Zenon
<1>10. TypeOK'
  <2>1. pc' \in Phases \cup {"idle", "done"} /\ lost' \subseteq Keys
    BY <1>4, <1>5, <1>6, Zenon DEF TypeOK, Phases
  <2>2. strategy' \in {"ask", "skip", "replaceAll"}
    BY <1>1, Zenon DEF TypeOK
  <2> QED
    BY <1>1, <1>2, <2>1, <2>2, TypeStays, ZenonT(30) DEF TypeOK
<1>11. WorkInv'
  <2>1. dryRun => target' = target
    BY <1>2, PutsFacts, Zenon
  <2>2. pc' \in {"H", "P"} => db' = "blockstore" /\ IsRestOf(Blocks)'
    <3> SUFFICES ASSUME pc = "H" PROVE db' = "blockstore" /\ IsRestOf(Blocks)'
      BY <1>5, <1>6, Zenon
    <3>1. db' = "blockstore" /\ todo' = Blocks
      BY <1>3, <1>5, Zenon DEF WorkInv
    <3> QED
      BY <3>1, RestSteps, PatchAssumption, Zenon
  <2>3. pc' # "height" /\ (pc' = "hash" => pc = "height") /\ (pc' = "event" => pc = "hash")
    BY <1>5, <1>6, Zenon
  <2>4. pc' = "hash" => db' = "tx_index" /\ todo' \in Seq(Range(txhashes'))
    <3>1. txhashes \in Seq(Range(txhashes))
      BY DEF TypeOK, Range
    <3> QED
      BY <1>1, <1>3, <1>5, <2>3, <3>1, Zenon DEF WorkInv
  <2>5. pc' = "event" => db' = "tx_index" /\ todo' \in Seq(Range(ethTxInfos'))
    BY <1>1, <1>3, <1>5, <1>9, <2>3, Zenon DEF WorkInv
  <2>6. pc' \notin Phases => todo' = <<>>
    BY <1>5, <1>6, Zenon DEF Phases
  <2> QED
    BY <1>2, <1>3, <2>1, <2>2, <2>3, <2>4, <2>5, <2>6, ZenonT(30) DEF WorkInv
<1>12. \A a \in AskedKeys : Pending(a)' => Pending(a)
  <2> SUFFICES ASSUME NEW a \in AskedKeys, Pending(a)' PROVE Pending(a)
    BY Zenon
  <2>1. a[1] \notin {"hash", "event", "idle", "done"}
    BY KeyKinds, Zenon
  <2>2. pc = "H" /\ a[1] = "P"
    BY <1>5, <1>6, <1>7, <2>1, Zenon DEF Pending
  <2> QED
    BY <2>2, Zenon DEF Pending
<1>13. DecidedInv'
  BY <1>1, <1>4, <1>12, Zenon DEF DecidedInv
<1>14. Onward
  BY <1>1, <1>4, <1>12, Zenon DEF Onward
<1>15. TouchedInv'
  <2>1. \A k \in Keys : k \notin {} /\ (Collected(k)' => Collected(k))
    BY <1>1, Zenon DEF Collected
  <2> QED
    BY <1>2, <1>3, <1>14, <2>1, TouchedStays, Zenon
<1>16. BatchInv' /\ BlockFoundByHash'
  BY <1>2, <1>3, <1>4, FoundStays, Zenon
<1>17. \A a \in AskedKeys : Approved(a)' => Approved(a)
  <2> SUFFICES ASSUME NEW a \in AskedKeys, Approved(a)' PROVE Approved(a)
    BY Zenon
  <2>1. a \notin lost
    <3>1. a[1] # "BH"
      BY KeyKinds, Zenon
    <3> QED
      BY <1>4, <3>1, Zenon DEF Approved, StaysLost
  <2>2. ASSUME Pending(a) PROVE FALSE
    <3>1. (a[1] \in {"H", "P"} /\ a[2] \in BlockSet) \/ a[1] = "height"
      BY KeyKinds, Zenon
    <3>2. pc = "H" /\ a[1] = "P" /\ a[2] \in BlockSet
      BY <1>1, <1>7, <2>2, <3>1, Zenon DEF Pending
    <3>3. Pending(a)'
      BY <1>5, <3>2, Zenon DEF Pending, BlockSet
    <3> QED
      BY <3>3, Zenon DEF Approved
  <2> QED
    BY <1>1, <2>1, <2>2, ParsedKey, Zenon DEF Approved
<1>18. ASSUME ~dryRun, db = "tx_index"
       PROVE  \A k \in Keys : Settled(k) => Settled(k)'
  <2>1. strategy' = strategy
    BY <1>1, <1>18, Zenon
  <2> QED
    BY <1>1, <1>2, <1>18, <2>1, SettledStays, Zenon
<1>19. CompleteInv'
  <2> SUFFICES ASSUME ~dryRun
               PROVE  /\ db = "blockstore" => \A h \in BlockSet : BlockComplete(h)'
                      /\ db = "tx_index" => /\ \A t \in TxSet : TxComplete(t)'
                                            /\ CollectedComplete'
    BY <1>3, Zenon DEF CompleteInv
  <2>1. pc # "idle"
    BY <1>6, Zenon
  <2>2. ASSUME db = "blockstore" PROVE \A h \in BlockSet : BlockComplete(h)'
    <3>1. \A h \in BlockSet, p \in {"H", "P"} : <<p, h>> \in AskedKeys
      BY Zenon DEF AskedKeys
    <3>2. \A h \in BlockSet : BlockComplete(h)
      BY <2>1, <2>2, Zenon DEF CompleteInv
    <3> QED
      BY <1>1, <1>2, <1>4, <1>17, <3>1, <3>2, BlocksStay, Zenon
  <2>3. ASSUME db = "tx_index" PROVE \A t \in TxSet : TxComplete(t)'
    <3>1. \A t \in TxSet : <<"height", t>> \in AskedKeys
      BY KeyKinds, Zenon
    <3>2. \A t \in TxSet : TxComplete(t)
      BY <2>1, <2>3, Zenon DEF CompleteInv
    <3> QED
      BY <1>1, <1>2, <1>4, <1>17, <3>1, <3>2, TxsStay, Zenon
  <2>4. ASSUME db = "tx_index" PROVE CollectedComplete'
    <3>1. CollectedComplete
      BY <2>1, <2>4, Zenon DEF CompleteInv
    <3>2. ASSUME NEW h \in Range(txhashes)
          PROVE  Pending(<<"hash", h>>)' \/ Settled(<<"hash", h>>)'
      <4>1. <<"hash", h>> \in Keys
        BY <1>8, KeyKinds, Zenon DEF Keys
      <4>2. Pending(<<"hash", h>>) => pc = "height"
        BY <1>1, <1>7, KeyParts, Zenon DEF Pending
      <4>3. pc = "height" => Pending(<<"hash", h>>)'
        BY <1>5, KeyParts, Zenon DEF Pending
      <4> QED
        BY <1>18, <2>4, <3>1, <4>1, <4>2, <4>3, Zenon DEF CollectedComplete
    <3>3. ASSUME NEW t \in Range(ethTxInfos)
          PROVE  Pending(<<"event", t>>)' \/ Settled(<<"event", t>>)'
      <4>1. <<"event", t>> \in Keys
        BY <1>8, KeyKinds, Zenon DEF Keys
      <4>2. Pending(<<"event", t>>) => pc \in {"height", "hash"}
        BY <1>1, <1>7, KeyParts, Zenon DEF Pending
      <4>3. pc = "height" => Pending(<<"event", t>>)'
        BY <1>5, KeyParts, Zenon DEF Pending
      <4>4. pc = "hash" => Pending(<<"event", t>>)'
        BY <1>5, <1>9, KeyParts, Zenon DEF Pending
      <4> QED
        BY <1>18, <2>4, <3>1, <4>1, <4>2, <4>3, <4>4, Zenon DEF CollectedComplete
    <3> QED
      BY <1>1, <3>2, <3>3, Zenon DEF CollectedComplete
  <2> QED
    BY <2>2, <2>3, <2>4, Zenon
<1> QED
  BY <1>10, <1>11, <1>13, <1>15, <1>16, <1>19, Zenon

(* The rest of a run that stops early is forgotten.                         *)
Forgets ==
  /\ pc' = "idle" /\ todo' = <<>> /\ batch' = {} /\ batchCount' = 0
  /\ txhashes' = <<>> /\ ethTxInfos' = NoInfo
  /\ UNCHANGED <<strategy, errors, declined>> /\ UNCHANGED run

(* A run that stops early leaves of its changes only what it has written.   *)
LEMMA StopInv ==
  ASSUME PatchInv, Forgets, lost' \subseteq lost, failures' = failures \/ FailsRead,
         target' \in [Keys -> Values], dryRun => target' = target,
         \A k \in Keys : target'[k] = target[k] \/ k \in batch,
         BlockFoundByHash'
  PROVE  PatchInv'
<1> USE DEF PatchInv, Forgets
<1>1. before' = before /\ db' = db /\ dryRun' = dryRun /\ runs' = runs
  BY Zenon DEF run
<1>2. \A k : ~Pending(k)'
  BY NothingCollected, Zenon DEF Pending
<1>3. TypeOK'
  <2>1. 0 \in 0 .. BatchSize - 1
    BY PatchAssumption
  <2>2. failures' \in 0 .. MaxFailures
    BY PatchAssumption DEF TypeOK, FailsRead
  <2>3. txhashes' \in Seq(Hashes) /\ ethTxInfos' \in [DOMAIN ethTxInfos' -> TxSet]
    BY NothingCollected, Zenon
  <2>4. lost' \subseteq Keys /\ pc' \in Phases \cup {"idle", "done"}
    BY Zenon DEF TypeOK
  <2> QED
    BY <1>1, <2>1, <2>2, <2>3, <2>4, ZenonT(30) DEF TypeOK, Values
<1>4. WorkInv'
  BY <1>1, Zenon DEF WorkInv, Phases
<1>5. DecidedInv'
  BY <1>2, Zenon DEF DecidedInv
<1>6. TouchedInv'
  <2> SUFFICES ASSUME NEW k \in Keys, Touched(k)'
               PROVE  k \in KeysOf(db)' /\ \E a \in Grounds(k) : Approved(a)'
    BY Zenon DEF TouchedInv, Grounds
  <2>1. ~Collected(k)'
    BY NothingCollected, Zenon DEF Collected
  <2>2. Touched(k)
    BY <1>1, <2>1, Zenon DEF Touched
  <2>3. PICK a \in Grounds(k) : Approved(a)
    BY <2>2, Zenon DEF TouchedInv
  <2>4. Approved(a)'
    BY <1>2, <2>3, ParsedKey, Zenon DEF Approved
  <2>5. k \in KeysOf(db)'
    BY <1>1, <2>2, Zenon DEF TouchedInv, KeysOf
  <2> QED
    BY <2>4, <2>5, Zenon
<1>7. CompleteInv'
  BY Zenon DEF CompleteInv
<1>8. BatchInv'
  BY Zenon DEF BatchInv
<1> QED
  BY <1>3, <1>4, <1>5, <1>6, <1>7, <1>8, Zenon

(* An iterator stops with an error: the rest of the batch is written.       *)
LEMMA IteratorFailsInv == ASSUME PatchInv, IteratorFails PROVE PatchInv'
<1> USE DEF PatchInv
<1>1. /\ FailsRead /\ WriteRest /\ Lose({}) /\ UNCHANGED run
      /\ pc' = "idle" /\ todo' = <<>> /\ txhashes' = <<>> /\ ethTxInfos' = NoInfo
      /\ UNCHANGED <<strategy, errors, declined>>
  BY Zenon DEF IteratorFails
<1>2. Puts({}) /\ {} \in SUBSET Keys /\ Forgets
  BY <1>1, BatchSteps, Zenon DEF Forgets, WriteRest, WriteBatch
<1>3. lost' \subseteq lost /\ StaysLost
  BY <1>1, LoseNone, Zenon
<1>4. /\ target' \in [Keys -> Values] /\ (dryRun => target' = target)
      /\ \A k \in Keys : target'[k] = target[k] \/ k \in batch \cup {}
  BY <1>2, PutsFacts, Zenon
<1>5. BlockFoundByHash'
  BY <1>1, <1>2, <1>3, FoundStays, Zenon DEF run
<1> QED
  BY <1>1, <1>2, <1>3, <1>4, <1>5, StopInv, Zenon

(* The process dies: the batch is lost.                                     *)
LEMMA InterruptInv == ASSUME PatchInv, Interrupt PROVE PatchInv'
<1> USE DEF PatchInv
<1>1. Forgets /\ target' = target /\ lost' = lost /\ failures' = failures
  BY Zenon DEF Interrupt, Forgets
<1>2. target' \in [Keys -> Values] /\ BlockFoundByHash'
  BY <1>1, Zenon DEF TypeOK, Values, BlockFoundByHash
<1> QED
  BY <1>1, <1>2, StopInv, Zenon

(* A new run begins with nothing done, declined or collected.               *)
LEMMA StartInv ==
  ASSUME PatchInv, NEW d \in {"blockstore", "tx_index"}, NEW dry \in BOOLEAN, Start(d, dry)
  PROVE  PatchInv'
<1> USE DEF PatchInv
<1>1. /\ runs < MaxRuns /\ runs' = runs + 1 /\ db' = d /\ dryRun' = dry
      /\ pc' = IF d = "blockstore" THEN "H" ELSE "height"
      /\ todo' = IF d = "blockstore" THEN Blocks ELSE Txs
      /\ strategy' = "ask" /\ errors' = FALSE /\ declined' = {} /\ before' = target
      /\ batch' = {} /\ batchCount' = 0 /\ txhashes' = <<>> /\ ethTxInfos' = NoInfo
      /\ lost' = lost \cap BlockKeys /\ target' = target /\ failures' = failures
  BY Zenon DEF Start
<1>2. /\ d = "blockstore" => pc' = "H" /\ todo' = Blocks
      /\ d = "tx_index" => pc' = "height" /\ todo' = Txs
      /\ d \in {"blockstore", "tx_index"} /\ pc' \in {"H", "height"}
      /\ pc' = "H" <=> d = "blockstore"
  BY <1>1, Zenon
<1>3. TypeOK'
  <2>1. 0 \in 0 .. BatchSize - 1 /\ runs' \in 0 .. MaxRuns
    BY <1>1, PatchAssumption DEF TypeOK
  <2>2. txhashes' \in Seq(Hashes) /\ ethTxInfos' \in [DOMAIN ethTxInfos' -> TxSet]
    BY <1>1, NothingCollected, Zenon
  <2>3. pc' \in Phases \cup {"idle", "done"} /\ lost' \subseteq Keys
    BY <1>1, <1>2, ZenonT(30) DEF Phases, TypeOK
  <2> QED
    BY <1>1, <2>1, <2>2, <2>3, ZenonT(30) DEF TypeOK
<1>4. WorkInv'
  <2>1. d = "blockstore" => IsRestOf(Blocks)'
    BY <1>2, RestSteps, PatchAssumption, Zenon
  <2>2. d = "tx_index" => IsRestOf(Txs)'
    BY <1>2, RestSteps, PatchAssumption, Zenon
  <2> QED
    BY <1>1, <1>2, <2>1, <2>2 DEF WorkInv, Phases
<1>5. DecidedInv'
  <2>1. \A k \in lost' : k[1] \notin {"H", "P"} /\ k \notin AskedKeys
    BY <1>1, KeyKinds, Zenon DEF DecidedInv
  <2> QED
    BY <1>1, <2>1, Zenon DEF DecidedInv
<1>6. TouchedInv'
  <2>1. \A k \in Keys : ~Touched(k)'
    BY <1>1, NothingCollected, Zenon DEF Touched, Collected
  <2> QED
    BY <2>1, Zenon DEF TouchedInv
<1>7. CompleteInv'
  <2>1. ASSUME d = "blockstore" PROVE \A h \in BlockSet : BlockComplete(h)'
    <3>1. \A h \in BlockSet : Pending(<<"H", h>>)' /\ Pending(<<"P", h>>)'
      BY <1>2, <2>1, KeyParts, Zenon DEF Pending, BlockSet
    <3>2. \A h \in BlockSet : \A p \in {"H", "P"} : ~Approved(<<p, h>>)'
      BY <3>1, Zenon DEF Approved
    <3> QED
      BY <3>2, Zenon DEF BlockComplete
  <2>2. ASSUME d = "tx_index" PROVE (\A t \in TxSet : TxComplete(t)') /\ CollectedComplete'
    <3>1. \A t \in TxSet : Pending(<<"height", t>>)'
      BY <1>2, <2>2, KeyParts, Zenon DEF Pending, TxSet
    <3>2. \A t \in TxSet : TxComplete(t)'
      BY <3>1, Zenon DEF Approved, TxComplete
    <3>3. CollectedComplete'
      BY <1>1, NothingCollected, Zenon DEF CollectedComplete
    <3> QED
      BY <3>2, <3>3, Zenon
  <2> QED
    BY <1>1, <2>1, <2>2, Zenon DEF CompleteInv
<1>8. BatchInv' /\ BlockFoundByHash'
  <2>1. \A h \in BlockSet : <<"BH", h>> \in BlockKeys
    BY KeyKinds, Zenon
  <2> QED
    BY <1>1, <2>1, Zenon DEF BatchInv, BlockFoundByHash
<1> QED
  BY <1>3, <1>4, <1>5, <1>6, <1>7, <1>8, Zenon

(* The invariant holds before the first run.                                *)
LEMMA PatchInvInit == Init => PatchInv
<1> SUFFICES ASSUME Init PROVE PatchInv
  BY Zenon
<1>1. /\ \E ks \in InitialTargets : target = [k \in Keys |-> IF k \in ks THEN "old" ELSE "none"]
      /\ pc = "idle" /\ db = "blockstore" /\ todo = <<>> /\ strategy = "ask"
      /\ batch = {} /\ batchCount = 0 /\ txhashes = <<>> /\ ethTxInfos = NoInfo
      /\ dryRun = FALSE /\ errors = FALSE /\ before = target
      /\ declined = {} /\ lost = {} /\ runs = 0 /\ failures = 0
  BY Zenon DEF Init
<1>2. TypeOK
  <2>1. target \in [Keys -> {"none", "old", "source"}]
    BY <1>1, Zenon
  <2>2. 0 \in 0 .. BatchSize - 1 /\ 0 \in 0 .. MaxRuns /\ 0 \in 0 .. MaxFailures
    BY PatchAssumption
  <2>3. txhashes \in Seq(Hashes) /\ ethTxInfos \in [DOMAIN ethTxInfos -> TxSet]
    BY <1>1, NothingCollected, Zenon
  <2>4. /\ pc \in Phases \cup {"idle", "done"} /\ db \in {"blockstore", "tx_index"}
        /\ strategy \in {"ask", "skip", "replaceAll"}
    BY <1>1, Zenon
  <2>5. dryRun \in BOOLEAN /\ errors \in BOOLEAN
    BY <1>1, Zenon
  <2>6. batch \subseteq Keys /\ declined \subseteq Keys /\ lost \subseteq Keys
    BY <1>1, Zenon
  <2> QED
    BY <1>1, <2>1, <2>2, <2>3, <2>4, <2>5, <2>6, ZenonT(30) DEF TypeOK
<1>3. WorkInv
  BY <1>1, Zenon DEF WorkInv, Phases
<1>4. DecidedInv
  BY <1>1, Zenon DEF DecidedInv
<1>5. TouchedInv
  BY <1>1, NothingCollected, Zenon DEF TouchedInv, Touched, Collected
<1>6. CompleteInv /\ BatchInv
  BY <1>1, Zenon DEF CompleteInv, BatchInv
<1>7. BlockFoundByHash
  <2>1. \A h \in BlockSet : <<"H", h>> \in Keys
    BY KeyKinds, Zenon DEF Keys
  <2>2. \A k \in Keys : target[k] # "source"
    BY <1>1, Zenon
  <2> QED
    BY <2>1, <2>2, Zenon DEF BlockFoundByHash
<1> QED
  BY <1>2, <1>3, <1>4, <1>5, <1>6, <1>7, Zenon DEF PatchInv

(* Every step of the command preserves the invariant.                       *)
LEMMA PatchInvStep == PatchInv /\ [Next]_vars => PatchInv'
<1> SUFFICES ASSUME PatchInv, [Next]_vars PROVE PatchInv'
  BY Zenon
<1>1. CASE \E d \in {"blockstore", "tx_index"}, dry \in BOOLEAN : Start(d, dry)
  BY <1>1, StartInv, Zenon
<1>2. CASE PassOver
  BY <1>2, PassOverInv, Zenon
<1>3. CASE \E a \in Answers, found \in BOOLEAN : PatchBlockKey(a, found)
  BY <1>3, PatchBlockInv, DeclineBlockInv, Zenon
<1>4. CASE \E a \in Answers, found \in BOOLEAN : PatchTxHeightKey(a, found)
  BY <1>4, PatchHeightInv, DeclineHeightInv, Zenon
<1>5. CASE PatchTxHashKey \/ PatchEthereumEventKey
  <2>1. /\ pc \in {"hash", "event"} /\ todo # <<>> /\ todo' = Tail(todo)
        /\ UNCHANGED <<pc, strategy, txhashes, ethTxInfos, declined, errors, failures>>
        /\ UNCHANGED run /\ Lose({}) /\ PatchUnasked(Key)
    BY <1>5, ZenonT(30) DEF PatchTxHashKey, PatchEthereumEventKey
  <2> QED
    BY <2>1, UnaskedInv, Zenon
<1>6. CASE KeyFails
  BY <1>6, KeyFailsInv, Zenon
<1>7. CASE EndPhase
  BY <1>7, EndPhaseInv, Zenon
<1>8. CASE IteratorFails
  BY <1>8, IteratorFailsInv, Zenon
<1>9. CASE Interrupt
  BY <1>9, InterruptInv, Zenon
<1>10. CASE UNCHANGED vars
  <2> USE <1>10 DEF vars
  <2>1. TypeOK' /\ WorkInv'
    BY Zenon DEF PatchInv, TypeOK, WorkInv, IsRestOf
  <2>2. DecidedInv' /\ TouchedInv'
    BY ZenonT(30) DEF PatchInv, DecidedInv, TouchedInv, Touched, Grounds, Collected, Approved,
                 Pending, shouldProcessKey, KeysOf
  <2>3. CompleteInv'
    <3>1. \A k : /\ Pending(k)' <=> Pending(k)
                 /\ Approved(k)' <=> Approved(k)
                 /\ Settled(k)' <=> Settled(k)
      BY Zenon DEF Pending, Approved, Settled, shouldProcessKey
    <3>2. \A h : BlockComplete(h) => BlockComplete(h)'
      BY <3>1, Zenon DEF BlockComplete
    <3>3. \A t : TxComplete(t) => TxComplete(t)'
      BY <3>1, Zenon DEF TxComplete, LaterInclusion
    <3>4. CollectedComplete => CollectedComplete'
      BY <3>1, Zenon DEF CollectedComplete
    <3> QED
      BY <3>2, <3>3, <3>4, Zenon DEF PatchInv, CompleteInv
  <2>4. BatchInv' /\ BlockFoundByHash'
    BY Zenon DEF PatchInv, BatchInv, BlockFoundByHash
  <2> QED
    BY <2>1, <2>2, <2>3, <2>4, Zenon DEF PatchInv
<1> QED
  BY <1>1, <1>2, <1>3, <1>4, <1>5, <1>6, <1>7, <1>8, <1>9, <1>10, Zenon DEF Next

-----------------------------------------------------------------------------
(* The strengthened invariant of the patch command, for every list of       *)
(* blocks and txs, every choice of heights and every batch size: what each  *)
(* phase of patch.go works on, what it has decided, and what the batch,     *)
(* txhashes and ethTxInfos hold for the phases to come.                     *)
THEOREM PatchInvHolds == Spec => []PatchInv
<1> QED
  BY PatchInvInit, PatchInvStep, PTL DEF Spec

(* At every moment, a crash between two batches included, a block whose H:  *)
(* key was patched can be found by its hash: patchSingleKey puts the BH:    *)
(* key into the batch of the H: key.                                        *)
THEOREM BlockFoundByHashHolds == Spec => []BlockFoundByHash
<1>1. PatchInv => BlockFoundByHash
  BY Zenon DEF PatchInv
<1> QED
  BY <1>1, PatchInvHolds, PTL

(* A run without errors leaves no inclusion it added without what the       *)
(* source has of its result and of the event key of its first Ethereum      *)
(* message: patchTxIndexData hands on what patchTxHeightKeys collects to    *)
(* the phases that patch them.                                              *)
THEOREM PatchedTxIsWholeHolds == Spec => []PatchedTxIsWhole
<1> QED
  BY InvImpliesWhole, PatchInvHolds, PTL

(* Whatever was interrupted before and whatever the operator declines in    *)
(* between, a run without errors has brought each key of its heights that   *)
(* was neither declined nor lost to the source's value, and with a          *)
(* tx.height key its result and its first event key (PatchDatabase).        *)
THEOREM RerunCompletesHolds == Spec => []RerunCompletes
<1> QED
  BY InvImpliesRerun, PatchInvHolds, PTL

(* A key that the operator declined in handleKeyConflict is kept, and so    *)
(* are the keys that the code patches on its account without a question.    *)
THEOREM DeclinedIsKeptHolds == Spec => []DeclinedIsKept
<1> QED
  BY InvImpliesKept, PatchInvHolds, PTL

(* A run changes only keys of its own database and its chosen heights       *)
(* (shouldProcessKey), and a dry run changes none.                          *)
THEOREM OnlyChosenKeysChangeHolds == Spec => []OnlyChosenKeysChange
<1> QED
  BY InvImpliesChosen, PatchInvHolds, PTL
=============================================================================
