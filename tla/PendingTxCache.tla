--------------------------- MODULE PendingTxCache ---------------------------
(***************************************************************************)
(* The cache of pending-tx snapshots (app/mempool/pending_cache.go).  RPC  *)
(* readers call get, which walks the pool at most once per epoch; whoever  *)
(* changes the pool (admission, FinalizeBlock, RecheckTxs) changes it      *)
(* first and calls invalidate, which is not under the cache's mutex,       *)
(* afterwards.                                                             *)
(*                                                                         *)
(* The content of the pool is abstracted to the number of changes made to  *)
(* it, so that a snapshot is older than another when it is smaller.        *)
(***************************************************************************)
EXTENDS Naturals

CONSTANTS
  Readers,     \* threads that call PendingTxs
  Writers,     \* threads that change the pool
  Unlocked,    \* mu when nobody holds it
  MaxChanges   \* bound on the changes made to the pool

ASSUME CacheAssumption ==
  /\ Unlocked \notin Readers
  /\ MaxChanges \in Nat

VARIABLES
  enabled,     \* the node's setting
  pool,        \* number of changes made to the pool
  epoch,       \* the atomic counter
  mu,          \* the reader that holds c.mu, or Unlocked
  loaded, loadedEpoch, snapshot, \* the fields c.mu guards
  writerAt, change,  \* each writer: where it is and the change it made last
  published,   \* newest change whose writer has returned from invalidate
  readerAt,    \* where each reader is
  repoch,      \* the epoch each reader read
  rload,       \* what its load() returned
  result,      \* the snapshot it returned last
  rseen        \* value of published when it called get

cache     == <<enabled, loaded, loadedEpoch, snapshot>>
writes    == <<pool, epoch, writerAt, change, published>>
reads     == <<readerAt, repoch, rload, result, rseen>>
cacheVars == <<cache, writes, reads, mu>>

CacheInit ==
  /\ enabled \in BOOLEAN
  /\ pool = 0
  /\ epoch = 0
  /\ mu = Unlocked
  /\ loaded = FALSE
  /\ loadedEpoch = 0
  /\ snapshot = 0
  /\ writerAt = [w \in Writers |-> "idle"]
  /\ change = [w \in Writers |-> 0]
  /\ published = 0
  /\ readerAt = [r \in Readers |-> "idle"]
  /\ repoch = [r \in Readers |-> 0]
  /\ rload = [r \in Readers |-> 0]
  /\ result = [r \in Readers |-> 0]
  /\ rseen = [r \in Readers |-> 0]

-----------------------------------------------------------------------------
(* A tx enters or leaves the pool (RunTx, FinalizeBlock, evict).            *)
ChangePool(w) ==
  /\ writerAt[w] = "idle"
  /\ pool < MaxChanges
  /\ pool' = pool + 1
  /\ change' = [change EXCEPT ![w] = pool + 1]
  /\ writerAt' = [writerAt EXCEPT ![w] = "changed"]
  /\ UNCHANGED <<epoch, published, cache, reads, mu>>

(* invalidate(), by the thread that changed the pool.                       *)
Invalidate(w) ==
  /\ writerAt[w] = "changed"
  /\ epoch' = epoch + 1
  /\ published' = IF change[w] > published THEN change[w] ELSE published
  /\ writerAt' = [writerAt EXCEPT ![w] = "idle"]
  /\ UNCHANGED <<pool, change, cache, reads, mu>>

-----------------------------------------------------------------------------
(* get(load).                                                               *)
GetCall(r) ==
  /\ readerAt[r] = "idle"
  /\ rseen' = [rseen EXCEPT ![r] = published]
  /\ readerAt' = [readerAt EXCEPT ![r] = IF enabled THEN "lock" ELSE "direct"]
  /\ UNCHANGED <<repoch, rload, result, cache, writes, mu>>

GetDirect(r) ==
  /\ readerAt[r] = "direct"
  /\ result' = [result EXCEPT ![r] = pool]
  /\ readerAt' = [readerAt EXCEPT ![r] = "idle"]
  /\ UNCHANGED <<repoch, rload, rseen, cache, writes, mu>>

GetLock(r) ==
  /\ readerAt[r] = "lock"
  /\ mu = Unlocked
  /\ mu' = r
  /\ repoch' = [repoch EXCEPT ![r] = epoch]
  /\ readerAt' = [readerAt EXCEPT ![r] = "look"]
  /\ UNCHANGED <<rload, result, rseen, cache, writes>>

(* A snapshot loaded in the epoch just read is served; otherwise load.      *)
GetHit(r) ==
  /\ readerAt[r] = "look"
  /\ loaded /\ loadedEpoch = repoch[r]
  /\ result' = [result EXCEPT ![r] = snapshot]
  /\ readerAt' = [readerAt EXCEPT ![r] = "idle"]
  /\ mu' = Unlocked
  /\ UNCHANGED <<repoch, rload, rseen, cache, writes>>

GetLoad(r) ==
  /\ readerAt[r] = "look"
  /\ ~(loaded /\ loadedEpoch = repoch[r])
  /\ rload' = [rload EXCEPT ![r] = pool]
  /\ readerAt' = [readerAt EXCEPT ![r] = "store"]
  /\ UNCHANGED <<repoch, result, rseen, cache, writes, mu>>

(* Mutant: the snapshot is stamped with the epoch after the pool walk.      *)
GetStoreLateEpoch(r) ==
  /\ readerAt[r] = "store"
  /\ snapshot' = rload[r]
  /\ loaded' = TRUE
  /\ loadedEpoch' = epoch
  /\ result' = [result EXCEPT ![r] = rload[r]]
  /\ readerAt' = [readerAt EXCEPT ![r] = "idle"]
  /\ mu' = Unlocked
  /\ UNCHANGED <<enabled, repoch, rload, rseen, writes>>

GetStore(r) ==
  /\ readerAt[r] = "store"
  /\ snapshot' = rload[r]
  /\ loaded' = TRUE
  /\ loadedEpoch' = repoch[r]
  /\ result' = [result EXCEPT ![r] = rload[r]]
  /\ readerAt' = [readerAt EXCEPT ![r] = "idle"]
  /\ mu' = Unlocked
  /\ UNCHANGED <<enabled, repoch, rload, rseen, writes>>

CacheNext ==
  \/ \E w \in Writers : ChangePool(w) \/ Invalidate(w)
  \/ \E r \in Readers :
       GetCall(r) \/ GetDirect(r) \/ GetLock(r) \/ GetHit(r) \/ GetLoad(r) \/ GetStore(r)

CacheSpec == CacheInit /\ [][CacheNext]_cacheVars

-----------------------------------------------------------------------------
CacheTypeOK ==
  /\ enabled \in BOOLEAN /\ loaded \in BOOLEAN
  /\ pool \in Nat /\ epoch \in Nat /\ published \in Nat
  /\ loadedEpoch \in Nat /\ snapshot \in Nat
  /\ mu \in Readers \cup {Unlocked}
  /\ writerAt \in [Writers -> {"idle", "changed"}]
  /\ change \in [Writers -> Nat]
  /\ readerAt \in [Readers -> {"idle", "lock", "direct", "look", "store"}]
  /\ repoch \in [Readers -> Nat] /\ rload \in [Readers -> Nat]
  /\ result \in [Readers -> Nat] /\ rseen \in [Readers -> Nat]

(* What get returns holds every change whose invalidate had returned when   *)
(* get was called: a client that saw its tx admitted finds it in the next   *)
(* snapshot it asks for, even when its admission fell between another       *)
(* reader's epoch read and pool walk (pending_cache.go:31-38).              *)
FreshRead == \A r \in Readers : readerAt[r] = "idle" => result[r] >= rseen[r]

(* Why: a snapshot whose epoch is current misses no published change, and   *)
(* the reader that holds mu is about to store one of which this is true.    *)
CacheInv ==
  /\ published <= pool
  /\ loadedEpoch <= epoch
  /\ loaded /\ loadedEpoch = epoch => snapshot >= published
  /\ \A w \in Writers : change[w] <= pool
  /\ \A r \in Readers :
       /\ rseen[r] <= published
       /\ repoch[r] <= epoch
       /\ readerAt[r] \in {"look", "store"} => mu = r
       /\ readerAt[r] = "look" /\ loaded /\ loadedEpoch = repoch[r] => snapshot >= rseen[r]
       /\ readerAt[r] = "store" => rload[r] >= rseen[r]
       /\ readerAt[r] = "store" /\ repoch[r] = epoch => rload[r] >= published
  /\ FreshRead
=============================================================================
