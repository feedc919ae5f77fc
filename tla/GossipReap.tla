------------------------------ MODULE GossipReap ------------------------------
(***************************************************************************)
(* The reap of the app mempool for gossip (app/mempool/reap.go), with the  *)
(* encoder cache it reads (encoder_cache.go) and the tracker that keeps a  *)
(* tx from being sent again within a time-to-live (gossip.go).             *)
(*                                                                         *)
(* The reaper takes its locks tx by tx: txs are admitted, removed, cached  *)
(* and evicted between any two of its steps.  A tx is a pointer; different *)
(* pointers can have the same content.  Its bytes are its content in       *)
(* canonical or, when encoding fails, in raw form, and stand for their own *)
(* hash.  Time advances in ticks and a reap takes no time; the age of      *)
(* what is in the tracker is counted, not the clock.                       *)
(***************************************************************************)
EXTENDS Integers, Sequences, Collections

CONSTANTS
  Txs,          \* tx pointers
  ByPriority,   \* the sequence of them in the order of the pool
  Content,      \* function: the content of a tx
  Size, Gas,    \* functions: proto size, and gas wanted, of a tx
  Uncached,     \* txs above maxTxBytes
  CacheCap,     \* capacity of the encoder cache
  TTL,          \* time-to-live of the tracker, in ticks
  MaxBytes, MaxGas, MaxPerReap,  \* limits of a reap; 0 is no limit
  MaxFaults,    \* bound on the encodings that fail
  None

ASSUME ReapAssumption ==
  /\ ByPriority \in Seq(Txs) /\ Range(ByPriority) = Txs /\ IsInjective(ByPriority)
  /\ Uncached \subseteq Txs
  /\ \A t \in Txs : {Size[t], Gas[t]} \subseteq Nat
  /\ {MaxBytes, MaxGas, MaxPerReap, MaxFaults} \subseteq Nat
  /\ CacheCap \in Nat \ {0} /\ TTL \in Nat \ {0}
  /\ None \notin Txs

(* The bytes a tx can be encoded to, and be cached under.                   *)
Forms(t) == {<<Content[t], "canonical">>, <<Content[t], "raw">>}
Canonical(t) == <<Content[t], "canonical">>
AllBytes == UNION {Forms(t) : t \in Txs}

VARIABLES
  pool,         \* txs in the mempool
  lru,          \* entries of the encoder cache, most recent first
  seen,         \* tracker: bytes to the ticks since they were gossiped
  pc,           \* of the reaper: "idle", "scan", "lookup" or "record"
  todo,         \* rest of the snapshot
  cur,          \* the tx the reaper works on, and its bytes
  found,        \* the hash it found in the cache, or None
  sent,         \* what this reap returns: sequence of [tx, bz]
  reaped,       \* a reap has ended since the last tick
  sentAge,      \* ticks since bytes were last returned, up to TTL
  faults

reapVars  == <<pc, todo, cur, found, sent>>
vars == <<pool, lru, seen, pc, todo, cur, found, sent, reaped, sentAge, faults>>

NoTx == [tx |-> None, bz |-> None]

Init ==
  /\ pool = {} /\ lru = <<>> /\ seen = [b \in {} |-> 0]
  /\ pc = "idle" /\ todo = <<>> /\ cur = NoTx /\ found = None /\ sent = <<>>
  /\ reaped = FALSE /\ sentAge = [b \in AllBytes |-> TTL]
  /\ faults = 0

-----------------------------------------------------------------------------
(* EncoderCache                                                             *)

Cached(t) == \E i \in DOMAIN lru : lru[i].tx = t
EntryOf(t) == lru[CHOOSE i \in DOMAIN lru : lru[i].tx = t]
Without(t) == Filter(lru, {e \in Range(lru) : e.tx # t})

MoveToFront(e) == <<e>> \o Without(e.tx)

Set(t, bz) ==
  IF t \in Uncached THEN lru
  ELSE IF Cached(t) THEN MoveToFront([tx |-> t, bz |-> bz, hash |-> None])
  ELSE <<[tx |-> t, bz |-> bz, hash |-> None]>>
         \o (IF Len(lru) >= CacheCap THEN SubSeq(lru, 1, Len(lru) - 1) ELSE lru)

Evict(t) == Without(t)

Get(t) == IF Cached(t) THEN MoveToFront(EntryOf(t)) ELSE lru

(* HashTx, first part: the hash that is cached, if any.                     *)
CachedHash(t) == IF Cached(t) THEN EntryOf(t).hash ELSE None

(* Mutant: the hash is stored without a second look at the bytes.           *)
StoreHashUnchecked(t, bz) ==
  IF Cached(t) THEN MoveToFront([EntryOf(t) EXCEPT !.hash = bz]) ELSE lru

(* HashTx, second part: store the hash if the bytes are still the same.     *)
StoreHash(t, bz) ==
  IF Cached(t) /\ EntryOf(t).bz = bz
    THEN MoveToFront([EntryOf(t) EXCEPT !.hash = bz]) ELSE lru

-----------------------------------------------------------------------------
(* Admission and removal                                                    *)

(* A tx enters the pool, in the place of one with the same content, and     *)
(* cacheTx registers its canonical bytes, or the raw ones when encoding     *)
(* fails.  One step: what a reap can see between the two, a tx that is in   *)
(* the pool and not in the cache, it also sees when the cache is full.      *)
Admit(t, bz) ==
  /\ bz \in Forms(t)
  /\ bz # Canonical(t) => faults < MaxFaults
  /\ faults' = IF bz = Canonical(t) THEN faults ELSE faults + 1
  /\ pool' = {u \in pool : Content[u] # Content[t]} \cup {t}
  /\ lru' = Set(t, bz)
  /\ UNCHANGED <<seen, reapVars, reaped, sentAge>>

(* A block removes the tx from the pool only.                               *)
Include(t) ==
  /\ t \in pool /\ pool' = pool \ {t}
  /\ UNCHANGED <<lru, seen, reapVars, reaped, sentAge, faults>>

evict(t) ==
  /\ t \in pool /\ pool' = pool \ {t}
  /\ lru' = Evict(t)
  /\ UNCHANGED <<seen, reapVars, reaped, sentAge, faults>>

-----------------------------------------------------------------------------
(* The reap                                                                 *)

StartReap ==
  /\ pc = "idle" /\ pool # {} /\ ~reaped
  /\ pc' = "scan"
  /\ todo' = Filter(ByPriority, pool)
  /\ sent' = <<>>
  /\ UNCHANGED <<pool, lru, seen, cur, found, reaped, sentAge, faults>>

BytesSent == SumOver([i \in DOMAIN sent |-> Size[sent[i].tx]], DOMAIN sent)
GasSent   == SumOver([i \in DOMAIN sent |-> Gas[sent[i].tx]], DOMAIN sent)

(* Mutant: the tx is compared with the limit and not with what is left.     *)
WithinCapsAlone(t) ==
  /\ MaxBytes > 0 => Size[t] <= MaxBytes
  /\ MaxGas > 0 => Gas[t] <= MaxGas

(* Mutant: txs that are suppressed count towards the limits.                *)
WithinCapsOfPool(t) ==
  LET before == {u \in pool : \E i, j \in DOMAIN ByPriority :
                                 i < j /\ ByPriority[i] = u /\ ByPriority[j] = t}
                  \cup {sent[i].tx : i \in DOMAIN sent}
  IN  /\ MaxBytes > 0 => SumOver(Size, before \cup {t}) <= MaxBytes
      /\ MaxGas > 0 => SumOver(Gas, before \cup {t}) <= MaxGas

WithinCaps(t) ==
  /\ MaxBytes > 0 => BytesSent + Size[t] <= MaxBytes
  /\ MaxGas > 0 => Gas[t] <= MaxGas - GasSent

(* EncodeTx: cached bytes, else an encoding that can fail.                  *)
EncodeTx(t, bz) ==
  IF Cached(t) THEN bz = EntryOf(t).bz ELSE bz = Canonical(t)

(* The scan ends at the first tx over a limit.                              *)
ScanTx(bz) ==
  /\ pc = "scan" /\ todo # <<>>
  /\ EncodeTx(Head(todo), bz)
  /\ lru' = Get(Head(todo))
  /\ IF WithinCaps(Head(todo))
       THEN /\ pc' = "lookup" /\ cur' = [tx |-> Head(todo), bz |-> bz]
            /\ todo' = Tail(todo)
       ELSE /\ todo' = <<>> /\ UNCHANGED <<pc, cur>>
  /\ UNCHANGED <<pool, seen, found, sent, reaped, sentAge, faults>>

(* "Encoder errors skip the tx."                                            *)
SkipTx ==
  /\ pc = "scan" /\ todo # <<>>
  /\ ~Cached(Head(todo)) /\ faults < MaxFaults
  /\ faults' = faults + 1
  /\ todo' = Tail(todo)
  /\ UNCHANGED <<pool, lru, seen, pc, cur, found, sent, reaped, sentAge>>

LookupHash ==
  /\ pc = "lookup"
  /\ found' = CachedHash(cur.tx)
  /\ lru' = IF CachedHash(cur.tx) = None THEN lru ELSE Get(cur.tx)
  /\ pc' = "record"
  /\ UNCHANGED <<pool, seen, todo, cur, sent, reaped, sentAge, faults>>

(* Mutant: the entry lasts one tick less.                                   *)
MayGossipEarly(h) == h \in DOMAIN seen => seen[h] >= TTL - 1

(* gossiped(h, now)                                                         *)
MayGossip(h) == h \in DOMAIN seen => seen[h] >= TTL

(* HashTx ends, and the tx is returned unless its hash was sent within the  *)
(* time-to-live.                                                            *)
RecordTx ==
  /\ pc = "record"
  /\ LET h == IF found = None THEN cur.bz ELSE found
     IN  /\ lru' = IF found = None THEN StoreHash(cur.tx, cur.bz) ELSE lru
         /\ IF MayGossip(h)
              THEN /\ seen' = [b \in DOMAIN seen \cup {h} |-> IF b = h THEN 0 ELSE seen[b]]
                   /\ sent' = Append(sent, cur)
                   /\ sentAge' = [sentAge EXCEPT ![cur.bz] = 0]
                   /\ todo' = IF MaxPerReap > 0 /\ Len(sent) + 1 >= MaxPerReap
                                THEN <<>> ELSE todo
              ELSE UNCHANGED <<seen, sent, sentAge, todo>>
  /\ pc' = "scan" /\ cur' = NoTx /\ found' = None
  /\ UNCHANGED <<pool, reaped, faults>>

(* Mutant: an entry is dropped one tick early.                              *)
ExpiredEarly(b) == seen[b] >= TTL - 1

Expired(b) == seen[b] >= TTL

(* prune                                                                    *)
EndReap ==
  /\ pc = "scan" /\ todo = <<>>
  /\ seen' = [b \in {b \in DOMAIN seen : ~Expired(b)} |-> seen[b]]
  /\ pc' = "idle" /\ sent' = <<>> /\ reaped' = TRUE
  /\ UNCHANGED <<pool, lru, todo, cur, found, sentAge, faults>>

(* Time passes.  The reactor reaps in every tick in which there are txs.    *)
Tick ==
  /\ pc = "idle" /\ (reaped \/ pool = {})
  /\ reaped' = FALSE
  /\ seen' = [b \in DOMAIN seen |-> Min({TTL, seen[b] + 1})]
  /\ sentAge' = [b \in AllBytes |-> Min({TTL, sentAge[b] + 1})]
  /\ UNCHANGED <<pool, lru, reapVars, faults>>

ReapStep ==
  \/ StartReap \/ (\E bz \in AllBytes : ScanTx(bz)) \/ LookupHash \/ RecordTx \/ EndReap

Next ==
  \/ ReapStep \/ SkipTx \/ Tick
  \/ \E t \in Txs : \/ \E bz \in AllBytes : Admit(t, bz)
                    \/ Include(t) \/ evict(t)

Spec == Init /\ [][Next]_vars

(* The reactor keeps reaping, and time passes.                              *)
FairSpec == Spec /\ WF_vars(ReapStep) /\ WF_vars(Tick)

-----------------------------------------------------------------------------
Entries == [tx : Txs, bz : AllBytes, hash : AllBytes \cup {None}]

TypeOK ==
  /\ pool \subseteq Txs
  /\ lru \in Seq(Entries)
  /\ DOMAIN seen \subseteq AllBytes /\ \A b \in DOMAIN seen : seen[b] \in 0 .. TTL
  /\ pc \in {"idle", "scan", "lookup", "record"}
  /\ todo \in Seq(Txs)
  /\ cur = NoTx \/ cur \in [tx : Txs, bz : AllBytes]
  /\ found \in AllBytes \cup {None}
  /\ sentAge \in [AllBytes -> 0 .. TTL]
  /\ faults \in 0 .. MaxFaults

(* The encoder cache holds at most CacheCap txs, each once, and a hash it   *)
(* has cached is that of the bytes beside it, although HashTx computes the  *)
(* hash without the lock while Set can replace the bytes.                   *)
CacheSound ==
  /\ Len(lru) <= CacheCap
  /\ \A i, j \in DOMAIN lru : lru[i].tx = lru[j].tx => i = j
  /\ \A i \in DOMAIN lru : lru[i].hash \in {None, lru[i].bz}

(* What the reactor is given stays within the limits it asked for.          *)
ReapWithinLimits ==
  /\ MaxBytes > 0 => BytesSent <= MaxBytes
  /\ MaxGas > 0 => GasSent <= MaxGas
  /\ MaxPerReap > 0 => Len(sent) <= MaxPerReap

(* A step that adds to what the reap returns adds bytes that are due.       *)
SentIsDue ==
  Len(sent') > Len(sent) => sentAge[sent'[Len(sent')].bz] = TTL

(* The same bytes are not gossiped twice within the time-to-live, whatever  *)
(* tx pointers carry them and however cache entries come and go ("it        *)
(* suppresses re-reap until ttl elapses").                                  *)
OncePerTTL == [][SentIsDue]_vars

(* The tracker forgets what it may send again: after a reap it has an entry *)
(* exactly for what was sent within the time-to-live ("bounding the map to  *)
(* txs gossiped within the ttl window").                                    *)
TrackerIsExact ==
  pc = "idle" /\ reaped => DOMAIN seen = {b \in AllBytes : sentAge[b] < TTL}

(* A tx that no reap can return, whatever came before it.                   *)
Oversized(t) == (MaxBytes > 0 /\ Size[t] > MaxBytes) \/ (MaxGas > 0 /\ Gas[t] > MaxGas)

Ahead == [t \in Txs |->
  {u \in Txs : \E i, j \in DOMAIN ByPriority : i < j /\ ByPriority[i] = u /\ ByPriority[j] = t}]

(* The scan is a prefix scan, so an oversized tx hides all those behind it. *)
Hidden(t) == \E u \in pool \cap Ahead[t] : Oversized(u)

(* The contents that can be sent before t, each once per time-to-live.      *)
Rivals(t) == {Content[u] : u \in {v \in Ahead[t] : ~Oversized(v)}} \ {Content[t]}

(* The budget of a reap goes to the txs of highest priority, and they are   *)
(* due again after the time-to-live; still a tx that stays in the pool with *)
(* no oversized tx before it is gossiped, if its rivals are fewer than the  *)
(* reaps within a time-to-live.                                             *)
EventuallyGossiped ==
  \A t \in {u \in Txs : ~Oversized(u) /\ Cardinality(Rivals(u)) < TTL} :
    t \in pool ~> (t \notin pool \/ Hidden(t) \/ \E b \in Forms(t) : sentAge[b] < TTL)

-----------------------------------------------------------------------------
(* The inductive invariant of the proofs.                                   *)

(* The tracker has the age of everything sent within the time-to-live.      *)
TrackerInv ==
  \A b \in AllBytes : sentAge[b] = IF b \in DOMAIN seen THEN seen[b] ELSE TTL

(* The tx at hand still fits, and its entry in the cache, replaced or not   *)
(* since its bytes were read, has no other hash than theirs.                *)
CursorInv ==
  /\ sent \in Seq([tx : Txs, bz : AllBytes])
  /\ pc \in {"lookup", "record"} => cur \in [tx : Txs, bz : AllBytes] /\ WithinCaps(cur.tx)
  /\ MaxPerReap > 0 /\ (pc \in {"lookup", "record"} \/ (pc = "scan" /\ todo # <<>>)) =>
       Len(sent) < MaxPerReap
  /\ pc = "lookup" =>
       \A i \in DOMAIN lru : lru[i].tx = cur.tx => lru[i].hash \in {None, cur.bz}
  /\ pc = "record" => found \in {None, cur.bz}

ReapInv ==
  TypeOK /\ CursorInv /\ TrackerInv /\ CacheSound /\ ReapWithinLimits /\ TrackerIsExact
=============================================================================
