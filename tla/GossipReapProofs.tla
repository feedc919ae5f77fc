-------------------------- MODULE GossipReapProofs --------------------------
(***************************************************************************)
(* The encoder cache, the limits of a reap and the gossip tracker, for any *)
(* set of txs, any order of the pool and any capacity, limits and          *)
(* time-to-live: ReapInv of GossipReap is inductive.                       *)
(***************************************************************************)
EXTENDS GossipReap, CollectionTheorems, TLAPS

(* What CacheSound says of any sequence of entries, in terms of its range.  *)
Sound(q) ==
  /\ q \in Seq(Entries) /\ Len(q) <= CacheCap
  /\ IsInjective(q) /\ \A e, f \in Range(q) : e.tx = f.tx => e = f
  /\ \A e \in Range(q) : e.hash \in {None, e.bz}

(* The two statements of the soundness of the cache agree.                  *)
LEMMA SoundIff ==
  ASSUME lru \in Seq(Entries)
  PROVE  CacheSound <=> Sound(lru)
<1>1. DOMAIN lru = 1 .. Len(lru)
  OBVIOUS
<1>2. ASSUME CacheSound PROVE Sound(lru)
  BY <1>1, <1>2, Zenon DEF CacheSound, Sound, Range, IsInjective
<1>3. ASSUME Sound(lru) PROVE CacheSound
  <2>1. \A i \in DOMAIN lru : lru[i] \in Range(lru)
    BY Zenon DEF Range
  <2> QED
    BY <1>3, <2>1, Zenon DEF CacheSound, Sound, IsInjective
<1> QED
  BY <1>2, <1>3, Zenon

(* The same in the next state.                                              *)
LEMMA SoundIffNext ==
  ASSUME lru' \in Seq(Entries)
  PROVE  CacheSound' <=> Sound(lru')
<1>1. DOMAIN lru' = 1 .. Len(lru')
  OBVIOUS
<1>2. ASSUME CacheSound' PROVE Sound(lru')
  BY <1>1, <1>2, Zenon DEF CacheSound, Sound, Range, IsInjective
<1>3. ASSUME Sound(lru') PROVE CacheSound'
  <2>1. \A i \in DOMAIN lru' : lru'[i] \in Range(lru')
    BY Zenon DEF Range
  <2> QED
    BY <1>3, <2>1, Zenon DEF CacheSound, Sound, IsInjective
<1> QED
  BY <1>2, <1>3, Zenon

(* An entry put before others, none of them of its tx, while there is room. *)
LEMMA PutInFront ==
  ASSUME NEW e \in Entries, e.hash \in {None, e.bz}, NEW q, Sound(q), Len(q) < CacheCap,
         \A f \in Range(q) : f.tx # e.tx
  PROVE  Sound(<<e>> \o q) /\ Range(<<e>> \o q) = {e} \cup Range(q)
<1>1. /\ q \in Seq(Entries) /\ Len(q) \in Nat /\ IsInjective(q)
      /\ \A f, g \in Range(q) : f.tx = g.tx => f = g
      /\ \A f \in Range(q) : f.hash \in {None, f.bz}
  BY DEF Sound
<1>2. PICK p : p = <<e>>
  BY Zenon
<1>3. p \in Seq(Entries) /\ Len(p) = 1 /\ DOMAIN p = {1} /\ p[1] = e
  BY <1>2
<1>4. Range(p) = {e} /\ IsInjective(p)
  BY <1>3, Zenon DEF Range, IsInjective
<1>5. Range(p) \cap Range(q) = {}
  BY <1>4, Zenon
<1>6. p \o q \in Seq(Entries) /\ Range(p \o q) = Range(p) \cup Range(q) /\ IsInjective(p \o q)
  BY ONLY <1>1, <1>3, <1>4, <1>5, ConcatFacts, Zenon
<1> USE <1>1
<1>7. Len(p \o q) <= CacheCap
  <2>0. p \in Seq(Entries) /\ q \in Seq(Entries)
    BY <1>3, Zenon
  <2>1. Len(p \o q) = Len(p) + Len(q)
    BY ONLY <2>0
  <2>2. CacheCap \in Nat
    BY ReapAssumption, Zenon
  <2> QED
    BY <1>3, <2>1, <2>2
<1>8. Range(p \o q) = {e} \cup Range(q)
  BY <1>4, <1>6, Zenon
<1>9. Sound(p \o q)
  BY <1>6, <1>7, <1>8, Zenon DEF Sound
<1> QED
  BY <1>2, <1>8, <1>9, Zenon

(* Dropping the entry of a tx.                                              *)
LEMMA WithoutFacts ==
  ASSUME Sound(lru), NEW t
  PROVE  /\ Sound(Without(t)) /\ Range(Without(t)) = {e \in Range(lru) : e.tx # t}
         /\ Cached(t) => Len(Without(t)) < Len(lru)
<1> DEFINE S == {e \in Range(lru) : e.tx # t}
<1>1. /\ lru \in Seq(Entries) /\ Len(lru) <= CacheCap /\ IsInjective(lru)
      /\ \A e, f \in Range(lru) : e.tx = f.tx => e = f
      /\ \A e \in Range(lru) : e.hash \in {None, e.bz}
  BY Zenon DEF Sound
<1>2. PICK q : q = Filter(lru, S)
  BY Zenon
<1> USE <1>1
<1>3. q \in Seq(Entries \cap S) /\ Range(q) = Range(lru) \cap S
  BY <1>2, FilterFacts, Zenon
<1>4. IsInjective(q)
  BY <1>2, FilterFacts, Zenon
<1>5. /\ Len(q) <= Len(lru)
      /\ (\E x \in Range(lru) : x \notin S) => Len(q) < Len(lru)
  BY <1>2, FilterFacts, Zenon
<1>6. q \in Seq(Entries) /\ Len(q) \in Nat /\ Range(q) = S
  BY <1>3
<1> USE <1>6
<1>7. Len(q) <= CacheCap
  <2>1. CacheCap \in Nat /\ Len(lru) \in Nat
    BY ReapAssumption
  <2> QED
    BY <1>5, <2>1
<1>8. Sound(q)
  BY <1>4, <1>7, Zenon DEF Sound
<1>9. Cached(t) => \E x \in Range(lru) : x \notin S
  BY Zenon DEF Cached, Range
<1> QED
  BY <1>2, <1>5, <1>8, <1>9, Zenon DEF Without

(* Moving an entry of a cached tx to the front, changed or not.             *)
LEMMA MoveToFrontFacts ==
  ASSUME Sound(lru), NEW e \in Entries, e.hash \in {None, e.bz}, Cached(e.tx)
  PROVE  /\ Sound(MoveToFront(e))
         /\ Range(MoveToFront(e)) = {e} \cup {f \in Range(lru) : f.tx # e.tx}
<1>1. /\ Sound(Without(e.tx)) /\ Range(Without(e.tx)) = {f \in Range(lru) : f.tx # e.tx}
      /\ Len(Without(e.tx)) < Len(lru)
  BY WithoutFacts, Zenon
<1>2. Len(lru) \in Nat /\ Len(lru) <= CacheCap /\ CacheCap \in Nat
  BY ReapAssumption DEF Sound
<1>3. PICK q : q = Without(e.tx)
  BY Zenon
<1> USE <1>3
<1>4. Sound(q) /\ Len(q) < CacheCap /\ Range(q) = {f \in Range(lru) : f.tx # e.tx}
  <2>1. Len(q) \in Nat
    BY <1>1 DEF Sound
  <2> QED
    BY <1>1, <1>2, <2>1
<1>5. Sound(<<e>> \o q) /\ Range(<<e>> \o q) = {e} \cup Range(q)
  BY <1>4, PutInFront, Zenon
<1> QED
  BY <1>4, <1>5, Zenon DEF MoveToFront

(* The entry of a cached tx is the one entry that has it.                   *)
LEMMA EntryFacts ==
  ASSUME Sound(lru), NEW t, Cached(t)
  PROVE  /\ EntryOf(t) \in Range(lru) /\ EntryOf(t) \in Entries /\ EntryOf(t).tx = t
         /\ EntryOf(t).hash \in {None, EntryOf(t).bz}
         /\ \A f \in Range(lru) : f.tx = t => f = EntryOf(t)
<1>1. PICK i : i = CHOOSE j \in DOMAIN lru : lru[j].tx = t
  BY Zenon
<1>2. i \in DOMAIN lru /\ lru[i].tx = t /\ EntryOf(t) = lru[i]
  BY <1>1, Zenon DEF Cached, EntryOf
<1>3. lru[i] \in Range(lru) /\ lru[i] \in Entries
  BY <1>2 DEF Sound, Range
<1> QED
  BY <1>2, <1>3, Zenon DEF Sound

(* Set leaves the cache sound: it replaces the entry of the tx, or makes    *)
(* room for one, and the new entry has no hash yet.                         *)
LEMMA SetFacts ==
  ASSUME Sound(lru), NEW t \in Txs, NEW bz \in AllBytes
  PROVE  Sound(Set(t, bz)) /\ \A e \in Range(Set(t, bz)) : e \in Range(lru) \/ e.hash = None
<1>1. PICK e : e = [tx |-> t, bz |-> bz, hash |-> None]
  BY Zenon
<1>2. e \in Entries /\ e.hash = None /\ e.tx = t /\ e.hash \in {None, e.bz}
  BY <1>1, Zenon DEF Entries
<1>3. CASE t \in Uncached
  BY <1>3, Zenon DEF Set
<1>4. CASE t \notin Uncached /\ Cached(t)
  <2>1. Set(t, bz) = MoveToFront(e)
    BY <1>1, <1>4, Zenon DEF Set
  <2> USE <1>2
  <2>2. Cached(e.tx)
    BY <1>4, Zenon
  <2>3. Sound(MoveToFront(e)) /\ Range(MoveToFront(e)) = {e} \cup {f \in Range(lru) : f.tx # e.tx}
    BY <2>2, MoveToFrontFacts, Zenon
  <2> QED
    BY <2>1, <2>3, Zenon
<1>5. CASE t \notin Uncached /\ ~Cached(t)
  <2>1. PICK q : q = IF Len(lru) >= CacheCap THEN SubSeq(lru, 1, Len(lru) - 1) ELSE lru
    BY Zenon
  <2>2. Set(t, bz) = <<e>> \o q
    BY <1>1, <1>5, <2>1, Zenon DEF Set
  <2>3. lru \in Seq(Entries) /\ Len(lru) \in Nat /\ Len(lru) <= CacheCap /\ CacheCap \in Nat \ {0}
    BY ReapAssumption DEF Sound
  <2> USE <2>3
  <2>4. /\ q \in Seq(Entries) /\ Len(q) \in Nat /\ Len(q) < CacheCap /\ Len(q) <= Len(lru)
        /\ \A i \in 1 .. Len(q) : q[i] = lru[i]
    BY <2>1
  <2> USE <2>4
  <2>5. DOMAIN q = 1 .. Len(q) /\ DOMAIN lru = 1 .. Len(lru) /\ 1 .. Len(q) \subseteq 1 .. Len(lru)
    OBVIOUS
  <2>6. Range(q) \subseteq Range(lru) /\ IsInjective(q)
    BY <2>5 DEF Range, IsInjective, Sound
  <2> USE <2>6
  <2>7. Sound(q)
    BY DEF Sound
  <2> USE <1>2
  <2>8. \A f \in Range(q) : f.tx # e.tx
    BY <1>5, Zenon DEF Cached, Range
  <2>9. Sound(<<e>> \o q) /\ Range(<<e>> \o q) = {e} \cup Range(q)
    BY <2>7, <2>8, PutInFront, Zenon
  <2> QED
    BY <2>2, <2>9, Zenon
<1> QED
  BY <1>3, <1>4, <1>5, Zenon

(* Get changes the order of the entries only.                               *)
LEMMA GetFacts ==
  ASSUME Sound(lru), NEW t
  PROVE  Sound(Get(t)) /\ Range(Get(t)) = Range(lru)
<1>1. CASE Cached(t)
  <2>1. PICK e : e = EntryOf(t)
    BY Zenon
  <2> USE <1>1
  <2>2. /\ e \in Range(lru) /\ e \in Entries /\ e.tx = t /\ e.hash \in {None, e.bz}
        /\ \A f \in Range(lru) : f.tx = t => f = e
    BY <2>1, EntryFacts, Zenon
  <2> USE <2>2
  <2>3. Cached(e.tx)
    BY Zenon
  <2>4. Sound(MoveToFront(e)) /\ Range(MoveToFront(e)) = {e} \cup {f \in Range(lru) : f.tx # e.tx}
    BY <2>3, MoveToFrontFacts, Zenon
  <2>5. Get(t) = MoveToFront(e)
    BY <2>1, Zenon DEF Get
  <2> QED
    BY <2>4, <2>5, Zenon
<1>2. CASE ~Cached(t)
  BY <1>2, Zenon DEF Get
<1> QED
  BY <1>1, <1>2, Zenon

(* HashTx stores a hash only beside the bytes it is the hash of.            *)
LEMMA StoreHashFacts ==
  ASSUME Sound(lru), NEW t, NEW bz \in AllBytes
  PROVE  Sound(StoreHash(t, bz))
<1>1. CASE Cached(t) /\ EntryOf(t).bz = bz
  <2> USE <1>1
  <2>1. EntryOf(t) \in Entries /\ EntryOf(t).tx = t
    BY EntryFacts, Zenon
  <2>2. PICK e : e = [EntryOf(t) EXCEPT !.hash = bz]
    BY Zenon
  <2>3. e \in Entries /\ e.tx = t /\ e.hash = bz /\ e.bz = bz
    BY <2>1, <2>2, Zenon DEF Entries
  <2> USE <2>3
  <2>4. Cached(e.tx)
    BY Zenon
  <2>5. e.hash \in {None, e.bz}
    BY Zenon
  <2>6. Sound(MoveToFront(e))
    BY <2>4, <2>5, MoveToFrontFacts, Zenon
  <2> QED
    BY <2>2, <2>6, Zenon DEF StoreHash
<1>2. CASE ~(Cached(t) /\ EntryOf(t).bz = bz)
  BY <1>2, Zenon DEF StoreHash
<1> QED
  BY <1>1, <1>2, Zenon

-----------------------------------------------------------------------------
(* Sizes                                                                    *)

Sendable == [tx : Txs, bz : AllBytes]

(* The sum of w over the txs of q, and what is left for one more.           *)
Total(w, q) == SumOver([i \in DOMAIN q |-> w[q[i].tx]], DOMAIN q)

Caps(q, t) ==
  /\ MaxBytes > 0 => Total(Size, q) + Size[t] <= MaxBytes
  /\ MaxGas > 0 => Gas[t] <= MaxGas - Total(Gas, q)

Limits(q) ==
  /\ MaxBytes > 0 => Total(Size, q) <= MaxBytes
  /\ MaxGas > 0 => Total(Gas, q) <= MaxGas
  /\ MaxPerReap > 0 => Len(q) <= MaxPerReap

(* The limits of the code, in these terms.                                  *)
LEMMA CapsAre ==
  /\ \A t : WithinCaps(t) <=> Caps(sent, t)
  /\ ReapWithinLimits <=> Limits(sent)
BY Zenon DEF WithinCaps, Caps, ReapWithinLimits, Limits, BytesSent, GasSent, Total

(* The same in the next state.                                              *)
LEMMA CapsAreNext ==
  /\ WithinCaps(cur.tx)' <=> Caps(sent', cur'.tx)
  /\ ReapWithinLimits' <=> Limits(sent')
BY Zenon DEF WithinCaps, Caps, ReapWithinLimits, Limits, BytesSent, GasSent, Total

(* What a reap returns grows by the size of the tx it adds.                 *)
LEMMA TotalFacts ==
  ASSUME NEW w, \A t \in Txs : w[t] \in Nat, NEW q \in Seq(Sendable), NEW c \in Sendable
  PROVE  /\ Total(w, q) \in Nat /\ Total(w, <<>>) = 0
         /\ Total(w, Append(q, c)) = Total(w, q) + w[c.tx]
<1>1. PICK n \in Nat : n = Len(q)
  OBVIOUS
<1>2. PICK p : p = Append(q, c)
  BY Zenon
<1>3. /\ DOMAIN q = 1 .. n /\ DOMAIN p = 1 .. (n + 1)
      /\ \A i \in 1 .. n : p[i] = q[i] /\ q[i] \in Sendable
      /\ p[n + 1] = c
  BY <1>1, <1>2
<1> DEFINE f == [i \in DOMAIN q |-> w[q[i].tx]]
           g == [i \in DOMAIN p |-> w[p[i].tx]]
<1>4. /\ \A i \in 1 .. n : f[i] = g[i] /\ f[i] \in Nat
      /\ g[n + 1] = w[c.tx] /\ g[n + 1] \in Nat
  BY <1>3 DEF Sendable
<1>5. IsFiniteSet(1 .. n) /\ 1 .. (n + 1) = (1 .. n) \cup {n + 1} /\ n + 1 \notin 1 .. n
  <2>1. IsFiniteSet(1 .. n)
    BY FiniteInterval, Zenon
  <2>2. 1 .. (n + 1) = (1 .. n) \cup {n + 1} /\ n + 1 \notin 1 .. n
    OBVIOUS
  <2> QED
    BY <2>1, <2>2, Zenon
<1> USE <1>5
<1>6. Total(w, q) = SumOver(f, 1 .. n) /\ Total(w, p) = SumOver(g, (1 .. n) \cup {n + 1})
  BY <1>3, Zenon DEF Total
<1> HIDE DEF f, g
<1> USE <1>4
<1>7. \A y \in (1 .. n) \cup {n + 1} : g[y] \in Int
  OBVIOUS
<1>8. SumOver(g, (1 .. n) \cup {n + 1}) = g[n + 1] + SumOver(g, 1 .. n)
  BY ONLY <1>5, <1>7, SumAdd, Zenon
<1>9. SumOver(f, 1 .. n) = SumOver(g, 1 .. n)
  BY SumSame, Zenon
<1>10. SumOver(f, 1 .. n) \in Nat
  BY SumType, Zenon
<1>11. Total(w, <<>>) = 0
  BY SumEmpty DEF Total
<1> QED
  BY <1>2, <1>6, <1>8, <1>9, <1>10, <1>11

-----------------------------------------------------------------------------
(* The invariant                                                            *)

(* The bytes of a tx are among all bytes.                                   *)
LEMMA FormsAreBytes == \A t \in Txs : Forms(t) \subseteq AllBytes /\ Canonical(t) \in Forms(t)
BY Zenon DEF AllBytes, Forms, Canonical

(* The invariant holds at the start.                                        *)
LEMMA ReapInit == Init => ReapInv
<1> SUFFICES ASSUME Init PROVE ReapInv
  BY Zenon
<1>0. MaxFaults \in Nat /\ TTL \in Nat \ {0} /\ CacheCap \in Nat /\ {MaxBytes, MaxGas, MaxPerReap} \subseteq Nat
  BY ReapAssumption, Zenon
<1>1. TypeOK
  <2>1. sentAge \in [AllBytes -> 0 .. TTL]
    BY <1>0 DEF Init
  <2>2. lru \in Seq(Entries) /\ todo \in Seq(Txs)
    BY DEF Init
  <2>3. DOMAIN seen = {}
    BY Zenon DEF Init
  <2> QED
    BY <1>0, <2>1, <2>2, <2>3 DEF Init, TypeOK
<1>2. CursorInv
  BY DEF Init, CursorInv
<1>3. TrackerInv
  BY Zenon DEF Init, TrackerInv
<1>4. CacheSound
  BY <1>0 DEF Init, CacheSound
<1>5. ReapWithinLimits
  <2>1. Total(Size, sent) = 0 /\ Total(Gas, sent) = 0 /\ Len(sent) = 0
    BY SumEmpty DEF Init, Total
  <2>2. Limits(sent)
    BY <1>0, <2>1 DEF Limits
  <2> QED
    BY <2>2, CapsAre, Zenon
<1>6. TrackerIsExact
  BY Zenon DEF Init, TrackerIsExact
<1> QED
  BY <1>1, <1>2, <1>3, <1>4, <1>5, <1>6, Zenon DEF ReapInv

(* What the invariant says of each part, for the steps below.               *)
LEMMA InvParts ==
  ASSUME ReapInv
  PROVE  /\ Sound(lru) /\ Limits(sent) /\ sent \in Seq(Sendable)
         /\ pc \in {"lookup", "record"} => cur \in Sendable /\ Caps(sent, cur.tx)
<1>1. lru \in Seq(Entries)
  BY Zenon DEF ReapInv, TypeOK
<1>2. Sound(lru)
  BY <1>1, SoundIff, Zenon DEF ReapInv
<1>3. Limits(sent)
  BY CapsAre, Zenon DEF ReapInv
<1>4. sent \in Seq(Sendable) /\ (pc \in {"lookup", "record"} => cur \in Sendable /\ WithinCaps(cur.tx))
  BY Zenon DEF ReapInv, CursorInv, Sendable
<1> QED
  BY <1>2, <1>3, <1>4, CapsAre, Zenon

(* A new cache that is sound, and has no new hash for the tx the reaper     *)
(* works on, keeps the invariant when the rest of the reap does not change. *)
LEMMA CacheStep ==
  ASSUME ReapInv, UNCHANGED <<seen, reapVars, reaped, sentAge>>, Sound(lru'),
         pool' \subseteq Txs, faults' \in 0 .. MaxFaults,
         \A e \in Range(lru') : e \in Range(lru) \/ e.hash = None
  PROVE  ReapInv'
<1>1. lru' \in Seq(Entries)
  BY Zenon DEF Sound
<1>2. CacheSound'
  BY <1>1, SoundIffNext, Zenon
<1>3. TypeOK'
  BY <1>1, Zenon DEF ReapInv, TypeOK, reapVars
<1>4. TrackerInv' /\ TrackerIsExact'
  BY Zenon DEF ReapInv, TrackerInv, TrackerIsExact, reapVars
<1>5. ReapWithinLimits'
  BY InvParts, CapsAreNext, Zenon DEF reapVars
<1>6. ASSUME pc = "lookup", NEW i \in DOMAIN lru', lru'[i].tx = cur.tx
      PROVE  lru'[i].hash \in {None, cur.bz}
  <2>1. lru'[i] \in Range(lru')
    BY <1>1, Zenon DEF Range
  <2>2. CASE lru'[i] \in Range(lru)
    <3>1. PICK j \in DOMAIN lru : lru[j] = lru'[i]
      BY <2>2, Zenon DEF Range
    <3>2. lru[j].tx = cur.tx => lru[j].hash \in {None, cur.bz}
      BY <1>6, Zenon DEF ReapInv, CursorInv
    <3> QED
      BY <1>6, <3>1, <3>2, Zenon
  <2> QED
    BY <2>1, <2>2, Zenon
<1>7. CursorInv'
  <2>1. pc' \in {"lookup", "record"} => WithinCaps(cur.tx)'
    BY InvParts, CapsAreNext, Zenon DEF reapVars
  <2> QED
    BY <1>6, <2>1, Zenon DEF ReapInv, CursorInv, reapVars
<1> QED
  BY <1>2, <1>3, <1>4, <1>5, <1>7, Zenon DEF ReapInv

(* The pool and the cache change between the reaper's steps.                *)
LEMMA PoolKeeps ==
  ASSUME ReapInv, NEW t \in Txs,
         (\E bz \in AllBytes : Admit(t, bz)) \/ Include(t) \/ evict(t)
  PROVE  ReapInv'
<1>0. Sound(lru) /\ pool \subseteq Txs /\ faults \in 0 .. MaxFaults /\ MaxFaults \in Nat
  BY InvParts, ReapAssumption, Zenon DEF ReapInv, TypeOK
<1> USE <1>0
<1>1. ASSUME NEW bz \in AllBytes, Admit(t, bz) PROVE ReapInv'
  <2>1. faults' \in 0 .. MaxFaults
    BY <1>1 DEF Admit
  <2>2. pool' \subseteq Txs /\ UNCHANGED <<seen, reapVars, reaped, sentAge>> /\ lru' = Set(t, bz)
    BY <1>1, Zenon DEF Admit
  <2>3. Sound(lru') /\ \A e \in Range(lru') : e \in Range(lru) \/ e.hash = None
    BY <2>2, SetFacts, Zenon
  <2> QED
    BY <2>1, <2>2, <2>3, CacheStep, Zenon
<1>2. CASE Include(t)
  <2>1. /\ pool' \subseteq Txs /\ faults' \in 0 .. MaxFaults /\ lru' = lru
        /\ UNCHANGED <<seen, reapVars, reaped, sentAge>>
    BY <1>2, Zenon DEF Include
  <2>2. Sound(lru') /\ \A e \in Range(lru') : e \in Range(lru) \/ e.hash = None
    BY <2>1, Zenon
  <2> QED
    BY <2>1, <2>2, CacheStep, Zenon
<1>3. CASE evict(t)
  <2>1. /\ pool' \subseteq Txs /\ faults' \in 0 .. MaxFaults /\ lru' = Without(t)
        /\ UNCHANGED <<seen, reapVars, reaped, sentAge>>
    BY <1>3, Zenon DEF evict, Evict
  <2>2. Sound(lru') /\ \A e \in Range(lru') : e \in Range(lru) \/ e.hash = None
    BY <2>1, WithoutFacts, Zenon
  <2> QED
    BY <2>1, <2>2, CacheStep, Zenon
<1> QED
  BY <1>1, <1>2, <1>3, Zenon

(* The start of a reap.                                                     *)
LEMMA StartKeeps == ASSUME ReapInv, StartReap PROVE ReapInv'
<1>0. MaxFaults \in Nat /\ {MaxBytes, MaxGas, MaxPerReap} \subseteq Nat /\ ByPriority \in Seq(Txs)
  BY ReapAssumption, Zenon
<1>1. todo' \in Seq(Txs)
  <2>1. todo' \in Seq(Txs \cap pool)
    BY <1>0, FilterFacts, Zenon DEF StartReap
  <2> QED
    BY <2>1
<1>2. TypeOK'
  BY <1>1, Zenon DEF StartReap, ReapInv, TypeOK
<1>3. Limits(sent')
  <2>1. Total(Size, sent') = 0 /\ Total(Gas, sent') = 0 /\ Len(sent') = 0
    BY SumEmpty DEF StartReap, Total
  <2> QED
    BY <1>0, <2>1 DEF Limits
<1>4. ReapWithinLimits'
  BY <1>3, CapsAreNext, Zenon
<1>5. CursorInv'
  <2>1. sent' = <<>> /\ pc' = "scan" /\ Len(sent') = 0
    BY Zenon DEF StartReap
  <2> QED
    BY <1>0, <2>1 DEF CursorInv
<1>6. TrackerInv' /\ TrackerIsExact' /\ CacheSound'
  BY Zenon DEF StartReap, ReapInv, TrackerInv, TrackerIsExact, CacheSound
<1> QED
  BY <1>2, <1>4, <1>5, <1>6, Zenon DEF ReapInv

(* The reaper takes a tx: its bytes are those of its entry, whose hash, if  *)
(* any, is theirs.                                                          *)
LEMMA ScanKeeps == ASSUME ReapInv, NEW bz \in AllBytes, ScanTx(bz) PROVE ReapInv'
<1>0. Sound(lru) /\ Limits(sent) /\ todo \in Seq(Txs) /\ todo # <<>> /\ pc = "scan"
  BY InvParts, Zenon DEF ReapInv, TypeOK, ScanTx
<1>1. PICK t \in Txs : t = Head(todo)
  BY <1>0, HeadTail, Zenon
<1>2. Tail(todo) \in Seq(Txs) /\ <<>> \in Seq(Txs)
  BY <1>0, HeadTail
<1>3. lru' = Get(t) /\ EncodeTx(t, bz)
  BY <1>1, Zenon DEF ScanTx
<1>4. Sound(lru') /\ Range(lru') = Range(lru)
  BY <1>0, <1>3, GetFacts, Zenon
<1>5. lru' \in Seq(Entries)
  BY <1>4, Zenon DEF Sound
<1>6. CacheSound'
  BY <1>4, <1>5, SoundIffNext, Zenon
<1>7. ReapWithinLimits'
  BY <1>0, CapsAreNext, Zenon DEF ScanTx
<1>8. TrackerInv' /\ TrackerIsExact'
  BY <1>0, Zenon DEF ScanTx, ReapInv, TrackerInv, TrackerIsExact
<1>9. CASE WithinCaps(t)
  <2>1. /\ pc' = "lookup" /\ cur' = [tx |-> t, bz |-> bz] /\ todo' = Tail(todo)
        /\ UNCHANGED <<pool, seen, found, sent, reaped, sentAge, faults>>
    BY <1>1, <1>9, Zenon DEF ScanTx
  <2> USE <2>1
  <2>2. cur' \in [tx : Txs, bz : AllBytes] /\ cur'.tx = t /\ cur'.bz = bz
    BY Zenon
  <2>3. TypeOK'
    BY <1>2, <1>5, <2>2, Zenon DEF ReapInv, TypeOK
  <2>4. WithinCaps(cur.tx)'
    BY <1>9, <2>2, CapsAre, CapsAreNext, Zenon
  <2>5. ASSUME NEW i \in DOMAIN lru', lru'[i].tx = t PROVE lru'[i].hash \in {None, bz}
    <3>1. lru'[i] \in Range(lru)
      BY <1>4, <1>5, Zenon DEF Range
    <3>2. Cached(t)
      BY <2>5, <3>1, Zenon DEF Cached, Range
    <3>3. lru'[i] = EntryOf(t) /\ EntryOf(t).hash \in {None, EntryOf(t).bz}
      BY <1>0, <2>5, <3>1, <3>2, EntryFacts, Zenon
    <3> QED
      BY <1>3, <3>2, <3>3, Zenon DEF EncodeTx
  <2>6. CursorInv'
    BY <1>0, <2>2, <2>4, <2>5, Zenon DEF ReapInv, CursorInv
  <2> QED
    BY <1>6, <1>7, <1>8, <2>3, <2>6, Zenon DEF ReapInv
<1>10. CASE ~WithinCaps(t)
  <2>1. /\ todo' = <<>> /\ pc' = "scan" /\ cur' = cur
        /\ UNCHANGED <<pool, seen, found, sent, reaped, sentAge, faults>>
    BY <1>0, <1>1, <1>10, Zenon DEF ScanTx
  <2>2. TypeOK'
    BY <1>2, <1>5, <2>1, Zenon DEF ReapInv, TypeOK
  <2>3. CursorInv'
    BY <2>1, Zenon DEF ReapInv, CursorInv
  <2> QED
    BY <1>6, <1>7, <1>8, <2>2, <2>3, Zenon DEF ReapInv
<1> QED
  BY <1>9, <1>10, Zenon

(* The reaper passes over a tx that does not encode.                        *)
LEMMA SkipKeeps == ASSUME ReapInv, SkipTx PROVE ReapInv'
<1>0. Limits(sent) /\ todo \in Seq(Txs) /\ todo # <<>> /\ pc = "scan" /\ MaxFaults \in Nat
  BY InvParts, ReapAssumption, Zenon DEF ReapInv, TypeOK, SkipTx
<1> USE <1>0
<1>1. Tail(todo) \in Seq(Txs)
  BY HeadTail, Zenon
<1>2. faults' \in 0 .. MaxFaults
  BY DEF SkipTx, ReapInv, TypeOK
<1>3. TypeOK'
  BY <1>1, <1>2, Zenon DEF SkipTx, ReapInv, TypeOK
<1>4. CursorInv'
  BY Zenon DEF SkipTx, ReapInv, CursorInv
<1>5. ReapWithinLimits'
  BY CapsAreNext, Zenon DEF SkipTx
<1>6. TrackerInv' /\ TrackerIsExact' /\ CacheSound'
  BY Zenon DEF SkipTx, ReapInv, TrackerInv, TrackerIsExact, CacheSound
<1> QED
  BY <1>3, <1>4, <1>5, <1>6, Zenon DEF ReapInv

(* The reaper looks up the hash: what it finds is that of the bytes it has. *)
LEMMA LookupKeeps == ASSUME ReapInv, LookupHash PROVE ReapInv'
<1>0. /\ Sound(lru) /\ Limits(sent) /\ pc = "lookup" /\ cur \in Sendable /\ Caps(sent, cur.tx)
      /\ \A i \in DOMAIN lru : lru[i].tx = cur.tx => lru[i].hash \in {None, cur.bz}
  BY InvParts, Zenon DEF ReapInv, CursorInv, LookupHash
<1> USE <1>0
<1>1. CachedHash(cur.tx) \in {None, cur.bz}
  <2>1. CASE Cached(cur.tx)
    <3>1. EntryOf(cur.tx) \in Range(lru) /\ EntryOf(cur.tx).tx = cur.tx
      BY <2>1, EntryFacts, Zenon
    <3> QED
      BY <2>1, <3>1, Zenon DEF CachedHash, Range
  <2> QED
    BY <2>1, Zenon DEF CachedHash
<1>2. Sound(lru')
  <2>1. lru' = lru \/ lru' = Get(cur.tx)
    BY Zenon DEF LookupHash
  <2> QED
    BY <2>1, GetFacts, Zenon
<1>3. lru' \in Seq(Entries)
  BY <1>2, Zenon DEF Sound
<1>4. CacheSound'
  BY <1>2, <1>3, SoundIffNext, Zenon
<1>5. /\ pc' = "record" /\ found' \in {None, cur.bz} /\ cur' = cur
      /\ UNCHANGED <<pool, seen, todo, sent, reaped, sentAge, faults>>
  BY <1>1, Zenon DEF LookupHash
<1> USE <1>5
<1>6. TypeOK'
  <2>1. found' \in AllBytes \cup {None}
    BY Zenon DEF Sendable
  <2> QED
    BY <1>3, <2>1, Zenon DEF ReapInv, TypeOK
<1>7. CursorInv'
  <2>1. WithinCaps(cur.tx)'
    BY CapsAreNext, Zenon
  <2> QED
    BY <2>1, Zenon DEF ReapInv, CursorInv
<1>8. ReapWithinLimits'
  BY CapsAreNext, Zenon
<1>9. TrackerInv' /\ TrackerIsExact'
  BY Zenon DEF ReapInv, TrackerInv, TrackerIsExact
<1> QED
  BY <1>4, <1>6, <1>7, <1>8, <1>9, Zenon DEF ReapInv

(* The hash the reaper compares is that of the bytes it sends: they are due *)
(* when it sends them.                                                      *)
LEMMA RecordFacts ==
  ASSUME ReapInv, RecordTx
  PROVE  \/ /\ sentAge[cur.bz] = TTL /\ sent' = Append(sent, cur)
            /\ seen' = [b \in DOMAIN seen \cup {cur.bz} |-> IF b = cur.bz THEN 0 ELSE seen[b]]
            /\ sentAge' = [sentAge EXCEPT ![cur.bz] = 0]
            /\ todo' = IF MaxPerReap > 0 /\ Len(sent) + 1 >= MaxPerReap THEN <<>> ELSE todo
         \/ UNCHANGED <<seen, sent, sentAge, todo>>
<1>1. found \in {None, cur.bz} /\ cur.bz \in AllBytes
  BY InvParts, Zenon DEF RecordTx, ReapInv, CursorInv, Sendable
<1>2. (IF found = None THEN cur.bz ELSE found) = cur.bz
  BY <1>1, Zenon
<1>3. CASE MayGossip(cur.bz)
  <2>1. cur.bz \in DOMAIN seen => seen[cur.bz] = TTL
    <3>1. cur.bz \in DOMAIN seen => seen[cur.bz] \in 0 .. TTL /\ seen[cur.bz] >= TTL
      BY <1>3, Zenon DEF MayGossip, ReapInv, TypeOK
    <3>2. TTL \in Nat
      BY ReapAssumption, Zenon
    <3> QED
      BY <3>1, <3>2
  <2>2. sentAge[cur.bz] = TTL
    BY <1>1, <2>1, Zenon DEF ReapInv, TrackerInv
  <2> QED
    BY <1>2, <1>3, <2>2, Zenon DEF RecordTx
<1>4. CASE ~MayGossip(cur.bz)
  BY <1>2, <1>4, Zenon DEF RecordTx
<1> QED
  BY <1>3, <1>4, Zenon

(* The reaper sends the tx, or not.                                         *)
LEMMA RecordKeeps == ASSUME ReapInv, RecordTx PROVE ReapInv'
<1>0. /\ Sound(lru) /\ Limits(sent) /\ sent \in Seq(Sendable) /\ Len(sent) \in Nat
      /\ pc = "record" /\ cur \in Sendable /\ cur.bz \in AllBytes /\ cur.tx \in Txs
      /\ Caps(sent, cur.tx) /\ (MaxPerReap > 0 => Len(sent) < MaxPerReap)
  BY InvParts DEF ReapInv, CursorInv, RecordTx, Sendable
<1>1. /\ {MaxBytes, MaxGas, MaxPerReap} \subseteq Nat /\ TTL \in Nat \ {0}
      /\ \A t \in Txs : Size[t] \in Nat /\ Gas[t] \in Nat
  BY ReapAssumption, Zenon
<1>2. pc' = "scan" /\ cur' = NoTx /\ found' = None /\ UNCHANGED <<pool, reaped, faults>>
  BY Zenon DEF RecordTx
<1>3. Sound(lru')
  <2>1. lru' = lru \/ lru' = StoreHash(cur.tx, cur.bz)
    BY Zenon DEF RecordTx
  <2> QED
    BY <1>0, <2>1, StoreHashFacts, Zenon
<1>4. lru' \in Seq(Entries)
  BY <1>3, Zenon DEF Sound
<1>5. CacheSound' /\ TrackerIsExact'
  BY <1>2, <1>3, <1>4, SoundIffNext, Zenon DEF TrackerIsExact
<1>6. CASE UNCHANGED <<seen, sent, sentAge, todo>>
  <2> USE <1>6
  <2>1. TypeOK'
    BY <1>2, <1>4, Zenon DEF ReapInv, TypeOK
  <2>2. CursorInv'
    BY <1>0, <1>2, Zenon DEF CursorInv, Sendable
  <2>3. ReapWithinLimits'
    BY <1>0, CapsAreNext, Zenon
  <2>4. TrackerInv'
    BY Zenon DEF ReapInv, TrackerInv
  <2> QED
    BY <1>5, <2>1, <2>2, <2>3, <2>4, Zenon DEF ReapInv
<1>7. ASSUME sent' = Append(sent, cur),
             seen' = [b \in DOMAIN seen \cup {cur.bz} |-> IF b = cur.bz THEN 0 ELSE seen[b]],
             sentAge' = [sentAge EXCEPT ![cur.bz] = 0],
             todo' = IF MaxPerReap > 0 /\ Len(sent) + 1 >= MaxPerReap THEN <<>> ELSE todo
      PROVE  ReapInv'
  <2> USE <1>0, <1>7
  <2>1. sent' \in Seq(Sendable) /\ Len(sent') = Len(sent) + 1
    OBVIOUS
  <2>2. todo' \in Seq(Txs)
    BY DEF ReapInv, TypeOK
  <2> USE <1>1
  <2>3. DOMAIN seen' \subseteq AllBytes /\ \A b \in DOMAIN seen' : seen'[b] \in 0 .. TTL
    BY DEF ReapInv, TypeOK
  <2>4. sentAge \in [AllBytes -> 0 .. TTL] /\ sentAge' \in [AllBytes -> 0 .. TTL]
    BY DEF ReapInv, TypeOK
  <2>5. TypeOK'
    BY <1>2, <1>4, <2>2, <2>3, <2>4, Zenon DEF ReapInv, TypeOK
  <2> USE <2>1
  <2>6. CursorInv'
    <3>1. MaxPerReap > 0 /\ todo' # <<>> => Len(sent') < MaxPerReap
      OBVIOUS
    <3> QED
      BY <1>2, <3>1, Zenon DEF CursorInv, Sendable
  <2>7. TrackerInv'
    BY <2>4, Zenon DEF ReapInv, TrackerInv
  <2>8. /\ Total(Size, sent) \in Nat /\ Total(Size, sent') = Total(Size, sent) + Size[cur.tx]
        /\ Total(Gas, sent) \in Nat /\ Total(Gas, sent') = Total(Gas, sent) + Gas[cur.tx]
    BY TotalFacts, Zenon
  <2>9. Limits(sent')
    BY <2>8 DEF Limits, Caps
  <2>10. ReapWithinLimits'
    BY <2>9, CapsAreNext, Zenon
  <2> QED
    BY <1>5, <2>5, <2>6, <2>7, <2>10, Zenon DEF ReapInv
<1> QED
  BY <1>6, <1>7, RecordFacts, Zenon

(* prune leaves exactly the bytes sent within the time-to-live.             *)
LEMMA EndKeeps == ASSUME ReapInv, EndReap PROVE ReapInv'
<1>0. /\ MaxFaults \in Nat /\ {MaxBytes, MaxGas, MaxPerReap} \subseteq Nat /\ TTL \in Nat \ {0}
  BY ReapAssumption, Zenon
<1>1. /\ DOMAIN seen \subseteq AllBytes /\ \A b \in DOMAIN seen : seen[b] \in 0 .. TTL
      /\ \A b \in AllBytes : sentAge[b] = IF b \in DOMAIN seen THEN seen[b] ELSE TTL
  BY Zenon DEF ReapInv, TypeOK, TrackerInv
<1>2. /\ DOMAIN seen' = {b \in DOMAIN seen : ~(seen[b] >= TTL)}
      /\ \A b \in DOMAIN seen' : seen'[b] = seen[b]
      /\ sentAge' = sentAge
  BY Zenon DEF EndReap, Expired
<1>3. \A b \in DOMAIN seen : b \notin DOMAIN seen' => seen[b] = TTL
  BY <1>0, <1>1, <1>2
<1>4. TypeOK'
  <2>1. DOMAIN seen' \subseteq AllBytes /\ \A b \in DOMAIN seen' : seen'[b] \in 0 .. TTL
    BY <1>1, <1>2, Zenon
  <2> QED
    BY <2>1, Zenon DEF EndReap, ReapInv, TypeOK
<1>5. TrackerInv'
  BY <1>1, <1>2, <1>3, Zenon DEF TrackerInv
<1>6. TrackerIsExact'
  <2>1. \A b \in AllBytes : b \in DOMAIN seen' <=> sentAge'[b] < TTL
    BY <1>0, <1>1, <1>2
  <2>2. DOMAIN seen' = {b \in AllBytes : sentAge'[b] < TTL}
    BY <1>1, <1>2, <2>1, Zenon
  <2> QED
    BY <2>2, Zenon DEF TrackerIsExact
<1>7. ReapWithinLimits'
  <2>1. Total(Size, sent') = 0 /\ Total(Gas, sent') = 0 /\ Len(sent') = 0
    BY SumEmpty DEF EndReap, Total
  <2>2. Limits(sent')
    BY <1>0, <2>1 DEF Limits
  <2> QED
    BY <2>2, CapsAreNext, Zenon
<1>8. CursorInv' /\ CacheSound'
  BY DEF EndReap, ReapInv, CursorInv, CacheSound
<1> QED
  BY <1>4, <1>5, <1>6, <1>7, <1>8, Zenon DEF ReapInv

(* The lesser of two numbers.                                               *)
LEMMA MinOfTwo == ASSUME NEW m \in Int, NEW n \in Int PROVE Min({m, n}) = IF m <= n THEN m ELSE n
<1>1. \A x \in {m, n} : (\A y \in {m, n} : x <= y) <=> x = IF m <= n THEN m ELSE n
  OBVIOUS
<1> QED
  BY <1>1, Zenon DEF Min

(* A tick ages the tracker and what was sent alike.                         *)
LEMMA TickKeeps == ASSUME ReapInv, Tick PROVE ReapInv'
<1>0. TTL \in Nat \ {0}
  BY ReapAssumption, Zenon
<1>1. /\ DOMAIN seen \subseteq AllBytes /\ \A b \in DOMAIN seen : seen[b] \in 0 .. TTL
      /\ \A b \in AllBytes : sentAge[b] = IF b \in DOMAIN seen THEN seen[b] ELSE TTL
  BY Zenon DEF ReapInv, TypeOK, TrackerInv
<1>2. /\ DOMAIN seen' = DOMAIN seen /\ \A b \in DOMAIN seen : seen'[b] = Min({TTL, seen[b] + 1})
      /\ sentAge' = [b \in AllBytes |-> Min({TTL, sentAge[b] + 1})]
  BY Zenon DEF Tick
<1>3. \A n \in 0 .. TTL : Min({TTL, n + 1}) = IF TTL <= n + 1 THEN TTL ELSE n + 1
  BY <1>0, MinOfTwo
<1>4. \A n \in 0 .. TTL : Min({TTL, n + 1}) \in 0 .. TTL
  BY <1>0, <1>3
<1>5. Min({TTL, TTL + 1}) = TTL
  BY <1>0, <1>3
<1> USE <1>2
<1>6. TypeOK'
  <2>1. DOMAIN seen' \subseteq AllBytes /\ \A b \in DOMAIN seen' : seen'[b] \in 0 .. TTL
    BY <1>1, <1>4, Zenon
  <2>2. sentAge' \in [AllBytes -> 0 .. TTL]
    BY <1>4, Zenon DEF ReapInv, TypeOK
  <2> QED
    BY <2>1, <2>2, Zenon DEF Tick, ReapInv, TypeOK, reapVars
<1>7. TrackerInv'
  BY <1>1, <1>5, Zenon DEF TrackerInv
<1>8. ReapWithinLimits'
  BY InvParts, CapsAreNext, Zenon DEF Tick, reapVars
<1>9. CursorInv' /\ CacheSound' /\ TrackerIsExact'
  BY Zenon DEF Tick, ReapInv, CursorInv, CacheSound, TrackerIsExact, reapVars
<1> QED
  BY <1>6, <1>7, <1>8, <1>9, Zenon DEF ReapInv

(* Every step keeps the invariant.                                          *)
LEMMA ReapStepKeeps == ReapInv /\ [Next]_vars => ReapInv'
<1> SUFFICES ASSUME ReapInv, [Next]_vars PROVE ReapInv'
  BY Zenon
<1>1. CASE ReapStep
  BY <1>1, StartKeeps, ScanKeeps, LookupKeeps, RecordKeeps, EndKeeps, Zenon DEF ReapStep
<1>2. CASE SkipTx \/ Tick
  BY <1>2, SkipKeeps, TickKeeps, Zenon
<1>3. ASSUME NEW t \in Txs, (\E bz \in AllBytes : Admit(t, bz)) \/ Include(t) \/ evict(t)
      PROVE  ReapInv'
  BY <1>3, PoolKeeps, Zenon
<1>4. CASE UNCHANGED vars
  <2>1. /\ UNCHANGED <<seen, reapVars, reaped, sentAge>> /\ lru' = lru
        /\ pool' = pool /\ faults' = faults
    BY <1>4, Zenon DEF vars, reapVars
  <2>2. Sound(lru') /\ pool' \subseteq Txs /\ faults' \in 0 .. MaxFaults
    BY <2>1, InvParts, Zenon DEF ReapInv, TypeOK
  <2> QED
    BY <2>1, <2>2, CacheStep, Zenon
<1> QED
  BY <1>1, <1>2, <1>3, <1>4, Zenon DEF Next

(* The inductive invariant of the reap: at every step of the reaper, and    *)
(* whatever is admitted, cached or evicted meanwhile, the tx at hand still  *)
(* fits and the hash found for it is that of the bytes read.                *)
THEOREM ReapInvHolds == Spec => []ReapInv
BY ReapInit, ReapStepKeeps, PTL DEF Spec

(* The encoder cache never exceeds its capacity, holds a tx once, and has   *)
(* no hash but that of the bytes beside it, although HashTx computes the    *)
(* hash without the lock while Set can replace the bytes.                   *)
THEOREM CacheSoundHolds == Spec => []CacheSound
<1>1. ReapInv => CacheSound
  BY Zenon DEF ReapInv
<1> QED
  BY <1>1, ReapInvHolds, PTL

(* A reap returns no more bytes, gas or txs than it was asked for.          *)
THEOREM ReapWithinLimitsHolds == Spec => []ReapWithinLimits
<1>1. ReapInv => ReapWithinLimits
  BY Zenon DEF ReapInv
<1> QED
  BY <1>1, ReapInvHolds, PTL

(* After a reap the tracker holds exactly what was sent within the          *)
(* time-to-live.                                                            *)
THEOREM TrackerIsExactHolds == Spec => []TrackerIsExact
<1>1. ReapInv => TrackerIsExact
  BY Zenon DEF ReapInv
<1> QED
  BY <1>1, ReapInvHolds, PTL

(* No bytes are gossiped again within the time-to-live, whatever tx         *)
(* pointers carry them: what a reap adds to its result is due.              *)
THEOREM OncePerTTLHolds == Spec => OncePerTTL
<1>1. ReapInv /\ [Next]_vars => [SentIsDue]_vars
  <2> SUFFICES ASSUME ReapInv, Next PROVE SentIsDue
    BY Zenon
  <2>0. sent \in Seq(Sendable) /\ Len(sent) \in Nat
    BY InvParts
  <2>1. CASE RecordTx
    <3>1. CASE UNCHANGED sent
      BY <2>0, <3>1 DEF SentIsDue
    <3>2. ASSUME sentAge[cur.bz] = TTL, sent' = Append(sent, cur) PROVE SentIsDue
      <4>1. cur \in Sendable
        BY <2>1, InvParts, Zenon DEF RecordTx
      <4>2. Len(sent') = Len(sent) + 1 /\ sent'[Len(sent) + 1] = cur
        BY <2>0, <3>2, <4>1
      <4> QED
        BY <3>2, <4>2, Zenon DEF SentIsDue
    <3> QED
      BY <2>1, <3>1, <3>2, RecordFacts, Zenon
  <2>2. CASE ~RecordTx
    <3>1. sent' = sent \/ sent' = <<>>
      BY <2>2, Zenon DEF Next, ReapStep, StartReap, ScanTx, LookupHash, EndReap, SkipTx, Tick,
                  Admit, Include, evict, reapVars
    <3> QED
      BY <2>0, <3>1 DEF SentIsDue
  <2> QED
    BY <2>1, <2>2, Zenon
<1> QED
  BY <1>1, ReapInvHolds, PTL DEF Spec, OncePerTTL
=============================================================================
