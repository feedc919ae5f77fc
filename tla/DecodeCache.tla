----------------------------- MODULE DecodeCache -----------------------------
(***************************************************************************)
(* The decode cache (app/mempool/decoder_cache.go): admissions, proposals  *)
(* and executions share the decoded form of a tx through a cache that is   *)
(* found by a 64-bit hash of the raw bytes.  Different bytes can have one  *)
(* hash.  The lock of a shard is held by get and by set, not in between,   *)
(* where the tx is decoded.                                                *)
(*                                                                         *)
(* A decoded tx is a pointer: a number of its own, and the bytes it was    *)
(* made of.  The order of a shard's list is not modelled: any of its       *)
(* entries may be the one to be evicted.                                   *)
(***************************************************************************)
EXTENDS Naturals, FiniteSets

CONSTANTS
  Decoders,     \* threads that decode
  Bytes,        \* raw txs
  Hash,         \* function: the hash of raw bytes, with the seed
  Shard,        \* function: the shard of a hash
  Oversized,    \* bytes above maxTxBytes
  Invalid,      \* bytes the base decoder rejects
  ShardCap,     \* entries of a shard
  NoTx

VARIABLES
  items,        \* the entries of all shards
  dpc, bz, got, \* each decoder: where it is, the bytes, the tx it has or returned
  made          \* number of txs decoded

decodeVars == <<items, dpc, bz, got, made>>

DecodeInit ==
  /\ items = {}
  /\ dpc = [d \in Decoders |-> "idle"]
  /\ bz \in [Decoders -> Bytes] /\ got = [d \in Decoders |-> NoTx]
  /\ made = 0

InShard(S, s) == {i \in S : Shard[i.h] = s}

(* cache.get: an entry with this hash and with these bytes.                 *)
Hits(b) == {i \in items : i.h = Hash[b] /\ i.key = b}

DecodeHit(d, b) ==
  /\ dpc[d] = "idle"
  /\ \E i \in Hits(b) : got' = [got EXCEPT ![d] = i.tx]
  /\ bz' = [bz EXCEPT ![d] = b]
  /\ UNCHANGED <<items, dpc, made>>

DecodeMiss(d, b) ==
  /\ dpc[d] = "idle"
  /\ Hits(b) = {}
  /\ bz' = [bz EXCEPT ![d] = b]
  /\ got' = [got EXCEPT ![d] = NoTx]
  /\ dpc' = [dpc EXCEPT ![d] = "decode"]
  /\ UNCHANGED <<items, made>>

(* base(bz) returns a tx of its own, or an error.                           *)
Decode(d) ==
  /\ dpc[d] = "decode"
  /\ IF bz[d] \in Invalid
     THEN dpc' = [dpc EXCEPT ![d] = "idle"] /\ UNCHANGED <<got, made>>
     ELSE /\ got' = [got EXCEPT ![d] = [id |-> made, of |-> bz[d]]]
          /\ made' = made + 1
          /\ dpc' = [dpc EXCEPT ![d] = "set"]
  /\ UNCHANGED <<items, bz>>

(* cacheShard.set: an entry with the hash of other bytes makes way, and so  *)
(* does the last one of a full shard.                                       *)
Insert(b, tx) ==
  LET others == {i \in items : i.h # Hash[b]}
      entry == [h |-> Hash[b], key |-> b, tx |-> tx]
      full == InShard(others, Shard[Hash[b]])
  IN  IF Cardinality(full) >= ShardCap
        THEN \E back \in full : items' = (others \ {back}) \cup {entry}
        ELSE items' = others \cup {entry}

(* What has been cached since the miss is kept, and the decoder returns its *)
(* own tx all the same.                                                     *)
Set(d) ==
  /\ dpc[d] = "set"
  /\ IF bz[d] \in Oversized \/ Hits(bz[d]) # {}
       THEN UNCHANGED items
       ELSE Insert(bz[d], got[d])
  /\ dpc' = [dpc EXCEPT ![d] = "idle"]
  /\ UNCHANGED <<bz, got, made>>

DecodeNext ==
  \E d \in Decoders :
    \/ \E b \in Bytes : DecodeHit(d, b) \/ DecodeMiss(d, b)
    \/ Decode(d) \/ Set(d)

DecodeSpec == DecodeInit /\ [][DecodeNext]_decodeVars

-----------------------------------------------------------------------------
(* Whoever decodes gets the tx of the bytes it asked for, although the      *)
(* entry found by their hash can be that of other bytes, and be replaced    *)
(* between the lookup and the store of any decoder                          *)
(* (decoder_cache.go:56-92, 145-158).                                       *)
DecodesOwnBytes ==
  \A d \in Decoders : got[d] # NoTx => got[d].of = bz[d]

(* A shard holds at most ShardCap entries, and one for a hash, however its  *)
(* decoders interleave: the map of hashes and the list of entries never     *)
(* come apart (decoder_cache.go:72-92).                                     *)
ShardsBounded ==
  /\ \A i, j \in items : i.h = j.h => i = j
  /\ \A i \in items : /\ IsFiniteSet(InShard(items, Shard[i.h]))
                      /\ Cardinality(InShard(items, Shard[i.h])) <= ShardCap
=============================================================================
