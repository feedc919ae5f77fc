------------------------ MODULE BlockProposalProofs ------------------------
(***************************************************************************)
(* Proofs, for any validators, quorums, txs, blobs and limits, that block  *)
(* lists follow the chain, that proposals keep to their limits and pay the *)
(* base fee, and that an honest proposal is rejected only by a validator   *)
(* that could not have the proposer's list.                                *)
(***************************************************************************)
EXTENDS BlockProposal, CollectionTheorems

(* A block whose blob can be read is itself the last such block.            *)
LEMMA LastAtReadable ==
  ASSUME NEW n, NEW h \in Nat, CanRead(n, stored[h])
  PROVE  LastReadable(n, h) = h
<1>1. h \in {k \in 0 .. h : CanRead(n, stored[k])}
  OBVIOUS
<1> QED
  BY <1>1 DEF LastReadable, Max

(* A block whose blob cannot be read does not change which is the last.     *)
LEMMA LastSkips ==
  ASSUME NEW n, NEW h \in Nat, ~CanRead(n, stored[h + 1])
  PROVE  LastReadable(n, h + 1) = LastReadable(n, h)
<1>1. {k \in 0 .. h + 1 : CanRead(n, stored[k])} = {k \in 0 .. h : CanRead(n, stored[k])}
  OBVIOUS
<1> QED
  BY <1>1, Zenon DEF LastReadable

(* There is such a block at every height: no blob is stored at genesis.     *)
LEMMA LastInRange ==
  ASSUME NEW n, NEW h \in Nat, stored[0] = Empty
  PROVE  LastReadable(n, h) \in 0 .. h
<1> DEFINE S == {k \in 0 .. h : CanRead(n, stored[k])}
           T == {j \in 0 .. h : CanRead(n, stored[h - j])}
<1>1. h \in T /\ T \subseteq Nat
  BY DEF CanRead
<1>2. PICK j \in T : \A i \in T : j <= i
  BY <1>1, LeastNatural, Zenon
<1>3. j \in 0 .. h /\ h - j \in S
  BY <1>2
<1>4. ASSUME NEW k \in S PROVE k <= h - j
  <2>1. k \in 0 .. h /\ h - (h - k) = k /\ h - k \in 0 .. h
    OBVIOUS
  <2>2. h - k \in T
    BY <2>1, Zenon
  <2> QED
    BY <1>2, <1>3, <2>1, <2>2
<1>5. \E x \in S : \A y \in S : x >= y
  BY <1>3, <1>4, Zenon
<1>6. Max(S) \in S
  BY <1>5, Zenon DEF Max
<1> QED
  BY <1>6, Zenon DEF LastReadable

(* It depends on the blobs up to that height only.                          *)
LEMMA LastSame ==
  ASSUME NEW n, NEW h \in Nat, \A k \in 0 .. h : stored'[k] = stored[k]
  PROVE  LastReadable(n, h)' = LastReadable(n, h)
<1>1. {k \in 0 .. h : CanRead(n, stored'[k])} = {k \in 0 .. h : CanRead(n, stored[k])}
  BY Zenon
<1> QED
  BY <1>1, Zenon DEF LastReadable

(* Validators that can read the same blobs agree on the last one.           *)
LEMMA LastAgrees ==
  ASSUME NEW n, NEW p, SameReaders(n, p)
  PROVE  LastReadable(n, tip) = LastReadable(p, tip)
<1>1. {k \in 0 .. tip : CanRead(n, stored[k])} = {k \in 0 .. tip : CanRead(p, stored[k])}
  BY Zenon DEF SameReaders
<1> QED
  BY <1>1, Zenon DEF LastReadable

(* SetBlockList keeps the list that of the blob applied last, and applies a *)
(* blob that can be read.                                                   *)
LEMMA SetBlockListApplies ==
  ASSUME TypeOK, blocklist = [m \in Nodes |-> AddressesOf(lastBlockList[m])],
         NEW n \in Nodes, NEW b \in Blobs \cup {Empty}, SetBlockList(n, b)
  PROVE  /\ lastBlockList' \in [Nodes -> Blobs \cup {Empty}]
         /\ blocklist' = [m \in Nodes |-> AddressesOf(lastBlockList'[m])]
         /\ \A m \in Nodes \ {n} : lastBlockList'[m] = lastBlockList[m]
         /\ n \in Identified /\ CanRead(n, b) => lastBlockList'[n] = b
         /\ ~(n \in Identified /\ CanRead(n, b)) => lastBlockList'[n] = lastBlockList[n]
<1>1. CASE Applies(n, b)
  <2>1. /\ lastBlockList' = [lastBlockList EXCEPT ![n] = b]
        /\ blocklist' = [blocklist EXCEPT ![n] = AddressesOf(b)]
        /\ lastBlockList \in [Nodes -> Blobs \cup {Empty}]
        /\ n \in Identified /\ CanRead(n, b)
    BY <1>1, Zenon DEF SetBlockList, Applies, TypeOK
  <2> USE <2>1
  <2>2. /\ lastBlockList' \in [Nodes -> Blobs \cup {Empty}] /\ lastBlockList'[n] = b
        /\ \A m \in Nodes \ {n} : lastBlockList'[m] = lastBlockList[m]
    BY Zenon
  <2>3. ASSUME NEW m \in Nodes PROVE blocklist'[m] = AddressesOf(lastBlockList'[m])
    <3>1. CASE m = n
      <4>1. blocklist'[m] = AddressesOf(b)
        BY <3>1, Zenon
      <4> QED
        BY <2>2, <3>1, <4>1, Zenon
    <3>2. CASE m # n
      <4>1. blocklist'[m] = AddressesOf(lastBlockList[m]) /\ lastBlockList'[m] = lastBlockList[m]
        BY <2>2, <3>2, Zenon
      <4> QED
        BY <4>1, Zenon
    <3> QED
      BY <3>1, <3>2, Zenon
  <2>4. blocklist' = [m \in Nodes |-> blocklist'[m]]
    BY Zenon
  <2>5. blocklist' = [m \in Nodes |-> AddressesOf(lastBlockList'[m])]
    BY <2>3, <2>4, Zenon
  <2> QED
    BY <2>2, <2>5, Zenon
<1>2. CASE ~Applies(n, b)
  BY <1>2, Zenon DEF SetBlockList, Applies, TypeOK, memory
<1> QED
  BY <1>1, <1>2, Zenon

-----------------------------------------------------------------------------
(* Every step keeps the types; a validator commits only decided blocks.     *)
LEMMA TypeStep == TypeOK /\ ListInv /\ [Next]_vars => TypeOK'
<1> SUFFICES ASSUME TypeOK, ListInv, [Next]_vars PROVE TypeOK'
  BY Zenon
<1> USE DEF selector, round, chain, memory, local
<1>1. ASSUME NEW n \in Nodes, StartProposal(n) PROVE TypeOK'
  BY <1>1, Zenon DEF StartProposal, TypeOK
<1>2. ASSUME NEW n \in Nodes, ProcessProposal(n) PROVE TypeOK'
  BY <1>2, Zenon DEF ProcessProposal, TypeOK, Idle
<1>3. ASSUME NEW n \in Nodes, OptimisticEndBlock(n) PROVE TypeOK'
  <2>1. exec[n].blob \in Blobs \cup {Empty}
    BY Zenon DEF TypeOK
  <2> USE <1>3
  <2>2. lastBlockList' \in [Nodes -> Blobs \cup {Empty}]
    BY <2>1, SetBlockListApplies, Zenon DEF OptimisticEndBlock, ListInv
  <2>3. exec' \in [Nodes -> [running : BOOLEAN, blob : Blobs \cup {Empty}]]
        /\ UNION {up', finalized', ahead', adrift'} \subseteq Nodes
    BY DEF OptimisticEndBlock, TypeOK, Idle
  <2> QED
    BY <2>2, <2>3, Zenon DEF OptimisticEndBlock, TypeOK
<1>4. ASSUME NEW n \in Nodes, FinalizeBlock(n) PROVE TypeOK'
  <2> USE <1>4
  <2>1. stored[height[n] + 1] \in Blobs \cup {Empty}
    BY ProposalAssumption DEF FinalizeBlock, TypeOK
  <2>2. lastBlockList' \in [Nodes -> Blobs \cup {Empty}]
    BY <2>1, SetBlockListApplies, Zenon DEF FinalizeBlock, ListInv
  <2>3. exec' \in [Nodes -> [running : BOOLEAN, blob : Blobs \cup {Empty}]]
        /\ UNION {up', finalized', ahead', adrift'} \subseteq Nodes
    BY DEF FinalizeBlock, TypeOK, Idle
  <2> QED
    BY <2>2, <2>3, Zenon DEF FinalizeBlock, TypeOK
<1>5. ASSUME NEW n \in Nodes, Commit(n) PROVE TypeOK'
  <2> USE <1>5
  <2>1. height[n] < tip
    BY Zenon DEF Commit, ListInv
  <2>2. height' \in [Nodes -> 0 .. MaxHeight] /\ \A m \in Nodes : height'[m] <= tip
    BY <2>1, ProposalAssumption DEF Commit, TypeOK
  <2>3. UNION {up', finalized', ahead', adrift'} \subseteq Nodes
    BY DEF Commit, TypeOK
  <2> QED
    BY <2>2, <2>3, Zenon DEF Commit, TypeOK
<1>6. ASSUME NEW n \in Nodes, Crash(n) PROVE TypeOK'
  <2>1. NewSelector \in [txs : SUBSET Txs, bytes : Nat, gas : Nat, baseFee : Fees \cup {NoFee}]
    BY Zenon DEF NewSelector
  <2> USE <1>6
  <2>2. sel' = [sel EXCEPT ![n] = NewSelector]
    BY Zenon DEF Crash, Clear
  <2>3. sel' \in [Nodes -> [txs : SUBSET Txs, bytes : Nat, gas : Nat, baseFee : Fees \cup {NoFee}]]
    BY <2>1, <2>2, Zenon DEF TypeOK
  <2>4. stage' \in {"idle", "select", "proposed"} /\ todo' \subseteq Txs
    BY Zenon DEF Crash, TypeOK
  <2>5. exec' \in [Nodes -> [running : BOOLEAN, blob : Blobs \cup {Empty}]]
        /\ UNION {up', finalized', ahead', adrift'} \subseteq Nodes
        /\ gateSkipped' \in [Nodes -> SUBSET Txs]
        /\ lastBlockList' \in [Nodes -> Blobs \cup {Empty}]
    BY Zenon DEF Crash, TypeOK, Idle
  <2>6. crashes' \in 0 .. MaxCrashes /\ (stage' # "idle" => tip < MaxHeight)
    BY ProposalAssumption DEF Crash, TypeOK
  <2>7. UNCHANGED <<staged, proposer, block, vote, failures, chain, height>>
    BY Zenon DEF Crash
  <2> QED
    BY <2>3, <2>4, <2>5, <2>6, <2>7, Zenon DEF TypeOK
<1>7. ASSUME NEW n \in Nodes, Restart(n) PROVE TypeOK'
  <2> USE <1>7
  <2>1. stored[height[n]] \in Blobs \cup {Empty}
    BY Zenon DEF TypeOK
  <2>2. lastBlockList' \in [Nodes -> Blobs \cup {Empty}]
    BY <2>1, SetBlockListApplies, Zenon DEF Restart, ListInv
  <2> QED
    BY <2>2 DEF Restart, TypeOK
<1>8. ASSUME NEW t \in Txs, SelectTxForProposal(t) PROVE TypeOK'
  <2> DEFINE s == sel[proposer]
             r == [s EXCEPT !.baseFee = gateBaseFee(s)]
             a == [r EXCEPT !.txs = @ \cup {t}, !.bytes = @ + Size[t],
                            !.gas = IF MaxGas > 0 THEN @ + Gas[t] ELSE 0]
             SelType == [txs : SUBSET Txs, bytes : Nat, gas : Nat, baseFee : Fees \cup {NoFee}]
  <2>1. proposer \in Nodes /\ s \in SelType /\ gateBaseFee(s) \in Fees \cup {NoFee}
    BY Zenon DEF TypeOK, gateBaseFee
  <2>2. r \in SelType
    BY <2>1, Zenon
  <2>3. a \in SelType
    <3>1. Size[t] \in Nat /\ Gas[t] \in Nat
      BY ProposalAssumption, Zenon
    <3>2. r.txs \in SUBSET Txs /\ r.bytes \in Nat /\ r.gas \in Nat
      BY <2>2, Zenon
    <3> HIDE DEF r
    <3>3. (IF MaxGas > 0 THEN r.gas + Gas[t] ELSE 0) \in Nat /\ r.bytes + Size[t] \in Nat
      BY <3>1, <3>2
    <3> QED
      BY <2>2, <3>1, <3>2, <3>3, Zenon
  <2> USE <1>8
  <2>4. sel' \in {sel, [sel EXCEPT ![proposer] = r], [sel EXCEPT ![proposer] = a]}
    BY Zenon DEF SelectTxForProposal
  <2>5. sel' \in [Nodes -> SelType]
    <3> HIDE DEF r, a
    <3> QED BY <2>1, <2>2, <2>3, <2>4 DEF TypeOK
  <2>6. gateSkipped' \in [Nodes -> SUBSET Txs] /\ todo' \subseteq Txs
    BY <2>1, Zenon DEF SelectTxForProposal, TypeOK
  <2>7. UNCHANGED <<staged, round, chain, memory, local>>
    BY Zenon DEF SelectTxForProposal
  <2> QED
    BY <2>5, <2>6, <2>7, Zenon DEF TypeOK
<1>9. ASSUME NEW b \in Blobs \cup {stored[tip]}, FinishProposal(b) PROVE TypeOK'
  <2>1. b \in Blobs \cup {Empty}
    <3>1. stored \in [0 .. MaxHeight -> Blobs \cup {Empty}] /\ tip \in 0 .. MaxHeight
      BY Zenon DEF TypeOK
    <3> QED
      BY <3>1, Zenon
  <2>2. block' \in [txs : SUBSET Txs, blob : Blobs \cup {Empty}, clean : BOOLEAN]
    BY <1>9, <2>1, Zenon DEF FinishProposal, TypeOK
  <2> QED
    BY <1>9, <2>2, Zenon DEF FinishProposal, TypeOK, Clear, NewSelector
<1>10. CASE FailProposal
  BY <1>10, ProposalAssumption DEF FailProposal, TypeOK, Clear, NewSelector
<1>11. CASE RoundFails
  BY <1>11, ProposalAssumption DEF RoundFails, TypeOK, NoBlock
<1>12. ASSUME NEW fee \in Fees, Decide(fee) PROVE TypeOK'
  <2> USE <1>12
  <2>1. tip + 1 \in 0 .. MaxHeight /\ \A n \in Nodes : height[n] <= tip + 1
    BY ProposalAssumption DEF Decide, TypeOK
  <2>2. stored' \in [0 .. MaxHeight -> Blobs \cup {Empty}]
    BY <2>1, Zenon DEF Decide, TypeOK
  <2> QED
    BY <2>1, <2>2 DEF Decide, TypeOK, NoBlock
<1>13. CASE UNCHANGED vars
  BY <1>13, Zenon DEF vars, TypeOK
<1> QED
  BY <1>1, <1>2, <1>3, <1>4, <1>5, <1>6, <1>7, <1>8, <1>9, <1>10, <1>11, <1>12, <1>13,
     Zenon DEF Next

-----------------------------------------------------------------------------
(* A step of the round leaves the lists alone.                              *)
LEMMA ListStays ==
  ASSUME ListInv, UNCHANGED <<chain, memory, local>>
  PROVE  ListInv'
BY DEF ListInv, LastReadable, chain, memory, local

(* ListInv for one validator: not running, finalised, following the chain.  *)
NodeInv(n) ==
  /\ n \notin Identified => lastBlockList[n] = Empty
  /\ n \notin up =>
       /\ lastBlockList[n] = Empty /\ ~exec[n].running
       /\ n \notin UNION {finalized, ahead, adrift}
  /\ n \in finalized =>
       /\ height[n] < tip /\ ~exec[n].running
       /\ n \in Identified /\ CanRead(n, stored[height[n] + 1]) =>
            lastBlockList[n] = stored[height[n] + 1]
  /\ n \in (up \cap Identified) \ (ahead \cup adrift) =>
       (n \notin finalized \/ ~CanRead(n, stored[height[n] + 1]) =>
         lastBlockList[n] = stored[LastReadable(n, height[n])])

(* ListInv, which says where every validator's block list comes from, is    *)
(* NodeInv of each.                                                         *)
LEMMA ListByNode ==
  TypeOK => (ListInv <=> /\ blocklist = [n \in Nodes |-> AddressesOf(lastBlockList[n])]
                         /\ \A n \in Nodes : NodeInv(n))
BY Zenon DEF TypeOK, ListInv, NodeInv

(* The same after a step.                                                   *)
LEMMA ListByNodeNext ==
  TypeOK' => (ListInv' <=> /\ blocklist' = [n \in Nodes |-> AddressesOf(lastBlockList'[n])]
                           /\ \A n \in Nodes : NodeInv(n)')
BY Zenon DEF TypeOK, ListInv, NodeInv

(* A step of one validator that leaves the chain alone keeps NodeInv of the *)
(* others.                                                                  *)
LEMMA OthersStay ==
  ASSUME TypeOK, NEW n \in Nodes, NEW m \in Nodes \ {n}, NodeInv(m), UNCHANGED chain,
         lastBlockList'[m] = lastBlockList[m], exec'[m] = exec[m], height'[m] = height[m],
         m \in up' <=> m \in up, m \in finalized' <=> m \in finalized,
         m \in ahead' <=> m \in ahead, m \in adrift' <=> m \in adrift
  PROVE  NodeInv(m)'
<1>1. tip' = tip /\ stored' = stored
  BY Zenon DEF chain
<1>2. LastReadable(m, height[m])' = LastReadable(m, height[m])
  BY <1>1, Zenon DEF LastReadable
<1> QED
  BY <1>1, <1>2, Zenon DEF NodeInv

(* A step of one validator keeps the lists if it keeps its own.             *)
LEMMA OneNodeStep ==
  ASSUME TypeOK, ListInv, TypeOK', UNCHANGED chain, NEW n \in Nodes,
         blocklist' = [m \in Nodes |-> AddressesOf(lastBlockList'[m])],
         \A m \in Nodes \ {n} :
           /\ lastBlockList'[m] = lastBlockList[m] /\ exec'[m] = exec[m] /\ height'[m] = height[m]
           /\ (m \in up' <=> m \in up) /\ (m \in finalized' <=> m \in finalized)
           /\ (m \in ahead' <=> m \in ahead) /\ (m \in adrift' <=> m \in adrift),
         NodeInv(n)'
  PROVE  ListInv'
<1>1. \A m \in Nodes : NodeInv(m)
  BY ListByNode, Zenon
<1>2. ASSUME NEW m \in Nodes PROVE NodeInv(m)'
  <2>1. CASE m = n
    BY <2>1, Zenon
  <2>2. CASE m # n
    BY <1>1, <2>2, OthersStay, Zenon
  <2> QED
    BY <2>1, <2>2, Zenon
<1> QED
  BY <1>2, ListByNodeNext, Zenon

(* Every step keeps ListInv: executions, commits, failed rounds, crashes    *)
(* and start-ups leave each list where SetBlockList or New put it.          *)
LEMMA ListStep == TypeOK /\ TypeOK' /\ ListInv /\ [Next]_vars => ListInv'
<1> SUFFICES ASSUME TypeOK, TypeOK', ListInv, [Next]_vars PROVE ListInv'
  BY Zenon
<1>0. \A n \in Nodes : NodeInv(n)
  BY ListByNode, Zenon
<1>1. ASSUME NEW n \in Nodes, StartProposal(n) PROVE ListInv'
  BY <1>1, ListStays, Zenon DEF StartProposal
<1>2. ASSUME NEW n \in Nodes, ProcessProposal(n) PROVE ListInv'
  <2>1. UNCHANGED <<chain, memory, height, up, finalized, ahead, adrift>>
        /\ n \in up \ finalized /\ \A m \in Nodes \ {n} : exec'[m] = exec[m]
    BY <1>2, Zenon DEF ProcessProposal, TypeOK
  <2> USE <2>1
  <2>2. NodeInv(n)'
    BY <1>0, Zenon DEF NodeInv, LastReadable, chain, memory
  <2>3. blocklist' = [m \in Nodes |-> AddressesOf(lastBlockList'[m])]
        /\ \A m \in Nodes : lastBlockList'[m] = lastBlockList[m]
    BY Zenon DEF ListInv, memory
  <2> QED
    BY <2>2, <2>3, OneNodeStep, Zenon
<1>3. ASSUME NEW n \in Nodes, OptimisticEndBlock(n) PROVE ListInv'
  <2>1. /\ SetBlockList(n, exec[n].blob) /\ n \in up /\ exec[n].running
        /\ exec' = [exec EXCEPT ![n] = Idle] /\ ahead' = ahead \cup {n}
        /\ UNCHANGED <<chain, height, up, finalized, adrift>>
        /\ exec[n].blob \in Blobs \cup {Empty}
    BY <1>3, Zenon DEF OptimisticEndBlock, TypeOK
  <2> USE <2>1
  <2>2. /\ blocklist' = [m \in Nodes |-> AddressesOf(lastBlockList'[m])]
        /\ \A m \in Nodes \ {n} : lastBlockList'[m] = lastBlockList[m]
        /\ n \notin Identified => lastBlockList'[n] = lastBlockList[n]
    BY SetBlockListApplies, Zenon DEF ListInv
  <2>3. n \notin finalized /\ exec'[n] = Idle /\ ~exec'[n].running
    BY <1>0, Zenon DEF NodeInv, TypeOK, Idle
  <2>4. NodeInv(n)'
    BY <1>0, <2>2, <2>3, Zenon DEF NodeInv
  <2>5. \A m \in Nodes \ {n} : exec'[m] = exec[m] /\ (m \in ahead' <=> m \in ahead)
    BY Zenon DEF TypeOK
  <2> QED
    BY <2>2, <2>4, <2>5, OneNodeStep, Zenon
<1>4. ASSUME NEW n \in Nodes, FinalizeBlock(n) PROVE ListInv'
  <2> DEFINE b == stored[height[n] + 1]
  <2>1. /\ SetBlockList(n, b) /\ n \in up \ finalized /\ height[n] < tip
        /\ exec' = [exec EXCEPT ![n] = Idle] /\ finalized' = finalized \cup {n}
        /\ UNCHANGED <<chain, height, up, ahead, adrift>>
    BY <1>4, Zenon DEF FinalizeBlock
  <2> USE <2>1
  <2>2. b \in Blobs \cup {Empty}
    <3>1. /\ stored \in [0 .. MaxHeight -> Blobs \cup {Empty}] /\ tip \in 0 .. MaxHeight
          /\ height[n] \in 0 .. MaxHeight /\ MaxHeight \in Nat
      BY ProposalAssumption, Zenon DEF TypeOK
    <3>2. height[n] + 1 \in 0 .. MaxHeight
      BY <3>1
    <3> QED
      BY <3>1, <3>2, Zenon
  <2>3. /\ blocklist' = [m \in Nodes |-> AddressesOf(lastBlockList'[m])]
        /\ \A m \in Nodes \ {n} : lastBlockList'[m] = lastBlockList[m]
        /\ n \in Identified /\ CanRead(n, b) => lastBlockList'[n] = b
        /\ ~(n \in Identified /\ CanRead(n, b)) => lastBlockList'[n] = lastBlockList[n]
    <3> HIDE DEF b
    <3> QED BY <2>2, SetBlockListApplies, Zenon DEF ListInv
  <2>4. exec'[n] = Idle /\ ~exec'[n].running
    BY Zenon DEF TypeOK, Idle
  <2>5. LastReadable(n, height[n])' = LastReadable(n, height[n]) /\ stored' = stored /\ tip' = tip
    BY Zenon DEF LastReadable, chain
  <2>6. NodeInv(n)'
    BY <1>0, <2>3, <2>4, <2>5, Zenon DEF NodeInv
  <2>7. \A m \in Nodes \ {n} : exec'[m] = exec[m] /\ (m \in finalized' <=> m \in finalized)
    BY Zenon DEF TypeOK
  <2> QED
    BY <2>3, <2>6, <2>7, OneNodeStep, Zenon
<1>5. ASSUME NEW n \in Nodes, Commit(n) PROVE ListInv'
  <2> DEFINE b == stored[height[n] + 1]
  <2>1. /\ n \in finalized /\ height' = [height EXCEPT ![n] = height[n] + 1]
        /\ finalized' = finalized \ {n} /\ ahead' = ahead \ {n}
        /\ adrift' = IF CanRead(n, b) THEN adrift \ {n} ELSE adrift \cup ({n} \cap ahead)
        /\ UNCHANGED <<chain, memory, up, exec>>
    BY <1>5, Zenon DEF Commit
  <2> USE <2>1
  <2>2. /\ height[n] \in Nat /\ height'[n] = height[n] + 1 /\ n \in up
        /\ \A m \in Nodes \ {n} : height'[m] = height[m]
    BY <1>0 DEF TypeOK, NodeInv
  <2>3. lastBlockList' = lastBlockList /\ stored' = stored /\ tip' = tip
    BY Zenon DEF chain, memory
  <2> USE <2>2, <2>3
  <2>4. CanRead(n, b) => LastReadable(n, height[n])' = height[n] + 1
    <3>1. CanRead(n, b) => LastReadable(n, height[n] + 1) = height[n] + 1
      BY LastAtReadable
    <3> QED
      BY <3>1, Zenon DEF LastReadable
  <2>5. ~CanRead(n, b) => LastReadable(n, height[n])' = LastReadable(n, height[n])
    <3>1. ~CanRead(n, b) => LastReadable(n, height[n] + 1) = LastReadable(n, height[n])
      BY LastSkips, Zenon
    <3> QED
      BY <3>1, Zenon DEF LastReadable
  <2>6. NodeInv(n)'
    <3>1. CASE CanRead(n, b)
      BY <1>0, <2>4, <3>1, Zenon DEF NodeInv
    <3>2. CASE ~CanRead(n, b)
      BY <1>0, <2>5, <3>2, Zenon DEF NodeInv
    <3> QED
      BY <3>1, <3>2, Zenon
  <2>7. blocklist' = [m \in Nodes |-> AddressesOf(lastBlockList'[m])]
    BY Zenon DEF ListInv, memory
  <2> QED
    BY <2>6, <2>7, OneNodeStep, Zenon
<1>6. ASSUME NEW n \in Nodes, Crash(n) PROVE ListInv'
  <2>1. /\ up' = up \ {n} /\ finalized' = finalized \ {n}
        /\ ahead' = ahead \ {n} /\ adrift' = adrift \ {n}
        /\ blocklist' = [blocklist EXCEPT ![n] = {}]
        /\ lastBlockList' = [lastBlockList EXCEPT ![n] = Empty]
        /\ exec' = [exec EXCEPT ![n] = Idle] /\ UNCHANGED <<chain, height>>
    BY <1>6, Zenon DEF Crash
  <2> USE <2>1
  <2>2. /\ lastBlockList'[n] = Empty /\ exec'[n] = Idle /\ ~exec'[n].running
        /\ \A m \in Nodes \ {n} : lastBlockList'[m] = lastBlockList[m] /\ exec'[m] = exec[m]
    BY Zenon DEF TypeOK, Idle
  <2> USE <2>2
  <2>3. blocklist' = [m \in Nodes |-> AddressesOf(lastBlockList'[m])]
    BY Zenon DEF ListInv, AddressesOf
  <2>4. NodeInv(n)'
    BY Zenon DEF NodeInv
  <2>5. \A m \in Nodes \ {n} :
          /\ lastBlockList'[m] = lastBlockList[m] /\ exec'[m] = exec[m] /\ height'[m] = height[m]
          /\ (m \in up' <=> m \in up) /\ (m \in finalized' <=> m \in finalized)
          /\ (m \in ahead' <=> m \in ahead) /\ (m \in adrift' <=> m \in adrift)
    BY Zenon
  <2> QED
    BY <2>3, <2>4, <2>5, OneNodeStep, Zenon
<1>7. ASSUME NEW n \in Nodes, Restart(n) PROVE ListInv'
  <2> DEFINE b == stored[height[n]]
  <2>1. /\ n \notin up /\ up' = up \cup {n} /\ SetBlockList(n, b)
        /\ adrift' = IF n \in Identified /\ ~CanRead(n, b) THEN adrift \cup {n} ELSE adrift
        /\ UNCHANGED <<chain, height, exec, finalized, ahead>>
    BY <1>7, Zenon DEF Restart
  <2>2. b \in Blobs \cup {Empty} /\ height[n] \in Nat
    BY DEF TypeOK
  <2> USE <2>1
  <2>3. /\ blocklist' = [m \in Nodes |-> AddressesOf(lastBlockList'[m])]
        /\ \A m \in Nodes \ {n} : lastBlockList'[m] = lastBlockList[m]
        /\ n \in Identified /\ CanRead(n, b) => lastBlockList'[n] = b
        /\ ~(n \in Identified /\ CanRead(n, b)) => lastBlockList'[n] = lastBlockList[n]
    <3> HIDE DEF b
    <3> QED BY <2>2, SetBlockListApplies, Zenon DEF ListInv
  <2>4. n \notin finalized /\ n \notin ahead /\ lastBlockList[n] = Empty
    BY <1>0, Zenon DEF NodeInv
  <2>5. CanRead(n, b) => LastReadable(n, height[n])' = height[n]
    <3>1. CanRead(n, b) => LastReadable(n, height[n]) = height[n]
      BY <2>2, LastAtReadable, Zenon
    <3> QED
      BY <3>1, Zenon DEF LastReadable, chain
  <2>6. stored' = stored /\ tip' = tip /\ height' = height /\ finalized' = finalized /\ ahead' = ahead
    BY Zenon DEF chain
  <2> USE <2>3
  <2>7. NodeInv(n)'
    BY <2>4, <2>5, <2>6, Zenon DEF NodeInv
  <2>8. \A m \in Nodes \ {n} :
          /\ lastBlockList'[m] = lastBlockList[m] /\ exec'[m] = exec[m] /\ height'[m] = height[m]
          /\ (m \in up' <=> m \in up) /\ (m \in finalized' <=> m \in finalized)
          /\ (m \in ahead' <=> m \in ahead) /\ (m \in adrift' <=> m \in adrift)
    BY Zenon
  <2> QED
    BY <2>7, <2>8, OneNodeStep, Zenon
<1>8. ASSUME NEW t \in Txs, SelectTxForProposal(t) PROVE ListInv'
  BY <1>8, ListStays, Zenon DEF SelectTxForProposal
<1>9. ASSUME NEW b \in Blobs \cup {stored[tip]}, FinishProposal(b) PROVE ListInv'
  BY <1>9, ListStays, Zenon DEF FinishProposal
<1>10. CASE FailProposal
  BY <1>10, ListStays, Zenon DEF FailProposal
<1>11. CASE RoundFails
  BY <1>11, ListStays, Zenon DEF RoundFails
<1>12. ASSUME NEW fee \in Fees, Decide(fee) PROVE ListInv'
  <2>1. /\ tip' = tip + 1 /\ stored' = [stored EXCEPT ![tip + 1] = block.blob]
        /\ UNCHANGED <<memory, local>>
    BY <1>12, Zenon DEF Decide
  <2>2. \A k \in 0 .. tip : stored'[k] = stored[k]
    BY <2>1 DEF TypeOK
  <2>3. ASSUME NEW n \in Nodes PROVE NodeInv(n)'
    <3>1. UNCHANGED <<lastBlockList, up, exec, finalized, ahead, adrift, height>>
      BY <2>1, Zenon DEF local, memory
    <3>2. height[n] \in 0 .. tip /\ tip \in Nat /\ tip' = tip + 1
      BY <2>1, ProposalAssumption DEF TypeOK
    <3>3. n \in finalized => height[n] < tip /\ height[n] + 1 \in 0 .. tip
      BY <1>0, <3>2 DEF NodeInv
    <3>4. height[n] \in Nat /\ \A k \in 0 .. height[n] : stored'[k] = stored[k]
      BY <2>2, <3>2
    <3>5. LastReadable(n, height[n])' = LastReadable(n, height[n])
      <4> DEFINE h == height[n]
      <4>1. ASSUME NEW i \in Nat, i = h PROVE LastReadable(n, i)' = LastReadable(n, i)
        BY <3>4, <4>1, LastSame, Zenon
      <4> QED
        BY <3>1, <3>4, <4>1, Zenon DEF LastReadable
    <3>6. LastReadable(n, height[n]) \in 0 .. tip
      <4>1. LastReadable(n, height[n]) \in 0 .. height[n]
        BY <3>4, LastInRange, Zenon DEF TypeOK
      <4> QED
        BY <3>2, <4>1
    <3>7. stored'[LastReadable(n, height[n])] = stored[LastReadable(n, height[n])]
          /\ (n \in finalized => stored'[height[n] + 1] = stored[height[n] + 1])
      BY <2>2, <3>3, <3>6, Zenon
    <3>8. n \in finalized => height[n] < tip + 1
      BY <3>2, <3>3
    <3>9. NodeInv(n)
      BY <1>0, Zenon
    <3> HIDE DEF TypeOK, ListInv
    <3> QED
      BY ONLY <3>1, <3>2, <3>5, <3>7, <3>8, <3>9, Zenon DEF NodeInv
  <2>4. blocklist' = [m \in Nodes |-> AddressesOf(lastBlockList'[m])]
    BY <2>1, Zenon DEF ListInv, memory
  <2> QED
    BY <2>3, <2>4, ListByNodeNext, Zenon
<1>13. CASE UNCHANGED vars
  BY <1>13, ListStays, Zenon DEF vars
<1> QED
  BY <1>1, <1>2, <1>3, <1>4, <1>5, <1>6, <1>7, <1>8, <1>9, <1>10, <1>11, <1>12, <1>13,
     Zenon DEF Next

-----------------------------------------------------------------------------
(* What the selectors and the proposal satisfy, in one formula.             *)
ProposalInv ==
  /\ SelectorInv /\ WithinLimits /\ BlockInv /\ PaysCommittedFee /\ StagedAreStranded

(* A step that leaves the selectors, the round and the chain alone keeps it *)
(* if the list of a proposer at work comes no closer to the chain.          *)
LEMMA ProposalStays ==
  ASSUME ProposalInv, UNCHANGED <<selector, stage, proposer, block, chain>>,
         stage = "select" => /\ proposer \in up' /\ height'[proposer] = height[proposer]
                             /\ proposer \notin ahead' \cup adrift' => proposer \notin ahead \cup adrift
  PROVE  ProposalInv'
<1>1. UNCHANGED <<todo, sel, gateSkipped, staged, stage, proposer, block, tip, stored, baseFee>>
  BY Zenon DEF selector, chain
<1> USE <1>1
<1>2. \A p, T : Unlisted(p, T)' <=> Unlisted(p, T)
  BY Zenon DEF Unlisted, LastReadable
<1>3. Unlisted(proposer, sel[proposer].txs)' <=> Unlisted(proposer, sel[proposer].txs)
  BY Zenon DEF Unlisted, LastReadable
<1>4. Unlisted(proposer, block.txs)' <=> Unlisted(proposer, block.txs)
  BY Zenon DEF Unlisted, LastReadable
<1>5. SelectorInv'
  BY <1>3, Zenon DEF ProposalInv, SelectorInv
<1>6. BlockInv'
  BY <1>4, Zenon DEF ProposalInv, BlockInv
<1>7. WithinLimits' /\ PaysCommittedFee' /\ StagedAreStranded'
  BY Zenon DEF ProposalInv, WithinLimits, PaysCommittedFee, StagedAreStranded
<1> QED
  BY <1>5, <1>6, <1>7, Zenon DEF ProposalInv

(* A selector that holds no tx is within every limit.                       *)
LEMMA NewSelectorFits ==
  /\ NewSelector.txs = {} /\ NewSelector.bytes = 0 /\ NewSelector.gas = 0
  /\ NewSelector.baseFee = NoFee
  /\ NewSelector.bytes = SumOver(Size, NewSelector.txs) /\ NewSelector.bytes <= MaxBytes
  /\ NewSelector.gas = (IF MaxGas > 0 THEN SumOver(Gas, NewSelector.txs) ELSE 0)
  /\ MaxGas > 0 => SumOver(Gas, NewSelector.txs) <= MaxGas
<1>1. SumOver(Size, {}) = 0 /\ SumOver(Gas, {}) = 0
  BY SumEmpty, Zenon
<1>2. NewSelector.txs = {} /\ NewSelector.bytes = 0 /\ NewSelector.gas = 0
      /\ NewSelector.baseFee = NoFee
  BY Zenon DEF NewSelector
<1>3. MaxGas \in Nat /\ MaxBytes \in Nat
  BY ProposalAssumption, Zenon
<1> QED
  BY <1>1, <1>2, <1>3

(* While no proposer is at work every selector is empty.                    *)
LEMMA IdleSelectors ==
  ASSUME \A n \in Nodes : sel[n] = NewSelector
  PROVE  WithinLimits /\ \A n \in Nodes :
           sel[n].gas = IF MaxGas > 0 THEN SumOver(Gas, sel[n].txs) ELSE 0
BY NewSelectorFits, Zenon DEF WithinLimits

(* The same after a step: Clear leaves every selector empty.                *)
LEMMA IdleSelectorsNext ==
  ASSUME \A n \in Nodes : sel'[n] = NewSelector
  PROVE  WithinLimits' /\ \A n \in Nodes :
           sel'[n].gas = IF MaxGas > 0 THEN SumOver(Gas, sel'[n].txs) ELSE 0
BY NewSelectorFits, Zenon DEF WithinLimits

(* What the selector decides for one tx: nothing, the base fee alone, or    *)
(* the tx.                                                                  *)
WithFee(s) == [s EXCEPT !.baseFee = gateBaseFee(s)]
WithTx(s, t) ==
  [WithFee(s) EXCEPT !.txs = @ \cup {t}, !.bytes = @ + Size[t],
                     !.gas = IF MaxGas > 0 THEN @ + Gas[t] ELSE 0]

(* SelectTxForProposal keeps the limits, adds only txs that are not listed  *)
(* and pay the base fee, and leaves the others to the gate's set.           *)
LEMMA SelectKeeps ==
  ASSUME TypeOK, ListInv, ProposalInv, NEW t \in Txs, SelectTxForProposal(t)
  PROVE  ProposalInv'
<1> DEFINE s == sel[proposer]
           g == gateSkipped[proposer]
<1>1. /\ stage = "select" /\ t \in todo /\ todo' = todo \ {t}
      /\ gateSkipped' = IF ReachesGate(s, t) /\ Gated(s, t)
                          THEN [gateSkipped EXCEPT ![proposer] = g \cup {t}] ELSE gateSkipped
      /\ sel' = IF ~ReachesGate(s, t) THEN sel
                ELSE IF Gated(s, t) \/ ~FitsGas(s, t) THEN [sel EXCEPT ![proposer] = WithFee(s)]
                ELSE [sel EXCEPT ![proposer] = WithTx(s, t)]
      /\ UNCHANGED <<staged, round, chain, memory, local>>
  BY Zenon DEF SelectTxForProposal, WithFee, WithTx
<1>2. /\ proposer \in Nodes /\ s \in [txs : SUBSET Txs, bytes : Nat, gas : Nat, baseFee : Fees \cup {NoFee}]
      /\ g \subseteq Txs /\ sel = [n \in Nodes |-> sel[n]] /\ gateSkipped = [n \in Nodes |-> gateSkipped[n]]
  BY Zenon DEF TypeOK
<1>3. /\ proposer \in up /\ height[proposer] = tip /\ s.baseFee \in {NoFee, baseFee}
      /\ s.gas = (IF MaxGas > 0 THEN SumOver(Gas, s.txs) ELSE 0)
      /\ proposer \notin ahead \cup adrift => Unlisted(proposer, s.txs)
      /\ \A x \in s.txs : x \notin todo /\ (baseFee # NoFee /\ Gas[x] > 0 => FeeCap[x] >= baseFee)
      /\ \A x \in g : x \notin todo \cup s.txs /\ baseFee # NoFee /\ FeeCap[x] < baseFee
      /\ s.bytes = SumOver(Size, s.txs) /\ s.bytes <= MaxBytes
      /\ MaxGas > 0 => SumOver(Gas, s.txs) <= MaxGas
  BY <1>1, <1>2, Zenon DEF ProposalInv, SelectorInv, WithinLimits
<1>4. gateBaseFee(s) = baseFee
  BY <1>3, Zenon DEF gateBaseFee
<1>5. UNCHANGED <<stage, proposer, block, staged, tip, stored, baseFee, height, up, ahead, adrift>>
  BY <1>1, Zenon DEF round, chain, local
<1>6. /\ WithFee(s).txs = s.txs /\ WithFee(s).bytes = s.bytes /\ WithFee(s).gas = s.gas
      /\ WithFee(s).baseFee = baseFee
  BY <1>2, <1>4, Zenon DEF WithFee
<1>7. /\ WithTx(s, t).txs = s.txs \cup {t} /\ WithTx(s, t).bytes = s.bytes + Size[t]
      /\ WithTx(s, t).gas = (IF MaxGas > 0 THEN s.gas + Gas[t] ELSE 0)
      /\ WithTx(s, t).baseFee = baseFee
  BY <1>2, <1>4, Zenon DEF WithFee, WithTx
<1>8. t \notin s.txs
  BY <1>1, <1>3, Zenon
<1>9. /\ SumOver(Size, s.txs \cup {t}) = Size[t] + SumOver(Size, s.txs)
      /\ SumOver(Gas, s.txs \cup {t}) = Gas[t] + SumOver(Gas, s.txs)
      /\ Size[t] \in Nat /\ Gas[t] \in Nat /\ SumOver(Gas, s.txs) \in Nat
  <2>1. /\ IsFiniteSet(s.txs) /\ s.txs \subseteq Txs
        /\ \A x \in Txs : Size[x] \in Nat /\ Gas[x] \in Nat
    BY <1>2, ProposalAssumption, FiniteSubset, Zenon
  <2> USE <2>1
  <2>2. \A x \in s.txs \cup {t} : Size[x] \in Int /\ Gas[x] \in Int
    OBVIOUS
  <2>3. SumOver(Size, s.txs \cup {t}) = Size[t] + SumOver(Size, s.txs)
    BY <1>8, <2>2, SumAdd, Zenon
  <2>4. SumOver(Gas, s.txs \cup {t}) = Gas[t] + SumOver(Gas, s.txs)
    BY <1>8, <2>2, SumAdd, Zenon
  <2>5. SumOver(Gas, s.txs) \in Nat
    BY SumType, Zenon
  <2> QED
    BY <2>3, <2>4, <2>5, Zenon
<1>10. ReachesGate(s, t) /\ proposer \notin ahead \cup adrift => Unlisted(proposer, s.txs \cup {t})
  <2> SUFFICES ASSUME ReachesGate(s, t), proposer \notin ahead \cup adrift, proposer \in Identified
               PROVE  \A x \in s.txs \cup {t} :
                        Involves[x] \cap AddressesOf(stored[LastReadable(proposer, tip)]) = {}
    BY Zenon DEF Unlisted
  <2> USE <1>3
  <2>1. proposer \notin finalized
    BY DEF ListInv, TypeOK
  <2>2. lastBlockList[proposer] = stored[LastReadable(proposer, height[proposer])]
    BY <1>2, <2>1, Zenon DEF ListInv
  <2>3. blocklist[proposer] = AddressesOf(stored[LastReadable(proposer, tip)])
    BY <1>2, <2>2, Zenon DEF ListInv
  <2>4. Involves[t] \cap blocklist[proposer] = {}
    BY Zenon DEF ReachesGate, Blocked
  <2> QED
    BY <2>3, <2>4, Zenon DEF Unlisted
<1> HIDE DEF s, g
<1>11. sel'[proposer] \in {s, WithFee(s), WithTx(s, t)} /\ \A n \in Nodes \ {proposer} : sel'[n] = sel[n]
  BY <1>1, <1>2, Zenon DEF s
<1>12. /\ sel'[proposer].bytes = SumOver(Size, sel'[proposer].txs) /\ sel'[proposer].bytes <= MaxBytes
       /\ sel'[proposer].gas = (IF MaxGas > 0 THEN SumOver(Gas, sel'[proposer].txs) ELSE 0)
       /\ MaxGas > 0 => SumOver(Gas, sel'[proposer].txs) <= MaxGas
  <2>1. CASE sel'[proposer].txs = s.txs /\ sel'[proposer].bytes = s.bytes /\ sel'[proposer].gas = s.gas
    BY <1>3, <2>1, Zenon
  <2>2. CASE ReachesGate(s, t) /\ FitsGas(s, t) /\ sel'[proposer] = WithTx(s, t)
    <3>1. s.bytes + Size[t] <= MaxBytes /\ (MaxGas > 0 => Gas[t] <= MaxGas - s.gas)
      BY <2>2, Zenon DEF ReachesGate, FitsGas
    <3>2. /\ sel'[proposer].txs = s.txs \cup {t} /\ sel'[proposer].bytes = s.bytes + Size[t]
          /\ sel'[proposer].gas = (IF MaxGas > 0 THEN s.gas + Gas[t] ELSE 0)
      BY <1>7, <2>2, Zenon
    <3>3. s.bytes \in Nat /\ MaxGas \in Nat
      BY <1>2, ProposalAssumption, Zenon DEF s
    <3>4. s.bytes + Size[t] = SumOver(Size, s.txs \cup {t})
      BY <1>3, <1>9, <3>3
    <3>5. MaxGas > 0 => /\ s.gas + Gas[t] = SumOver(Gas, s.txs \cup {t})
                        /\ SumOver(Gas, s.txs \cup {t}) <= MaxGas
      BY <1>3, <1>9, <3>1, <3>3
    <3> QED
      BY <3>1, <3>2, <3>4, <3>5, Zenon
  <2> QED
    BY <1>1, <1>2, <1>6, <2>1, <2>2, Zenon DEF s
<1>13. WithinLimits'
  BY <1>5, <1>11, <1>12, Zenon DEF ProposalInv, WithinLimits
<1>14. \A n \in Nodes : sel'[n].gas = IF MaxGas > 0 THEN SumOver(Gas, sel'[n].txs) ELSE 0
  BY <1>11, <1>12, Zenon DEF ProposalInv, SelectorInv
<1>15. /\ sel'[proposer].baseFee \in {NoFee, baseFee}
       /\ proposer \notin ahead \cup adrift => Unlisted(proposer, sel'[proposer].txs)
       /\ \A x \in sel'[proposer].txs :
            x \notin todo' /\ (baseFee # NoFee /\ Gas[x] > 0 => FeeCap[x] >= baseFee)
  <2> USE <1>1
  <2>1. CASE sel'[proposer].txs = s.txs /\ sel'[proposer].baseFee \in {s.baseFee, baseFee}
    BY <1>3, <2>1, Zenon
  <2>2. CASE ReachesGate(s, t) /\ ~Gated(s, t) /\ sel'[proposer] = WithTx(s, t)
    <3>1. baseFee # NoFee /\ Gas[t] > 0 => FeeCap[t] >= baseFee
      <4>1. baseFee # NoFee => baseFee \in Nat /\ FeeCap[t] \in Nat
        BY ProposalAssumption, Zenon DEF TypeOK
      <4> QED
        BY <1>4, <2>2, <4>1 DEF Gated
    <3> QED
      BY <1>3, <1>7, <1>10, <2>2, <3>1, Zenon
  <2> QED
    BY <1>2, <1>6, <2>1, <2>2, Zenon DEF s
<1>16. \A x \in gateSkipped'[proposer] :
         x \notin todo' \cup sel'[proposer].txs /\ baseFee # NoFee /\ FeeCap[x] < baseFee
  <2> USE <1>1
  <2>1. CASE ReachesGate(s, t) /\ Gated(s, t)
    <3>1. gateSkipped'[proposer] = g \cup {t} /\ sel'[proposer].txs = s.txs
      BY <1>2, <1>6, <2>1, Zenon DEF s
    <3>2. baseFee # NoFee /\ FeeCap[t] < baseFee
      BY <1>4, <2>1, Zenon DEF Gated
    <3> QED
      BY <1>3, <1>8, <3>1, <3>2, Zenon
  <2>2. CASE ~(ReachesGate(s, t) /\ Gated(s, t))
    <3>1. gateSkipped'[proposer] = g /\ sel'[proposer].txs \subseteq s.txs \cup {t}
      BY <1>6, <1>7, <1>11, <2>2, Zenon DEF g
    <3> QED
      BY <1>3, <3>1, Zenon
  <2> QED
    BY <2>1, <2>2, Zenon
<1>17. \A n \in Nodes : n # proposer => sel'[n] = NewSelector /\ gateSkipped'[n] = {}
  BY <1>1, <1>2, <1>11, Zenon DEF ProposalInv, SelectorInv
<1>18. SelectorInv'
  <2>1. Unlisted(proposer, sel[proposer].txs)' <=> Unlisted(proposer, sel'[proposer].txs)
    BY <1>5, Zenon DEF Unlisted, LastReadable
  <2> QED
    BY <1>1, <1>3, <1>5, <1>14, <1>15, <1>16, <1>17, <2>1, Zenon DEF SelectorInv
<1>19. BlockInv' /\ PaysCommittedFee' /\ StagedAreStranded'
  BY <1>1, <1>5, Zenon DEF BlockInv, PaysCommittedFee, StagedAreStranded
<1> QED
  BY <1>13, <1>18, <1>19, Zenon DEF ProposalInv

(* Every other step keeps the invariant of the selectors and the proposal.  *)
LEMMA ProposalStep ==
  TypeOK /\ ListInv /\ ProposalInv /\ [Next]_vars => ProposalInv'
<1> SUFFICES ASSUME TypeOK, ListInv, ProposalInv, [Next]_vars PROVE ProposalInv'
  BY Zenon
<1>0. /\ stage # "select" => \A m \in Nodes : sel[m] = NewSelector /\ gateSkipped[m] = {}
      /\ \A m \in Nodes \ {proposer} : sel[m] = NewSelector /\ gateSkipped[m] = {}
      /\ proposer \in Nodes
  BY Zenon DEF ProposalInv, SelectorInv, TypeOK
<1>1. ASSUME NEW n \in Nodes, StartProposal(n) PROVE ProposalInv'
  <2>1. /\ stage = "idle" /\ stage' = "select" /\ proposer' = n /\ n \in up /\ height[n] = tip
        /\ UNCHANGED <<sel, gateSkipped, chain, local>>
    BY <1>1, Zenon DEF StartProposal
  <2> USE <2>1
  <2>2. \A m \in Nodes : sel'[m] = NewSelector /\ gateSkipped'[m] = {}
    BY <1>0, Zenon
  <2> USE <2>2
  <2>3. WithinLimits' /\ \A m \in Nodes :
          sel'[m].gas = IF MaxGas > 0 THEN SumOver(Gas, sel'[m].txs) ELSE 0
    BY IdleSelectorsNext, Zenon
  <2>4. sel'[n].txs = {} /\ sel'[n].baseFee = NoFee /\ gateSkipped'[n] = {}
    BY NewSelectorFits, Zenon
  <2>5. Unlisted(proposer, sel[proposer].txs)'
    BY <2>4, Zenon DEF Unlisted
  <2>6. SelectorInv'
    BY <2>3, <2>4, <2>5, Zenon DEF SelectorInv, chain, local
  <2>7. BlockInv' /\ PaysCommittedFee' /\ StagedAreStranded'
    BY Zenon DEF BlockInv, PaysCommittedFee, StagedAreStranded
  <2> QED
    BY <2>3, <2>6, <2>7, Zenon DEF ProposalInv
<1>2. ASSUME NEW n \in Nodes, ProcessProposal(n) PROVE ProposalInv'
  BY <1>2, ProposalStays, Zenon DEF ProcessProposal
<1>3. ASSUME NEW n \in Nodes, OptimisticEndBlock(n) PROVE ProposalInv'
  <2>1. /\ UNCHANGED <<selector, stage, proposer, block, chain, height, up, adrift>>
        /\ ahead \subseteq ahead'
    BY <1>3, Zenon DEF OptimisticEndBlock, round
  <2> QED
    BY <2>1, ProposalStays, Zenon DEF ProposalInv, SelectorInv
<1>4. ASSUME NEW n \in Nodes, FinalizeBlock(n) PROVE ProposalInv'
  <2>1. UNCHANGED <<selector, stage, proposer, block, chain, height, up, ahead, adrift>>
    BY <1>4, Zenon DEF FinalizeBlock, round
  <2> QED
    BY <2>1, ProposalStays, Zenon DEF ProposalInv, SelectorInv
<1>5. ASSUME NEW n \in Nodes, Commit(n) PROVE ProposalInv'
  <2>1. /\ UNCHANGED <<selector, stage, proposer, block, chain, up>>
        /\ n \in finalized /\ height' = [height EXCEPT ![n] = height[n] + 1]
        /\ ahead' = ahead \ {n} /\ adrift \ {n} \subseteq adrift'
    BY <1>5, Zenon DEF Commit, round
  <2> USE <2>1
  <2>2. stage = "select" => proposer # n
    BY DEF ProposalInv, SelectorInv, ListInv, TypeOK
  <2>3. stage = "select" => /\ proposer \in up' /\ height'[proposer] = height[proposer]
                            /\ proposer \notin ahead' \cup adrift' => proposer \notin ahead \cup adrift
    BY <2>2, Zenon DEF ProposalInv, SelectorInv, TypeOK
  <2> QED
    BY <2>3, ProposalStays, Zenon
<1>6. ASSUME NEW n \in Nodes, Crash(n) PROVE ProposalInv'
  <2>1. /\ sel' = [sel EXCEPT ![n] = NewSelector] /\ gateSkipped' = [gateSkipped EXCEPT ![n] = {}]
        /\ up' = up \ {n} /\ ahead' = ahead \ {n} /\ adrift' = adrift \ {n}
        /\ UNCHANGED <<staged, proposer, block, tip, stored, baseFee, height>>
    BY <1>6, Zenon DEF Crash, Clear, chain
  <2>2. IF stage = "select" /\ n = proposer THEN stage' = "idle" /\ todo' = {}
                                            ELSE UNCHANGED <<stage, todo>>
    BY <1>6, Zenon DEF Crash
  <2> USE <2>1
  <2>3. CASE stage = "select" /\ n # proposer
    <3> USE <2>3
    <3>1. sel' = sel /\ gateSkipped' = gateSkipped
      <4>1. sel[n] = NewSelector /\ gateSkipped[n] = {}
        BY <1>0, Zenon
      <4> QED
        BY <4>1, Zenon DEF TypeOK
    <3>2. UNCHANGED <<selector, stage, proposer, block, chain>>
      BY <2>2, <3>1, Zenon DEF selector, chain
    <3>3. /\ proposer \in up' /\ height'[proposer] = height[proposer]
          /\ proposer \notin ahead' \cup adrift' => proposer \notin ahead \cup adrift
      BY Zenon DEF ProposalInv, SelectorInv
    <3> QED
      BY <3>2, <3>3, ProposalStays, Zenon
  <2>4. CASE ~(stage = "select" /\ n # proposer)
    <3>1. /\ stage' # "select" /\ (stage' = "proposed" => stage = "proposed")
          /\ \A m \in Nodes : sel'[m] = NewSelector /\ gateSkipped'[m] = {}
      BY <1>0, <2>2, <2>4, Zenon DEF TypeOK
    <3> USE <3>1
    <3>2. WithinLimits' /\ \A m \in Nodes :
            sel'[m].gas = IF MaxGas > 0 THEN SumOver(Gas, sel'[m].txs) ELSE 0
      BY IdleSelectorsNext, Zenon
    <3>3. SelectorInv'
      BY <3>2, Zenon DEF SelectorInv
    <3>4. Unlisted(proposer, block.txs)' <=> Unlisted(proposer, block.txs)
      BY Zenon DEF Unlisted, LastReadable
    <3>5. BlockInv' /\ PaysCommittedFee' /\ StagedAreStranded'
      BY <3>4, Zenon DEF ProposalInv, BlockInv, PaysCommittedFee, StagedAreStranded
    <3> QED
      BY <3>2, <3>3, <3>5, Zenon DEF ProposalInv
  <2> QED
    BY <2>3, <2>4, Zenon
<1>7. ASSUME NEW n \in Nodes, Restart(n) PROVE ProposalInv'
  <2>1. /\ UNCHANGED <<selector, stage, proposer, block, chain, height, ahead>>
        /\ n \notin up /\ up' = up \cup {n} /\ adrift \subseteq adrift'
    BY <1>7, Zenon DEF Restart, round
  <2> QED
    BY <2>1, ProposalStays, Zenon DEF ProposalInv, SelectorInv
<1>8. ASSUME NEW t \in Txs, SelectTxForProposal(t) PROVE ProposalInv'
  BY <1>8, SelectKeeps, Zenon
<1>9. ASSUME NEW b \in Blobs \cup {stored[tip]}, FinishProposal(b) PROVE ProposalInv'
  <2>1. /\ stage = "select" /\ stage' = "proposed"
        /\ block' = [txs |-> sel[proposer].txs, blob |-> b, clean |-> proposer \notin ahead \cup adrift]
        /\ staged' = gateSkipped[proposer]
        /\ sel' = [sel EXCEPT ![proposer] = NewSelector]
        /\ gateSkipped' = [gateSkipped EXCEPT ![proposer] = {}]
        /\ UNCHANGED <<proposer, tip, stored, baseFee>>
    BY <1>9, Zenon DEF FinishProposal, Clear, chain
  <2> USE <2>1
  <2>2. \A m \in Nodes : sel'[m] = NewSelector /\ gateSkipped'[m] = {}
    BY <1>0, Zenon DEF TypeOK
  <2>3. WithinLimits' /\ \A m \in Nodes :
          sel'[m].gas = IF MaxGas > 0 THEN SumOver(Gas, sel'[m].txs) ELSE 0
    BY <2>2, IdleSelectorsNext, Zenon
  <2>4. SelectorInv'
    BY <2>2, <2>3, Zenon DEF SelectorInv
  <2>5. block'.txs = sel[proposer].txs /\ block'.clean = (proposer \notin ahead \cup adrift)
    BY Zenon
  <2> USE <2>5
  <2>6. Unlisted(proposer, block.txs)' <=> Unlisted(proposer, sel[proposer].txs)
    BY Zenon DEF Unlisted, LastReadable
  <2>7. BlockInv'
    BY <2>6, Zenon DEF ProposalInv, SelectorInv, BlockInv
  <2>8. PaysCommittedFee' /\ StagedAreStranded'
    BY Zenon DEF ProposalInv, SelectorInv, PaysCommittedFee, StagedAreStranded
  <2> QED
    BY <2>3, <2>4, <2>7, <2>8, Zenon DEF ProposalInv
<1>10. ASSUME stage' = "idle", \A m \in Nodes : sel'[m] = NewSelector /\ gateSkipped'[m] = {}
       PROVE  ProposalInv'
  <2>1. WithinLimits' /\ \A m \in Nodes :
          sel'[m].gas = IF MaxGas > 0 THEN SumOver(Gas, sel'[m].txs) ELSE 0
    BY <1>10, IdleSelectorsNext, Zenon
  <2> QED
    BY <1>10, <2>1, Zenon
       DEF ProposalInv, SelectorInv, BlockInv, PaysCommittedFee, StagedAreStranded
<1> USE <1>10
<1>11. CASE FailProposal
  BY <1>0, <1>11, Zenon DEF FailProposal, Clear, TypeOK
<1>12. CASE RoundFails
  BY <1>0, <1>12, Zenon DEF RoundFails
<1>13. ASSUME NEW fee \in Fees, Decide(fee) PROVE ProposalInv'
  BY <1>0, <1>13, Zenon DEF Decide
<1>14. CASE UNCHANGED vars
  BY <1>14, ProposalStays, Zenon DEF vars, round, local, ProposalInv, SelectorInv
<1> QED
  BY <1>1, <1>2, <1>3, <1>4, <1>5, <1>6, <1>7, <1>8, <1>9, <1>11, <1>12, <1>13, <1>14,
     Zenon DEF Next

-----------------------------------------------------------------------------
ProposalIndInv == TypeOK /\ ListInv /\ ProposalInv

(* At genesis every list, selector and staged set is empty, and no blob is  *)
(* stored.                                                                  *)
LEMMA InitInv == Init => ProposalIndInv
<1> SUFFICES ASSUME Init PROVE ProposalIndInv
  BY Zenon
<1>1. TypeOK
  <2>1. NewSelector \in [txs : SUBSET Txs, bytes : Nat, gas : Nat, baseFee : Fees \cup {NoFee}]
    BY Zenon DEF NewSelector
  <2>2. NoBlock \in [txs : SUBSET Txs, blob : Blobs \cup {Empty}, clean : BOOLEAN]
    BY Zenon DEF NoBlock
  <2>3. Idle \in [running : BOOLEAN, blob : Blobs \cup {Empty}]
    BY Zenon DEF Idle
  <2> QED
    BY <2>1, <2>2, <2>3, ProposalAssumption DEF Init, TypeOK
<1>2. ListInv
  <2>1. ASSUME NEW n \in Nodes PROVE NodeInv(n)
    <3>1. height[n] = 0 /\ stored[0] = Empty /\ lastBlockList[n] = Empty
          /\ n \in up /\ n \notin finalized
      BY ProposalAssumption DEF Init
    <3> USE <3>1
    <3>2. LastReadable(n, 0) \in 0 .. 0
      BY LastInRange
    <3>3. stored[LastReadable(n, height[n])] = Empty
      BY <3>2
    <3> QED
      BY <3>3, Zenon DEF NodeInv
  <2>2. blocklist = [n \in Nodes |-> AddressesOf(lastBlockList[n])]
    <3>1. AddressesOf(Empty) = {}
      BY Zenon DEF AddressesOf
    <3> QED
      BY <3>1, Zenon DEF Init
  <2> QED
    BY <1>1, <2>1, <2>2, ListByNode, Zenon
<1>3. \A n \in Nodes : sel[n] = NewSelector /\ gateSkipped[n] = {}
  BY Zenon DEF Init
<1>4. WithinLimits /\ \A n \in Nodes :
        sel[n].gas = IF MaxGas > 0 THEN SumOver(Gas, sel[n].txs) ELSE 0
  BY <1>3, IdleSelectors, Zenon
<1>5. stage = "idle"
  BY Zenon DEF Init
<1>6. SelectorInv
  BY <1>3, <1>4, <1>5, Zenon DEF SelectorInv
<1>7. BlockInv /\ PaysCommittedFee /\ StagedAreStranded
  BY <1>5, Zenon DEF BlockInv, PaysCommittedFee, StagedAreStranded
<1> QED
  BY <1>1, <1>2, <1>4, <1>6, <1>7, Zenon DEF ProposalIndInv, ProposalInv

(* The inductive invariant of block proposals, for any validators, quorums, *)
(* txs and blobs, through failed rounds, crashes and start-ups.             *)
THEOREM ProposalInvHolds == Spec => []ProposalIndInv
<1>1. ProposalIndInv /\ [Next]_vars => ProposalIndInv'
  BY TypeStep, ListStep, ProposalStep, Zenon DEF ProposalIndInv
<1> QED
  BY InitInv, <1>1, PTL DEF Spec

(* A running validator blocks the addresses of the last blob that it can    *)
(* read among those of its committed blocks (SetBlockList, EndBlocker and   *)
(* the refresh of New), unless it ran ahead of the chain or ignored a       *)
(* failure at start-up.                                                     *)
THEOREM ListFollowsChainHolds == Spec => []ListFollowsChain
<1>1. ProposalIndInv => ListFollowsChain
  <2> SUFFICES ASSUME ProposalIndInv,
                      NEW n \in (up \cap Identified) \ UNION {finalized, ahead, adrift}
               PROVE  blocklist[n] = AddressesOf(stored[LastReadable(n, height[n])])
    BY Zenon DEF ListFollowsChain
  <2>1. /\ n \in Nodes /\ n \in (up \cap Identified) \ (ahead \cup adrift) /\ n \notin finalized
        /\ ListInv
    BY Zenon DEF ProposalIndInv, TypeOK
  <2>2. lastBlockList[n] = stored[LastReadable(n, height[n])]
    BY <2>1, Zenon DEF ListInv
  <2>3. blocklist[n] = AddressesOf(lastBlockList[n])
    BY <2>1, Zenon DEF ListInv
  <2> QED
    BY <2>2, <2>3, Zenon
<1> QED
  BY ProposalInvHolds, <1>1, PTL

(* No sequence of offered txs makes ExtTxSelector pass the byte or the gas  *)
(* limit of a block, so its subtraction maxBlockGas - totalGas cannot wrap. *)
THEOREM WithinLimitsHolds == Spec => []WithinLimits
<1>1. ProposalIndInv => WithinLimits
  BY Zenon DEF ProposalIndInv, ProposalInv
<1> QED
  BY ProposalInvHolds, <1>1, PTL

(* Only Decide moves the tip of the chain, and only from a proposal.        *)
LEMMA TipMovesByDecide ==
  ASSUME Next, tip' # tip
  PROVE  stage = "proposed"
<1>1. ASSUME NEW n \in Nodes, StartProposal(n) \/ ProcessProposal(n) \/ OptimisticEndBlock(n)
      PROVE FALSE
  BY <1>1, Zenon DEF StartProposal, ProcessProposal, OptimisticEndBlock, chain
<1>2. ASSUME NEW n \in Nodes, FinalizeBlock(n) \/ Commit(n) PROVE FALSE
  BY <1>2, Zenon DEF FinalizeBlock, Commit, chain
<1>3. ASSUME NEW n \in Nodes, Crash(n) \/ Restart(n) PROVE FALSE
  BY <1>3, Zenon DEF Crash, Restart, chain
<1>4. ASSUME NEW t \in Txs, SelectTxForProposal(t) PROVE FALSE
  BY <1>4, Zenon DEF SelectTxForProposal, chain
<1>5. ASSUME NEW b, FinishProposal(b) PROVE FALSE
  BY <1>5, Zenon DEF FinishProposal, chain
<1>6. ~FailProposal /\ ~RoundFails
  BY Zenon DEF FailProposal, RoundFails, chain
<1>7. ASSUME NEW fee, Decide(fee) PROVE stage = "proposed"
  BY <1>7, Zenon DEF Decide
<1> QED
  BY <1>1, <1>2, <1>3, <1>4, <1>5, <1>6, <1>7, Zenon DEF Next

(* A tx of a decided block fails to pay the fee it is charged only when     *)
(* BeginBlocker raised the fee with that block: the gate of the selector    *)
(* always compares with the last block's fee, whatever it cached before.    *)
THEOREM UnpaidOnlyAfterRiseHolds == Spec => UnpaidOnlyAfterRise
<1> DEFINE A == tip' # tip =>
                  \A t \in block.txs :
                    baseFee' # NoFee /\ Gas[t] > 0 /\ FeeCap[t] < baseFee' =>
                      baseFee = NoFee \/ baseFee' > baseFee
<1>1. ProposalIndInv /\ ProposalIndInv' /\ [Next]_vars => [A]_vars
  <2> SUFFICES ASSUME ProposalIndInv, ProposalIndInv', Next, tip' # tip,
                      NEW t \in block.txs, baseFee' # NoFee, Gas[t] > 0, FeeCap[t] < baseFee',
                      baseFee # NoFee
               PROVE  baseFee' > baseFee
    BY Zenon
  <2>1. stage = "proposed"
    BY TipMovesByDecide, Zenon
  <2>2. FeeCap[t] >= baseFee
    BY <2>1, Zenon DEF ProposalIndInv, ProposalInv, PaysCommittedFee
  <2>3. t \in Txs /\ baseFee \in Fees /\ baseFee' \in Fees
    BY Zenon DEF ProposalIndInv, TypeOK
  <2>4. FeeCap[t] \in Nat /\ baseFee \in Nat /\ baseFee' \in Nat
    BY <2>3, ProposalAssumption, Zenon
  <2> QED
    BY <2>2, <2>4
<1> QED
  BY ProposalInvHolds, <1>1, PTL DEF Spec, UnpaidOnlyAfterRise

(* The senders staged for recheck after a proposal are those that the fee   *)
(* of the state it is built on strands: PrepareProposal drains them in      *)
(* every round, failed or not.                                              *)
THEOREM StagedAreStrandedHolds == Spec => []StagedAreStranded
<1>1. ProposalIndInv => StagedAreStranded
  BY Zenon DEF ProposalIndInv, ProposalInv
<1> QED
  BY ProposalInvHolds, <1>1, PTL

(* Only ProcessProposal rejects.                                            *)
LEMMA RejectionIsVote ==
  ASSUME TypeOK, Next, NEW n \in Nodes, vote[n] # "reject", vote'[n] = "reject"
  PROVE  ProcessProposal(n)
<1>1. ASSUME NEW m \in Nodes, StartProposal(m) PROVE FALSE
  BY <1>1, Zenon DEF StartProposal
<1>2. ASSUME NEW m \in Nodes, ProcessProposal(m) PROVE ProcessProposal(n)
  <2>1. m # n => vote'[n] = vote[n]
    BY <1>2, Zenon DEF ProcessProposal, TypeOK
  <2>2. m = n
    BY <2>1, Zenon
  <2> QED
    BY <1>2, <2>2, Zenon
<1>3. ASSUME NEW m \in Nodes, OptimisticEndBlock(m) \/ FinalizeBlock(m) \/ Commit(m) \/ Restart(m)
      PROVE  FALSE
  BY <1>3, Zenon DEF OptimisticEndBlock, FinalizeBlock, Commit, Restart, round
<1>4. ASSUME NEW m \in Nodes, Crash(m) PROVE FALSE
  BY <1>4, Zenon DEF Crash
<1>5. ASSUME NEW t \in Txs, SelectTxForProposal(t) PROVE FALSE
  BY <1>5, Zenon DEF SelectTxForProposal, round
<1>6. ASSUME NEW b \in Blobs \cup {stored[tip]}, FinishProposal(b) PROVE FALSE
  BY <1>6, Zenon DEF FinishProposal
<1>7. ~FailProposal /\ ~RoundFails
  BY Zenon DEF FailProposal, RoundFails
<1>8. ASSUME NEW fee \in Fees, Decide(fee) PROVE FALSE
  BY <1>8, Zenon DEF Decide
<1> QED
  BY <1>1, <1>2, <1>3, <1>4, <1>5, <1>6, <1>7, <1>8, Zenon DEF Next

(* ProcessProposal rejects an honest proposer's block only when the two     *)
(* validators could not read the same blobs, or one of them holds a list    *)
(* that does not follow the chain.                                          *)
THEOREM HonestProposalAcceptedHolds == Spec => HonestProposalAccepted
<1>1. ProposalIndInv /\ [Next]_vars => [RejectionIsDisagreement]_vars
  <2> SUFFICES ASSUME ProposalIndInv, Next, NEW n \in Nodes, vote[n] # "reject", vote'[n] = "reject",
                      n \notin ahead \cup adrift, block.clean, SameReaders(n, proposer)
               PROVE  FALSE
    BY Zenon DEF RejectionIsDisagreement
  <2>1. TypeOK /\ ListInv /\ BlockInv
    BY Zenon DEF ProposalIndInv, ProposalInv
  <2> USE <2>1
  <2>2. ProcessProposal(n)
    BY RejectionIsVote, Zenon
  <2>3. stage = "proposed" /\ n \in up \ finalized /\ height[n] = tip
    BY <2>2, Zenon DEF ProcessProposal
  <2>4. PICK t \in block.txs : Involves[t] \cap blocklist[n] # {}
    BY <2>2, Zenon DEF ProcessProposal, Blocked, TypeOK
  <2>5. blocklist[n] = AddressesOf(lastBlockList[n])
    BY Zenon DEF ListInv
  <2>6. CASE n \notin Identified
    BY <2>4, <2>5, <2>6, Zenon DEF ListInv, AddressesOf
  <2>7. CASE n \in Identified
    <3>1. lastBlockList[n] = stored[LastReadable(n, tip)]
      BY <2>3, <2>7, Zenon DEF ListInv
    <3>2. LastReadable(n, tip) = LastReadable(proposer, tip)
      BY LastAgrees, Zenon
    <3>3. blocklist[n] = AddressesOf(stored[LastReadable(proposer, tip)])
      BY <2>5, <3>1, <3>2, Zenon
    <3>4. Unlisted(proposer, block.txs) /\ proposer \in Identified
      BY <2>3, <2>7, Zenon DEF BlockInv, SameReaders
    <3> QED
      BY <2>4, <3>3, <3>4, Zenon DEF Unlisted
  <2> QED
    BY <2>6, <2>7, Zenon
<1> QED
  BY ProposalInvHolds, <1>1, PTL DEF HonestProposalAccepted, Spec
=============================================================================
