---------------------------- MODULE BlockProposal ----------------------------
(***************************************************************************)
(* How validators build, check and execute a proposal, and how each keeps  *)
(* the encrypted block list of the chain in memory (app/proposal.go, and   *)
(* EndBlocker, RefreshBlockList and the start-up of app/app.go).           *)
(*                                                                         *)
(* A proposer offers the txs of its pool to ExtTxSelector one by one.      *)
(* Validators accept or reject the block; one that accepts also executes   *)
(* it optimistically, EndBlocker included, before it is known whether the  *)
(* block is decided.  A round can fail and be followed by another, and a   *)
(* validator can crash at any time.                                        *)
(*                                                                         *)
(* A tx is abstracted to the addresses it involves (signers, destination,  *)
(* authorisations), its size, gas and fee cap; a blob to its addresses and *)
(* the validators who can decrypt and parse it.  CometBFT and the SDK's    *)
(* handler and optimistic execution are external.                          *)
(***************************************************************************)
EXTENDS Naturals, FiniteSets, Collections

CONSTANTS
  Nodes,          \* validators
  Identified,     \* those with mode=validator; the others keep no list
  IgnoreFailure,  \* those with unsafe-ignore-blocklist-failure
  Quorums,        \* sets of validators that decide a block
  Txs,            \* what the pool offers, and four functions of it:
  Involves, Size, Gas, FeeCap,
  Unblockable,    \* addresses that are never blocked
  Blobs,          \* records [addresses, readers]
  Empty,          \* no blob
  Fees,           \* possible base fees
  NoFee,          \* no base fee: the gate is off
  MaxBytes,       \* limits of a block;
  MaxGas,         \*   MaxGas = 0 is no limit
  MaxHeight,      \* bound on the blocks decided
  MaxFailures,    \* bound on the rounds that fail
  MaxCrashes      \* bound on the crashes

ASSUME ProposalAssumption ==
  /\ Identified \subseteq Nodes /\ IgnoreFailure \subseteq Nodes
  /\ Quorums \subseteq SUBSET Nodes
  /\ IsFiniteSet(Txs) /\ \A t \in Txs : {Size[t], Gas[t], FeeCap[t]} \subseteq Nat
  /\ Fees \ {NoFee} \subseteq Nat
  /\ Empty \notin Blobs
  /\ {MaxGas, MaxHeight, MaxFailures, MaxCrashes} \subseteq Nat
  /\ MaxBytes \in Nat \ {0}

Idle == [running |-> FALSE, blob |-> Empty]

VARIABLES
  stage,          \* of the round: "idle", "select" or "proposed"
  proposer,
  todo,           \* txs not offered yet
  sel,            \* ExtTxSelector of each validator
  gateSkipped,    \* its txs that the fee gate rejected
  staged,         \* txs handed to StageSkippedSenders for the proposal
  block,          \* the proposal: its txs and the blob it leaves in the store
  vote,           \* of each validator on the proposal
  failures, crashes,
  tip, stored,    \* number of decided blocks, and the blob after each
  baseFee,        \* in the committed state: what the last block was charged
  height,         \* blocks each validator has committed
  up,             \* validators that run
  blocklist, lastBlockList,  \* in the memory of each validator
  exec,           \* its optimistic execution
  finalized,      \* validators between FinalizeBlock and Commit
  ahead,          \* validators that refreshed their list in a block that they
                  \* had not committed, and have committed none since
  adrift          \* validators that did so, or ignored a failure at start-up,
                  \* and have committed no block with a blob they can read since

selector == <<todo, sel, gateSkipped, staged>>
round    == <<stage, proposer, block, vote, failures>>
chain    == <<tip, stored, baseFee>>
memory   == <<blocklist, lastBlockList>>
local    == <<height, up, exec, finalized, ahead, adrift, crashes>>
vars     == <<selector, round, chain, memory, local>>

NewSelector == [txs |-> {}, bytes |-> 0, gas |-> 0, baseFee |-> NoFee]
NoBlock == [txs |-> {}, blob |-> Empty, clean |-> FALSE]

Init ==
  /\ stage = "idle" /\ proposer \in Nodes
  /\ todo = {} /\ sel = [n \in Nodes |-> NewSelector]
  /\ gateSkipped = [n \in Nodes |-> {}] /\ staged = {}
  /\ block = NoBlock /\ vote = [n \in Nodes |-> "none"]
  /\ failures = 0 /\ crashes = 0
  /\ tip = 0 /\ stored = [h \in 0 .. MaxHeight |-> Empty] /\ baseFee \in Fees
  /\ height = [n \in Nodes |-> 0]
  /\ up = Nodes
  /\ blocklist = [n \in Nodes |-> {}]
  /\ lastBlockList = [n \in Nodes |-> Empty]
  /\ exec = [n \in Nodes |-> Idle]
  /\ finalized = {} /\ ahead = {} /\ adrift = {}

-----------------------------------------------------------------------------
(* SetBlockList                                                             *)

CanRead(n, b) == b = Empty \/ (b \in Blobs /\ n \in b.readers)

AddressesOf(b) == IF b = Empty THEN {} ELSE b.addresses \ Unblockable

(* The list changes when the blob is not the one applied last and can be    *)
(* read; otherwise the call returns early, or fails and changes nothing.    *)
Applies(n, b) == n \in Identified /\ b # lastBlockList[n] /\ CanRead(n, b)

(* Mutant: a blob that cannot be read empties the list.                     *)
SetBlockListDrops(n, b) ==
  IF Applies(n, b)
    THEN /\ blocklist' = [blocklist EXCEPT ![n] = AddressesOf(b)]
         /\ lastBlockList' = [lastBlockList EXCEPT ![n] = b]
    ELSE /\ blocklist' = IF CanRead(n, b) THEN blocklist ELSE [blocklist EXCEPT ![n] = {}]
         /\ UNCHANGED lastBlockList

SetBlockList(n, b) ==
  IF Applies(n, b)
    THEN /\ blocklist' = [blocklist EXCEPT ![n] = AddressesOf(b)]
         /\ lastBlockList' = [lastBlockList EXCEPT ![n] = b]
    ELSE UNCHANGED memory

(* ValidateTransaction fails.                                               *)
Blocked(n, t) == Involves[t] \cap blocklist[n] # {}

-----------------------------------------------------------------------------
(* PrepareProposal                                                          *)

StartProposal(n) ==
  /\ stage = "idle" /\ tip < MaxHeight
  /\ n \in up \ finalized /\ height[n] = tip
  /\ stage' = "select" /\ proposer' = n
  /\ todo' = Txs
  /\ UNCHANGED <<sel, gateSkipped, staged, block, vote, failures, chain, memory, local>>

Full(s) == s.bytes >= MaxBytes \/ (MaxGas > 0 /\ s.gas >= MaxGas)

(* Mutant: the selector does not validate the tx.                           *)
ReachesGateUnvalidated(s, t) == s.bytes + Size[t] <= MaxBytes

(* The tx reaches the fee gate: it is not blocked and not too large.        *)
ReachesGate(s, t) == ~Blocked(proposer, t) /\ s.bytes + Size[t] <= MaxBytes

(* The retriever of the gate reads the committed state (app.go), that is    *)
(* the fee of the last block: the fee of the block being built is computed  *)
(* only in its BeginBlocker.                                                *)
gateBaseFee(s) == IF s.baseFee = NoFee THEN baseFee ELSE s.baseFee

(* Mutant: the tx that makes the gate read the fee is not compared with it. *)
GatedLate(s, t) ==
  s.baseFee # NoFee /\ Gas[t] > 0 /\ FeeCap[t] < s.baseFee

Gated(s, t) ==
  gateBaseFee(s) # NoFee /\ Gas[t] > 0 /\ FeeCap[t] < gateBaseFee(s)

(* Mutant: the gas is compared with the limit and not with what is left.    *)
FitsGasLimit(s, t) == MaxGas > 0 => Gas[t] <= MaxGas

FitsGas(s, t) == MaxGas > 0 => Gas[t] <= MaxGas - s.gas

SelectTxForProposal(t) ==
  LET s == sel[proposer]
      r == [s EXCEPT !.baseFee = gateBaseFee(s)]
  IN  /\ stage = "select" /\ t \in todo /\ ~Full(s)
      /\ todo' = todo \ {t}
      /\ gateSkipped' = IF ReachesGate(s, t) /\ Gated(s, t)
                          THEN [gateSkipped EXCEPT ![proposer] = @ \cup {t}]
                          ELSE gateSkipped
      /\ sel' = IF ~ReachesGate(s, t) THEN sel
                ELSE IF Gated(s, t) \/ ~FitsGas(s, t) THEN [sel EXCEPT ![proposer] = r]
                ELSE [sel EXCEPT ![proposer] =
                        [r EXCEPT !.txs = @ \cup {t}, !.bytes = @ + Size[t],
                                  !.gas = IF MaxGas > 0 THEN @ + Gas[t] ELSE 0]]
      /\ UNCHANGED <<staged, round, chain, memory, local>>

Clear(n) == [sel EXCEPT ![n] = NewSelector]

(* The pool is exhausted or the block is full.  The block leaves blob b in  *)
(* the store: the one before it, or that of a MsgStoreBlockList in it.      *)
FinishProposal(b) ==
  /\ stage = "select" /\ (todo = {} \/ Full(sel[proposer]))
  /\ stage' = "proposed"
  /\ block' = [txs |-> sel[proposer].txs, blob |-> b,
               clean |-> proposer \notin ahead \cup adrift]
  /\ vote' = [n \in Nodes |-> "none"]
  /\ staged' = gateSkipped[proposer]
  /\ gateSkipped' = [gateSkipped EXCEPT ![proposer] = {}]
  /\ sel' = Clear(proposer) /\ todo' = {}
  /\ UNCHANGED <<proposer, failures, chain, memory, local>>

(* Mutant: what the gate rejected is drained only with a proposal.          *)
FailProposalNoDrain ==
  /\ stage = "select" /\ failures < MaxFailures
  /\ stage' = "idle" /\ failures' = failures + 1
  /\ sel' = Clear(proposer) /\ todo' = {}
  /\ UNCHANGED <<gateSkipped, staged, proposer, block, vote, chain, memory, local>>

(* The SDK's handler fails: nothing is proposed, and nothing staged.        *)
FailProposal ==
  /\ stage = "select" /\ failures < MaxFailures
  /\ stage' = "idle" /\ failures' = failures + 1
  /\ gateSkipped' = [gateSkipped EXCEPT ![proposer] = {}]
  /\ sel' = Clear(proposer) /\ todo' = {}
  /\ UNCHANGED <<staged, proposer, block, vote, chain, memory, local>>

-----------------------------------------------------------------------------
(* ProcessProposal, and what consensus does with the votes                  *)

(* An execution of an earlier proposal is aborted; one of this proposal     *)
(* starts if it is accepted and is not of the first block.                  *)
ProcessProposal(n) ==
  /\ stage = "proposed" /\ vote[n] = "none"
  /\ n \in up \ finalized /\ height[n] = tip
  /\ LET accepts == \A t \in block.txs : ~Blocked(n, t)
     IN  /\ vote' = [vote EXCEPT ![n] = IF accepts THEN "accept" ELSE "reject"]
         /\ exec' = [exec EXCEPT ![n] = IF accepts /\ tip > 0
                                          THEN [running |-> TRUE, blob |-> block.blob]
                                          ELSE Idle]
  /\ UNCHANGED <<stage, proposer, block, failures, selector, chain, memory,
                 height, up, finalized, ahead, adrift, crashes>>

(* The optimistic execution of n reaches EndBlocker.                        *)
OptimisticEndBlock(n) ==
  /\ n \in up /\ exec[n].running
  /\ SetBlockList(n, exec[n].blob)
  /\ exec' = [exec EXCEPT ![n] = Idle]
  /\ ahead' = ahead \cup {n}
  /\ UNCHANGED <<selector, round, chain, height, up, finalized, adrift, crashes>>

RoundFails ==
  /\ stage = "proposed" /\ failures < MaxFailures
  /\ stage' = "idle" /\ failures' = failures + 1
  /\ block' = NoBlock /\ vote' = [n \in Nodes |-> "none"] /\ staged' = {}
  /\ UNCHANGED <<proposer, todo, sel, gateSkipped, chain, memory, local>>

(* The block is executed: BeginBlocker of the fee market (external) sets    *)
(* the fee that the txs of this block are charged.                          *)
Decide(fee) ==
  /\ stage = "proposed"
  /\ \E q \in Quorums : \A n \in q : vote[n] = "accept"
  /\ tip' = tip + 1
  /\ stored' = [stored EXCEPT ![tip + 1] = block.blob]
  /\ baseFee' = fee
  /\ stage' = "idle"
  /\ block' = NoBlock /\ vote' = [n \in Nodes |-> "none"] /\ staged' = {}
  /\ UNCHANGED <<proposer, failures, todo, sel, gateSkipped, memory, local>>

-----------------------------------------------------------------------------
(* FinalizeBlock and Commit of a decided block, crash and start-up          *)

(* EndBlocker logs a failure to refresh the list.  An optimistic execution  *)
(* is aborted, or was of this very block and ends the same way.             *)
FinalizeBlock(n) ==
  /\ n \in up \ finalized /\ height[n] < tip
  /\ SetBlockList(n, stored[height[n] + 1])
  /\ exec' = [exec EXCEPT ![n] = Idle]
  /\ finalized' = finalized \cup {n}
  /\ UNCHANGED <<selector, round, chain, height, up, ahead, adrift, crashes>>

Commit(n) ==
  /\ n \in finalized
  /\ height' = [height EXCEPT ![n] = @ + 1]
  /\ finalized' = finalized \ {n}
  /\ adrift' = IF CanRead(n, stored[height[n] + 1]) THEN adrift \ {n}
               ELSE adrift \cup ({n} \cap ahead)
  /\ ahead' = ahead \ {n}
  /\ UNCHANGED <<selector, round, chain, memory, up, exec, crashes>>

Crash(n) ==
  /\ n \in up /\ crashes < MaxCrashes
  /\ crashes' = crashes + 1
  /\ up' = up \ {n}
  /\ blocklist' = [blocklist EXCEPT ![n] = {}]
  /\ lastBlockList' = [lastBlockList EXCEPT ![n] = Empty]
  /\ exec' = [exec EXCEPT ![n] = Idle]
  /\ sel' = Clear(n) /\ gateSkipped' = [gateSkipped EXCEPT ![n] = {}]
  /\ finalized' = finalized \ {n} /\ ahead' = ahead \ {n} /\ adrift' = adrift \ {n}
  /\ IF stage = "select" /\ n = proposer
       THEN stage' = "idle" /\ todo' = {}
       ELSE UNCHANGED <<stage, todo>>
  /\ UNCHANGED <<staged, proposer, block, vote, failures, chain, height>>

(* New refreshes the list from the committed state, and panics when it      *)
(* fails unless the flag is set.                                            *)
Restart(n) ==
  /\ n \notin up
  /\ LET b == stored[height[n]]
         fails == n \in Identified /\ ~CanRead(n, b)
     IN  /\ fails => n \in IgnoreFailure
         /\ SetBlockList(n, b)
         /\ adrift' = IF fails THEN adrift \cup {n} ELSE adrift
  /\ up' = up \cup {n}
  /\ UNCHANGED <<selector, round, chain, height, exec, finalized, ahead, crashes>>

Next ==
  \/ \E n \in Nodes : \/ StartProposal(n) \/ ProcessProposal(n) \/ OptimisticEndBlock(n)
                      \/ FinalizeBlock(n) \/ Commit(n) \/ Crash(n) \/ Restart(n)
  \/ \E t \in Txs : SelectTxForProposal(t)
  \/ \E b \in Blobs \cup {stored[tip]} : FinishProposal(b)
  \/ FailProposal
  \/ RoundFails
  \/ \E fee \in Fees : Decide(fee)

Spec == Init /\ [][Next]_vars

-----------------------------------------------------------------------------
TypeOK ==
  /\ stage \in {"idle", "select", "proposed"} /\ proposer \in Nodes
  /\ todo \subseteq Txs /\ staged \subseteq Txs
  /\ sel \in [Nodes -> [txs : SUBSET Txs, bytes : Nat, gas : Nat, baseFee : Fees \cup {NoFee}]]
  /\ gateSkipped \in [Nodes -> SUBSET Txs]
  /\ block \in [txs : SUBSET Txs, blob : Blobs \cup {Empty}, clean : BOOLEAN]
  /\ vote \in [Nodes -> {"none", "accept", "reject"}]
  /\ failures \in 0 .. MaxFailures /\ crashes \in 0 .. MaxCrashes
  /\ tip \in 0 .. MaxHeight /\ (stage # "idle" => tip < MaxHeight)
  /\ stored \in [0 .. MaxHeight -> Blobs \cup {Empty}] /\ stored[0] = Empty
  /\ baseFee \in Fees
  /\ height \in [Nodes -> 0 .. MaxHeight] /\ \A n \in Nodes : height[n] <= tip
  /\ lastBlockList \in [Nodes -> Blobs \cup {Empty}]
  /\ exec \in [Nodes -> [running : BOOLEAN, blob : Blobs \cup {Empty}]]
  /\ UNION {up, finalized, ahead, adrift} \subseteq Nodes

(* The last block up to height h whose blob n can read.                     *)
LastReadable(n, h) == Max({k \in 0 .. h : CanRead(n, stored[k])})

(* A running validator blocks the addresses of the last blob it can read    *)
(* among those of its committed blocks: after failed refreshes (EndBlocker  *)
(* logs them and keeps the list), after crashes (New starts from an empty   *)
(* list), and, once it commits a block whose blob it can read, after        *)
(* optimistic executions of blocks that were never decided.                 *)
ListFollowsChain ==
  \A n \in (up \cap Identified) \ UNION {finalized, ahead, adrift} :
    blocklist[n] = AddressesOf(stored[LastReadable(n, height[n])])

(* n and p could read the same blobs of the chain.                          *)
SameReaders(n, p) ==
  /\ n \in Identified <=> p \in Identified
  /\ \A h \in 0 .. tip : CanRead(n, stored[h]) <=> CanRead(p, stored[h])

(* ProcessProposal rejects the block of an honest proposer only when the    *)
(* two validators could not read the same blobs, or one of them holds a     *)
(* list from a block that was not committed (optimistic execution) or from  *)
(* a start-up that ignored the failure.                                     *)
RejectionIsDisagreement ==
  \A n \in Nodes :
    vote[n] # "reject" /\ vote'[n] = "reject" =>
      \/ n \in ahead \cup adrift
      \/ ~block.clean
      \/ ~SameReaders(n, proposer)

HonestProposalAccepted == [][RejectionIsDisagreement]_vars

(* The comment in SelectTxForProposal argues that the subtraction of the    *)
(* gas check cannot wrap because totalGas <= maxBlockGas by induction: no   *)
(* sequence of offered txs makes a block pass its byte or gas limit.        *)
WithinLimits ==
  \A n \in Nodes :
    /\ sel[n].bytes = SumOver(Size, sel[n].txs)
    /\ sel[n].bytes <= MaxBytes
    /\ MaxGas > 0 => SumOver(Gas, sel[n].txs) <= MaxGas

(* Every tx of a proposal pays the fee of the last block, on whose state it *)
(* is built.                                                                *)
PaysCommittedFee ==
  stage = "proposed" /\ baseFee # NoFee =>
    \A t \in block.txs : Gas[t] > 0 => FeeCap[t] >= baseFee

(* The proposal skips the ante checks and gates on the last block's fee, so *)
(* a tx of a decided block can still fail to pay ("residual waste",         *)
(* app.go), but only when the fee rose with that very block: never because  *)
(* the selector, which outlives a proposal, gated on the fee of an earlier  *)
(* one.                                                                     *)
UnpaidOnlyAfterRise ==
  [][tip' # tip =>
       \A t \in block.txs :
         baseFee' # NoFee /\ Gas[t] > 0 /\ FeeCap[t] < baseFee' =>
           baseFee = NoFee \/ baseFee' > baseFee]_vars

(* The senders staged for recheck after a proposal are those that the fee   *)
(* of the state it is built on strands, and none left over from an earlier  *)
(* proposal that failed ("drain every round, even on error, so it never     *)
(* goes stale").                                                            *)
StagedAreStranded ==
  stage = "proposed" =>
    \A t \in staged : baseFee # NoFee /\ FeeCap[t] < baseFee /\ t \notin block.txs

-----------------------------------------------------------------------------
(* The inductive invariant of the proofs.                                   *)

(* The list is that of the blob applied last, and which blob that is: after *)
(* a start-up or a refresh it follows the chain, unless an execution of an  *)
(* undecided block or an ignored failure came between.                      *)
ListInv ==
  /\ blocklist = [n \in Nodes |-> AddressesOf(lastBlockList[n])]
  /\ \A n \in Nodes \ Identified : lastBlockList[n] = Empty
  /\ \A n \in Nodes \ up :
       /\ lastBlockList[n] = Empty /\ ~exec[n].running
       /\ n \notin UNION {finalized, ahead, adrift}
  /\ \A n \in finalized :
       /\ height[n] < tip /\ ~exec[n].running
       /\ n \in Identified /\ CanRead(n, stored[height[n] + 1]) =>
            lastBlockList[n] = stored[height[n] + 1]
  /\ \A n \in (up \cap Identified) \ (ahead \cup adrift) :
       n \notin finalized \/ ~CanRead(n, stored[height[n] + 1]) =>
         lastBlockList[n] = stored[LastReadable(n, height[n])]

(* No tx of T involves an address of the list of p at the tip of the chain. *)
Unlisted(p, T) ==
  p \in Identified =>
    \A t \in T : Involves[t] \cap AddressesOf(stored[LastReadable(p, tip)]) = {}

(* Only the selector of a proposer at work is in use; what it holds.        *)
SelectorInv ==
  /\ \A n \in Nodes :
       ~(stage = "select" /\ n = proposer) => sel[n] = NewSelector /\ gateSkipped[n] = {}
  /\ \A n \in Nodes :
       sel[n].gas = IF MaxGas > 0 THEN SumOver(Gas, sel[n].txs) ELSE 0
  /\ stage = "select" =>
       /\ proposer \in up /\ height[proposer] = tip
       /\ proposer \notin ahead \cup adrift => Unlisted(proposer, sel[proposer].txs)
       /\ sel[proposer].baseFee \in {NoFee, baseFee}
       /\ \A t \in sel[proposer].txs :
            t \notin todo /\ (baseFee # NoFee /\ Gas[t] > 0 => FeeCap[t] >= baseFee)
       /\ \A t \in gateSkipped[proposer] :
            t \notin todo \cup sel[proposer].txs /\ baseFee # NoFee /\ FeeCap[t] < baseFee

BlockInv ==
  stage = "proposed" /\ block.clean => Unlisted(proposer, block.txs)
=============================================================================
