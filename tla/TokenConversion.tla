--------------------------- MODULE TokenConversion ---------------------------
(***************************************************************************)
(* Conversion of coins between the bank module and CRC21 contracts, and    *)
(* transfer over IBC, on top of the token mapping: x/cronos messages       *)
(* (keeper/msg_server.go, ibc.go, evm.go), the hooks on contract logs      *)
(* (keeper/evmhandlers) and the IBC middleware (middleware/).              *)
(*                                                                         *)
(* There is one user.  A transaction that fails is rolled back as a whole  *)
(* and is not a step.  Every denom is an IBC voucher or a source denom.    *)
(* The bank, the ICS-20 transfer module and the contracts are external.    *)
(***************************************************************************)
EXTENDS TokenMapping, Integers, FiniteSets, Collections

CONSTANTS
  Stock,         \* units of each denom on other chains at the start
  SourceSupply,  \* the user's balance of each source contract at the start
  EvmSupply,     \* the user's balance of the EVM denom at the start
  Scale,         \* EVM units per unit of IBC CRO (10^10 in the code)
  MaxAmount,     \* bound on the amount of one operation
  MaxSent        \* bound on the packets sent

SourceContracts == {Embedded[d] : d \in SourceDenoms}
Vouchers == Denoms \ SourceDenoms
Amounts == 1 .. MaxAmount

ASSUME ConversionAssumption ==
  /\ IsFiniteSet(Denoms) /\ IsFiniteSet(Contracts)
  /\ Stock \in [Denoms -> Nat] /\ \A d \in SourceDenoms : Stock[d] = 0
  /\ SourceSupply \in Nat /\ EvmSupply \in Nat
  /\ Scale \in Nat \ {0} /\ MaxAmount \in Nat /\ MaxSent \in Nat

VARIABLES
  native,        \* the user's coins, by denom
  locked,        \* the coins of each contract's account, by denom
  crc,           \* the user's tokens of each contract
  held,          \* the module's tokens of each contract
  croEscrow,     \* the module's coins, by denom
  evm,           \* the user's EVM coins
  outside,       \* coins on other chains, by denom
  packets,       \* transfers under way
  sent,          \* number of packets sent
  stopped,       \* contracts whose owner has stopped mints and transfers
  ibcCroDenom, enableAutoDeployment  \* params

bank   == <<native, locked, croEscrow, evm>>
tokens == <<crc, held>>
ibc    == <<outside, packets, sent>>
params == <<ibcCroDenom, enableAutoDeployment>>
convVars == <<bank, tokens, ibc, params, stopped, vars>>

-----------------------------------------------------------------------------
(* ConvertVouchersToEvmCoins of n units of d, in three ways, when the user  *)
(* has the coins nat.  An empty ibcCroDenom (ibc.go:32) does not pass the   *)
(* params' validation (params.go:69), and the product with Scale (ibc.go:36)*)
(* is far from overflowing 256 bits at the amounts of a bounded supply; if  *)
(* it did, the conversion would fail and change nothing.                    *)
ConvertCro(nat, d, n) ==
  /\ nat[d] >= n
  /\ native' = [nat EXCEPT ![d] = @ - n]
  /\ croEscrow' = [croEscrow EXCEPT ![d] = @ + n]
  /\ evm' = evm + Scale * n
  /\ UNCHANGED <<locked, tokens>>

(* Mutant: the tokens are returned and the coin is not burnt.               *)
ConvertSourceNoBurn(nat, d, c, n) ==
  /\ nat[d] >= n /\ held[c] >= n /\ c \notin stopped
  /\ native' = nat
  /\ held' = [held EXCEPT ![c] = @ - n]
  /\ crc' = [crc EXCEPT ![c] = @ + n]
  /\ UNCHANGED <<locked, croEscrow, evm>>

(* Burns the coin and returns the tokens the module held for it.            *)
ConvertSource(nat, d, c, n) ==
  /\ nat[d] >= n /\ held[c] >= n /\ c \notin stopped
  /\ native' = [nat EXCEPT ![d] = @ - n]
  /\ held' = [held EXCEPT ![c] = @ - n]
  /\ crc' = [crc EXCEPT ![c] = @ + n]
  /\ UNCHANGED <<locked, croEscrow, evm>>

(* Locks the coin with the contract, which mints.                           *)
ConvertVoucher(nat, d, c, n) ==
  /\ nat[d] >= n /\ c \notin stopped
  /\ native' = [nat EXCEPT ![d] = @ - n]
  /\ locked' = [locked EXCEPT ![c][d] = @ + n]
  /\ crc' = [crc EXCEPT ![c] = @ + n]
  /\ UNCHANGED <<held, croEscrow, evm>>

ConvertToContract(nat, d, c, n) ==
  IF d \in SourceDenoms THEN ConvertSource(nat, d, c, n) ELSE ConvertVoucher(nat, d, c, n)

ConvertMapped(nat, d, n) ==
  IF d = ibcCroDenom THEN ConvertCro(nat, d, n)
  ELSE ConvertToContract(nat, d, GetContractByDenom(d), n)

(* Whether ConvertMapped succeeds.                                          *)
Convertible(nat, d, n) ==
  /\ nat[d] >= n
  /\ d # ibcCroDenom =>
       /\ GetContractByDenom(d) \notin stopped
       /\ d \in SourceDenoms => held[GetContractByDenom(d)] >= n

CanBeConverted(d) == d = ibcCroDenom \/ GetContractByDenom(d) # None

-----------------------------------------------------------------------------
(* MsgConvertVouchers.                                                      *)
ConvertVouchers(d, n) ==
  /\ CanBeConverted(d)
  /\ ConvertMapped(native, d, n)
  /\ UNCHANGED <<ibc, params, stopped, vars>>

(* MsgConvertVouchers of a denom without a contract: one is deployed.       *)
ConvertVouchersDeploys(d, c, n) ==
  /\ ~CanBeConverted(d) /\ enableAutoDeployment
  /\ c \notin SourceContracts
  /\ AutoDeploy(d, c)
  /\ ConvertToContract(native, d, c, n)
  /\ UNCHANGED <<ibc, params, stopped>>

(* ICS-20: the sender's coins leave in a packet.                            *)
SendPacket(nat, d, n) ==
  /\ nat[d] >= n /\ sent < MaxSent
  /\ native' = [nat EXCEPT ![d] = @ - n]
  /\ packets' = packets \cup {[seq |-> sent, denom |-> d, amount |-> n]}
  /\ sent' = sent + 1
  /\ UNCHANGED outside

(* MsgTransferTokens of a voucher.  It names no channel, so that a source   *)
(* denom is refused.                                                        *)
TransferTokens(d, n) ==
  /\ d \in Vouchers
  /\ GetContractByDenom(d) # None
  /\ SendPacket(native, d, n)
  /\ UNCHANGED <<locked, croEscrow, evm, tokens, params, stopped, vars>>

(* Mutant: the remainder is burnt too.                                      *)
TransferCroBurnsAll(n) ==
  LET m == n \div Scale
      d == ibcCroDenom
  IN  /\ evm >= n /\ m > 0 /\ croEscrow[d] >= m
      /\ evm' = evm - n
      /\ croEscrow' = [croEscrow EXCEPT ![d] = @ - m]
      /\ SendPacket([native EXCEPT ![d] = @ + m], d, m)
      /\ UNCHANGED <<locked, tokens, params, stopped, vars>>

(* MsgTransferTokens of the EVM denom.  Less than one unit of IBC CRO stays *)
(* where it is.                                                             *)
TransferCro(n) ==
  LET m == n \div Scale
      burnt == n - (n % Scale)
      d == ibcCroDenom
  IN  /\ evm >= burnt /\ burnt > 0 /\ croEscrow[d] >= m
      /\ evm' = evm - burnt
      /\ croEscrow' = [croEscrow EXCEPT ![d] = @ - m]
      /\ SendPacket([native EXCEPT ![d] = @ + m], d, m)
      /\ UNCHANGED <<locked, tokens, params, stopped, vars>>

-----------------------------------------------------------------------------
(* send_to_ibc of contract c: tokens of a source contract go to the module, *)
(* others are burnt.                                                        *)
TakeTokens(c, n) ==
  /\ crc[c] >= n
  /\ c \in SourceContracts => c \notin stopped
  /\ crc' = [crc EXCEPT ![c] = @ - n]
  /\ held' = IF c \in SourceContracts THEN [held EXCEPT ![c] = @ + n] ELSE held

(* ... and the hook on its log, which names a channel or does not; a source *)
(* denom cannot be sent without one.                                        *)
HandleSendToIbc(c, n, channel) ==
  LET d == GetDenomByContract(c)
  IN  /\ c \in code
      /\ TakeTokens(c, n)
      /\ d # None /\ GetContractByDenom(d) # None
      /\ \/ /\ d \in SourceDenoms /\ channel
            /\ UNCHANGED locked
         \/ /\ d \in Vouchers
            /\ locked[c][d] >= n
            /\ locked' = [locked EXCEPT ![c][d] = @ - n]
      /\ SendPacket([native EXCEPT ![d] = @ + n], d, n)
      /\ UNCHANGED <<croEscrow, evm, params, stopped, vars>>

SendToIbc(c, n)   == HandleSendToIbc(c, n, FALSE)
SendToIbcV2(c, n) == HandleSendToIbc(c, n, TRUE)

(* The user pays an authorised bridge contract n EVM coins, which it logs   *)
(* as SendCroToIbc: the hook pays them back and transfers them.  What is    *)
(* less than a unit of IBC CRO stays with the user.                         *)
SendCroToIbc(n) ==
  /\ evm >= n
  /\ TransferCro(n)

(* A contract that burns tokens and logs SendToAccount.                     *)
SendToAccount(c, n) ==
  LET d == GetDenomByContract(c)
  IN  /\ c \in code \ SourceContracts
      /\ TakeTokens(c, n)
      /\ d # None /\ locked[c][d] >= n
      /\ locked' = [locked EXCEPT ![c][d] = @ - n]
      /\ native' = [native EXCEPT ![d] = @ + n]
      /\ UNCHANGED <<croEscrow, evm, ibc, params, stopped, vars>>

-----------------------------------------------------------------------------
(* Mutant: the transfer is committed before the conversion fails.           *)
OnRecvPacketCommitsEarly(d, n) ==
  LET nat == [native EXCEPT ![d] = @ + n]
  IN  /\ outside[d] >= n
      /\ IF CanBeConverted(d) /\ Convertible(nat, d, n)
           THEN ConvertMapped(nat, d, n)
           ELSE native' = nat /\ UNCHANGED <<locked, croEscrow, evm, tokens>>
      /\ outside' = IF CanBeConverted(d) /\ ~Convertible(nat, d, n)
                      THEN outside ELSE [outside EXCEPT ![d] = @ - n]
      /\ UNCHANGED <<packets, sent, params, stopped, vars>>

(* A packet arrives: the transfer module credits the receiver and the       *)
(* middleware converts the coins.  When that fails, nothing of the transfer *)
(* is kept and the other chain gets an error acknowledgement.               *)
OnRecvPacket(d, n) ==
  LET nat == [native EXCEPT ![d] = @ + n]
  IN  /\ outside[d] >= n
      /\ IF CanBeConverted(d)
           THEN /\ Convertible(nat, d, n)
                /\ ConvertMapped(nat, d, n)
           ELSE native' = nat /\ UNCHANGED <<locked, croEscrow, evm, tokens>>
      /\ outside' = [outside EXCEPT ![d] = @ - n]
      /\ UNCHANGED <<packets, sent, params, stopped, vars>>

(* A packet is acknowledged: the coins are on the other chain.              *)
OnAcknowledgementSuccess(p) ==
  /\ p \in packets
  /\ packets' = packets \ {p}
  /\ outside' = [outside EXCEPT ![p.denom] = @ + p.amount]
  /\ UNCHANGED <<sent, bank, tokens, params, stopped, vars>>

(* Mutant: the coins go to the contract although its mint fails.            *)
RefundHalfConverted(p) ==
  LET d == p.denom
      n == p.amount
      nat == [native EXCEPT ![d] = @ + n]
  IN  /\ p \in packets
      /\ IF CanBeConverted(d)
           THEN IF Convertible(nat, d, n)
                  THEN ConvertMapped(nat, d, n)
                  ELSE /\ locked' = [locked EXCEPT ![GetContractByDenom(d)][d] = @ + n]
                       /\ UNCHANGED <<native, croEscrow, evm, tokens>>
           ELSE native' = nat /\ UNCHANGED <<locked, croEscrow, evm, tokens>>
      /\ packets' = packets \ {p}
      /\ UNCHANGED <<outside, sent, params, stopped, vars>>

(* An error acknowledgement or a timeout: the transfer module refunds the   *)
(* sender and the middleware converts the refund, by the mapping of now.    *)
(* OnRecvVouchers drops what a failed conversion wrote, and the sender      *)
(* keeps the vouchers.                                                      *)
Refund(p) ==
  LET d == p.denom
      n == p.amount
      nat == [native EXCEPT ![d] = @ + n]
  IN  /\ p \in packets
      /\ IF CanBeConverted(d) /\ Convertible(nat, d, n)
           THEN ConvertMapped(nat, d, n)
           ELSE native' = nat /\ UNCHANGED <<locked, croEscrow, evm, tokens>>
      /\ packets' = packets \ {p}
      /\ UNCHANGED <<outside, sent, params, stopped, vars>>

-----------------------------------------------------------------------------
(* Governance and contract owners.                                          *)
ChangeMapping ==
  /\ \/ \E d \in Denoms, c \in Contracts : RegisterMapping(d, c)
     \/ \E d \in Denoms : DeleteMapping(d)
     \/ \E c \in Contracts : UserDeploys(c)
  /\ UNCHANGED <<bank, tokens, ibc, params, stopped>>

UpdateParams(d, b) ==
  /\ ibcCroDenom' = d /\ enableAutoDeployment' = b
  /\ UNCHANGED <<bank, tokens, ibc, stopped, vars>>

OwnerStops(c) ==
  /\ c \in code
  /\ stopped' = IF c \in stopped THEN stopped \ {c} ELSE stopped \cup {c}
  /\ UNCHANGED <<bank, tokens, ibc, params, vars>>

ConvInit ==
  /\ ext = [d \in Denoms |-> None] /\ auto = [d \in Denoms |-> None]
  /\ rev = [c \in Contracts |-> None]
  /\ code = SourceContracts
  /\ phase = "live"
  /\ gext = ext /\ gauto = auto /\ todoExt = {} /\ todoAuto = {} /\ torn = {}
  /\ native = [d \in Denoms |-> 0]
  /\ locked = [c \in Contracts |-> [d \in Denoms |-> 0]]
  /\ crc = [c \in Contracts |-> IF c \in SourceContracts THEN SourceSupply ELSE 0]
  /\ held = [c \in Contracts |-> 0]
  /\ croEscrow = [d \in Denoms |-> 0]
  /\ evm = EvmSupply
  /\ outside = Stock
  /\ packets = {} /\ sent = 0
  /\ stopped = {}
  /\ ibcCroDenom \in Vouchers /\ enableAutoDeployment \in BOOLEAN

ConvNext ==
  \/ \E d \in Denoms, n \in Amounts :
       ConvertVouchers(d, n) \/ TransferTokens(d, n) \/ OnRecvPacket(d, n)
  \/ \E d \in Denoms, c \in Contracts, n \in Amounts : ConvertVouchersDeploys(d, c, n)
  \/ \E n \in 1 .. Scale * MaxAmount : TransferCro(n) \/ SendCroToIbc(n)
  \/ \E c \in Contracts, n \in Amounts :
       SendToIbc(c, n) \/ SendToIbcV2(c, n) \/ SendToAccount(c, n)
  \/ \E p \in packets : OnAcknowledgementSuccess(p) \/ Refund(p)
  \/ ChangeMapping
  \/ \E d \in Vouchers, b \in BOOLEAN : UpdateParams(d, b)
  \/ \E c \in Contracts : OwnerStops(c)

ConvSpec == ConvInit /\ [][ConvNext]_convVars

-----------------------------------------------------------------------------
InFlight(d) == SumOver([p \in packets |-> p.amount], {p \in packets : p.denom = d})
LockedAt(c) == SumOver(locked[c], Denoms)
LockedOf(d) == SumOver([c \in Contracts |-> locked[c][d]], Contracts)

(* The tokens of a CRC21 contract are matched by the coins in its account,  *)
(* no more and no fewer, however its mapping changed while transfers were   *)
(* under way and whichever conversions failed (evm.go:125-140,              *)
(* send_to_ibc.go:108-123).                                                 *)
TokensBacked ==
  \A c \in Contracts \ SourceContracts : crc[c] + held[c] = LockedAt(c)

(* A source coin exists only while the module holds a token for it, on this *)
(* chain or on another (evm.go:108-124, send_to_ibc.go:109-117).            *)
SourceCoinsBacked ==
  \A d \in SourceDenoms :
    native[d] + InFlight(d) + outside[d] <= held[Embedded[d]]

(* The EVM coins minted for IBC CRO are matched by the coins in escrow, to  *)
(* the unit, through remainders and changes of ibcCroDenom (ibc.go:31-58,   *)
(* 97-127).                                                                 *)
CroBacked ==
  evm = EvmSupply + Scale * SumOver(croEscrow, Denoms)

(* No voucher is made or lost: a transfer this chain refuses leaves nothing *)
(* behind, and one that comes back is credited once                         *)
(* (conversion_middleware.go:106-233).                                      *)
VouchersConserved ==
  \A d \in Vouchers :
    native[d] + LockedOf(d) + croEscrow[d] + InFlight(d) + outside[d] = Stock[d]

-----------------------------------------------------------------------------
(* The inductive invariant of the proofs.                                   *)
ConvTypeOK ==
  /\ native \in [Denoms -> Nat] /\ croEscrow \in [Denoms -> Nat] /\ evm \in Nat
  /\ locked \in [Contracts -> [Denoms -> Nat]]
  /\ crc \in [Contracts -> Nat] /\ held \in [Contracts -> Nat]
  /\ outside \in [Denoms -> Nat] /\ sent \in Nat
  /\ packets \subseteq [seq : 0 .. sent - 1, denom : Denoms, amount : Nat]
  /\ IsFiniteSet(packets)
  /\ ibcCroDenom \in Vouchers /\ enableAutoDeployment \in BOOLEAN

(* The part of the mapping's invariant that the conversions rely on: every  *)
(* mapped denom is found again from its contract.                           *)
Agrees == SourcesEmbedded /\ \A d \in Denoms : WayBack(d)

LiveMapping == TypeOK /\ Agrees /\ phase = "live"

(* A source denom has no coins before it is mapped; two that embed one      *)
(* contract are never both mapped.                                          *)
SourceInv ==
  \A d \in SourceDenoms :
    LET coins == native[d] + InFlight(d) + outside[d]
    IN  IF GetContractByDenom(d) = None THEN coins = 0 ELSE coins <= held[Embedded[d]]
=============================================================================
