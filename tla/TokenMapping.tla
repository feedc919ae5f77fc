---------------------------- MODULE TokenMapping ----------------------------
(***************************************************************************)
(* The token mapping of x/cronos: which CRC21 contract stands for which    *)
(* native denom (keeper/keeper.go), and its export to and import from a    *)
(* genesis file (genesis.go).                                              *)
(*                                                                         *)
(* The store has three tables: denom to external contract, denom to        *)
(* auto-deployed contract, and contract to denom.  A message or proposal   *)
(* that fails leaves the store alone and is not a step; an import that     *)
(* fails panics.                                                           *)
(***************************************************************************)
CONSTANTS
  Denoms,        \* ibc/..., gravity0x... and cronos0x... denoms
  SourceDenoms,  \* those that IsSourceCoin: cronos0x...
  Contracts,     \* EVM addresses outside the precompile range
  Embedded,      \* GetContractAddressFromDenom, for each source denom
  None           \* an absent table entry

ASSUME MappingAssumption ==
  /\ SourceDenoms \subseteq Denoms
  /\ Embedded \in [SourceDenoms -> Contracts]
  /\ None \notin Contracts \cup Denoms

VARIABLES
  ext, auto,     \* denom -> contract: DenomToExternalContract, DenomToAutoContract
  rev,           \* contract -> denom: ContractToDenom
  code,          \* the contracts with code
  phase,         \* "live", "import" or "panic"
  gext, gauto,   \* the two tables of the genesis file
  todoExt, todoAuto, \* denoms whose entries are still to be imported
  torn           \* denoms that an older release left without a way back

tables  == <<ext, auto, rev>>
genesis == <<phase, gext, gauto, todoExt, todoAuto, torn>>
vars    == <<tables, code, genesis>>

-----------------------------------------------------------------------------
Resolve(e, a, d) == IF e[d] # None THEN e[d] ELSE a[d]

GetContractByDenom(d) == Resolve(ext, auto, d)

(* The reverse entry counts only when the denom still resolves to it.       *)
GetDenomByContract(c) ==
  IF rev[c] # None /\ GetContractByDenom(rev[c]) = c THEN rev[c] ELSE None

ContractOwnedByDenom(d, c) == ext[d] = c \/ auto[d] = c

(* A reverse entry of a denom that no longer owns the contract is stale and *)
(* is overwritten.                                                          *)
EnsureContractNotMapped(d, c) ==
  \A o \in Denoms \ {d} : ~(rev[c] = o /\ ContractOwnedByDenom(o, c))

(* Mutant: an auto-deployed contract does not count.                        *)
EnsureDenomNotMappedExternal(d) == ext[d] = None

EnsureDenomNotMapped(d) == GetContractByDenom(d) = None

ValidateContractAddressForSourceDenom(d, c) ==
  d \in SourceDenoms => c = Embedded[d]

-----------------------------------------------------------------------------
CanSetExternal(d, c) == EnsureDenomNotMapped(d) /\ EnsureContractNotMapped(d, c)

SetExternalContractForDenom(d, c) ==
  /\ CanSetExternal(d, c)
  /\ ext' = [ext EXCEPT ![d] = c]
  /\ rev' = [rev EXCEPT ![c] = d]
  /\ UNCHANGED auto

CanSetAuto(d, c) ==
  /\ ValidateContractAddressForSourceDenom(d, c)
  /\ EnsureDenomNotMapped(d)
  /\ EnsureContractNotMapped(d, c)

SetAutoContractForDenom(d, c) ==
  /\ CanSetAuto(d, c)
  /\ auto' = [auto EXCEPT ![d] = c]
  /\ rev' = [rev EXCEPT ![c] = d]
  /\ UNCHANGED ext

(* The reverse table once the external entry of d is gone.                  *)
DeleteReverseIfOwned(d) ==
  IF rev[ext[d]] = d THEN [rev EXCEPT ![ext[d]] = None] ELSE rev

(* Whether another denom holds a, once the external entry of d is gone.     *)
OwnedByAnother(a, r, d) ==
  \E o \in Denoms \ {d} : r[a] = o /\ ContractOwnedByDenom(o, a)

(* Mutant: the fallback claims the contract whoever holds it.               *)
DeleteExternalClaims(d) ==
  LET r == DeleteReverseIfOwned(d)
  IN  /\ ext[d] # None
      /\ ext' = [ext EXCEPT ![d] = None]
      /\ rev' = IF auto[d] # None THEN [r EXCEPT ![auto[d]] = d] ELSE r
      /\ UNCHANGED auto

(* Falls back to the auto-deployed contract of d, if it still can be had.   *)
DeleteExternalContractForDenom(d) ==
  LET r == DeleteReverseIfOwned(d)
      a == auto[d]
  IN  /\ ext[d] # None
      /\ ext' = [ext EXCEPT ![d] = None]
      /\ \/ /\ a = None
            /\ rev' = r
            /\ UNCHANGED auto
         \/ /\ a # None /\ OwnedByAnother(a, r, d)
            /\ rev' = r
            /\ auto' = [auto EXCEPT ![d] = None]
         \/ /\ a # None /\ ~OwnedByAnother(a, r, d)
            /\ rev' = [r EXCEPT ![a] = d]
            /\ UNCHANGED auto

-----------------------------------------------------------------------------
(* RegisterOrUpdateTokenMapping, from MsgUpdateTokenMapping or from a       *)
(* TokenMappingChangeProposal; only the proposal can name no contract.      *)
RegisterMapping(d, c) ==
  /\ phase = "live"
  /\ c \in code
  /\ ValidateContractAddressForSourceDenom(d, c)
  /\ SetExternalContractForDenom(d, c)
  /\ UNCHANGED <<code, genesis>>

DeleteMapping(d) ==
  /\ phase = "live"
  /\ d \notin SourceDenoms
  /\ DeleteExternalContractForDenom(d)
  /\ UNCHANGED <<code, genesis>>

(* ConvertCoinFromNativeToCRC21 finds no contract, deploys one and maps it. *)
AutoDeploy(d, c) ==
  /\ phase = "live"
  /\ c \notin code
  /\ GetContractByDenom(d) = None
  /\ SetAutoContractForDenom(d, c)
  /\ code' = code \cup {c}
  /\ UNCHANGED genesis

(* A user deploys a CRC21 contract of their own.                            *)
UserDeploys(c) ==
  /\ phase = "live"
  /\ c \notin code
  /\ code' = code \cup {c}
  /\ UNCHANGED <<tables, genesis>>

-----------------------------------------------------------------------------
Mapped(t) == {d \in Denoms : t[d] # None}

(* Mutant: the auto-deployed contracts are left out of the file.            *)
ExportGenesisNoAuto ==
  /\ phase = "live"
  /\ phase' = "import"
  /\ gext' = ext /\ gauto' = auto
  /\ todoExt' = Mapped(ext) /\ todoAuto' = {}
  /\ ext' = [d \in Denoms |-> None]
  /\ auto' = [d \in Denoms |-> None]
  /\ rev' = [c \in Contracts |-> None]
  /\ UNCHANGED <<code, torn>>

(* The chain is exported and restarted from the exported file.              *)
ExportGenesis ==
  /\ phase = "live"
  /\ phase' = "import"
  /\ gext' = ext /\ gauto' = auto
  /\ todoExt' = Mapped(ext) /\ todoAuto' = Mapped(auto)
  /\ ext' = [d \in Denoms |-> None]
  /\ auto' = [d \in Denoms |-> None]
  /\ rev' = [c \in Contracts |-> None]
  /\ UNCHANGED <<code, torn>>

(* InitGenesis, one entry at a time, in any order.                          *)
ImportExternal(d) ==
  /\ phase = "import" /\ d \in todoExt
  /\ IF CanSetExternal(d, gext[d])
       THEN SetExternalContractForDenom(d, gext[d]) /\ UNCHANGED phase
       ELSE phase' = "panic" /\ UNCHANGED tables
  /\ todoExt' = todoExt \ {d}
  /\ UNCHANGED <<code, gext, gauto, todoAuto, torn>>

(* Mutant: an auto contract whose denom is mapped already is an error.      *)
ImportAutoStrict(d) ==
  /\ phase = "import" /\ todoExt = {} /\ d \in todoAuto
  /\ IF CanSetAuto(d, gauto[d])
       THEN SetAutoContractForDenom(d, gauto[d]) /\ UNCHANGED phase
       ELSE phase' = "panic" /\ UNCHANGED tables
  /\ todoAuto' = todoAuto \ {d}
  /\ UNCHANGED <<code, gext, gauto, todoExt, torn>>

(* An auto contract whose denom is mapped already is skipped.               *)
SkipsAuto(d, c) ==
  ValidateContractAddressForSourceDenom(d, c) /\ ~EnsureDenomNotMapped(d)

ImportAuto(d) ==
  /\ phase = "import" /\ todoExt = {} /\ d \in todoAuto
  /\ IF CanSetAuto(d, gauto[d])
       THEN SetAutoContractForDenom(d, gauto[d]) /\ UNCHANGED phase
       ELSE /\ phase' = IF SkipsAuto(d, gauto[d]) THEN phase ELSE "panic"
            /\ UNCHANGED tables
  /\ todoAuto' = todoAuto \ {d}
  /\ UNCHANGED <<code, gext, gauto, todoExt, torn>>

ImportDone ==
  /\ phase = "import" /\ todoExt = {} /\ todoAuto = {}
  /\ phase' = "live" /\ torn' = {}
  /\ UNCHANGED <<tables, code, gext, gauto, todoExt, todoAuto>>

-----------------------------------------------------------------------------
(* A fresh chain has empty tables.  A chain upgraded from older releases    *)
(* may hold an external and an auto-deployed contract for one denom, any    *)
(* reverse entry for a contract that is nobody's current one, and several   *)
(* denoms with one current contract, which is mapped back to one of them:   *)
(* the stores keeper_test.go builds at 185, 217, 325, 357 and 394.          *)
LegacyState ==
  /\ \A d \in Denoms :
       LET c == GetContractByDenom(d)
       IN  c # None => rev[c] # None /\ GetContractByDenom(rev[c]) = c
  /\ \A d \in SourceDenoms : {ext[d], auto[d]} \subseteq {None, Embedded[d]}

(* The contract of d, if it has one, is mapped back to d.                   *)
WayBack(d) == GetContractByDenom(d) # None => rev[GetContractByDenom(d)] = d

Init ==
  /\ ext \in [Denoms -> Contracts \cup {None}]
  /\ auto \in [Denoms -> Contracts \cup {None}]
  /\ rev \in [Contracts -> Denoms \cup {None}]
  /\ LegacyState
  /\ code = {c \in Contracts : \E d \in Denoms : ContractOwnedByDenom(d, c)}
  /\ phase = "live"
  /\ gext = [d \in Denoms |-> None]
  /\ gauto = [d \in Denoms |-> None]
  /\ todoExt = {}
  /\ todoAuto = {}
  /\ torn = {d \in Denoms : ~WayBack(d)}

Next ==
  \/ \E d \in Denoms, c \in Contracts : RegisterMapping(d, c) \/ AutoDeploy(d, c)
  \/ \E d \in Denoms : DeleteMapping(d) \/ ImportExternal(d) \/ ImportAuto(d)
  \/ \E c \in Contracts : UserDeploys(c)
  \/ ExportGenesis
  \/ ImportDone

Spec == Init /\ [][Next]_vars

-----------------------------------------------------------------------------
TypeOK ==
  /\ ext \in [Denoms -> Contracts \cup {None}]
  /\ auto \in [Denoms -> Contracts \cup {None}]
  /\ rev \in [Contracts -> Denoms \cup {None}]
  /\ code \subseteq Contracts
  /\ phase \in {"live", "import", "panic"}
  /\ gext \in [Denoms -> Contracts \cup {None}]
  /\ gauto \in [Denoms -> Contracts \cup {None}]
  /\ todoExt \subseteq Denoms /\ todoAuto \subseteq Denoms /\ torn \subseteq Denoms

(* Coins that can be converted to a contract can be converted back: the     *)
(* contract GetContractByDenom names is mapped back to that denom by        *)
(* GetDenomByContract, whatever was registered, deleted, auto-deployed or   *)
(* imported before, in whatever order (keeper.go:114-136, 204-287).  So no  *)
(* two denoms come to share a contract.  Denoms that shared one before are  *)
(* excepted, but not after an import that succeeds.                         *)
RoundTrip ==
  \A d \in Denoms \ torn :
    GetContractByDenom(d) # None => GetDenomByContract(GetContractByDenom(d)) = d

(* InitGenesis panics on what ExportGenesis wrote only when two denoms have *)
(* one contract in it (ErrContractAlreadyRegistered, which genesis.go:42    *)
(* does not skip), one of which an older release left so: never on a store  *)
(* that this release filled, nor for a denom with two contracts.            *)
PanicOnlyOnTorn ==
  phase = "panic" =>
    \E d \in torn : \E o \in Denoms \ {d} :
      Resolve(gext, gauto, d) = Resolve(gext, gauto, o) /\ Resolve(gext, gauto, d) # None

(* Once imported, every denom resolves to the contract it had at export.    *)
ImportKeepsMapping ==
  phase = "import" /\ todoExt = {} /\ todoAuto = {} =>
    \A d \in Denoms : GetContractByDenom(d) = Resolve(gext, gauto, d)

(* The inductive invariant: no way back is lost, the tables of source       *)
(* denoms are sound, what an import still has to do, and that the file it   *)
(* reads satisfies what the live tables did.                                *)
SourcesEmbedded ==
  \A d \in SourceDenoms : {ext[d], auto[d]} \subseteq {None, Embedded[d]}

ImportInv ==
  /\ \A d1, d2 \in Denoms \ torn :
       Resolve(gext, gauto, d1) = Resolve(gext, gauto, d2) /\ Resolve(gext, gauto, d1) # None
         => d1 = d2
  /\ \A d \in SourceDenoms : {gext[d], gauto[d]} \subseteq {None, Embedded[d]}
  /\ todoExt \subseteq Mapped(gext) /\ todoAuto \subseteq Mapped(gauto)
  /\ todoExt # {} => todoAuto = Mapped(gauto)
  /\ \A d \in Denoms :
       /\ ext[d] = IF d \in todoExt THEN None ELSE gext[d]
       /\ auto[d] = IF d \in todoAuto \/ gext[d] # None THEN None ELSE gauto[d]

MappingInv ==
  /\ \A d \in Denoms : WayBack(d) \/ (phase = "live" /\ d \in torn)
  /\ SourcesEmbedded
  /\ phase = "import" => ImportInv
  /\ PanicOnlyOnTorn

-----------------------------------------------------------------------------
(* A step changes the contract of at most one denom, a mapped denom loses   *)
(* its contract only when its own mapping is deleted, and then it is left   *)
(* with the contract deployed for it or with none (keeper.go:246-269).      *)
MappingChange ==
  phase = "live" /\ phase' = "live" =>
    \A d \in Denoms :
      GetContractByDenom(d)' # GetContractByDenom(d) =>
        /\ \A o \in Denoms \ {d} : GetContractByDenom(o)' = GetContractByDenom(o)
        /\ GetContractByDenom(d) # None =>
             /\ GetContractByDenom(d) = ext[d]
             /\ GetContractByDenom(d)' \in {None, auto[d]}

MappingChanges == [][MappingChange]_vars
=============================================================================
