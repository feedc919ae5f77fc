----------------------------- MODULE TokenProofs -----------------------------
(***************************************************************************)
(* Proofs, for any finite sets of denoms and contracts and any amounts,    *)
(* that the token mapping stays one-to-one and survives an export and      *)
(* import, and that conversions and IBC transfers on top of it keep every  *)
(* token and coin backed.                                                  *)
(***************************************************************************)
EXTENDS TokenConversion, CollectionTheorems

(* Setters, deletion and import keep every table in its type.               *)
LEMMA TypeStep == TypeOK /\ [Next]_vars => TypeOK'
<1> SUFFICES ASSUME TypeOK, [Next]_vars PROVE TypeOK'
  BY Zenon
<1> USE MappingAssumption DEF TypeOK, tables, genesis, SetExternalContractForDenom, SetAutoContractForDenom
<1>1. ASSUME NEW d \in Denoms, NEW c \in Contracts, RegisterMapping(d, c) PROVE TypeOK'
  BY <1>1, Zenon DEF RegisterMapping
<1>2. ASSUME NEW d \in Denoms, NEW c \in Contracts, AutoDeploy(d, c) PROVE TypeOK'
  BY <1>2, Zenon DEF AutoDeploy
<1>3. ASSUME NEW d \in Denoms, DeleteMapping(d) PROVE TypeOK'
  BY <1>3 DEF DeleteMapping, DeleteExternalContractForDenom, DeleteReverseIfOwned
<1>4. ASSUME NEW d \in Denoms, ImportExternal(d) PROVE TypeOK'
  <2>1. CASE CanSetExternal(d, gext[d])
    BY <1>4, <2>1 DEF ImportExternal
  <2>2. CASE ~CanSetExternal(d, gext[d])
    BY <1>4, <2>2, Zenon DEF ImportExternal
  <2> QED BY <2>1, <2>2, Zenon
<1>5. ASSUME NEW d \in Denoms, ImportAuto(d) PROVE TypeOK'
  <2>1. CASE CanSetAuto(d, gauto[d])
    BY <1>5, <2>1 DEF ImportAuto
  <2>2. CASE ~CanSetAuto(d, gauto[d])
    BY <1>5, <2>2, Zenon DEF ImportAuto
  <2> QED BY <2>1, <2>2, Zenon
<1>6. ASSUME NEW c \in Contracts, UserDeploys(c) PROVE TypeOK'
  BY <1>6, Zenon DEF UserDeploys
<1>7. CASE ExportGenesis
  BY <1>7, Zenon DEF ExportGenesis, Mapped
<1>8. CASE ImportDone
  BY <1>8, Zenon DEF ImportDone
<1>9. CASE UNCHANGED vars
  BY <1>9, Zenon DEF vars
<1> QED
  BY <1>1, <1>2, <1>3, <1>4, <1>5, <1>6, <1>7, <1>8, <1>9, Zenon DEF Next

(* Every legacy store satisfies the invariant; no import is under way.      *)
LEMMA MappingInit == Init => TypeOK /\ MappingInv
<1> SUFFICES ASSUME Init PROVE TypeOK /\ MappingInv
  BY Zenon
<1>1. TypeOK
  BY MappingAssumption, Zenon DEF Init, TypeOK
<1>2. MappingInv
  BY Zenon DEF Init, LegacyState, SourcesEmbedded, MappingInv, PanicOnlyOnTorn
<1> QED
  BY <1>1, <1>2, Zenon

(* Two denoms that both have their way back do not share a contract.        *)
LEMMA WayBackIsInjective ==
  ASSUME NEW d1 \in Denoms, NEW d2 \in Denoms, WayBack(d1), WayBack(d2),
         GetContractByDenom(d1) = GetContractByDenom(d2), GetContractByDenom(d1) # None
  PROVE  d1 = d2
BY Zenon DEF WayBack

(* Mapping an unmapped denom to a contract that no other denom owns gives   *)
(* it its reverse entry and leaves that of any other current mapping.       *)
LEMMA SetKeepsWayBack ==
  ASSUME TypeOK, NEW d \in Denoms, NEW c \in Contracts, NEW o \in Denoms, WayBack(o) \/ o = d,
         SetExternalContractForDenom(d, c) \/ SetAutoContractForDenom(d, c)
  PROVE  WayBack(o)'
<1> USE MappingAssumption DEF TypeOK, WayBack, GetContractByDenom, Resolve,
      EnsureDenomNotMapped, EnsureContractNotMapped, ContractOwnedByDenom
<1>1. CASE SetExternalContractForDenom(d, c)
  BY <1>1 DEF SetExternalContractForDenom, CanSetExternal
<1>2. CASE SetAutoContractForDenom(d, c)
  BY <1>2 DEF SetAutoContractForDenom, CanSetAuto
<1> QED
  BY <1>1, <1>2, Zenon

(* A source denom is mapped to the contract it names.                       *)
LEMMA SetKeepsSources ==
  ASSUME TypeOK, SourcesEmbedded, NEW d \in Denoms, NEW c \in Contracts,
         ValidateContractAddressForSourceDenom(d, c),
         SetExternalContractForDenom(d, c) \/ SetAutoContractForDenom(d, c)
  PROVE  SourcesEmbedded'
BY MappingAssumption DEF TypeOK, SourcesEmbedded, SetExternalContractForDenom,
   SetAutoContractForDenom, ValidateContractAddressForSourceDenom

(* Deleting an external mapping keeps every way back: the fallback contract *)
(* is either given its reverse entry or, being another denom's, is dropped. *)
LEMMA DeleteKeepsWayBack ==
  ASSUME TypeOK, NEW d \in Denoms, NEW o \in Denoms, WayBack(o), DeleteExternalContractForDenom(d)
  PROVE  WayBack(o)'
<1> USE MappingAssumption DEF TypeOK, WayBack, GetContractByDenom, Resolve,
      ContractOwnedByDenom, OwnedByAnother, DeleteReverseIfOwned
<1>1. CASE auto[d] = None
  BY <1>1 DEF DeleteExternalContractForDenom
<1>2. CASE auto[d] # None /\ OwnedByAnother(auto[d], DeleteReverseIfOwned(d), d)
  BY <1>2 DEF DeleteExternalContractForDenom
<1>3. CASE auto[d] # None /\ ~OwnedByAnother(auto[d], DeleteReverseIfOwned(d), d)
  BY <1>3 DEF DeleteExternalContractForDenom
<1> QED
  BY <1>1, <1>2, <1>3, Zenon

LEMMA DeleteKeepsSources ==
  ASSUME TypeOK, SourcesEmbedded, NEW d \in Denoms, DeleteExternalContractForDenom(d)
  PROVE  SourcesEmbedded'
BY MappingAssumption DEF TypeOK, SourcesEmbedded, DeleteExternalContractForDenom

(* Every step keeps the invariant.                                          *)
LEMMA MappingStep == TypeOK /\ MappingInv /\ [Next]_vars => MappingInv'
<1> SUFFICES ASSUME TypeOK, MappingInv, [Next]_vars PROVE MappingInv'
  BY Zenon
<1> USE MappingAssumption DEF MappingInv, tables, genesis
<1>1. ASSUME NEW d \in Denoms, NEW c \in Contracts, RegisterMapping(d, c) PROVE MappingInv'
  BY <1>1, SetKeepsWayBack, SetKeepsSources, Zenon DEF RegisterMapping, PanicOnlyOnTorn
<1>2. ASSUME NEW d \in Denoms, NEW c \in Contracts, AutoDeploy(d, c) PROVE MappingInv'
  BY <1>2, SetKeepsWayBack, SetKeepsSources, Zenon
     DEF AutoDeploy, SetAutoContractForDenom, CanSetAuto, PanicOnlyOnTorn
<1>3. ASSUME NEW d \in Denoms, DeleteMapping(d) PROVE MappingInv'
  BY <1>3, DeleteKeepsWayBack, DeleteKeepsSources, Zenon DEF DeleteMapping, PanicOnlyOnTorn
<1>4. ASSUME NEW d \in Denoms, ImportExternal(d) PROVE MappingInv'
  <2> USE DEF TypeOK, ImportInv, Resolve, Mapped
  <2> USE <1>4
  <2>1. gext[d] \in Contracts /\ ext[d] = None /\ auto = [x \in Denoms |-> None]
    BY DEF ImportExternal
  <2> USE <2>1
  <2>2. ValidateContractAddressForSourceDenom(d, gext[d])
    BY Zenon DEF ImportExternal, ValidateContractAddressForSourceDenom
  <2>3. CASE CanSetExternal(d, gext[d])
    <3>1. SetExternalContractForDenom(d, gext[d]) /\ phase' = phase /\ phase = "import"
      BY <2>3, Zenon DEF ImportExternal
    <3> USE <3>1
    <3>2. \A o \in Denoms : WayBack(o)'
      BY SetKeepsWayBack, Zenon
    <3>3. SourcesEmbedded'
      BY <2>2, SetKeepsSources, Zenon
    <3>4. ImportInv'
      BY DEF ImportExternal, SetExternalContractForDenom
    <3> QED
      BY <3>2, <3>3, <3>4, Zenon DEF ImportExternal, PanicOnlyOnTorn
  <2>4. CASE ~CanSetExternal(d, gext[d])
    <3>1. phase' = "panic" /\ UNCHANGED <<ext, auto, rev, gext, gauto, torn>> /\ phase = "import"
      BY <2>4, Zenon DEF ImportExternal
    <3> USE <3>1
    <3>2. PICK o \in Denoms \ {d} : ContractOwnedByDenom(o, gext[d])
      BY <2>4, Zenon DEF CanSetExternal, EnsureDenomNotMapped, EnsureContractNotMapped,
         GetContractByDenom
    <3>3. gext[o] = gext[d]
      BY <3>2 DEF ContractOwnedByDenom
    <3>4. Resolve(gext, gauto, o) = Resolve(gext, gauto, d) /\ Resolve(gext, gauto, o) # None
      BY <3>2, <3>3, Zenon
    <3>5. o \in torn \/ d \in torn
      BY <3>2, <3>4, Zenon
    <3>6. PanicOnlyOnTorn'
      BY <3>2, <3>4, <3>5 DEF PanicOnlyOnTorn
    <3> QED
      BY <3>6, Zenon DEF WayBack, SourcesEmbedded, GetContractByDenom
  <2> QED
    BY <2>3, <2>4, Zenon
<1>5. ASSUME NEW d \in Denoms, ImportAuto(d) PROVE MappingInv'
  <2> USE DEF TypeOK, ImportInv, Resolve, Mapped
  <2> USE <1>5
  <2>1. gauto[d] \in Contracts /\ auto[d] = None /\ ext = gext /\ phase = "import"
    BY DEF ImportAuto
  <2>2. ValidateContractAddressForSourceDenom(d, gauto[d])
    BY <2>1, Zenon DEF ImportAuto, ValidateContractAddressForSourceDenom
  <2> USE <2>1
  <2>3. CASE gext[d] = None /\ CanSetAuto(d, gauto[d])
    <3>1. SetAutoContractForDenom(d, gauto[d]) /\ phase' = phase
      BY <2>3, Zenon DEF ImportAuto
    <3> USE <3>1
    <3>2. \A o \in Denoms : WayBack(o)'
      BY SetKeepsWayBack, Zenon
    <3>3. SourcesEmbedded'
      BY <2>2, SetKeepsSources, Zenon
    <3>4. ImportInv'
      BY <2>3 DEF ImportAuto, SetAutoContractForDenom
    <3> QED
      BY <3>2, <3>3, <3>4, Zenon DEF ImportAuto, PanicOnlyOnTorn
  <2>4. CASE gext[d] = None /\ ~CanSetAuto(d, gauto[d])
    <3>1. EnsureDenomNotMapped(d)
      BY <2>4, Zenon DEF EnsureDenomNotMapped, GetContractByDenom
    <3>2. phase' = "panic" /\ UNCHANGED <<ext, auto, rev, gext, gauto, torn>>
      BY <2>4, <3>1, Zenon DEF ImportAuto, SkipsAuto
    <3> USE <3>2
    <3>3. PICK o \in Denoms \ {d} : ContractOwnedByDenom(o, gauto[d])
      BY <2>2, <2>4, <3>1, Zenon DEF CanSetAuto, EnsureContractNotMapped
    <3>4. Resolve(gext, gauto, o) = gauto[d] /\ Resolve(gext, gauto, d) = gauto[d]
      BY <2>4, <3>3 DEF ContractOwnedByDenom
    <3>5. o \in torn \/ d \in torn
      BY <3>3, <3>4, Zenon
    <3>6. PanicOnlyOnTorn'
      BY <3>3, <3>4, <3>5 DEF PanicOnlyOnTorn
    <3> QED
      BY <3>6, Zenon DEF WayBack, SourcesEmbedded, GetContractByDenom
  <2>5. CASE gext[d] # None
    <3>1. ~EnsureDenomNotMapped(d)
      BY <2>1, <2>5, Zenon DEF EnsureDenomNotMapped, GetContractByDenom
    <3>2. UNCHANGED tables /\ phase' = phase
      BY <2>2, <3>1, Zenon DEF ImportAuto, CanSetAuto, SkipsAuto
    <3> USE <3>2
    <3>3. (\A o \in Denoms : WayBack(o)') /\ SourcesEmbedded'
      BY Zenon DEF WayBack, SourcesEmbedded, GetContractByDenom
    <3>4. ImportInv'
      BY <2>5 DEF ImportAuto
    <3> QED
      BY <3>3, <3>4, Zenon DEF ImportAuto, PanicOnlyOnTorn
  <2> QED
    BY <2>3, <2>4, <2>5, Zenon
<1>6. ASSUME NEW c \in Contracts, UserDeploys(c) PROVE MappingInv'
  BY <1>6, Zenon DEF UserDeploys, WayBack, SourcesEmbedded, PanicOnlyOnTorn, GetContractByDenom, Resolve
<1>7. CASE ExportGenesis
  <2> USE <1>7
  <2>1. (\A o \in Denoms : WayBack(o)') /\ SourcesEmbedded'
    BY Zenon DEF ExportGenesis, WayBack, SourcesEmbedded, GetContractByDenom, Resolve
  <2>2. \A d1, d2 \in Denoms \ torn :
          GetContractByDenom(d1) = GetContractByDenom(d2) /\ GetContractByDenom(d1) # None => d1 = d2
    BY WayBackIsInjective, Zenon
  <2>3. ImportInv'
    BY <2>2 DEF ExportGenesis, ImportInv, SourcesEmbedded, GetContractByDenom,
      Resolve, Mapped, TypeOK
  <2> QED
    BY <2>1, <2>3, Zenon DEF ExportGenesis, PanicOnlyOnTorn
<1>8. CASE ImportDone
  BY <1>8, Zenon DEF ImportDone, WayBack, SourcesEmbedded, PanicOnlyOnTorn, GetContractByDenom, Resolve
<1>9. CASE UNCHANGED vars
  <2> USE <1>9 DEF vars
  <2>1. (\A o \in Denoms : WayBack(o)' <=> WayBack(o)) /\ SourcesEmbedded' /\ PanicOnlyOnTorn'
    BY Zenon DEF WayBack, SourcesEmbedded, PanicOnlyOnTorn, GetContractByDenom, Resolve
  <2>2. phase = "import" => ImportInv'
    BY DEF ImportInv, Resolve, Mapped
  <2> QED
    BY <2>1, <2>2, Zenon
<1> QED
  BY <1>1, <1>2, <1>3, <1>4, <1>5, <1>6, <1>7, <1>8, <1>9, Zenon DEF Next

(* The inductive invariant holds of every reachable store: no way back that *)
(* older releases left is lost, an import under way has yet to add exactly  *)
(* what it has not read, and it panics only on a contract that two denoms   *)
(* shared already.                                                          *)
THEOREM MappingInvHolds == Spec => [](TypeOK /\ MappingInv)
<1>1. TypeOK /\ MappingInv /\ [Next]_vars => (TypeOK /\ MappingInv)'
  BY TypeStep, MappingStep, Zenon
<1> QED
  BY <1>1, MappingInit, PTL DEF Spec

(* Coins that can be converted to a contract can be converted back          *)
(* (GetContractByDenom and GetDenomByContract agree), unless an older       *)
(* release left two denoms with one contract.                               *)
THEOREM RoundTripHolds == Spec => []RoundTrip
<1>1. TypeOK /\ MappingInv => RoundTrip
  BY MappingAssumption, Zenon DEF TypeOK, MappingInv, WayBack, RoundTrip,
    GetDenomByContract, GetContractByDenom, Resolve
<1> QED
  BY <1>1, MappingInvHolds, PTL

(* InitGenesis panics on what ExportGenesis wrote only on a contract that   *)
(* two denoms have, one of which older releases left so.                    *)
THEOREM PanicOnlyOnTornHolds == Spec => []PanicOnlyOnTorn
<1>1. MappingInv => PanicOnlyOnTorn
  BY Zenon DEF MappingInv
<1> QED
  BY <1>1, MappingInvHolds, PTL

(* An import leaves every denom with the contract it had at export.         *)
THEOREM ImportKeepsMappingHolds == Spec => []ImportKeepsMapping
<1>1. MappingInv => ImportKeepsMapping
  BY Zenon DEF MappingInv, ImportInv, ImportKeepsMapping, GetContractByDenom, Resolve
<1> QED
  BY <1>1, MappingInvHolds, PTL

(* A step changes the contract of one denom at most, and takes it away only *)
(* by deleting that denom's external mapping (keeper.go:246-269).           *)
THEOREM MappingChangesHolds == Spec => MappingChanges
<1>1. TypeOK /\ MappingInv /\ [Next]_vars => [MappingChange]_vars
  <2> SUFFICES ASSUME TypeOK, [Next]_vars, vars' # vars, phase = "live", phase' = "live"
               PROVE  MappingChange
    BY Zenon DEF MappingChange, vars
  <2> USE MappingAssumption DEF TypeOK, MappingChange, GetContractByDenom, Resolve, tables, genesis
  <2>1. ASSUME NEW d \in Denoms, NEW c \in Contracts, RegisterMapping(d, c) PROVE MappingChange
    BY <2>1, Zenon DEF RegisterMapping, SetExternalContractForDenom, CanSetExternal,
       EnsureDenomNotMapped
  <2>2. ASSUME NEW d \in Denoms, NEW c \in Contracts, AutoDeploy(d, c) PROVE MappingChange
    BY <2>2, Zenon DEF AutoDeploy, SetAutoContractForDenom
  <2>3. ASSUME NEW d \in Denoms, DeleteMapping(d) PROVE MappingChange
    BY <2>3 DEF DeleteMapping, DeleteExternalContractForDenom
  <2>4. ASSUME NEW c \in Contracts, UserDeploys(c) PROVE MappingChange
    BY <2>4, Zenon DEF UserDeploys
  <2>5. ASSUME NEW d \in Denoms, ImportExternal(d) \/ ImportAuto(d) PROVE FALSE
    BY <2>5, Zenon DEF ImportExternal, ImportAuto
  <2>6. ~ExportGenesis /\ ~ImportDone
    BY Zenon DEF ExportGenesis, ImportDone
  <2> QED
    BY <2>1, <2>2, <2>3, <2>4, <2>5, <2>6, Zenon DEF Next, vars
<1> QED
  BY <1>1, MappingInvHolds, PTL DEF Spec, MappingChanges

-----------------------------------------------------------------------------
(* The sum over the denoms, or over the contracts, after one entry changed. *)
LEMMA SumChanges ==
  /\ \A f, g \in [Denoms -> Int], x \in Denoms :
       (\A y \in Denoms : y # x => g[y] = f[y])
         => SumOver(g, Denoms) = SumOver(f, Denoms) - f[x] + g[x]
  /\ \A f, g \in [Contracts -> Int], x \in Contracts :
       (\A y \in Contracts : y # x => g[y] = f[y])
         => SumOver(g, Contracts) = SumOver(f, Contracts) - f[x] + g[x]
BY SumChange, ConversionAssumption, Zenon

(* What the change of one entry of locked does to the sums by contract and  *)
(* by denom.                                                                *)
LEMMA LockedStep ==
  ASSUME ConvTypeOK, NEW c \in Contracts, NEW d \in Denoms, NEW v \in Nat,
         locked' = [locked EXCEPT ![c][d] = v]
  PROVE  /\ locked' \in [Contracts -> [Denoms -> Nat]]
         /\ \A k \in Contracts : LockedAt(k)' =
              IF k = c THEN LockedAt(k) - locked[c][d] + v ELSE LockedAt(k)
         /\ \A e \in Denoms : LockedOf(e)' =
              IF e = d THEN LockedOf(e) - locked[c][d] + v ELSE LockedOf(e)
<1>1. /\ locked \in [Contracts -> [Denoms -> Nat]]
      /\ locked' \in [Contracts -> [Denoms -> Nat]]
      /\ locked'[c][d] = v
      /\ \A k \in Contracts, e \in Denoms : (k = c /\ e = d) \/ locked'[k][e] = locked[k][e]
  BY Zenon DEF ConvTypeOK
<1>2. LockedAt(c)' = LockedAt(c) - locked[c][d] + v
  <2>1. ASSUME NEW f, f = locked[c], NEW g, g = locked'[c]
        PROVE  SumOver(g, Denoms) = SumOver(f, Denoms) - locked[c][d] + v
    <3>1. /\ f \in [Denoms -> Int] /\ g \in [Denoms -> Int]
          /\ \A y \in Denoms : y # d => g[y] = f[y]
          /\ f[d] = locked[c][d] /\ g[d] = v
      BY <1>1, <2>1
    <3> QED
      BY <3>1, SumChanges, Zenon
  <2> QED
    BY <2>1, Zenon DEF LockedAt
<1>3. ASSUME NEW k \in Contracts, k # c PROVE LockedAt(k)' = LockedAt(k)
  <2>1. locked'[k] = locked[k]
    BY <1>1, <1>3, Zenon
  <2> QED
    BY <2>1, Zenon DEF LockedAt
<1>4. LockedOf(d)' = LockedOf(d) - locked[c][d] + v
  <2>1. ASSUME NEW f, f = [k \in Contracts |-> locked[k][d]],
               NEW g, g = [k \in Contracts |-> locked'[k][d]]
        PROVE  SumOver(g, Contracts) = SumOver(f, Contracts) - locked[c][d] + v
    <3>1. /\ f \in [Contracts -> Int] /\ g \in [Contracts -> Int]
          /\ \A y \in Contracts : y # c => g[y] = f[y]
          /\ f[c] = locked[c][d] /\ g[c] = v
      BY <1>1, <2>1
    <3> QED
      BY <3>1, SumChanges, Zenon
  <2> QED
    BY <2>1, Zenon DEF LockedOf
<1>5. ASSUME NEW e \in Denoms, e # d PROVE LockedOf(e)' = LockedOf(e)
  <2>1. [k \in Contracts |-> locked'[k][e]] = [k \in Contracts |-> locked[k][e]]
    BY <1>1, <1>5, Zenon
  <2> QED
    BY <2>1, Zenon DEF LockedOf
<1> QED
  BY <1>1, <1>2, <1>3, <1>4, <1>5, Zenon

(* What the packets P carry of denom e.                                     *)
AmountOf(P, e) == SumOver([p \in P |-> p.amount], {p \in P : p.denom = e})

(* A packet adds its amount to what is under way of its own denom only.     *)
LEMMA PacketSums ==
  ASSUME NEW P, IsFiniteSet(P), NEW q, q \notin P, q.amount \in Nat,
         \A p \in P : p.amount \in Nat, NEW e, NEW Q, Q = P \cup {q}
  PROVE  /\ q.denom = e => AmountOf(Q, e) = q.amount + AmountOf(P, e)
         /\ q.denom # e => AmountOf(Q, e) = AmountOf(P, e)
<1> DEFINE f == [p \in P |-> p.amount]
           g == [p \in Q |-> p.amount]
           S == {p \in P : p.denom = e}
           T == {p \in Q : p.denom = e}
<1>1. IsFiniteSet(S) /\ S \in SUBSET P /\ q \notin S
  BY FiniteSubset, Zenon
<1>2. \A p \in S : f[p] = g[p] /\ f[p] \in Nat
  BY Zenon
<1>3. SumOver(f, S) = SumOver(g, S)
  <2> HIDE DEF f, g, S
  <2> QED BY <1>1, <1>2, SumSame, Zenon
<1>4. CASE q.denom = e
  <2>1. T = S \cup {q}
    BY <1>4, Zenon
  <2>2. \A p \in S \cup {q} : g[p] \in Int
    OBVIOUS
  <2>3. g[q] = q.amount
    BY Zenon
  <2>4. SumOver(g, S \cup {q}) = g[q] + SumOver(g, S)
    <3> HIDE DEF g, S
    <3> QED BY <1>1, <2>2, SumAdd, Zenon
  <2>5. SumOver(g, T) = g[q] + SumOver(g, S)
    BY <2>1, <2>4, Zenon
  <2> HIDE DEF f, g, S, T
  <2>6. SumOver(g, T) = q.amount + SumOver(f, S)
    BY <1>3, <2>3, <2>5, Zenon
  <2> QED
    BY <1>4, <2>6, Zenon DEF f, g, S, T, AmountOf
<1>5. CASE q.denom # e
  <2>1. T = S
    BY <1>5, Zenon
  <2>2. SumOver(g, T) = SumOver(g, S)
    BY <2>1, Zenon
  <2> HIDE DEF f, g, S, T
  <2>3. SumOver(g, T) = SumOver(f, S)
    BY <1>3, <2>2, Zenon
  <2> QED
    BY <1>5, <2>3, Zenon DEF f, g, S, T, AmountOf
<1> QED
  BY <1>4, <1>5, Zenon

(* The sums the balances are stated with.                                   *)
SumsOK ==
  /\ \A d \in Denoms : InFlight(d) \in Nat /\ LockedOf(d) \in Nat
  /\ \A c \in Contracts : LockedAt(c) \in Nat
  /\ SumOver(croEscrow, Denoms) \in Nat

(* In a well-typed state they are natural numbers.                          *)
LEMMA SumsAreNat == ConvTypeOK => SumsOK
<1> SUFFICES ASSUME ConvTypeOK PROVE SumsOK
  BY Zenon
<1>1. ASSUME NEW d \in Denoms PROVE InFlight(d) \in Nat
  <2>1. IsFiniteSet({p \in packets : p.denom = d})
    BY FiniteSubset, Zenon DEF ConvTypeOK
  <2>2. ASSUME NEW f, f = [p \in packets |-> p.amount], NEW S, S = {p \in packets : p.denom = d}
        PROVE  SumOver(f, S) \in Nat
    <3>1. \A p \in S : f[p] \in Nat
      BY <2>2, Zenon DEF ConvTypeOK
    <3> QED
      BY <2>1, <2>2, <3>1, SumType, Zenon
  <2> QED
    BY <2>2, Zenon DEF InFlight
<1>2. ASSUME NEW d \in Denoms PROVE LockedOf(d) \in Nat
  <2>1. ASSUME NEW f, f = [c \in Contracts |-> locked[c][d]] PROVE SumOver(f, Contracts) \in Nat
    <3>1. \A c \in Contracts : f[c] \in Nat
      BY <2>1, Zenon DEF ConvTypeOK
    <3> QED
      BY <3>1, SumType, ConversionAssumption, Zenon
  <2> QED
    BY <2>1, Zenon DEF LockedOf
<1>3. ASSUME NEW c \in Contracts PROVE LockedAt(c) \in Nat
  <2>1. ASSUME NEW f, f = locked[c] PROVE SumOver(f, Denoms) \in Nat
    <3>1. \A d \in Denoms : f[d] \in Nat
      BY <2>1, Zenon DEF ConvTypeOK
    <3> QED
      BY <3>1, SumType, ConversionAssumption, Zenon
  <2> QED
    BY <2>1, Zenon DEF LockedAt
<1>4. SumOver(croEscrow, Denoms) \in Nat
  <2>1. \A d \in Denoms : croEscrow[d] \in Nat
    BY Zenon DEF ConvTypeOK
  <2> QED
    BY <2>1, SumType, ConversionAssumption, Zenon
<1> QED
  BY <1>1, <1>2, <1>3, <1>4, Zenon DEF SumsOK

(* ... and so they are in the next state.                                   *)
LEMMA SumsAreNatNext == ConvTypeOK' => SumsOK'
BY SumsAreNat, PTL

BankOK ==
  /\ native \in [Denoms -> Nat] /\ croEscrow \in [Denoms -> Nat] /\ evm \in Nat
  /\ locked \in [Contracts -> [Denoms -> Nat]]
  /\ crc \in [Contracts -> Nat] /\ held \in [Contracts -> Nat]

(* What a conversion leaves as it was, when the user has the coins nat.     *)
Converts(nat) ==
  /\ BankOK'
  /\ \A e \in Vouchers :
       native'[e] + LockedOf(e)' + croEscrow'[e] = nat[e] + LockedOf(e) + croEscrow[e]
  /\ \A c \in Contracts \ SourceContracts :
       crc'[c] + held'[c] + LockedAt(c) = crc[c] + held[c] + LockedAt(c)'
  /\ evm' + Scale * SumOver(croEscrow, Denoms) = evm + Scale * SumOver(croEscrow', Denoms)
  /\ \A e \in SourceDenoms :
       /\ GetContractByDenom(e) = None => native'[e] <= nat[e]
       /\ GetContractByDenom(e) # None =>
            held[Embedded[e]] - held'[Embedded[e]] <= nat[e] - native'[e]

(* One denom's escrow changes.                                              *)
LEMMA EscrowChange ==
  ASSUME ConvTypeOK, NEW d \in Denoms, NEW v \in Nat, croEscrow' = [croEscrow EXCEPT ![d] = v]
  PROVE  /\ croEscrow' \in [Denoms -> Nat]
         /\ SumOver(croEscrow', Denoms) = SumOver(croEscrow, Denoms) - croEscrow[d] + v
<1>1. croEscrow \in [Denoms -> Int] /\ croEscrow' \in [Denoms -> Nat]
  BY DEF ConvTypeOK
<1> USE <1>1
<1>2. croEscrow' \in [Denoms -> Int] /\ croEscrow'[d] = v
      /\ \A y \in Denoms : y # d => croEscrow'[y] = croEscrow[y]
  OBVIOUS
<1>3. \A f, g \in [Denoms -> Int], x \in Denoms :
       (\A y \in Denoms : y # x => g[y] = f[y])
         => SumOver(g, Denoms) = SumOver(f, Denoms) - f[x] + g[x]
  BY SumChange, ConversionAssumption, Zenon
<1>4. SumOver(croEscrow', Denoms) = SumOver(croEscrow, Denoms) - croEscrow[d] + croEscrow'[d]
  BY <1>2, <1>3, Zenon
<1> QED
  BY <1>2, <1>4, Zenon

(* IBC CRO converted to EVM coins: escrowed and minted to the same value    *)
(* (ibc.go:31-58).                                                          *)
LEMMA ConvertCroKeeps ==
  ASSUME ConvTypeOK, NEW nat \in [Denoms -> Nat], NEW d \in Vouchers, NEW n \in Nat,
         ConvertCro(nat, d, n)
  PROVE  Converts(nat)
<1> USE DEF ConvTypeOK, Vouchers
<1>1. croEscrow[d] + n \in Nat /\ croEscrow' = [croEscrow EXCEPT ![d] = croEscrow[d] + n]
  BY DEF ConvertCro
<1>2. croEscrow' \in [Denoms -> Nat]
      /\ SumOver(croEscrow', Denoms) = SumOver(croEscrow, Denoms) - croEscrow[d] + (croEscrow[d] + n)
  BY <1>1, EscrowChange, Zenon
<1>3. native' = [nat EXCEPT ![d] = nat[d] - n] /\ nat[d] - n \in Nat /\ evm' = evm + Scale * n
      /\ UNCHANGED <<locked, crc, held>>
  BY DEF ConvertCro, tokens
<1>4. SumOver(croEscrow, Denoms) \in Nat /\ \A e \in Denoms : LockedOf(e) \in Nat
  BY SumsAreNat, Zenon DEF SumsOK
<1>5. Scale * n \in Nat
  BY ConversionAssumption
<1>6. BankOK'
  BY <1>2, <1>3, <1>5 DEF BankOK
<1>7. \A e \in Vouchers :
       native'[e] + LockedOf(e)' + croEscrow'[e] = nat[e] + LockedOf(e) + croEscrow[e]
  BY <1>1, <1>3, <1>4 DEF LockedOf
<1>8. evm' + Scale * SumOver(croEscrow, Denoms) = evm + Scale * SumOver(croEscrow', Denoms)
  <2>1. SumOver(croEscrow', Denoms) = SumOver(croEscrow, Denoms) + n
    BY <1>2, <1>4
  <2>2. \A s \in Nat : Scale * (s + n) = Scale * s + Scale * n /\ Scale * s \in Nat
    BY ConversionAssumption
  <2>3. Scale * SumOver(croEscrow', Denoms) = Scale * SumOver(croEscrow, Denoms) + Scale * n
        /\ Scale * SumOver(croEscrow, Denoms) \in Nat
    BY <1>4, <2>1, <2>2, Zenon
  <2> QED
    BY <1>3, <1>5, <2>3
<1>9. \A c \in Contracts \ SourceContracts :
       crc'[c] + held'[c] + LockedAt(c) = crc[c] + held[c] + LockedAt(c)'
  BY <1>3, Zenon DEF LockedAt
<1>10. \A e \in SourceDenoms :
       /\ native'[e] <= nat[e]
       /\ GetContractByDenom(e) # None =>
            held[Embedded[e]] - held'[Embedded[e]] <= nat[e] - native'[e]
  BY <1>3, MappingAssumption
<1> QED
  BY <1>6, <1>7, <1>8, <1>9, <1>10, Zenon DEF Converts

(* A source coin converted: burnt, for the token the module held            *)
(* (evm.go:108-124).                                                        *)
LEMMA ConvertSourceKeeps ==
  ASSUME ConvTypeOK, LiveMapping, NEW nat \in [Denoms -> Nat], NEW d \in SourceDenoms,
         NEW n \in Nat, GetContractByDenom(d) # None,
         ConvertSource(nat, d, GetContractByDenom(d), n)
  PROVE  Converts(nat)
<1> USE DEF ConvTypeOK
<1> DEFINE c == Embedded[d]
<1>1. GetContractByDenom(d) = c /\ c \in SourceContracts /\ c \in Contracts /\ d \in Denoms
  BY MappingAssumption, Zenon
     DEF LiveMapping, Agrees, SourcesEmbedded, GetContractByDenom, Resolve, SourceContracts
<1>2. /\ native' = [nat EXCEPT ![d] = nat[d] - n] /\ nat[d] - n \in Nat
      /\ held' = [held EXCEPT ![c] = held[c] - n] /\ held[c] - n \in Nat
      /\ crc' = [crc EXCEPT ![c] = crc[c] + n]
      /\ UNCHANGED <<locked, croEscrow, evm>>
  BY <1>1 DEF ConvertSource
<1>3. \A e \in SourceDenoms : e # d /\ GetContractByDenom(e) # None => Embedded[e] # c
  <2>1. \A e \in SourceDenoms : GetContractByDenom(e) # None => GetContractByDenom(e) = Embedded[e]
    BY MappingAssumption, Zenon DEF LiveMapping, Agrees, SourcesEmbedded, GetContractByDenom, Resolve
  <2> QED
    BY <1>1, <2>1, WayBackIsInjective, MappingAssumption, Zenon DEF LiveMapping, Agrees
<1> USE <1>2
<1>4. BankOK'
  BY <1>1 DEF BankOK
<1>5. \A e \in Vouchers :
       native'[e] + LockedOf(e)' + croEscrow'[e] = nat[e] + LockedOf(e) + croEscrow[e]
  BY Zenon DEF LockedOf, Vouchers
<1>6. \A k \in Contracts \ SourceContracts :
       crc'[k] + held'[k] + LockedAt(k) = crc[k] + held[k] + LockedAt(k)'
  BY <1>1, Zenon DEF LockedAt
<1>7. \A e \in SourceDenoms :
       /\ native'[e] <= nat[e]
       /\ GetContractByDenom(e) # None =>
            held[Embedded[e]] - held'[Embedded[e]] <= nat[e] - native'[e]
  <2> SUFFICES ASSUME NEW e \in SourceDenoms
               PROVE  /\ native'[e] <= nat[e]
                      /\ GetContractByDenom(e) # None =>
                           held[Embedded[e]] - held'[Embedded[e]] <= nat[e] - native'[e]
    BY Zenon
  <2>1. e \in Denoms /\ Embedded[e] \in Contracts
    BY MappingAssumption, Zenon
  <2>2. CASE e = d
    BY <1>1, <2>2
  <2>3. CASE e # d
    <3> USE <2>1
    <3>1. native'[e] = nat[e] /\ nat[e] \in Nat
      BY <2>3, Zenon
    <3>2. GetContractByDenom(e) # None => held'[Embedded[e]] = held[Embedded[e]]
      BY <1>3, <2>3, Zenon
    <3> QED
      BY <3>1, <3>2
  <2> QED
    BY <2>2, <2>3, Zenon
<1> QED
  BY <1>4, <1>5, <1>6, <1>7, Zenon DEF Converts

(* A voucher converted: locked with the contract, which mints as much       *)
(* (evm.go:125-140).                                                        *)
LEMMA ConvertVoucherKeeps ==
  ASSUME ConvTypeOK, NEW nat \in [Denoms -> Nat], NEW d \in Vouchers, NEW c \in Contracts,
         NEW n \in Nat, ConvertVoucher(nat, d, c, n)
  PROVE  Converts(nat)
<1> USE DEF ConvTypeOK, Vouchers
<1>1. /\ native' = [nat EXCEPT ![d] = nat[d] - n] /\ nat[d] - n \in Nat
      /\ locked' = [locked EXCEPT ![c][d] = locked[c][d] + n] /\ locked[c][d] + n \in Nat
      /\ crc' = [crc EXCEPT ![c] = crc[c] + n]
      /\ UNCHANGED <<held, croEscrow, evm>>
  BY DEF ConvertVoucher
<1>2. /\ locked' \in [Contracts -> [Denoms -> Nat]]
      /\ \A k \in Contracts : LockedAt(k)' =
           IF k = c THEN LockedAt(k) - locked[c][d] + (locked[c][d] + n) ELSE LockedAt(k)
      /\ \A e \in Denoms : LockedOf(e)' =
           IF e = d THEN LockedOf(e) - locked[c][d] + (locked[c][d] + n) ELSE LockedOf(e)
  <2> DEFINE v == locked[c][d] + n
  <2>1. v \in Nat /\ locked' = [locked EXCEPT ![c][d] = v]
    BY <1>1, Zenon
  <2> HIDE DEF v
  <2>2. /\ locked' \in [Contracts -> [Denoms -> Nat]]
        /\ \A k \in Contracts : LockedAt(k)' =
             IF k = c THEN LockedAt(k) - locked[c][d] + v ELSE LockedAt(k)
        /\ \A e \in Denoms : LockedOf(e)' =
             IF e = d THEN LockedOf(e) - locked[c][d] + v ELSE LockedOf(e)
    BY <2>1, LockedStep, Zenon
  <2> QED
    BY <2>2, Zenon DEF v
<1>3. /\ \A e \in Denoms : LockedOf(e) \in Nat
      /\ \A k \in Contracts : LockedAt(k) \in Nat
  BY SumsAreNat, Zenon DEF SumsOK
<1>4. BankOK'
  BY <1>1, <1>2 DEF BankOK
<1>5. \A e \in Vouchers :
       native'[e] + LockedOf(e)' + croEscrow'[e] = nat[e] + LockedOf(e) + croEscrow[e]
  BY <1>1, <1>2, <1>3
<1>6. \A k \in Contracts \ SourceContracts :
       crc'[k] + held'[k] + LockedAt(k) = crc[k] + held[k] + LockedAt(k)'
  BY <1>1, <1>2, <1>3
<1>7. \A e \in SourceDenoms :
       /\ native'[e] <= nat[e]
       /\ GetContractByDenom(e) # None =>
            held[Embedded[e]] - held'[Embedded[e]] <= nat[e] - native'[e]
  BY <1>1, MappingAssumption
<1> QED
  BY <1>1, <1>4, <1>5, <1>6, <1>7, Zenon DEF Converts

(* No conversion at all: the coins stay with the user.                      *)
LEMMA NoConversionKeeps ==
  ASSUME ConvTypeOK, NEW nat \in [Denoms -> Nat], native' = nat,
         UNCHANGED <<locked, croEscrow, evm, tokens>>
  PROVE  Converts(nat)
<1>1. /\ \A e \in Denoms : LockedOf(e) \in Nat
      /\ \A c \in Contracts : LockedAt(c) \in Nat
      /\ SumOver(croEscrow, Denoms) \in Nat
  BY SumsAreNat, Zenon DEF SumsOK
<1> QED
  BY <1>1, MappingAssumption DEF ConvTypeOK, tokens, Converts, BankOK, LockedOf, LockedAt

(* Whichever way a denom is converted, nothing is made or lost.             *)
LEMMA ConvertMappedKeeps ==
  ASSUME ConvTypeOK, LiveMapping, NEW nat \in [Denoms -> Nat], NEW d \in Denoms, NEW n \in Nat,
         CanBeConverted(d), ConvertMapped(nat, d, n)
  PROVE  Converts(nat)
<1>1. CASE d = ibcCroDenom
  BY <1>1, ConvertCroKeeps, Zenon DEF ConvertMapped, ConvTypeOK
<1>2. CASE d # ibcCroDenom /\ d \in SourceDenoms
  BY <1>2, ConvertSourceKeeps, Zenon DEF ConvertMapped, ConvertToContract, CanBeConverted
<1>3. CASE d # ibcCroDenom /\ d \notin SourceDenoms
  <2>1. GetContractByDenom(d) \in Contracts
    BY <1>3, MappingAssumption, Zenon
       DEF CanBeConverted, LiveMapping, TypeOK, GetContractByDenom, Resolve
  <2> QED
    BY <1>3, <2>1, ConvertVoucherKeeps, Zenon DEF ConvertMapped, ConvertToContract, Vouchers
<1> QED
  BY <1>1, <1>2, <1>3, Zenon

-----------------------------------------------------------------------------
IbcOK ==
  /\ outside \in [Denoms -> Nat] /\ sent \in Nat
  /\ packets \subseteq [seq : 0 .. sent - 1, denom : Denoms, amount : Nat]
  /\ IsFiniteSet(packets)

(* A packet sent adds its amount to what is under way of its denom: its     *)
(* sequence number is new.                                                  *)
LEMMA SendAdds ==
  ASSUME ConvTypeOK, NEW nat, NEW d \in Denoms, NEW n \in Nat, SendPacket(nat, d, n)
  PROVE  /\ IbcOK'
         /\ \A e \in Denoms : InFlight(e)' = (IF d = e THEN n ELSE 0) + InFlight(e)
<1> DEFINE q == [seq |-> sent, denom |-> d, amount |-> n]
<1>1. packets' = packets \cup {q} /\ sent' = sent + 1 /\ outside' = outside
  BY Zenon DEF SendPacket
<1>2. /\ packets \subseteq [seq : 0 .. sent - 1, denom : Denoms, amount : Nat]
      /\ IsFiniteSet(packets) /\ sent \in Nat /\ outside \in [Denoms -> Nat]
  BY Zenon DEF ConvTypeOK
<1> USE <1>2
<1>3. q \notin packets
  OBVIOUS
<1> USE <1>1
<1>4. IbcOK'
  <2>1. IsFiniteSet(packets')
    <3> HIDE DEF q
    <3> QED BY FiniteAdd, Zenon
  <2>2. packets' \subseteq [seq : 0 .. sent' - 1, denom : Denoms, amount : Nat]
    OBVIOUS
  <2> QED
    BY <2>1, <2>2 DEF IbcOK
<1>5. ASSUME NEW e \in Denoms
      PROVE  InFlight(e)' = (IF d = e THEN n ELSE 0) + InFlight(e)
  <2>1. q.denom = d /\ q.amount = n /\ \A p \in packets : p.amount \in Nat
    BY Zenon
  <2> HIDE DEF q
  <2>2. /\ q.denom = e => AmountOf(packets', e) = q.amount + AmountOf(packets, e)
        /\ q.denom # e => AmountOf(packets', e) = AmountOf(packets, e)
    BY <1>3, <2>1, PacketSums
  <2>3. InFlight(e) \in Nat /\ InFlight(e) = AmountOf(packets, e) /\ InFlight(e)' = AmountOf(packets', e)
    BY SumsAreNat, Zenon DEF SumsOK, InFlight, AmountOf
  <2> QED
    BY <2>1, <2>2, <2>3
<1> QED
  BY <1>4, <1>5, Zenon

(* A packet that is acknowledged or refunded is under way no more.          *)
LEMMA ReceiptRemoves ==
  ASSUME ConvTypeOK, NEW q \in packets, packets' = packets \ {q}, sent' = sent
  PROVE  /\ packets' \subseteq [seq : 0 .. sent' - 1, denom : Denoms, amount : Nat]
         /\ IsFiniteSet(packets')
         /\ q.denom \in Denoms /\ q.amount \in Nat
         /\ \A e \in Denoms : InFlight(e) = (IF q.denom = e THEN q.amount ELSE 0) + InFlight(e)'
         /\ \A e \in Denoms : InFlight(e)' \in Nat
<1>1. /\ packets \subseteq [seq : 0 .. sent - 1, denom : Denoms, amount : Nat]
      /\ IsFiniteSet(packets)
  BY Zenon DEF ConvTypeOK
<1>2. /\ packets' \subseteq [seq : 0 .. sent' - 1, denom : Denoms, amount : Nat]
      /\ q.denom \in Denoms /\ q.amount \in Nat /\ q \notin packets'
      /\ \A p \in packets' : p.amount \in Nat
  BY <1>1, Zenon
<1>3. IsFiniteSet(packets')
  BY <1>1, FiniteSubset, Zenon
<1>4. packets = packets' \cup {q}
  BY Zenon
<1>5. ASSUME NEW e \in Denoms
      PROVE  InFlight(e) = (IF q.denom = e THEN q.amount ELSE 0) + InFlight(e)'
  <2>1. /\ q.denom = e => AmountOf(packets, e) = q.amount + AmountOf(packets', e)
        /\ q.denom # e => AmountOf(packets, e) = AmountOf(packets', e)
    BY <1>2, <1>3, <1>4, PacketSums
  <2>2. InFlight(e) \in Nat /\ InFlight(e) = AmountOf(packets, e) /\ InFlight(e)' = AmountOf(packets', e)
    BY SumsAreNat, Zenon DEF SumsOK, InFlight, AmountOf
  <2> QED
    BY <1>2, <2>1, <2>2
<1>6. ASSUME NEW e \in Denoms PROVE InFlight(e)' \in Nat
  <2>1. IsFiniteSet({p \in packets' : p.denom = e})
    BY <1>3, FiniteSubset, Zenon
  <2>2. ASSUME NEW f, f = [p \in packets' |-> p.amount], NEW S, S = {p \in packets' : p.denom = e}
        PROVE  SumOver(f, S) \in Nat
    <3>1. \A p \in S : f[p] \in Nat
      BY <1>2, <2>2, Zenon
    <3> QED
      BY <2>1, <2>2, <3>1, SumType, Zenon
  <2> QED
    BY <2>2, Zenon DEF InFlight
<1> QED
  BY <1>1, <1>2, <1>3, <1>5, <1>6, Zenon

-----------------------------------------------------------------------------
Balances == TokensBacked /\ CroBacked /\ VouchersConserved /\ SourceInv

(* Once the packets have moved, the user, the packets and the other chains  *)
(* have between them the coins they had, the user having nat.               *)
Moved(nat) ==
  /\ IbcOK'
  /\ \A e \in Denoms : nat[e] + InFlight(e)' + outside'[e] = native[e] + InFlight(e) + outside[e]

(* Coins that move keep every balance, and so does what converts them.      *)
LEMMA ConversionBalances ==
  ASSUME ConvTypeOK, Balances, NEW nat \in [Denoms -> Int], Moved(nat), Converts(nat),
         ConvTypeOK', \A e \in SourceDenoms : GetContractByDenom(e)' = GetContractByDenom(e)
  PROVE  Balances'
<1>1. /\ \A e \in Denoms : InFlight(e) \in Nat /\ LockedOf(e) \in Nat
      /\ \A c \in Contracts : LockedAt(c) \in Nat
      /\ SumOver(croEscrow, Denoms) \in Nat
  BY SumsAreNat, Zenon DEF SumsOK
<1>2. /\ \A e \in Denoms : InFlight(e)' \in Nat /\ LockedOf(e)' \in Nat
      /\ \A c \in Contracts : LockedAt(c)' \in Nat
      /\ SumOver(croEscrow', Denoms) \in Nat
  BY SumsAreNatNext, Zenon DEF SumsOK
<1>3. TokensBacked'
  <2> SUFFICES ASSUME NEW c \in Contracts \ SourceContracts
               PROVE  crc'[c] + held'[c] = LockedAt(c)'
    BY Zenon DEF TokensBacked
  <2>1. /\ crc'[c] + held'[c] + LockedAt(c) = crc[c] + held[c] + LockedAt(c)'
        /\ crc[c] + held[c] = LockedAt(c)
    BY Zenon DEF Converts, Balances, TokensBacked
  <2>2. /\ crc[c] \in Nat /\ held[c] \in Nat /\ LockedAt(c) \in Nat
        /\ crc'[c] \in Nat /\ held'[c] \in Nat /\ LockedAt(c)' \in Nat
    BY <1>1, <1>2, Zenon DEF ConvTypeOK
  <2>3. crc'[c] + held'[c] <= LockedAt(c)' /\ crc'[c] + held'[c] >= LockedAt(c)'
    BY <2>1, <2>2
  <2> QED
    BY <2>2, <2>3
<1>4. CroBacked'
  <2>1. Scale * SumOver(croEscrow, Denoms) \in Nat /\ Scale * SumOver(croEscrow', Denoms) \in Nat
    BY <1>1, <1>2, ConversionAssumption
  <2>2. /\ evm' + Scale * SumOver(croEscrow, Denoms) = evm + Scale * SumOver(croEscrow', Denoms)
        /\ evm = EvmSupply + Scale * SumOver(croEscrow, Denoms)
        /\ evm \in Nat /\ evm' \in Nat /\ EvmSupply \in Nat
    BY ConversionAssumption, Zenon DEF ConvTypeOK, Balances, CroBacked, Converts
  <2>3. /\ evm' <= EvmSupply + Scale * SumOver(croEscrow', Denoms)
        /\ evm' >= EvmSupply + Scale * SumOver(croEscrow', Denoms)
    BY <2>1, <2>2
  <2> QED
    BY <2>1, <2>2, <2>3 DEF CroBacked
<1>5. VouchersConserved'
  <2> SUFFICES ASSUME NEW e \in Vouchers
               PROVE  native'[e] + LockedOf(e)' + croEscrow'[e] + InFlight(e)' + outside'[e] = Stock[e]
    BY Zenon DEF VouchersConserved
  <2>1. native'[e] + LockedOf(e)' + croEscrow'[e] = nat[e] + LockedOf(e) + croEscrow[e]
    BY Zenon DEF Converts
  <2>2. nat[e] + InFlight(e)' + outside'[e] = native[e] + InFlight(e) + outside[e]
    BY Zenon DEF Moved, Vouchers
  <2>3. native[e] + LockedOf(e) + croEscrow[e] + InFlight(e) + outside[e] = Stock[e]
    BY Zenon DEF Balances, VouchersConserved
  <2>4. /\ native[e] \in Nat /\ LockedOf(e) \in Nat /\ croEscrow[e] \in Nat
        /\ InFlight(e) \in Nat /\ outside[e] \in Nat /\ nat[e] \in Int
    BY <1>1, Zenon DEF ConvTypeOK, Vouchers
  <2>5. /\ native'[e] \in Nat /\ LockedOf(e)' \in Nat /\ croEscrow'[e] \in Nat
        /\ InFlight(e)' \in Nat /\ outside'[e] \in Nat
    BY <1>2, Zenon DEF ConvTypeOK, Vouchers
  <2>6. Stock[e] \in Nat
    BY ConversionAssumption, Zenon DEF Vouchers
  <2> DEFINE total == native'[e] + LockedOf(e)' + croEscrow'[e] + InFlight(e)' + outside'[e]
  <2>7. total <= Stock[e] /\ total >= Stock[e] /\ total \in Nat
    BY <2>1, <2>2, <2>3, <2>4, <2>5, <2>6
  <2>8. total = Stock[e]
    <3> HIDE DEF total
    <3> QED BY ONLY <2>6, <2>7
  <2> QED
    BY ONLY <2>8, Zenon
<1>6. SourceInv'
  <2> SUFFICES ASSUME NEW e \in SourceDenoms
               PROVE  IF GetContractByDenom(e) = None
                        THEN native'[e] + InFlight(e)' + outside'[e] = 0
                        ELSE native'[e] + InFlight(e)' + outside'[e] <= held'[Embedded[e]]
    BY Zenon DEF SourceInv
  <2>1. e \in Denoms /\ Embedded[e] \in Contracts
    BY MappingAssumption, Zenon
  <2>2. nat[e] + InFlight(e)' + outside'[e] = native[e] + InFlight(e) + outside[e]
    BY <2>1, Zenon DEF Moved
  <2>3. /\ native[e] \in Nat /\ InFlight(e) \in Nat /\ outside[e] \in Nat /\ nat[e] \in Int
        /\ held[Embedded[e]] \in Nat
    BY <1>1, <2>1, Zenon DEF ConvTypeOK
  <2>4. /\ native'[e] \in Nat /\ InFlight(e)' \in Nat /\ outside'[e] \in Nat
        /\ held'[Embedded[e]] \in Nat
    BY <1>2, <2>1, Zenon DEF ConvTypeOK
  <2> USE <2>4
  <2>5. CASE GetContractByDenom(e) = None
    <3>1. native'[e] <= nat[e] /\ native[e] + InFlight(e) + outside[e] = 0
      BY <2>5, Zenon DEF Converts, Balances, SourceInv
    <3>2. native'[e] + InFlight(e)' + outside'[e] <= 0
      BY <2>2, <2>3, <3>1
    <3>3. native'[e] + InFlight(e)' + outside'[e] = 0
      BY <3>2
    <3> QED
      BY <2>5, <3>3, Zenon
  <2>6. CASE GetContractByDenom(e) # None
    <3>1. /\ held[Embedded[e]] - held'[Embedded[e]] <= nat[e] - native'[e]
          /\ native[e] + InFlight(e) + outside[e] <= held[Embedded[e]]
      BY <2>6, Zenon DEF Converts, Balances, SourceInv
    <3> QED
      BY <2>2, <2>3, <2>6, <3>1
  <2> QED
    BY <2>5, <2>6, Zenon
<1> QED
  BY <1>3, <1>4, <1>5, <1>6, Zenon DEF Balances

-----------------------------------------------------------------------------
ConvInv == ConvTypeOK /\ LiveMapping /\ Balances

(* Coins moved and converted keep the whole invariant.                      *)
LEMMA ConversionKeeps ==
  ASSUME ConvInv, LiveMapping', NEW nat \in [Denoms -> Int], Moved(nat), Converts(nat),
         UNCHANGED params,
         \A e \in SourceDenoms : GetContractByDenom(e)' = GetContractByDenom(e)
  PROVE  ConvInv'
<1>1. ConvTypeOK'
  BY Zenon DEF ConvInv, ConvTypeOK, Moved, Converts, BankOK, IbcOK, params
<1> QED
  BY <1>1, ConversionBalances, Zenon DEF ConvInv

(* A step that leaves the mapping alone leaves every contract in its place. *)
LEMMA MappingStays ==
  ASSUME LiveMapping, UNCHANGED vars
  PROVE  LiveMapping' /\ \A e \in SourceDenoms : GetContractByDenom(e)' = GetContractByDenom(e)
BY Zenon DEF LiveMapping, Agrees, WayBack, SourcesEmbedded, TypeOK, GetContractByDenom, Resolve, vars, tables,
   genesis

(* Without packets, the user has the coins they had.                        *)
LEMMA NothingMoves ==
  ASSUME ConvTypeOK, UNCHANGED ibc
  PROVE  native \in [Denoms -> Int] /\ Moved(native)
BY DEF ConvTypeOK, ibc, Moved, IbcOK, InFlight

(* MsgConvertVouchers of a mapped denom keeps the invariant.                *)
LEMMA ConvertVouchersKeeps ==
  ASSUME ConvInv, NEW d \in Denoms, NEW n \in Amounts, ConvertVouchers(d, n)
  PROVE  ConvInv'
<1>1. ConvTypeOK /\ LiveMapping /\ n \in Nat /\ native \in [Denoms -> Nat]
  BY DEF ConvInv, ConvTypeOK, Amounts
<1>2. CanBeConverted(d) /\ ConvertMapped(native, d, n) /\ UNCHANGED ibc /\ UNCHANGED params
      /\ UNCHANGED vars
  BY Zenon DEF ConvertVouchers
<1>3. Converts(native)
  BY <1>1, <1>2, ConvertMappedKeeps, Zenon
<1> QED
  BY <1>1, <1>2, <1>3, MappingStays, NothingMoves, ConversionKeeps, Zenon

(* So does one that deploys a contract: its denom is a voucher.             *)
LEMMA DeploysKeeps ==
  ASSUME ConvInv, NEW d \in Denoms, NEW c \in Contracts, NEW n \in Amounts,
         ConvertVouchersDeploys(d, c, n)
  PROVE  ConvInv'
<1>1. ConvTypeOK /\ LiveMapping /\ n \in Nat /\ native \in [Denoms -> Nat]
  BY DEF ConvInv, ConvTypeOK, Amounts
<1>2. /\ c \notin SourceContracts /\ AutoDeploy(d, c) /\ ConvertToContract(native, d, c, n)
      /\ UNCHANGED ibc /\ UNCHANGED params
  BY Zenon DEF ConvertVouchersDeploys
<1> USE <1>2
<1>3. SetAutoContractForDenom(d, c) /\ ValidateContractAddressForSourceDenom(d, c) /\ phase' = phase
  BY Zenon DEF AutoDeploy, SetAutoContractForDenom, CanSetAuto, genesis
<1> USE <1>3
<1>4. d \in Vouchers
  BY Zenon DEF Vouchers, ValidateContractAddressForSourceDenom, SourceContracts
<1> USE <1>1
<1>5. LiveMapping'
  <2>1. Agrees'
    BY SetKeepsWayBack, SetKeepsSources, Zenon DEF LiveMapping, Agrees
  <2>2. TypeOK'
    BY TypeStep, Zenon DEF LiveMapping, Next
  <2> QED
    BY <2>1, <2>2, Zenon DEF LiveMapping
<1>6. \A e \in SourceDenoms : GetContractByDenom(e)' = GetContractByDenom(e)
  BY <1>4, MappingAssumption, Zenon DEF SetAutoContractForDenom, GetContractByDenom, Resolve,
     Vouchers, LiveMapping, TypeOK
<1>7. Converts(native)
  BY <1>4, ConvertVoucherKeeps, Zenon DEF ConvertToContract, Vouchers
<1> QED
  BY <1>5, <1>6, <1>7, NothingMoves, ConversionKeeps, Zenon

(* OnRecvPacket credits and converts, or credits alone.                     *)
LEMMA RecvKeeps ==
  ASSUME ConvInv, NEW d \in Denoms, NEW n \in Amounts, OnRecvPacket(d, n)
  PROVE  ConvInv'
<1> DEFINE nat == [native EXCEPT ![d] = native[d] + n]
<1>1. ConvTypeOK /\ LiveMapping /\ n \in Nat /\ native \in [Denoms -> Nat]
      /\ outside \in [Denoms -> Nat]
  BY DEF ConvInv, ConvTypeOK, Amounts
<1>2. /\ outside[d] >= n /\ outside' = [outside EXCEPT ![d] = outside[d] - n]
      /\ packets' = packets /\ sent' = sent /\ UNCHANGED params /\ UNCHANGED vars
      /\ \/ CanBeConverted(d) /\ ConvertMapped(nat, d, n)
         \/ native' = nat /\ UNCHANGED <<locked, croEscrow, evm, tokens>>
  BY Zenon DEF OnRecvPacket
<1> USE <1>1
<1>3. nat \in [Denoms -> Nat] /\ nat \in [Denoms -> Int]
  OBVIOUS
<1> USE <1>2
<1>4. Moved(nat)
  <2>1. IbcOK'
    BY DEF ConvTypeOK, IbcOK
  <2>2. \A e \in Denoms : InFlight(e)' = InFlight(e) /\ InFlight(e) \in Nat
    BY SumsAreNat, Zenon DEF SumsOK, InFlight
  <2>3. \A e \in Denoms : nat[e] + outside'[e] = native[e] + outside[e]
    OBVIOUS
  <2>4. \A e \in Denoms : nat[e] \in Nat /\ outside'[e] \in Nat /\ native[e] \in Nat /\ outside[e] \in Nat
    OBVIOUS
  <2> HIDE DEF nat
  <2>5. ASSUME NEW e \in Denoms
        PROVE  nat[e] + InFlight(e)' + outside'[e] = native[e] + InFlight(e) + outside[e]
    <3>1. /\ nat[e] \in Nat /\ outside'[e] \in Nat /\ native[e] \in Nat /\ outside[e] \in Nat
          /\ InFlight(e) \in Nat /\ nat[e] + outside'[e] = native[e] + outside[e]
      BY <2>2, <2>3, <2>4, Zenon
    <3>2. nat[e] + InFlight(e) + outside'[e] = native[e] + InFlight(e) + outside[e]
      BY ONLY <3>1
    <3> QED
      BY ONLY <2>2, <3>2, e \in Denoms, Zenon
  <2> QED
    BY <2>1, <2>5, Zenon DEF Moved
<1>5. Converts(nat)
  <2> HIDE DEF nat
  <2> QED BY <1>3, ConvertMappedKeeps, NoConversionKeeps, Zenon
<1> HIDE DEF nat
<1> QED
  BY <1>3, <1>4, <1>5, MappingStays, ConversionKeeps, Zenon

(* An acknowledgement moves the packet's coins to the other chain.          *)
LEMMA AckKeeps ==
  ASSUME ConvInv, NEW p \in packets, OnAcknowledgementSuccess(p)
  PROVE  ConvInv'
<1>1. ConvTypeOK /\ LiveMapping /\ native \in [Denoms -> Nat] /\ outside \in [Denoms -> Nat]
  BY Zenon DEF ConvInv, ConvTypeOK
<1>2. /\ packets' = packets \ {p} /\ sent' = sent
      /\ outside' = [outside EXCEPT ![p.denom] = outside[p.denom] + p.amount]
      /\ native' = native /\ UNCHANGED <<locked, croEscrow, evm, tokens>>
      /\ UNCHANGED params /\ UNCHANGED vars
  BY Zenon DEF OnAcknowledgementSuccess, bank
<1> USE <1>1, <1>2
<1>3. /\ packets' \subseteq [seq : 0 .. sent' - 1, denom : Denoms, amount : Nat]
      /\ IsFiniteSet(packets')
      /\ p.denom \in Denoms /\ p.amount \in Nat
      /\ \A e \in Denoms : InFlight(e) = (IF p.denom = e THEN p.amount ELSE 0) + InFlight(e)'
      /\ \A e \in Denoms : InFlight(e)' \in Nat
  BY ReceiptRemoves, Zenon
<1> USE <1>3
<1>4. outside' \in [Denoms -> Nat]
  OBVIOUS
<1>5. IbcOK'
  BY <1>4, Zenon DEF IbcOK, ConvTypeOK
<1>6. Moved(native)
  <2>1. \A e \in Denoms : outside'[e] = outside[e] + (IF p.denom = e THEN p.amount ELSE 0)
    OBVIOUS
  <2>2. \A e \in Denoms : native[e] + InFlight(e)' + outside'[e] = native[e] + InFlight(e) + outside[e]
    <3> SUFFICES ASSUME NEW e \in Denoms
                 PROVE  native[e] + InFlight(e)' + outside'[e] = native[e] + InFlight(e) + outside[e]
      BY Zenon
    <3> DEFINE i == IF p.denom = e THEN p.amount ELSE 0
    <3>1. outside'[e] = outside[e] + i /\ InFlight(e) = i + InFlight(e)' /\ i \in Nat
      BY <2>1, Zenon
    <3>2. native[e] \in Nat /\ outside[e] \in Nat
      BY Zenon
    <3>3. InFlight(e)' \in Nat
      BY Zenon
    <3> HIDE DEF i
    <3> QED
      BY <3>1, <3>2, <3>3
  <2> QED
    BY <1>5, <2>2, Zenon DEF Moved
<1>7. Converts(native)
  BY NoConversionKeeps, Zenon
<1> QED
  BY <1>6, <1>7, MappingStays, ConversionKeeps

(* A refund gives them back, converted by the mapping of now or as they     *)
(* are.                                                                     *)
LEMMA RefundKeeps ==
  ASSUME ConvInv, NEW p \in packets, Refund(p)
  PROVE  ConvInv'
<1> DEFINE d == p.denom
           n == p.amount
           nat == [native EXCEPT ![d] = native[d] + n]
<1>1. ConvTypeOK /\ LiveMapping /\ native \in [Denoms -> Nat] /\ outside \in [Denoms -> Nat]
  BY Zenon DEF ConvInv, ConvTypeOK
<1>2. /\ packets' = packets \ {p} /\ sent' = sent /\ outside' = outside
      /\ UNCHANGED params /\ UNCHANGED vars
      /\ \/ CanBeConverted(d) /\ ConvertMapped(nat, d, n)
         \/ native' = nat /\ UNCHANGED <<locked, croEscrow, evm, tokens>>
  BY Zenon DEF Refund
<1> USE <1>1, <1>2
<1>3. /\ packets' \subseteq [seq : 0 .. sent' - 1, denom : Denoms, amount : Nat]
      /\ IsFiniteSet(packets')
      /\ d \in Denoms /\ n \in Nat
      /\ \A e \in Denoms : InFlight(e) = (IF d = e THEN n ELSE 0) + InFlight(e)'
      /\ \A e \in Denoms : InFlight(e)' \in Nat
  BY ReceiptRemoves, Zenon
<1> HIDE DEF d, n
<1> USE <1>3
<1>4. nat \in [Denoms -> Nat] /\ nat \in [Denoms -> Int]
  OBVIOUS
<1>5. IbcOK'
  BY Zenon DEF IbcOK, ConvTypeOK
<1>6. Moved(nat)
  <2>1. ASSUME NEW e \in Denoms
        PROVE  nat[e] + InFlight(e)' + outside'[e] = native[e] + InFlight(e) + outside[e]
    <3> DEFINE i == IF d = e THEN n ELSE 0
    <3>1. nat[e] = native[e] + i /\ InFlight(e) = i + InFlight(e)' /\ i \in Nat
      OBVIOUS
    <3>2. native[e] \in Nat /\ outside[e] \in Nat /\ outside'[e] = outside[e] /\ InFlight(e)' \in Nat
      BY Zenon
    <3> HIDE DEF i, nat
    <3> QED
      BY <3>1, <3>2
  <2> QED
    BY <1>5, <2>1, Zenon DEF Moved
<1>7. Converts(nat)
  <2> HIDE DEF nat
  <2> QED BY <1>4, ConvertMappedKeeps, NoConversionKeeps, Zenon
<1> HIDE DEF nat
<1> QED
  BY <1>4, <1>6, <1>7, MappingStays, ConversionKeeps, Zenon

(* A packet takes what it carries from what the user has.                   *)
LEMMA SendMoves ==
  ASSUME ConvTypeOK, NEW nat, NEW d \in Denoms, NEW n \in Nat, SendPacket(nat, d, n),
         NEW old, old = [native EXCEPT ![d] = native[d] - n]
  PROVE  old \in [Denoms -> Int] /\ Moved(old)
<1>1. native \in [Denoms -> Nat] /\ outside \in [Denoms -> Nat] /\ outside' = outside
  BY Zenon DEF ConvTypeOK, SendPacket
<1>2. IbcOK' /\ \A e \in Denoms : InFlight(e)' = (IF d = e THEN n ELSE 0) + InFlight(e)
  BY SendAdds, Zenon
<1>3. \A e \in Denoms : InFlight(e) \in Nat
  BY SumsAreNat, Zenon DEF SumsOK
<1> USE <1>1
<1>4. old \in [Denoms -> Int]
  OBVIOUS
<1>5. ASSUME NEW e \in Denoms
      PROVE  old[e] + InFlight(e)' + outside'[e] = native[e] + InFlight(e) + outside[e]
  <2> DEFINE i == IF d = e THEN n ELSE 0
  <2>1. old[e] = native[e] - i /\ InFlight(e)' = i + InFlight(e) /\ i \in Nat
    BY <1>2
  <2>2. native[e] \in Nat /\ outside[e] \in Nat /\ outside'[e] = outside[e] /\ InFlight(e) \in Nat
    BY <1>3, Zenon
  <2> HIDE DEF i
  <2> QED
    BY <2>1, <2>2
<1> QED
  BY <1>2, <1>4, <1>5, Zenon DEF Moved

(* MsgTransferTokens of a voucher keeps the invariant.                      *)
LEMMA TransferTokensKeeps ==
  ASSUME ConvInv, NEW d \in Denoms, NEW n \in Amounts, TransferTokens(d, n)
  PROVE  ConvInv'
<1> DEFINE old == [native EXCEPT ![d] = native[d] - n]
<1>1. ConvTypeOK /\ LiveMapping /\ n \in Nat /\ native \in [Denoms -> Nat]
  BY DEF ConvInv, ConvTypeOK, Amounts
<1>2. /\ SendPacket(native, d, n) /\ UNCHANGED <<locked, croEscrow, evm, tokens>>
      /\ UNCHANGED params /\ UNCHANGED vars
  BY Zenon DEF TransferTokens
<1> USE <1>1, <1>2
<1>3. native' = old /\ old \in [Denoms -> Nat]
  BY DEF SendPacket
<1> HIDE DEF old
<1>4. old \in [Denoms -> Int] /\ Moved(old)
  BY SendMoves, Zenon DEF old
<1>5. Converts(old)
  BY <1>3, NoConversionKeeps, Zenon
<1> QED
  BY <1>4, <1>5, MappingStays, ConversionKeeps, Zenon

(* What is burnt for m units of IBC CRO is m times the scale.               *)
LEMMA BurntIsScaled ==
  ASSUME NEW n \in Nat, NEW s \in Nat \ {0}
  PROVE  n \div s \in Nat /\ n - (n % s) = s * (n \div s) /\ n - (n % s) \in Nat
OBVIOUS

(* MsgTransferTokens of the EVM denom burns a multiple of the scale and no  *)
(* more.                                                                    *)
LEMMA TransferCroKeeps ==
  ASSUME ConvInv, NEW n \in Nat, TransferCro(n)
  PROVE  ConvInv'
<1> DEFINE d == ibcCroDenom
           m == n \div Scale
           burnt == n - (n % Scale)
           old == [native EXCEPT ![d] = native[d] - m]
<1>1. /\ ConvTypeOK /\ LiveMapping /\ native \in [Denoms -> Nat] /\ croEscrow \in [Denoms -> Nat]
      /\ d \in Vouchers /\ d \in Denoms /\ d \notin SourceDenoms /\ evm \in Nat
  BY Zenon DEF ConvInv, ConvTypeOK, Vouchers
<1>2. m \in Nat /\ burnt = Scale * m /\ burnt \in Nat /\ Scale \in Nat
  BY BurntIsScaled, ConversionAssumption, Zenon
<1>3. /\ evm >= burnt /\ croEscrow[d] >= m /\ evm' = evm - burnt
      /\ croEscrow' = [croEscrow EXCEPT ![d] = croEscrow[d] - m]
      /\ SendPacket([native EXCEPT ![d] = native[d] + m], d, m)
      /\ UNCHANGED <<locked, tokens>> /\ UNCHANGED params /\ UNCHANGED vars
  BY Zenon DEF TransferCro
<1> HIDE DEF m, burnt, d
<1> USE <1>1
<1>4. native' = native
  BY <1>2, <1>3 DEF SendPacket
<1>5. old \in [Denoms -> Int] /\ Moved(old)
  <2> HIDE DEF old
  <2> QED BY <1>2, <1>3, SendMoves, Zenon DEF old
<1>6. /\ croEscrow' \in [Denoms -> Nat]
      /\ SumOver(croEscrow', Denoms) = SumOver(croEscrow, Denoms) - m
  <2> DEFINE v == croEscrow[d] - m
  <2>1. v \in Nat /\ croEscrow' = [croEscrow EXCEPT ![d] = v] /\ croEscrow[d] \in Nat
    BY <1>2, <1>3
  <2>2. SumOver(croEscrow, Denoms) \in Nat
    BY SumsAreNat, Zenon DEF SumsOK
  <2> HIDE DEF v
  <2>3. /\ croEscrow' \in [Denoms -> Nat]
        /\ SumOver(croEscrow', Denoms) = SumOver(croEscrow, Denoms) - croEscrow[d] + v
    BY <2>1, EscrowChange, Zenon
  <2>4. SumOver(croEscrow', Denoms) = SumOver(croEscrow, Denoms) - croEscrow[d] + (croEscrow[d] - m)
    BY <2>3, Zenon DEF v
  <2> QED
    BY <1>2, <2>1, <2>2, <2>3, <2>4
<1>7. Converts(old)
  <2>1. BankOK'
    BY <1>2, <1>3, <1>4, <1>6 DEF BankOK, ConvTypeOK, tokens
  <2>2. \A e \in Vouchers :
          native'[e] + LockedOf(e)' + croEscrow'[e] = old[e] + LockedOf(e) + croEscrow[e]
    <3> SUFFICES ASSUME NEW e \in Vouchers
        PROVE native'[e] + LockedOf(e)' + croEscrow'[e] = old[e] + LockedOf(e) + croEscrow[e]
      BY Zenon
    <3> USE <1>3
    <3>1. e \in Denoms /\ LockedOf(e)' = LockedOf(e) /\ LockedOf(e) \in Nat
      BY SumsAreNat, Zenon DEF SumsOK, Vouchers, LockedOf
    <3> USE <1>4, <3>1
    <3>2. native'[e] \in Nat /\ croEscrow[e] \in Nat
      BY Zenon
    <3>3. CASE e = d
      <4>1. old[e] = native'[e] - m /\ croEscrow'[e] = croEscrow[e] - m
        BY <3>3, Zenon
      <4> HIDE DEF old
      <4> QED BY <1>2, <3>2, <4>1
    <3>4. CASE e # d
      <4>1. old[e] = native'[e] /\ croEscrow'[e] = croEscrow[e]
        BY <3>4, Zenon
      <4> HIDE DEF old
      <4> QED BY <3>2, <4>1, Zenon
    <3> QED
      BY <3>3, <3>4, Zenon
  <2>3. \A c \in Contracts \ SourceContracts :
          crc'[c] + held'[c] + LockedAt(c) = crc[c] + held[c] + LockedAt(c)'
    BY <1>3, Zenon DEF LockedAt, tokens
  <2>4. evm' + Scale * SumOver(croEscrow, Denoms) = evm + Scale * SumOver(croEscrow', Denoms)
    <3> DEFINE S == SumOver(croEscrow, Denoms)
               T == SumOver(croEscrow', Denoms)
    <3>1. S \in Nat /\ T = S - m
      BY <1>6, SumsAreNat, Zenon DEF SumsOK
    <3> HIDE DEF S, T
    <3>2. Scale * (S - m) = Scale * S - Scale * m /\ Scale * S \in Nat /\ Scale * m \in Nat
      BY <1>2, <3>1
    <3>3. Scale * T = Scale * S - Scale * m
      BY <3>1, <3>2, Zenon
    <3>4. evm' + Scale * S = evm + Scale * T
      BY <1>2, <1>3, <3>2, <3>3
    <3> QED
      BY <3>4, Zenon DEF S, T
  <2>5. \A e \in SourceDenoms :
          /\ GetContractByDenom(e) = None => native'[e] <= old[e]
          /\ GetContractByDenom(e) # None =>
               held[Embedded[e]] - held'[Embedded[e]] <= old[e] - native'[e]
    BY <1>3, <1>4, MappingAssumption DEF ConvTypeOK, tokens
  <2> QED
    BY <2>1, <2>2, <2>3, <2>4, <2>5, Zenon DEF Converts
<1> HIDE DEF old
<1> QED
  BY <1>3, <1>5, <1>7, MappingStays, ConversionKeeps, Zenon DEF ConvInv

(* A contract's coins are released: its account and the sum of the denom    *)
(* fall by the amount.                                                      *)
LEMMA ReleaseStep ==
  ASSUME ConvTypeOK, NEW c \in Contracts, NEW d \in Denoms, NEW n \in Nat, locked[c][d] >= n,
         locked' = [locked EXCEPT ![c][d] = locked[c][d] - n]
  PROVE  /\ locked' \in [Contracts -> [Denoms -> Nat]]
         /\ \A k \in Contracts : LockedAt(k)' = IF k = c THEN LockedAt(k) - n ELSE LockedAt(k)
         /\ \A e \in Denoms : LockedOf(e)' = IF e = d THEN LockedOf(e) - n ELSE LockedOf(e)
<1> DEFINE v == locked[c][d] - n
<1>1. /\ ConvTypeOK /\ c \in Contracts /\ d \in Denoms /\ v \in Nat
      /\ locked' = [locked EXCEPT ![c][d] = v] /\ locked[c][d] \in Nat
  BY DEF ConvTypeOK
<1>2. LockedAt(c) \in Nat /\ LockedOf(d) \in Nat
  BY SumsAreNat, Zenon DEF SumsOK
<1> HIDE DEF v
<1>3. /\ locked' \in [Contracts -> [Denoms -> Nat]]
      /\ \A k \in Contracts : LockedAt(k)' =
           IF k = c THEN LockedAt(k) - locked[c][d] + v ELSE LockedAt(k)
      /\ \A e \in Denoms : LockedOf(e)' =
           IF e = d THEN LockedOf(e) - locked[c][d] + v ELSE LockedOf(e)
  BY ONLY <1>1, LockedStep, Zenon
<1>4. LockedAt(c)' = LockedAt(c) - n /\ LockedOf(d)' = LockedOf(d) - n
  <2>1. /\ LockedAt(c)' = LockedAt(c) - locked[c][d] + (locked[c][d] - n)
        /\ LockedOf(d)' = LockedOf(d) - locked[c][d] + (locked[c][d] - n)
    BY <1>3, Zenon DEF v
  <2> QED
    BY <1>1, <1>2, <2>1
<1> QED
  BY <1>3, <1>4, Zenon

(* A contract with a current denom: that denom resolves to it, and is a     *)
(* source denom only if the contract is the one it embeds.                  *)
LEMMA DenomOfContract ==
  ASSUME LiveMapping, NEW c \in Contracts, GetDenomByContract(c) # None
  PROVE  /\ GetDenomByContract(c) \in Denoms
         /\ GetContractByDenom(GetDenomByContract(c)) = c
         /\ GetDenomByContract(c) \in SourceDenoms =>
              c = Embedded[GetDenomByContract(c)] /\ c \in SourceContracts
<1>1. GetDenomByContract(c) = rev[c] /\ rev[c] \in Denoms /\ GetContractByDenom(rev[c]) = c
  BY Zenon DEF GetDenomByContract, LiveMapping, TypeOK
<1>2. rev[c] \in SourceDenoms => c = Embedded[rev[c]] /\ c \in SourceContracts
  BY <1>1, MappingAssumption
     DEF LiveMapping, Agrees, SourcesEmbedded, GetContractByDenom, Resolve, SourceContracts
<1> QED
  BY <1>1, <1>2, Zenon

(* The SendToAccount hook releases what the contract burnt.                 *)
LEMMA SendToAccountKeeps ==
  ASSUME ConvInv, NEW c \in Contracts, NEW n \in Amounts, SendToAccount(c, n)
  PROVE  ConvInv'
<1> DEFINE d == GetDenomByContract(c)
<1>1. /\ ConvTypeOK /\ LiveMapping /\ n \in Nat /\ native \in [Denoms -> Nat]
      /\ crc \in [Contracts -> Nat] /\ croEscrow \in [Denoms -> Nat] /\ held \in [Contracts -> Nat]
  BY DEF ConvInv, ConvTypeOK, Amounts
<1>2. /\ d # None /\ locked[c][d] >= n /\ c \notin SourceContracts
      /\ locked' = [locked EXCEPT ![c][d] = locked[c][d] - n]
      /\ native' = [native EXCEPT ![d] = native[d] + n]
      /\ crc[c] >= n /\ crc' = [crc EXCEPT ![c] = crc[c] - n] /\ held' = held
      /\ UNCHANGED <<croEscrow, evm>> /\ UNCHANGED ibc /\ UNCHANGED params /\ UNCHANGED vars
  BY Zenon DEF SendToAccount, TakeTokens
<1> USE <1>1, <1>2
<1>3. d \in Denoms /\ d \notin SourceDenoms
  BY DenomOfContract, Zenon
<1> HIDE DEF d
<1>4. /\ locked' \in [Contracts -> [Denoms -> Nat]]
      /\ \A k \in Contracts : LockedAt(k)' = IF k = c THEN LockedAt(k) - n ELSE LockedAt(k)
      /\ \A e \in Denoms : LockedOf(e)' = IF e = d THEN LockedOf(e) - n ELSE LockedOf(e)
  BY <1>3, ReleaseStep, Zenon
<1>5. /\ \A e \in Denoms : LockedOf(e) \in Nat
      /\ \A k \in Contracts : LockedAt(k) \in Nat
  BY SumsAreNat, Zenon DEF SumsOK
<1>6. Converts(native)
  <2> USE <1>4
  <2>1. BankOK'
    BY DEF BankOK, ConvTypeOK
  <2>2. \A e \in Vouchers :
          native'[e] + LockedOf(e)' + croEscrow'[e] = native[e] + LockedOf(e) + croEscrow[e]
    BY <1>3, <1>5 DEF Vouchers
  <2>3. \A k \in Contracts \ SourceContracts :
          crc'[k] + held'[k] + LockedAt(k) = crc[k] + held[k] + LockedAt(k)'
    BY <1>5
  <2>4. evm' + Scale * SumOver(croEscrow, Denoms) = evm + Scale * SumOver(croEscrow', Denoms)
    BY Zenon
  <2>5. \A e \in SourceDenoms :
          /\ GetContractByDenom(e) = None => native'[e] <= native[e]
          /\ GetContractByDenom(e) # None =>
               held[Embedded[e]] - held'[Embedded[e]] <= native[e] - native'[e]
    BY <1>3, MappingAssumption
  <2> QED
    BY <2>1, <2>2, <2>3, <2>4, <2>5, Zenon DEF Converts
<1> QED
  BY <1>6, NothingMoves, MappingStays, ConversionKeeps, Zenon

(* The send_to_ibc hooks: a source coin is minted for the token taken, a    *)
(* voucher released for the token burnt.                                    *)
LEMMA SendToIbcKeeps ==
  ASSUME ConvInv, NEW c \in Contracts, NEW n \in Amounts, NEW channel \in BOOLEAN,
         HandleSendToIbc(c, n, channel)
  PROVE  ConvInv'
<1> DEFINE d == GetDenomByContract(c)
           old == [native EXCEPT ![d] = native[d] - n]
<1>1. /\ ConvTypeOK /\ LiveMapping /\ n \in Nat /\ native \in [Denoms -> Nat]
      /\ crc \in [Contracts -> Nat] /\ croEscrow \in [Denoms -> Nat] /\ held \in [Contracts -> Nat]
  BY DEF ConvInv, ConvTypeOK, Amounts
<1>2. /\ d # None
      /\ crc[c] >= n /\ crc' = [crc EXCEPT ![c] = crc[c] - n]
      /\ held' = IF c \in SourceContracts THEN [held EXCEPT ![c] = held[c] + n] ELSE held
      /\ \/ d \in SourceDenoms /\ locked' = locked
         \/ d \in Vouchers /\ locked[c][d] >= n
            /\ locked' = [locked EXCEPT ![c][d] = locked[c][d] - n]
      /\ SendPacket([native EXCEPT ![d] = native[d] + n], d, n)
      /\ UNCHANGED <<croEscrow, evm>> /\ UNCHANGED params /\ UNCHANGED vars
  BY Zenon DEF HandleSendToIbc, TakeTokens
<1> USE <1>1
<1>3. /\ d \in Denoms /\ GetContractByDenom(d) = c
      /\ d \in SourceDenoms => c = Embedded[d] /\ c \in SourceContracts
  BY <1>2, DenomOfContract, Zenon
<1> HIDE DEF d
<1>4. native' = native
  BY <1>2, <1>3 DEF SendPacket
<1>5. old \in [Denoms -> Int] /\ Moved(old)
  <2> HIDE DEF old
  <2> QED BY <1>2, <1>3, SendMoves, Zenon DEF old
<1>6. /\ \A e \in Denoms : LockedOf(e) \in Nat
      /\ \A k \in Contracts : LockedAt(k) \in Nat
  BY SumsAreNat, Zenon DEF SumsOK
<1>7. evm' + Scale * SumOver(croEscrow, Denoms) = evm + Scale * SumOver(croEscrow', Denoms)
  BY <1>2, Zenon
<1>8. held' \in [Contracts -> Nat] /\ crc' \in [Contracts -> Nat]
      /\ \A k \in Contracts : held'[k] >= held[k]
  BY <1>2
<1>9. CASE d \in SourceDenoms
  <2>1. locked' = locked /\ c = Embedded[d] /\ c \in SourceContracts /\ d \notin Vouchers
        /\ held' = [held EXCEPT ![c] = held[c] + n]
    BY <1>2, <1>3, <1>9, Zenon DEF Vouchers
  <2>2. BankOK'
    BY <1>2, <1>4, <1>8, <2>1, Zenon DEF BankOK, ConvTypeOK
  <2>3. \A e \in Vouchers :
          native'[e] + LockedOf(e)' + croEscrow'[e] = old[e] + LockedOf(e) + croEscrow[e]
    <3> SUFFICES ASSUME NEW e \in Vouchers
        PROVE native'[e] + LockedOf(e)' + croEscrow'[e] = old[e] + LockedOf(e) + croEscrow[e]
      BY Zenon
    <3>1. old[e] = native'[e] /\ LockedOf(e)' = LockedOf(e) /\ croEscrow' = croEscrow
      BY <1>2, <1>4, <2>1, Zenon DEF LockedOf, Vouchers
    <3> HIDE DEF old
    <3> QED BY <3>1, Zenon
  <2>4. \A k \in Contracts \ SourceContracts :
          crc'[k] + held'[k] + LockedAt(k) = crc[k] + held[k] + LockedAt(k)'
    BY <1>2, <2>1, Zenon DEF LockedAt
  <2>5. ASSUME NEW e \in SourceDenoms
        PROVE  /\ GetContractByDenom(e) = None => native'[e] <= old[e]
               /\ GetContractByDenom(e) # None =>
                    held[Embedded[e]] - held'[Embedded[e]] <= old[e] - native'[e]
    <3>1. e \in Denoms /\ Embedded[e] \in Contracts
      BY MappingAssumption, Zenon
    <3> USE <3>1
    <3>2. CASE e = d
      <4>1. old[e] = native'[e] - n /\ native'[e] \in Nat
        BY <1>4, <3>2, Zenon
      <4>2. /\ GetContractByDenom(e) # None /\ held[Embedded[e]] \in Nat
            /\ held'[Embedded[e]] = held[Embedded[e]] + n
        BY <1>3, <2>1, <3>2, MappingAssumption, Zenon
      <4> HIDE DEF old
      <4>3. held'[Embedded[e]] \in Nat /\ n \in Nat
        BY <1>8, Zenon
      <4>4. held[Embedded[e]] - held'[Embedded[e]] <= old[e] - native'[e]
        BY ONLY <4>1, <4>2, <4>3
      <4> QED BY ONLY <4>2, <4>4, Zenon
    <3>3. CASE e # d
      <4>1. old[e] = native'[e] /\ native'[e] \in Nat
        BY <1>4, <3>3, Zenon
      <4>2. held[Embedded[e]] <= held'[Embedded[e]] /\ held[Embedded[e]] \in Nat
            /\ held'[Embedded[e]] \in Nat
        BY <1>8, Zenon
      <4> HIDE DEF old
      <4> QED BY <4>1, <4>2
    <3> QED
      BY <3>2, <3>3, Zenon
  <2>6. Converts(old)
    BY <1>7, <2>2, <2>3, <2>4, <2>5, Zenon DEF Converts
  <2> HIDE DEF old
  <2> QED
    BY <1>2, <1>5, <2>6, MappingStays, ConversionKeeps, Zenon
<1>10. CASE d \in Vouchers
  <2> USE <1>2
  <2>1. d \notin SourceDenoms /\ locked[c][d] >= n
        /\ locked' = [locked EXCEPT ![c][d] = locked[c][d] - n]
    BY <1>10, Zenon DEF Vouchers
  <2>2. /\ locked' \in [Contracts -> [Denoms -> Nat]]
        /\ \A k \in Contracts : LockedAt(k)' = IF k = c THEN LockedAt(k) - n ELSE LockedAt(k)
        /\ \A e \in Denoms : LockedOf(e)' = IF e = d THEN LockedOf(e) - n ELSE LockedOf(e)
    BY <1>3, <2>1, ReleaseStep, Zenon
  <2> USE <1>4, <2>2
  <2>3. BankOK'
    BY <1>8, Zenon DEF BankOK, ConvTypeOK
  <2>4. \A e \in Vouchers :
          native'[e] + LockedOf(e)' + croEscrow'[e] = old[e] + LockedOf(e) + croEscrow[e]
    BY <1>3, <1>6 DEF Vouchers
  <2>5. \A k \in Contracts \ SourceContracts :
          crc'[k] + held'[k] + LockedAt(k) = crc[k] + held[k] + LockedAt(k)'
    BY <1>6
  <2>6. \A e \in SourceDenoms :
          /\ GetContractByDenom(e) = None => native'[e] <= old[e]
          /\ GetContractByDenom(e) # None =>
               held[Embedded[e]] - held'[Embedded[e]] <= old[e] - native'[e]
    BY <1>8, <2>1, MappingAssumption
  <2>7. Converts(old)
    BY <1>7, <2>3, <2>4, <2>5, <2>6, Zenon DEF Converts
  <2> HIDE DEF old
  <2> QED
    BY <1>5, <2>7, MappingStays, ConversionKeeps, Zenon
<1> QED
  BY <1>2, <1>9, <1>10, Zenon

(* Governance maps and unmaps; a source denom is mapped at most once.       *)
LEMMA ChangeMappingKeeps ==
  ASSUME ConvInv, ChangeMapping
  PROVE  ConvInv'
<1>1. ConvTypeOK /\ LiveMapping /\ Balances /\ TypeOK /\ Agrees /\ phase = "live"
  BY Zenon DEF ConvInv, LiveMapping
<1>2. UNCHANGED <<native, locked, croEscrow, evm, crc, held, outside, packets, sent>>
      /\ UNCHANGED params
  BY Zenon DEF ChangeMapping, bank, tokens, ibc
<1> USE <1>1
<1>3. /\ LiveMapping'
      /\ \A e \in SourceDenoms :
           GetContractByDenom(e) # None => GetContractByDenom(e)' = GetContractByDenom(e)
  <2>1. ASSUME NEW d \in Denoms, NEW c \in Contracts, RegisterMapping(d, c)
        PROVE  /\ LiveMapping'
               /\ \A e \in SourceDenoms :
                    GetContractByDenom(e) # None => GetContractByDenom(e)' = GetContractByDenom(e)
    <3>1. /\ SetExternalContractForDenom(d, c) /\ ValidateContractAddressForSourceDenom(d, c)
          /\ phase' = phase
      BY <2>1, Zenon DEF RegisterMapping, genesis
    <3> USE <3>1
    <3>2. Agrees'
      BY <1>1, SetKeepsWayBack, SetKeepsSources, Zenon DEF Agrees
    <3>3. TypeOK'
      BY <2>1, TypeStep, Zenon DEF Next
    <3>4. \A e \in SourceDenoms :
             GetContractByDenom(e) # None => GetContractByDenom(e)' = GetContractByDenom(e)
      BY MappingAssumption, Zenon DEF SetExternalContractForDenom, CanSetExternal,
        EnsureDenomNotMapped, GetContractByDenom, Resolve, TypeOK
    <3> QED
      BY <3>2, <3>3, <3>4, Zenon DEF LiveMapping
  <2>2. ASSUME NEW d \in Denoms, DeleteMapping(d)
        PROVE  /\ LiveMapping'
               /\ \A e \in SourceDenoms :
                    GetContractByDenom(e) # None => GetContractByDenom(e)' = GetContractByDenom(e)
    <3>1. DeleteExternalContractForDenom(d) /\ d \notin SourceDenoms /\ phase' = phase
      BY <2>2, Zenon DEF DeleteMapping, genesis
    <3> USE <3>1
    <3>2. Agrees'
      BY <1>1, DeleteKeepsWayBack, DeleteKeepsSources, Zenon DEF Agrees
    <3>3. TypeOK'
      BY <2>2, TypeStep, Zenon DEF Next
    <3>4. \A e \in SourceDenoms : GetContractByDenom(e)' = GetContractByDenom(e)
      BY MappingAssumption, Zenon
         DEF DeleteExternalContractForDenom, GetContractByDenom, Resolve, TypeOK
    <3> QED
      BY <3>2, <3>3, <3>4, Zenon DEF LiveMapping
  <2>3. ASSUME NEW c \in Contracts, UserDeploys(c)
        PROVE  /\ LiveMapping'
               /\ \A e \in SourceDenoms :
                    GetContractByDenom(e) # None => GetContractByDenom(e)' = GetContractByDenom(e)
    <3>1. TypeOK'
      BY <2>3, TypeStep, Zenon DEF Next
    <3> QED
      BY <2>3, <3>1, Zenon DEF UserDeploys, LiveMapping, Agrees, WayBack, SourcesEmbedded,
         GetContractByDenom, Resolve, tables, genesis
  <2> QED
    BY <2>1, <2>2, <2>3, Zenon DEF ChangeMapping
<1>4. ConvTypeOK'
  BY <1>2, Zenon DEF ConvTypeOK, params
<1>5. TokensBacked' /\ CroBacked' /\ VouchersConserved'
  <2> USE <1>2
  <2>1. TokensBacked'
    BY Zenon DEF Balances, TokensBacked, LockedAt
  <2>2. CroBacked'
    BY Zenon DEF Balances, CroBacked
  <2>3. VouchersConserved'
    BY Zenon DEF Balances, VouchersConserved, LockedOf, InFlight
  <2> QED
    BY <2>1, <2>2, <2>3, Zenon
<1>6. SourceInv'
  <2> SUFFICES ASSUME NEW e \in SourceDenoms
               PROVE  IF GetContractByDenom(e)' = None
                        THEN native[e] + InFlight(e) + outside[e] = 0
                        ELSE native[e] + InFlight(e) + outside[e] <= held[Embedded[e]]
    BY <1>2, Zenon DEF SourceInv, InFlight
  <2>1. IF GetContractByDenom(e) = None
          THEN native[e] + InFlight(e) + outside[e] = 0
          ELSE native[e] + InFlight(e) + outside[e] <= held[Embedded[e]]
    BY Zenon DEF Balances, SourceInv
  <2>2. held[Embedded[e]] \in Nat
    BY MappingAssumption, Zenon DEF ConvTypeOK
  <2>3. CASE GetContractByDenom(e) = None
    <3>1. native[e] + InFlight(e) + outside[e] = 0
      BY <2>1, <2>3, Zenon
    <3>2. native[e] + InFlight(e) + outside[e] <= held[Embedded[e]]
      BY ONLY <2>2, <3>1
    <3> QED
      BY <3>1, <3>2, Zenon
  <2>4. CASE GetContractByDenom(e) # None
    BY <1>3, <2>1, <2>4, Zenon
  <2> QED
    BY <2>3, <2>4, Zenon
<1> QED
  BY <1>3, <1>4, <1>5, <1>6, Zenon DEF ConvInv, Balances

(* Parameters and owners touch no balance.                                  *)
LEMMA IdleKeeps ==
  ASSUME ConvInv, UNCHANGED <<bank, tokens, ibc, vars>>,
         ibcCroDenom' \in Vouchers, enableAutoDeployment' \in BOOLEAN
  PROVE  ConvInv'
<1>1. ConvTypeOK' /\ LiveMapping'
  BY MappingStays, Zenon DEF ConvInv, ConvTypeOK, bank, tokens, ibc
<1>2. Balances'
  BY Zenon DEF ConvInv, Balances, TokensBacked, CroBacked, VouchersConserved, SourceInv,
     LockedAt,
    LockedOf, InFlight, bank, tokens, ibc, GetContractByDenom, Resolve, vars, tables
<1> QED
  BY <1>1, <1>2, Zenon DEF ConvInv

-----------------------------------------------------------------------------
(* At genesis nothing is converted, locked or under way.                    *)
LEMMA ConvInitInv == ConvInit => ConvInv
<1> SUFFICES ASSUME ConvInit PROVE ConvInv
  BY Zenon
<1>1. ConvTypeOK
  BY ConversionAssumption, FiniteEmpty, Zenon DEF ConvInit, ConvTypeOK
<1>2. LiveMapping
  BY MappingAssumption, Zenon
  DEF ConvInit, LiveMapping, Agrees, WayBack, SourcesEmbedded, TypeOK, GetContractByDenom,
      Resolve, SourceContracts
<1>3. \A d \in Denoms : InFlight(d) = 0
  <2> SUFFICES ASSUME NEW d \in Denoms PROVE InFlight(d) = 0
    BY Zenon
  <2>1. {p \in packets : p.denom = d} = {}
    BY Zenon DEF ConvInit
  <2>2. InFlight(d) = SumOver([p \in packets |-> p.amount], {})
    BY <2>1, Zenon DEF InFlight
  <2> QED
    BY <2>2, SumEmpty, Zenon
<1>4. \A d \in Denoms : LockedOf(d) = 0
  <2> SUFFICES ASSUME NEW d \in Denoms PROVE LockedOf(d) = 0
    BY Zenon
  <2>1. ASSUME NEW f, f = [c \in Contracts |-> locked[c][d]] PROVE SumOver(f, Contracts) = 0
    <3>1. \A c \in Contracts : f[c] = 0
      BY <2>1, Zenon DEF ConvInit
    <3> QED
      BY <3>1, SumZero, ConversionAssumption, Zenon
  <2> QED
    BY <2>1, Zenon DEF LockedOf
<1>5. \A c \in Contracts : LockedAt(c) = 0
  <2> SUFFICES ASSUME NEW c \in Contracts PROVE LockedAt(c) = 0
    BY Zenon
  <2>1. ASSUME NEW f, f = locked[c] PROVE SumOver(f, Denoms) = 0
    <3>1. \A d \in Denoms : f[d] = 0
      BY <2>1, Zenon DEF ConvInit
    <3> QED
      BY <3>1, SumZero, ConversionAssumption, Zenon
  <2> QED
    BY <2>1, Zenon DEF LockedAt
<1>6. SumOver(croEscrow, Denoms) = 0
  <2>1. \A d \in Denoms : croEscrow[d] = 0
    BY Zenon DEF ConvInit
  <2> QED
    BY <2>1, SumZero, ConversionAssumption, Zenon
<1>7. TokensBacked
  BY <1>5 DEF ConvInit, TokensBacked
<1>8. CroBacked
  BY <1>6, ConversionAssumption DEF ConvInit, CroBacked
<1>9. VouchersConserved
  <2> SUFFICES ASSUME NEW d \in Vouchers
               PROVE  native[d] + LockedOf(d) + croEscrow[d] + InFlight(d) + outside[d] = Stock[d]
    BY Zenon DEF VouchersConserved
  <2>1. /\ native[d] = 0 /\ LockedOf(d) = 0 /\ croEscrow[d] = 0 /\ InFlight(d) = 0
        /\ outside[d] = Stock[d] /\ Stock[d] \in Nat
    BY <1>3, <1>4, ConversionAssumption, Zenon DEF ConvInit, Vouchers
  <2> QED
    BY <2>1
<1>10. SourceInv
  <2> SUFFICES ASSUME NEW d \in SourceDenoms
               PROVE  native[d] + InFlight(d) + outside[d] = 0 /\ GetContractByDenom(d) = None
    BY Zenon DEF SourceInv
  <2> QED
    BY <1>3, ConversionAssumption, MappingAssumption DEF ConvInit, GetContractByDenom, Resolve
<1> QED
  BY <1>1, <1>2, <1>7, <1>8, <1>9, <1>10, Zenon DEF ConvInv, Balances

(* Every operation keeps the invariant.                                     *)
LEMMA ConvStep == ConvInv /\ [ConvNext]_convVars => ConvInv'
<1> SUFFICES ASSUME ConvInv, [ConvNext]_convVars PROVE ConvInv'
  BY Zenon
<1>1. ASSUME NEW d \in Denoms, NEW n \in Amounts,
             ConvertVouchers(d, n) \/ TransferTokens(d, n) \/ OnRecvPacket(d, n)
      PROVE  ConvInv'
  BY <1>1, ConvertVouchersKeeps, TransferTokensKeeps, RecvKeeps, Zenon
<1>2. ASSUME NEW d \in Denoms, NEW c \in Contracts, NEW n \in Amounts,
             ConvertVouchersDeploys(d, c, n)
      PROVE  ConvInv'
  BY <1>2, DeploysKeeps, Zenon
<1>3. ASSUME NEW n \in 1 .. Scale * MaxAmount, TransferCro(n) \/ SendCroToIbc(n)
      PROVE  ConvInv'
  <2>1. n \in Nat
    BY ConversionAssumption
  <2> QED
    BY <1>3, <2>1, TransferCroKeeps, Zenon DEF SendCroToIbc
<1>4. ASSUME NEW c \in Contracts, NEW n \in Amounts,
             SendToIbc(c, n) \/ SendToIbcV2(c, n) \/ SendToAccount(c, n)
      PROVE  ConvInv'
  BY <1>4, SendToIbcKeeps, SendToAccountKeeps, Zenon DEF SendToIbc, SendToIbcV2
<1>5. ASSUME NEW p \in packets, OnAcknowledgementSuccess(p) \/ Refund(p)
      PROVE  ConvInv'
  BY <1>5, AckKeeps, RefundKeeps, Zenon
<1>6. CASE ChangeMapping
  BY <1>6, ChangeMappingKeeps, Zenon
<1>7. ASSUME NEW d \in Vouchers, NEW b \in BOOLEAN, UpdateParams(d, b)
      PROVE  ConvInv'
  BY <1>7, IdleKeeps, Zenon DEF UpdateParams
<1>8. ASSUME NEW c \in Contracts, OwnerStops(c)
      PROVE  ConvInv'
  BY <1>8, IdleKeeps, Zenon DEF OwnerStops, ConvInv, ConvTypeOK, params
<1>9. CASE UNCHANGED convVars
  BY <1>9, IdleKeeps, Zenon DEF convVars, ConvInv, ConvTypeOK, params
<1> QED
  BY <1>1, <1>2, <1>3, <1>4, <1>5, <1>6, <1>7, <1>8, <1>9, Zenon DEF ConvNext

(* The inductive invariant holds of every reachable state.                  *)
THEOREM ConvInvHolds == ConvSpec => []ConvInv
BY ConvInitInv, ConvStep, PTL DEF ConvSpec

(* The tokens of a CRC21 contract are matched by the coins in its account,  *)
(* for any number of denoms, contracts and packets and any amounts          *)
(* (evm.go:125-140, send_to_ibc.go:108-123).                                *)
THEOREM TokensBackedHolds == ConvSpec => []TokensBacked
<1>1. ConvInv => TokensBacked
  BY Zenon DEF ConvInv, Balances
<1> QED
  BY <1>1, ConvInvHolds, PTL

(* A source coin exists only while the module holds a token for it          *)
(* (evm.go:108-124, send_to_ibc.go:109-117).                                *)
THEOREM SourceCoinsBackedHolds == ConvSpec => []SourceCoinsBacked
<1>1. ConvInv => SourceCoinsBacked
  <2> SUFFICES ASSUME ConvInv, NEW d \in SourceDenoms
               PROVE  native[d] + InFlight(d) + outside[d] <= held[Embedded[d]]
    BY Zenon DEF SourceCoinsBacked
  <2>1. IF GetContractByDenom(d) = None
          THEN native[d] + InFlight(d) + outside[d] = 0
          ELSE native[d] + InFlight(d) + outside[d] <= held[Embedded[d]]
    BY Zenon DEF ConvInv, Balances, SourceInv
  <2>2. held[Embedded[d]] \in Nat
    BY MappingAssumption, Zenon DEF ConvInv, ConvTypeOK
  <2> QED
    BY <2>1, <2>2
<1> QED
  BY <1>1, ConvInvHolds, PTL

(* The EVM coins minted for IBC CRO are matched by the coins in escrow, to  *)
(* the unit (ibc.go:31-58, 97-127).                                         *)
THEOREM CroBackedHolds == ConvSpec => []CroBacked
<1>1. ConvInv => CroBacked
  BY Zenon DEF ConvInv, Balances
<1> QED
  BY <1>1, ConvInvHolds, PTL

(* No voucher is made or lost (conversion_middleware.go:106-233).           *)
THEOREM VouchersConservedHolds == ConvSpec => []VouchersConserved
<1>1. ConvInv => VouchersConserved
  BY Zenon DEF ConvInv, Balances
<1> QED
  BY <1>1, ConvInvHolds, PTL
=============================================================================
