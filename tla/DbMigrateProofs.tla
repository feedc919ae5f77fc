--------------------------- MODULE DbMigrateProofs ---------------------------
(***************************************************************************)
(* Proofs, for any databases, keys, backends and batch size, that a copy   *)
(* which passed verification is exact, and that no command, failed, killed *)
(* or repeated, loses what the node stored: it is in its place as long as  *)
(* only verified copies are swapped, and else in a backup.                 *)
(***************************************************************************)
EXTENDS DbMigrate, CollectionTheorems

(* The databases of a command are the selected ones, each once.             *)
LEMMA InOrderFacts ==
  ASSUME NEW S \in SUBSET Dbs
  PROVE  /\ InOrder(S) \in Seq(Dbs) /\ Range(InOrder(S)) = S /\ IsInjective(InOrder(S))
         /\ S # {} => InOrder(S) # <<>>
<1>1. DbOrder \in Seq(Dbs) /\ IsInjective(DbOrder)
  BY MigrateAssumption, Zenon
<1> DEFINE r == Filter(DbOrder, S)
<1>2. r \in Seq(Dbs \cap S) /\ Range(r) = Range(DbOrder) \cap S /\ IsInjective(r)
  BY <1>1, FilterFacts, Zenon
<1> HIDE DEF r
<1>3. r \in Seq(Dbs) /\ Range(r) = S
  BY <1>2 DEF Dbs
<1>4. S # {} => r # <<>>
  BY <1>3 DEF Range
<1> QED
  BY <1>2, <1>3, <1>4, Zenon DEF InOrder, r

(* The keys an iterator will reach are those that the source has.           *)
LEMMA RestFacts ==
  ASSUME NEW S \in SUBSET Keys
  PROVE  Filter(KeyOrder, S) \in Seq(Keys) /\ Range(Filter(KeyOrder, S)) \subseteq S
<1>1. KeyOrder \in Seq(Keys)
  BY MigrateAssumption, Zenon
<1> DEFINE r == Filter(KeyOrder, S)
<1>2. r \in Seq(Keys \cap S) /\ Range(r) = Range(KeyOrder) \cap S
  BY <1>1, FilterFacts, Zenon
<1> HIDE DEF r
<1> QED
  BY <1>2 DEF r

(* Verification that finds no mismatch has compared equal contents.         *)
LEMMA NoMismatch ==
  ASSUME NEW a \in Contents, NEW b \in Contents, Mismatches(a, b) = {}
  PROVE  a = b
<1>1. \A k \in Keys : a[k] = b[k]
  BY Zenon DEF Mismatches
<1> QED
  BY <1>1 DEF Contents

(* The other backend is one.                                                *)
LEMMA OtherIsBackend == ASSUME NEW b PROVE Other(b) \in Backends
BY MigrateAssumption, Zenon DEF Other

-----------------------------------------------------------------------------
(* The types of the command and of the directories.                         *)
CommandTypeOK ==
  /\ pc \in {"idle", "open", "copy", "verify", "aside", "install"}
  /\ todo \in Seq(Dbs) /\ (pc = "idle") = (todo = <<>>)
  /\ from \in Backends \cup {Absent} /\ verify \in BOOLEAN
  /\ rest \in Seq(Keys) /\ batch \subseteq Keys

DirectoryTypeOK ==
  /\ live \in [Dbs -> Directories \cup {Absent}]
  /\ temp \in [Dbs -> Directories \cup {Absent}]
  /\ backups \in [Dbs -> SUBSET Directories]
  /\ chain \in [Dbs -> Contents]
  /\ vouched \subseteq Dbs /\ unchecked \subseteq Dbs /\ created \subseteq Dbs

(* The types, of the running command and of the directories.                *)
LEMMA TypeParts == TypeOK <=> CommandTypeOK /\ DirectoryTypeOK
BY Zenon DEF TypeOK, CommandTypeOK, DirectoryTypeOK

(* The same after a step.                                                   *)
LEMMA TypePartsNext == TypeOK' <=> CommandTypeOK' /\ DirectoryTypeOK'
BY Zenon DEF TypeOK, CommandTypeOK, DirectoryTypeOK

(* What the invariant says of one database.                                 *)
DbInv(d) ==
  /\ d \in created /\ live[d] # Absent => live[d].data = NoKeys
  /\ d \in vouched => temp[d] # Absent /\ (d \notin unchecked => temp[d].data = chain[d])
  /\ d \notin unchecked => InPlace(d) # Absent /\ InPlace(d).data = chain[d]
  /\ live[d] = Absent \/ d \in created \cup unchecked => BackedUp(d)

DataInv == \A d \in Dbs : DbInv(d)

(* The invariant, of the running command and database by database.          *)
LEMMA InvParts ==
  MigrateInv <=> CommandTypeOK /\ DirectoryTypeOK /\ CommandInv /\ DataInv
BY TypeParts, Zenon
DEF MigrateInv, DirectoryTypeOK, DataInv, DbInv, CreatedIsEmpty, MovedIsBackedUp,
    VerifiedIsExact, DataSurvives

(* The same after a step.                                                   *)
LEMMA InvPartsNext ==
  MigrateInv' <=> CommandTypeOK' /\ DirectoryTypeOK' /\ CommandInv' /\ DataInv'
BY TypePartsNext, Zenon
DEF MigrateInv, DirectoryTypeOK, DataInv, DbInv, CreatedIsEmpty, MovedIsBackedUp,
    VerifiedIsExact, DataSurvives

(* A step on one database keeps what holds of the others.                   *)
LEMMA OneDbStep ==
  ASSUME DataInv, NEW e \in Dbs, DbInv(e)',
         \A d \in Dbs \ {e} :
           /\ live'[d] = live[d] /\ temp'[d] = temp[d] /\ chain'[d] = chain[d]
           /\ backups'[d] = backups[d] /\ (d \in unchecked' <=> d \in unchecked)
           /\ (d \in vouched' => d \in vouched) /\ (d \in created' <=> d \in created)
  PROVE  DataInv'
<1> SUFFICES ASSUME NEW d \in Dbs PROVE DbInv(d)'
  BY Zenon DEF DataInv
<1>1. CASE d = e
  BY <1>1, Zenon
<1>2. CASE d # e
  <2>1. DbInv(d)
    BY Zenon DEF DataInv
  <2> QED
    BY <1>2, <2>1, Zenon DEF DbInv, InPlace, BackedUp
<1> QED
  BY <1>1, <1>2, Zenon

(* So does a step that leaves the directories alone.                        *)
LEMMA DataStays ==
  ASSUME DataInv, UNCHANGED <<live, temp, backups, chain, vouched, unchecked, created>>
  PROVE  DataInv'
BY Zenon DEF DataInv, DbInv, InPlace, BackedUp

(* The end of a command leaves nothing of it.                               *)
LEMMA IdleKeeps == Idle => CommandTypeOK' /\ CommandInv'
<1> SUFFICES ASSUME Idle PROVE CommandTypeOK' /\ CommandInv'
  BY Zenon
<1>1. <<>> \in Seq(Dbs) /\ <<>> \in Seq(Keys)
  OBVIOUS
<1> QED
  BY <1>1, Zenon DEF Idle, CommandTypeOK, CommandInv

(* A command that is done with one database goes on or ends.                *)
LEMMA NextDbKeeps ==
  ASSUME CommandTypeOK, pc # "idle", NEW first \in {"open", "aside"}, NextDb(first),
         first = "open" => from \in Backends,
         first = "aside" =>
           IsInjective(Tail(todo)) /\ \A d \in Range(Tail(todo)) : temp'[d] # Absent
  PROVE  CommandTypeOK' /\ CommandInv'
<1>1. CASE Tail(todo) = <<>>
  BY <1>1, IdleKeeps, Zenon DEF NextDb
<1>2. CASE Tail(todo) # <<>>
  <2>1. pc' = first /\ todo' = Tail(todo) /\ rest' = <<>> /\ batch' = {} /\ from' = from /\ verify' = verify
    BY <1>2, Zenon DEF NextDb
  <2>2. Tail(todo) \in Seq(Dbs) /\ <<>> \in Seq(Keys)
    BY HeadTail DEF CommandTypeOK
  <2>3. CommandTypeOK'
    BY <1>2, <2>1, <2>2, Zenon DEF CommandTypeOK
  <2>4. CommandInv'
    BY <2>1, Zenon DEF CommandInv
  <2> QED
    BY <2>3, <2>4, Zenon
<1> QED
  BY <1>1, <1>2, Zenon

(* A command that runs has a database at hand.                              *)
LEMMA CurrentIsDb ==
  ASSUME CommandTypeOK, pc # "idle"
  PROVE  todo # <<>> /\ todo \in Seq(Dbs) /\ Current \in Dbs /\ Current \in Range(todo)
<1>1. todo # <<>> /\ todo \in Seq(Dbs)
  BY Zenon DEF CommandTypeOK
<1> QED
  BY <1>1, HeadTail, Zenon DEF Current

-----------------------------------------------------------------------------
(* The node writes to the database in place, and no copy is vouched for     *)
(* any longer.                                                              *)
LEMMA NodeKeeps ==
  ASSUME MigrateInv, NEW d \in Dbs, NEW k \in Keys, NEW v \in Values \cup {None}, NodeRuns(d, k, v)
  PROVE  MigrateInv'
<1>1. CommandTypeOK /\ DirectoryTypeOK /\ CommandInv /\ DataInv
  BY InvParts, Zenon
<1>2. /\ pc = "idle" /\ created = {} /\ created' = {} /\ vouched' = {}
      /\ live[d] # Absent /\ temp' = temp /\ backups' = backups /\ unchecked' = unchecked
      /\ live' = [live EXCEPT ![d].data[k] = v]
      /\ chain' = IF d \in unchecked THEN chain ELSE [chain EXCEPT ![d][k] = v]
      /\ UNCHANGED cmdVars
  BY Zenon DEF NodeRuns
<1> USE <1>2
<1>3. /\ live[d] \in Directories /\ live[d].data \in Contents /\ chain[d] \in Contents
      /\ d \notin unchecked => live[d].data = chain[d]
  BY <1>1, Zenon DEF DirectoryTypeOK, Directories, DataInv, DbInv, InPlace
<1> DEFINE n == [live[d].data EXCEPT ![k] = v]
           l == [live[d] EXCEPT !.data = n]
           c == IF d \in unchecked THEN chain[d] ELSE [chain[d] EXCEPT ![k] = v]
<1>4. n \in Contents /\ c \in Contents /\ (d \notin unchecked => n = c)
  BY <1>3, Zenon DEF Contents
<1>5. l \in Directories /\ l.data = n
  BY <1>3, <1>4, Zenon DEF Directories
<1>6. l # Absent
  BY <1>5, MigrateAssumption, Zenon
<1>7. chain' = [chain EXCEPT ![d] = c]
  <2>1. chain \in [Dbs -> Contents]
    BY <1>1, Zenon DEF DirectoryTypeOK
  <2>2. CASE d \in unchecked
    BY <2>1, <2>2
  <2>3. CASE d \notin unchecked
    BY <2>3, Zenon
  <2> QED
    BY <2>2, <2>3, Zenon
<1>8. live' = [live EXCEPT ![d] = l]
  BY <1>3, Zenon
<1>0. d \in unchecked => c = chain[d]
  BY Zenon
<1> HIDE DEF c, l, n
<1>9. DirectoryTypeOK'
  <2>1. live \in [Dbs -> Directories \cup {Absent}] /\ chain \in [Dbs -> Contents]
    BY <1>1, Zenon DEF DirectoryTypeOK
  <2>2. live' \in [Dbs -> Directories \cup {Absent}]
    BY ONLY <1>5, <1>8, <2>1, d \in Dbs, Zenon
  <2>3. chain' \in [Dbs -> Contents]
    BY ONLY <1>4, <1>7, <2>1, d \in Dbs, Zenon
  <2> QED
    BY <1>1, <2>2, <2>3, Zenon DEF DirectoryTypeOK
<1>10. DbInv(d)'
  <2>1. live'[d] = l /\ chain'[d] = c /\ DbInv(d)
    BY <1>1, <1>7, <1>8, Zenon DEF DirectoryTypeOK, DataInv
  <2>2. d \in unchecked => BackedUp(d)'
    BY <1>0, <2>1, Zenon DEF DbInv, BackedUp
  <2> QED
    BY <1>4, <1>5, <1>6, <2>1, <2>2, Zenon DEF DbInv, InPlace
<1>11. DataInv'
  BY <1>1, <1>7, <1>8, <1>10, OneDbStep, Zenon DEF DirectoryTypeOK
<1>12. CommandTypeOK' /\ CommandInv'
  BY <1>1, Zenon DEF CommandTypeOK, CommandInv, cmdVars
<1> QED
  BY <1>9, <1>11, <1>12, InvPartsNext, Zenon

(* A migration starts.                                                      *)
LEMMA StartMigrateKeeps ==
  ASSUME MigrateInv, NEW S \in SUBSET Dbs, NEW b \in Backends, NEW v \in BOOLEAN, StartMigrate(S, b, v)
  PROVE  MigrateInv'
<1>1. CommandTypeOK /\ DirectoryTypeOK /\ CommandInv /\ DataInv
  BY InvParts, Zenon
<1>2. /\ pc = "idle" /\ S # {} /\ pc' = "open" /\ todo' = InOrder(S) /\ from' = b /\ verify' = v
      /\ rest' = rest /\ batch' = batch /\ UNCHANGED dirVars /\ UNCHANGED histVars
  BY Zenon DEF StartMigrate
<1> USE <1>2
<1>3. InOrder(S) \in Seq(Dbs) /\ InOrder(S) # <<>>
  BY InOrderFacts, Zenon
<1> USE <1>1
<1>4. CommandTypeOK'
  BY <1>3, Zenon DEF CommandTypeOK
<1>5. CommandInv'
  BY Zenon DEF CommandInv
<1>6. DirectoryTypeOK' /\ DataInv'
  BY DataStays, Zenon DEF DirectoryTypeOK, dirVars, histVars
<1> QED
  BY <1>4, <1>5, <1>6, InvPartsNext, Zenon

(* So does a swap, of the copies there are.                                 *)
LEMMA StartSwapKeeps ==
  ASSUME MigrateInv, NEW S \in SUBSET Dbs, StartSwap(S)
  PROVE  MigrateInv'
<1> DEFINE A == AvailableDbs(S)
<1>1. CommandTypeOK /\ DirectoryTypeOK /\ CommandInv /\ DataInv
  BY InvParts, Zenon
<1>2. /\ pc = "idle" /\ A # {} /\ (\A d \in A : temp[d] # Absent) /\ A \subseteq Dbs
      /\ pc' = "aside" /\ todo' = InOrder(A)
      /\ UNCHANGED <<from, verify, rest, batch>> /\ UNCHANGED dirVars /\ UNCHANGED histVars
  BY Zenon DEF StartSwap, AvailableDbs
<1> HIDE DEF A
<1> USE <1>2
<1>3. InOrder(A) \in Seq(Dbs) /\ InOrder(A) # <<>> /\ Range(InOrder(A)) = A /\ IsInjective(InOrder(A))
  BY InOrderFacts, Zenon
<1> USE <1>1
<1>4. CommandTypeOK'
  BY <1>3, Zenon DEF CommandTypeOK
<1>5. CommandInv'
  BY <1>3, Zenon DEF CommandInv, dirVars, histVars
<1>6. DirectoryTypeOK' /\ DataInv'
  BY DataStays, Zenon DEF DirectoryTypeOK, dirVars, histVars
<1> QED
  BY <1>4, <1>5, <1>6, InvPartsNext, Zenon

(* Migrate opens its two directories: one that it creates is empty, and it  *)
(* creates the source only where the copy holds the data.                   *)
LEMMA OpenKeeps == ASSUME MigrateInv, OpenDbs PROVE MigrateInv'
<1>1. CommandTypeOK /\ DirectoryTypeOK /\ CommandInv /\ DataInv
  BY InvParts, Zenon
<1>2. pc = "open" /\ from \in Backends
  BY <1>1, Zenon DEF OpenDbs, CommandInv
<1>0. PICK d : d = Current
  BY Zenon
<1> DEFINE empty == [backend |-> from, data |-> NoKeys]
           fresh == [backend |-> Other(from), data |-> NoKeys]
           source == IF live[d] = Absent THEN empty ELSE live[d]
           target == IF temp[d] = Absent THEN fresh ELSE temp[d]
           present == {k \in Keys : source.data[k] # None}
           opened == source.backend = from /\ target.backend = Other(from)
<1>3. d \in Dbs /\ todo \in Seq(Dbs) /\ todo # <<>>
  BY <1>0, <1>1, <1>2, CurrentIsDb, Zenon
<1>4. empty \in Directories /\ fresh \in Directories /\ empty.data = NoKeys
  BY <1>2, OtherIsBackend, Zenon DEF Directories, NoKeys, Contents
<1>5. /\ live[d] = Absent => source = empty
      /\ live[d] # Absent => source = live[d]
      /\ temp[d] # Absent => target = temp[d]
  BY Zenon
<1>6. source \in Directories /\ target \in Directories
  BY <1>1, <1>3, <1>4, Zenon DEF DirectoryTypeOK
<1>7. source # Absent /\ target # Absent
  BY <1>6, MigrateAssumption, Zenon
<1>8. /\ live' = [live EXCEPT ![d] = source]
      /\ created' = IF live[d] = Absent THEN created \cup {d} ELSE created
      /\ opened => /\ temp' = [temp EXCEPT ![d] = target]
                   /\ pc' = "copy" /\ rest' = Filter(KeyOrder, present)
                   /\ UNCHANGED <<todo, from, verify, batch>>
      /\ ~opened => Idle /\ temp' = temp
      /\ vouched' = vouched \ {d} /\ backups' = backups /\ chain' = chain
      /\ unchecked' = unchecked
  BY <1>0, Zenon DEF OpenDbs
<1>9. present \in SUBSET Keys /\ \A k \in present : source.data[k] # None
  BY Zenon
<1> HIDE DEF empty, fresh, source, target, present, opened
<1> USE <1>8
<1>10. temp' = temp \/ temp' = [temp EXCEPT ![d] = target]
  BY Zenon
<1>11. DirectoryTypeOK'
  BY <1>1, <1>3, <1>6, <1>10, Zenon DEF DirectoryTypeOK
<1>12. live'[d] = source /\ chain'[d] = chain[d] /\ d \notin vouched' /\ (temp[d] # Absent => temp'[d] = temp[d])
  BY <1>1, <1>3, <1>5, <1>10, Zenon DEF DirectoryTypeOK
<1>13. DbInv(d)
  BY <1>1, <1>3, Zenon DEF DataInv
<1>14. ASSUME live[d] = Absent PROVE DbInv(d)'
  <2>1. d \in created' /\ source.data = NoKeys
    BY <1>4, <1>5, <1>14, Zenon
  <2>2. d \notin unchecked => InPlace(d)' = temp[d] /\ InPlace(d) = temp[d]
    BY <1>12, <1>13, <1>14, <2>1, Zenon DEF InPlace, DbInv
  <2> QED
    BY <1>12, <1>13, <1>14, <2>1, <2>2, Zenon DEF DbInv, BackedUp
<1>15. ASSUME live[d] # Absent PROVE DbInv(d)'
  <2>1. (d \in created' <=> d \in created) /\ live'[d] = live[d]
    BY <1>5, <1>12, <1>15, Zenon
  <2> QED
    BY <1>12, <1>13, <1>15, <2>1, Zenon DEF DbInv, InPlace, BackedUp
<1>16. DbInv(d)'
  BY <1>14, <1>15, Zenon
<1>17. \A e \in Dbs \ {d} :
         /\ live'[e] = live[e] /\ temp'[e] = temp[e] /\ chain'[e] = chain[e]
         /\ backups'[e] = backups[e] /\ (e \in unchecked' <=> e \in unchecked)
         /\ (e \in vouched' => e \in vouched) /\ (e \in created' <=> e \in created)
  BY <1>1, <1>10, Zenon DEF DirectoryTypeOK
<1>18. DataInv'
  BY <1>1, <1>3, <1>16, <1>17, OneDbStep, Zenon
<1>19. ASSUME opened PROVE CommandTypeOK' /\ CommandInv'
  <2>1. Filter(KeyOrder, present) \in Seq(Keys) /\ Range(Filter(KeyOrder, present)) \subseteq present
    BY <1>9, RestFacts, Zenon
  <2> USE <1>1, <1>19
  <2>2. pc' = "copy" /\ todo' = todo /\ from' = from /\ verify' = verify /\ batch' = {} /\ batch = {}
    BY <1>2, Zenon DEF CommandInv
  <2>3. rest' \in Seq(Keys) /\ Range(rest') \subseteq present
    BY <2>1, Zenon
  <2> USE <2>2
  <2>4. CommandTypeOK'
    BY <1>3, <2>3, Zenon DEF CommandTypeOK
  <2>5. Current' = d /\ temp'[d] = target
    BY <1>0, <1>3, Zenon DEF Current, DirectoryTypeOK
  <2>6. CommandInv'
    BY <1>2, <1>7, <1>9, <1>12, <2>3, <2>5, Zenon DEF CommandInv
  <2> QED
    BY <2>4, <2>6, Zenon
<1>20. ASSUME ~opened PROVE CommandTypeOK' /\ CommandInv'
  BY <1>20, IdleKeeps, Zenon
<1> QED
  BY <1>11, <1>18, <1>19, <1>20, InvPartsNext, Zenon

(* A batch goes to a copy nobody vouches for; a source that a migration     *)
(* created has no keys, so that the batch leaves its copy as it was.        *)
LEMMA WrittenKeeps ==
  ASSUME MigrateInv, pc = "copy", NEW b \in SUBSET Keys,
         \A k \in b : live[Current].data[k] # None,
         temp' = Written(b), UNCHANGED <<live, backups, chain, vouched, unchecked, created>>
  PROVE  DirectoryTypeOK' /\ DataInv' /\ temp'[Current] # Absent
<1>0. PICK d : d = Current
  BY Zenon
<1>1. CommandTypeOK /\ DirectoryTypeOK /\ CommandInv /\ DataInv
  BY InvParts, Zenon
<1> USE <1>1
<1>2. d \in Dbs /\ d \notin vouched /\ live[d] # Absent /\ temp[d] # Absent
  BY <1>0, CurrentIsDb, Zenon DEF CommandInv
<1> USE <1>2
<1>3. /\ live[d] \in Directories /\ temp[d] \in Directories
      /\ live[d].data \in Contents /\ temp[d].data \in Contents
  BY Zenon DEF DirectoryTypeOK, Directories
<1> DEFINE w == [k \in Keys |-> IF k \in b THEN live[d].data[k] ELSE temp[d].data[k]]
           t == [temp[d] EXCEPT !.data = w]
<1>4. w \in Contents
  BY <1>3, Zenon DEF Contents
<1>5. t \in Directories /\ t.data = w
  BY <1>3, <1>4, Zenon DEF Directories
<1>6. t # Absent
  BY <1>5, MigrateAssumption, Zenon
<1>7. temp' = [temp EXCEPT ![d] = t]
  BY <1>0, <1>3, Zenon DEF Written, DirectoryTypeOK
<1>8. d \in created => w = temp[d].data
  <2> SUFFICES ASSUME d \in created PROVE w = temp[d].data
    BY Zenon
  <2>1. live[d].data = NoKeys
    BY Zenon DEF DataInv, DbInv
  <2>2. b = {}
    BY <1>0, <2>1, Zenon DEF NoKeys
  <2> QED
    BY <1>3, <2>2, Zenon DEF Contents
<1> HIDE DEF w, t
<1> USE <1>7
<1>9. DirectoryTypeOK'
  BY <1>5, Zenon DEF DirectoryTypeOK
<1>10. temp'[d] = t /\ live'[d] = live[d] /\ chain'[d] = chain[d]
  BY Zenon DEF DirectoryTypeOK
<1>11. DbInv(d)
  BY Zenon DEF DataInv
<1>12. DbInv(d)'
  BY <1>5, <1>6, <1>8, <1>10, <1>11, Zenon DEF DbInv, InPlace, BackedUp
<1>13. DataInv'
  BY <1>12, OneDbStep, Zenon DEF DirectoryTypeOK
<1> QED
  BY <1>0, <1>6, <1>9, <1>10, <1>13, Zenon

(* A key goes into the batch, and the batch, when full, to the copy.        *)
LEMMA CopyKeyKeeps == ASSUME MigrateInv, CopyKey PROVE MigrateInv'
<1> DEFINE b == batch \cup {Head(rest)}
<1>1. CommandTypeOK /\ DirectoryTypeOK /\ CommandInv /\ DataInv
  BY InvParts, Zenon
<1>2. /\ pc = "copy" /\ rest # <<>> /\ rest' = Tail(rest)
      /\ \/ temp' = Written(b) /\ batch' = {}
         \/ temp' = temp /\ batch' = b
      /\ UNCHANGED <<pc, todo, from, verify, live, backups>> /\ UNCHANGED histVars
  BY Zenon DEF CopyKey
<1> USE <1>1, <1>2
<1>3. /\ Head(rest) \in Keys /\ Head(rest) \in Range(rest)
      /\ Tail(rest) \in Seq(Keys) /\ Range(Tail(rest)) \subseteq Range(rest)
  BY HeadTail DEF CommandTypeOK
<1>4. b \subseteq Keys /\ b \subseteq Range(rest) \cup batch
  BY <1>3, Zenon DEF CommandTypeOK
<1>5. \A k \in Range(rest) \cup batch : live[Current].data[k] # None
  BY Zenon DEF CommandInv
<1> HIDE DEF b
<1>6. DirectoryTypeOK' /\ DataInv' /\ temp'[Current] # Absent
  <2>1. CASE temp' = Written(b)
    BY <1>4, <1>5, <2>1, WrittenKeeps, Zenon DEF histVars
  <2>2. CASE temp' = temp
    BY <2>2, DataStays, Zenon DEF histVars, DirectoryTypeOK, CommandInv
  <2> QED
    BY <2>1, <2>2, Zenon
<1>7. batch' \subseteq b
  BY Zenon
<1>8. CommandTypeOK'
  BY <1>3, <1>4, <1>7, Zenon DEF CommandTypeOK
<1>9. Current' = Current
  BY Zenon DEF Current
<1>10. CommandInv'
  BY <1>3, <1>4, <1>5, <1>6, <1>7, <1>9, Zenon DEF CommandInv, histVars
<1> QED
  BY <1>6, <1>8, <1>10, InvPartsNext, Zenon

(* A key that the batch refuses is left out.                                *)
LEMMA SetFailsKeeps == ASSUME MigrateInv, SetFails PROVE MigrateInv'
<1>1. CommandTypeOK /\ DirectoryTypeOK /\ CommandInv /\ DataInv
  BY InvParts, Zenon
<1>2. /\ pc = "copy" /\ rest # <<>> /\ rest' = Tail(rest)
      /\ UNCHANGED <<pc, todo, from, verify, batch>> /\ UNCHANGED dirVars /\ UNCHANGED histVars
  BY Zenon DEF SetFails
<1> USE <1>1, <1>2
<1>3. Tail(rest) \in Seq(Keys) /\ Range(Tail(rest)) \subseteq Range(rest)
  BY HeadTail DEF CommandTypeOK
<1>4. DirectoryTypeOK' /\ DataInv'
  BY DataStays, Zenon DEF DirectoryTypeOK, dirVars, histVars
<1>5. CommandTypeOK'
  BY <1>3, Zenon DEF CommandTypeOK
<1>6. Current' = Current
  BY Zenon DEF Current
<1>7. CommandInv'
  BY <1>3, <1>6, Zenon DEF CommandInv, dirVars, histVars
<1> QED
  BY <1>4, <1>5, <1>7, InvPartsNext, Zenon

(* The last batch is written; verification, the next database or the end.   *)
LEMMA FinishCopyKeeps == ASSUME MigrateInv, FinishCopy PROVE MigrateInv'
<1>1. CommandTypeOK /\ DirectoryTypeOK /\ CommandInv /\ DataInv
  BY InvParts, Zenon
<1>2. /\ pc = "copy" /\ rest = <<>> /\ temp' = Written(batch)
      /\ UNCHANGED <<live, backups>> /\ UNCHANGED histVars
      /\ verify => pc' = "verify" /\ batch' = {} /\ UNCHANGED <<todo, from, verify, rest>>
      /\ ~verify => NextDb("open")
  BY Zenon DEF FinishCopy
<1> USE <1>2
<1>3. /\ from \in Backends /\ batch \in SUBSET Keys
      /\ Current \notin vouched /\ live[Current] # Absent
      /\ \A k \in batch : live[Current].data[k] # None
  BY <1>1, Zenon DEF CommandInv, CommandTypeOK
<1>4. DirectoryTypeOK' /\ DataInv' /\ temp'[Current] # Absent
  BY <1>3, WrittenKeeps, Zenon DEF histVars
<1>5. ASSUME verify PROVE CommandTypeOK' /\ CommandInv'
  <2>1. pc' = "verify" /\ batch' = {} /\ todo' = todo /\ from' = from /\ verify' = verify /\ rest' = rest
    BY <1>5, Zenon
  <2> USE <2>1
  <2>2. Current' = Current
    BY Zenon DEF Current
  <2>3. CommandTypeOK'
    BY <1>1, Zenon DEF CommandTypeOK
  <2>4. CommandInv'
    BY <1>3, <1>4, <2>2, Zenon DEF CommandInv, histVars
  <2> QED
    BY <2>3, <2>4, Zenon
<1>6. ASSUME ~verify PROVE CommandTypeOK' /\ CommandInv'
  BY <1>1, <1>3, <1>6, NextDbKeeps, Zenon
<1> QED
  BY <1>4, <1>5, <1>6, InvPartsNext, Zenon

(* Verification vouches for a copy that equals its source: the database in  *)
(* place, or an empty one, and then the copy is the data it was.            *)
LEMMA VerifyKeeps == ASSUME MigrateInv, VerifyMigration PROVE MigrateInv'
<1>0. PICK d : d = Current
  BY Zenon
<1> DEFINE same == Mismatches(live[d].data, temp[d].data) = {}
<1>1. CommandTypeOK /\ DirectoryTypeOK /\ CommandInv /\ DataInv
  BY InvParts, Zenon
<1>2. /\ pc = "verify" /\ UNCHANGED dirVars /\ chain' = chain /\ created' = created
      /\ unchecked' = unchecked
      /\ same => vouched' = vouched \cup {d} /\ NextDb("open")
      /\ ~same => Idle /\ vouched' = vouched
  BY <1>0, Zenon DEF VerifyMigration
<1> USE <1>1, <1>2
<1>3. d \in Dbs /\ live[d] # Absent /\ temp[d] # Absent /\ from \in Backends
  BY <1>0, CurrentIsDb, Zenon DEF CommandInv
<1> USE <1>3
<1>4. live[d].data \in Contents /\ temp[d].data \in Contents
  BY Zenon DEF DirectoryTypeOK, Directories
<1>5. same => live[d].data = temp[d].data
  BY <1>4, NoMismatch, Zenon
<1> HIDE DEF same
<1>6. DirectoryTypeOK'
  BY Zenon DEF DirectoryTypeOK, dirVars
<1>7. DbInv(d)
  BY Zenon DEF DataInv
<1>8. DbInv(d)'
  BY <1>5, <1>7, Zenon DEF DbInv, InPlace, BackedUp, dirVars
<1>9. DataInv'
  BY <1>8, OneDbStep, Zenon DEF dirVars
<1>10. CommandTypeOK' /\ CommandInv'
  BY IdleKeeps, NextDbKeeps, Zenon
<1> QED
  BY <1>6, <1>9, <1>10, InvPartsNext, Zenon

(* The original is moved to the backups; its copy holds the data if it is   *)
(* vouched for, and if not the backups do.                                  *)
LEMMA MoveAsideKeeps == ASSUME MigrateInv, MoveAside PROVE MigrateInv'
<1>0. PICK d : d = Current
  BY Zenon
<1>1. CommandTypeOK /\ DirectoryTypeOK /\ CommandInv /\ DataInv
  BY InvParts, Zenon
<1>2. /\ pc = "aside" /\ pc' = "install" /\ live' = [live EXCEPT ![d] = Absent]
      /\ backups' = IF live[d] = Absent THEN backups ELSE [backups EXCEPT ![d] = @ \cup {live[d]}]
      /\ unchecked' = IF d \in vouched THEN unchecked ELSE unchecked \cup {d}
      /\ UNCHANGED <<temp, todo, from, verify, rest, batch>>
      /\ chain' = chain /\ vouched' = vouched /\ created' = created
  BY <1>0, Zenon DEF MoveAside, NoteUnchecked
<1> USE <1>1, <1>2
<1>3. d \in Dbs /\ temp[d] # Absent
  BY <1>0, CurrentIsDb, Zenon DEF CommandInv
<1> USE <1>3
<1>4. backups' \in [Dbs -> SUBSET Directories]
  BY Zenon DEF DirectoryTypeOK
<1>5. DirectoryTypeOK'
  BY <1>4, Zenon DEF DirectoryTypeOK
<1>6. live'[d] = Absent /\ DbInv(d)
  BY Zenon DEF DirectoryTypeOK, DataInv
<1>7. /\ live[d] = Absent => backups'[d] = backups[d]
      /\ live[d] # Absent => backups'[d] = backups[d] \cup {live[d]}
  BY Zenon DEF DirectoryTypeOK
<1>8. BackedUp(d)'
  <2>1. CASE live[d] = Absent \/ d \in created \cup unchecked
    BY <1>6, <1>7, <2>1, Zenon DEF DbInv, BackedUp
  <2>2. CASE live[d] # Absent /\ d \notin created \cup unchecked
    BY <1>6, <1>7, <2>2, Zenon DEF DbInv, BackedUp, InPlace
  <2> QED
    BY <2>1, <2>2, Zenon
<1>9. DbInv(d)'
  BY <1>6, <1>8, Zenon DEF DbInv, InPlace
<1>10. \A e \in Dbs \ {d} :
         /\ live'[e] = live[e] /\ backups'[e] = backups[e]
         /\ (e \in unchecked' <=> e \in unchecked)
  BY Zenon DEF DirectoryTypeOK
<1>11. DataInv'
  BY <1>9, <1>10, OneDbStep, Zenon
<1>12. CommandTypeOK'
  BY Zenon DEF CommandTypeOK
<1>13. Current' = d
  BY <1>0, Zenon DEF Current
<1>14. CommandInv'
  BY <1>6, <1>13, Zenon DEF CommandInv
<1> QED
  BY <1>5, <1>11, <1>12, <1>14, InvPartsNext, Zenon

(* The copy takes the original's place.                                     *)
LEMMA InstallKeeps == ASSUME MigrateInv, Install PROVE MigrateInv'
<1>0. PICK d : d = Current
  BY Zenon
<1>1. CommandTypeOK /\ DirectoryTypeOK /\ CommandInv /\ DataInv
  BY InvParts, Zenon
<1>2. /\ pc = "install" /\ temp[d] # Absent /\ live' = [live EXCEPT ![d] = temp[d]]
      /\ temp' = [temp EXCEPT ![d] = Absent] /\ vouched' = vouched \ {d}
      /\ created' = created \ {d} /\ NextDb("aside") /\ UNCHANGED <<backups, chain, unchecked>>
  BY <1>0, Zenon DEF Install
<1> USE <1>1, <1>2
<1>3. d \in Dbs /\ d \in vouched \cup unchecked /\ todo \in Seq(Dbs) /\ todo # <<>>
  BY <1>0, CurrentIsDb, Zenon DEF CommandInv
<1> USE <1>3
<1>4. DirectoryTypeOK'
  BY Zenon DEF DirectoryTypeOK
<1>5. live'[d] = temp[d] /\ DbInv(d)
  BY Zenon DEF DirectoryTypeOK, DataInv
<1>6. DbInv(d)'
  BY <1>5, Zenon DEF DbInv, InPlace, BackedUp
<1>7. DataInv'
  BY <1>6, OneDbStep, Zenon DEF DirectoryTypeOK
<1>8. IsInjective(todo) /\ \A e \in Range(todo) : temp[e] # Absent
  BY Zenon DEF CommandInv
<1>9. IsInjective(Tail(todo)) /\ Range(Tail(todo)) \subseteq Range(todo) \ {d}
  BY <1>0, <1>8, HeadTail DEF Current
<1>10. Range(todo) \subseteq Dbs
  BY ONLY todo \in Seq(Dbs) DEF Range
<1>11. \A e \in Range(Tail(todo)) : temp'[e] # Absent
  BY <1>8, <1>9, <1>10, Zenon DEF DirectoryTypeOK
<1>12. CommandTypeOK' /\ CommandInv'
  BY <1>9, <1>11, NextDbKeeps, Zenon
<1> QED
  BY <1>4, <1>7, <1>12, InvPartsNext, Zenon

(* A command that fails or is killed leaves the directories as they are.    *)
LEMMA InterruptKeeps == ASSUME MigrateInv, Interrupt PROVE MigrateInv'
<1>1. CommandTypeOK /\ DirectoryTypeOK /\ CommandInv /\ DataInv
  BY InvParts, Zenon
<1>2. DirectoryTypeOK' /\ DataInv'
  BY <1>1, DataStays, Zenon DEF Interrupt, DirectoryTypeOK, dirVars, histVars
<1> QED
  BY <1>2, IdleKeeps, InvPartsNext, Zenon DEF Interrupt

-----------------------------------------------------------------------------
(* The first state: every database in place, nothing copied.                *)
LEMMA MigrateInit == Init => MigrateInv
<1> SUFFICES ASSUME Init PROVE MigrateInv
  BY Zenon
<1> DEFINE l == [backend |-> FirstBackend, data |-> Stored]
<1>2. l \in Directories /\ l.data = Stored /\ Stored \in Contents
  BY MigrateAssumption, Zenon DEF Directories
<1> USE <1>2
<1>3. l # Absent
  BY MigrateAssumption, Zenon
<1>4. live = [d \in Dbs |-> l]
  BY Zenon DEF Init
<1> HIDE DEF l
<1>5. <<>> \in Seq(Dbs) /\ <<>> \in Seq(Keys)
  OBVIOUS
<1>6. CommandTypeOK /\ CommandInv
  BY <1>5, Zenon DEF Init, CommandTypeOK, CommandInv
<1>7. DirectoryTypeOK
  BY <1>4, Zenon DEF Init, DirectoryTypeOK
<1>8. DataInv
  BY <1>3, <1>4, Zenon DEF Init, DataInv, DbInv, InPlace
<1> QED
  BY <1>6, <1>7, <1>8, InvParts, Zenon

(* Every step of a command, of the node and of a kill keeps the invariant.  *)
LEMMA MigrateStep == MigrateInv /\ [Next]_vars => MigrateInv'
<1> SUFFICES ASSUME MigrateInv, [Next]_vars PROVE MigrateInv'
  BY Zenon
<1>1. ASSUME NEW d \in Dbs, NEW k \in Keys, NEW v \in Values \cup {None}, NodeRuns(d, k, v)
      PROVE  MigrateInv'
  BY <1>1, NodeKeeps, Zenon
<1>2. ASSUME NEW S \in SUBSET Dbs, NEW b \in Backends, NEW v \in BOOLEAN, StartMigrate(S, b, v)
      PROVE  MigrateInv'
  BY <1>2, StartMigrateKeeps, Zenon
<1>3. ASSUME NEW S \in SUBSET Dbs, StartSwap(S) PROVE MigrateInv'
  BY <1>3, StartSwapKeeps, Zenon
<1>4. CASE Migrate
  BY <1>4, OpenKeeps, CopyKeyKeeps, SetFailsKeeps, FinishCopyKeeps, VerifyKeeps, Zenon
     DEF Migrate
<1>5. CASE Swap
  BY <1>5, MoveAsideKeeps, InstallKeeps, Zenon DEF Swap
<1>6. CASE Interrupt
  BY <1>6, InterruptKeeps, Zenon
<1>7. CASE UNCHANGED vars
  <2>1. CommandTypeOK /\ DirectoryTypeOK /\ CommandInv /\ DataInv
    BY InvParts, Zenon
  <2> USE <1>7
  <2>2. DirectoryTypeOK' /\ DataInv'
    BY <2>1, DataStays, Zenon DEF DirectoryTypeOK, vars, dirVars, histVars
  <2>3. Current' = Current
    BY Zenon DEF Current, vars, cmdVars
  <2>4. CommandTypeOK' /\ CommandInv'
    BY <2>1, <2>3, Zenon DEF CommandTypeOK, CommandInv, vars, dirVars, cmdVars, histVars
  <2> QED
    BY <2>2, <2>4, InvPartsNext, Zenon
<1> QED
  BY <1>1, <1>2, <1>3, <1>4, <1>5, <1>6, <1>7, Zenon DEF Next

(* The invariant of the two commands: whatever was run, failed, killed and  *)
(* repeated, the running command's directories are there, it copies only    *)
(* keys of its source, and a database that is not in its place is in a      *)
(* backup (migrate.go:71-265, swap-migrated-db.sh:177-290).                 *)
THEOREM MigrateInvHolds == Spec => []MigrateInv
<1> QED
  BY MigrateInit, MigrateStep, PTL DEF Spec

(* A copy that passed verification is exactly what the node stored, for any *)
(* databases, keys and batch size, and over whatever an interrupted run     *)
(* left in the temporary directory, as long as no unverified copy was       *)
(* swapped in for its source (migrate.go:132, 393-492).                     *)
THEOREM VerifiedIsExactHolds == Spec => []VerifiedIsExact
<1>1. MigrateInv => VerifiedIsExact
  BY Zenon DEF MigrateInv
<1> QED
  BY <1>1, MigrateInvHolds, PTL

(* In the middle of any command, and after any that failed or was killed,   *)
(* what the node stored is whole: in its place or its temporary directory   *)
(* while only verified copies are swapped, and in a backup once the script  *)
(* was given any other (swap-migrated-db.sh:177-188, 266-290).              *)
THEOREM DataSurvivesHolds == Spec => []DataSurvives
<1>1. MigrateInv => DataSurvives
  BY Zenon DEF MigrateInv
<1> QED
  BY <1>1, MigrateInvHolds, PTL
=============================================================================
