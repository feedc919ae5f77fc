------------------------------ MODULE DbMigrate ------------------------------
(***************************************************************************)
(* `cronosd database migrate` (cmd/cronosd/cmd/migrate_db.go,              *)
(* cmd/cronosd/dbmigrate/migrate.go) copies databases to another backend,  *)
(* into temporary directories beside them; swap-migrated-db.sh then moves  *)
(* the originals into a backup directory and the copies into their place.  *)
(* Either command can fail or be killed between any two of its steps and   *)
(* be run again, for other databases.                                      *)
(*                                                                         *)
(* External: the databases (a batch is written whole or not at all;        *)
(* opening a directory that is missing creates it, opening one of another  *)
(* backend fails), the node, and the operator, who runs the node and the   *)
(* commands one at a time, in any order, and may swap copies that nothing  *)
(* has verified.                                                           *)
(***************************************************************************)
EXTENDS Integers, Sequences, FiniteSets, Collections

CONSTANTS
  DbOrder,      \* the databases, in the order both commands take them
  KeyOrder,     \* the keys, in iterator order
  Values, None, \* stored values; no value under a key
  Backends,     \* the two backends
  FirstBackend, \* the backend of the node's databases at first
  Stored,       \* what each database holds at first
  Absent,       \* no directory
  BatchSize,
  MaxSessions,  \* bound: times the node runs
  MaxMigrations, \* bound: migrations started
  MaxFaults     \* bound: keys refused by a batch, commands that fail or are killed

Dbs  == Range(DbOrder)
Keys == Range(KeyOrder)
Contents == [Keys -> Values \cup {None}]
Directories == [backend : Backends, data : Contents]
NoKeys == [k \in Keys |-> None]
Other(b) == CHOOSE c \in Backends : c # b

ASSUME MigrateAssumption ==
  /\ DbOrder \in Seq(Dbs) /\ IsInjective(DbOrder)
  /\ KeyOrder \in Seq(Keys) /\ IsInjective(KeyOrder)
  /\ None \notin Values /\ Stored \in Contents /\ Absent \notin Directories \cup Backends
  /\ \E b, c \in Backends : b # c /\ Backends = {b, c}
  /\ FirstBackend \in Backends
  /\ BatchSize \in Nat \ {0}

VARIABLES
  live,     \* <db>.db
  temp,     \* <db>.migrate-temp.db
  backups,  \* what was moved into a backup directory
  pc,       \* next step of the running command, "idle" when there is none
  todo,     \* databases the command has yet to do, the current one first
  from,     \* source backend of the running migration
  verify,   \* its --verify
  rest,     \* keys its iterator has yet to reach
  batch,    \* keys set in its batch
  faults, sessions, migrations, \* counted against the bounds
  chain,    \* history: what the node has stored in each database, as long as
            \* it ran on databases that only verified copies took the place of
  vouched,  \* history: databases whose copy was verified since the node last ran
  unchecked, \* history: databases moved aside for a copy that was not vouched for
  created   \* history: databases whose directory a migration created

dirVars   == <<live, temp, backups>>
cmdVars   == <<pc, todo, from, verify, rest, batch>>
countVars == <<faults, sessions, migrations>>
histVars  == <<chain, vouched, unchecked, created>>
vars == <<dirVars, cmdVars, countVars, histVars>>

Init ==
  /\ live = [d \in Dbs |-> [backend |-> FirstBackend, data |-> Stored]]
  /\ chain = [d \in Dbs |-> Stored]
  /\ temp = [d \in Dbs |-> Absent]
  /\ backups = [d \in Dbs |-> {}]
  /\ pc = "idle" /\ todo = <<>> /\ from = Absent /\ verify = FALSE
  /\ rest = <<>> /\ batch = {}
  /\ faults = 0 /\ sessions = 0 /\ migrations = 0
  /\ vouched = {} /\ unchecked = {} /\ created = {}

-----------------------------------------------------------------------------
(* The node (external): its configuration names one backend, and it starts  *)
(* when it finds its databases, none of them new and empty.  A session      *)
(* changes one key of one of them.                                          *)
NodeRuns(d, k, v) ==
  /\ pc = "idle"
  /\ sessions < MaxSessions
  /\ created = {}
  /\ \E b \in Backends : \A e \in Dbs : live[e] # Absent /\ live[e].backend = b
  /\ live' = [live EXCEPT ![d].data[k] = v]
  /\ chain' = IF d \in unchecked THEN chain ELSE [chain EXCEPT ![d][k] = v]
  /\ vouched' = {}
  /\ sessions' = sessions + 1
  /\ UNCHANGED <<temp, backups, cmdVars, faults, migrations, unchecked, created>>

-----------------------------------------------------------------------------
(* The migration.                                                           *)

Current == Head(todo)

(* The selected databases in the command's order.                           *)
InOrder(S) == Filter(DbOrder, S)

Idle ==
  /\ pc' = "idle" /\ todo' = <<>> /\ from' = Absent /\ verify' = FALSE
  /\ rest' = <<>> /\ batch' = {}

(* The current database is done: the next one, or the end of the command.   *)
NextDb(first) ==
  IF Tail(todo) = <<>>
  THEN Idle
  ELSE /\ pc' = first /\ todo' = Tail(todo)
       /\ rest' = <<>> /\ batch' = {}
       /\ UNCHANGED <<from, verify>>

StartMigrate(S, b, v) ==
  /\ pc = "idle"
  /\ migrations < MaxMigrations
  /\ S # {}
  /\ pc' = "open" /\ todo' = InOrder(S) /\ from' = b /\ verify' = v
  /\ migrations' = migrations + 1
  /\ UNCHANGED <<rest, batch, dirVars, faults, sessions, histVars>>

(* Migrate opens the source, which creates a missing one, and the temporary *)
(* target, with whatever an earlier run left in it; the rest of the source  *)
(* directory's keys are to be copied.  A directory of another backend ends  *)
(* the command.                                                             *)
OpenDbs ==
  /\ pc = "open"
  /\ LET d == Current
         source == IF live[d] = Absent THEN [backend |-> from, data |-> NoKeys] ELSE live[d]
         target == IF temp[d] = Absent THEN [backend |-> Other(from), data |-> NoKeys]
                   ELSE temp[d]
         present == {k \in Keys : source.data[k] # None}
     IN  /\ live' = [live EXCEPT ![d] = source]
         /\ created' = IF live[d] = Absent THEN created \cup {d} ELSE created
         /\ IF source.backend = from /\ target.backend = Other(from)
            THEN /\ temp' = [temp EXCEPT ![d] = target]
                 /\ pc' = "copy" /\ rest' = Filter(KeyOrder, present)
                 /\ UNCHANGED <<todo, from, verify, batch>>
            ELSE Idle /\ UNCHANGED temp
  /\ vouched' = vouched \ {Current}
  /\ UNCHANGED <<backups, countVars, chain, unchecked>>

(* The target once the batch is written.                                    *)
Written(b) ==
  [temp EXCEPT ![Current].data =
     [k \in Keys |-> IF k \in b THEN live[Current].data[k] ELSE @[k]]]

(* migrateWithIterator, one key: into the batch, which is written when full. *)
CopyKey ==
  /\ pc = "copy"
  /\ rest # <<>>
  /\ LET b == batch \cup {Head(rest)}
         full == Cardinality(b) >= BatchSize
     IN  /\ temp' = IF full THEN Written(b) ELSE temp
         /\ batch' = IF full THEN {} ELSE b
  /\ rest' = Tail(rest)
  /\ UNCHANGED <<pc, todo, from, verify, live, backups, countVars, histVars>>

(* batch.Set fails: the key is counted and left out.                        *)
SetFails ==
  /\ pc = "copy"
  /\ rest # <<>>
  /\ faults < MaxFaults
  /\ faults' = faults + 1
  /\ rest' = Tail(rest)
  /\ UNCHANGED <<pc, todo, from, verify, batch, dirVars, sessions, migrations, histVars>>

(* The rest of the batch; the databases are flushed and closed.             *)
FinishCopy ==
  /\ pc = "copy"
  /\ rest = <<>>
  /\ temp' = Written(batch)
  /\ IF verify
     THEN /\ pc' = "verify" /\ batch' = {}
          /\ UNCHANGED <<todo, from, verify, rest>>
     ELSE NextDb("open")
  /\ UNCHANGED <<live, backups, countVars, histVars>>

(* Mutant: verification without its second phase.                           *)
MismatchesSourceOnly(source, target) ==
  {k \in Keys : source[k] # None /\ target[k] # source[k]}

(* verifyMigration.  Phase 1 finds the source keys that are missing or      *)
(* different in the target, phase 2 the target keys the source does not     *)
(* have; the two key counts differ only where one of them found something.  *)
Mismatches(source, target) ==
  {k \in Keys : source[k] # None /\ target[k] # source[k]}
    \cup {k \in Keys : target[k] # None /\ source[k] = None}

(* A mismatch ends the command; the copy stays where it is.                 *)
VerifyMigration ==
  /\ pc = "verify"
  /\ IF Mismatches(live[Current].data, temp[Current].data) = {}
     THEN vouched' = vouched \cup {Current} /\ NextDb("open")
     ELSE Idle /\ UNCHANGED vouched
  /\ UNCHANGED <<dirVars, countVars, chain, unchecked, created>>

-----------------------------------------------------------------------------
(* swap-migrated-db.sh.                                                     *)

(* The selected databases that have a temporary directory, complete or not. *)
AvailableDbs(S) == {d \in S : temp[d] # Absent}

StartSwap(S) ==
  /\ pc = "idle"
  /\ AvailableDbs(S) # {}
  /\ pc' = "aside" /\ todo' = InOrder(AvailableDbs(S))
  /\ UNCHANGED <<from, verify, rest, batch, dirVars, countVars, histVars>>

NoteUnchecked ==
  unchecked' = IF Current \in vouched THEN unchecked ELSE unchecked \cup {Current}

(* Mutant: a database without an original is skipped.                       *)
MoveAsideOrSkip ==
  /\ pc = "aside"
  /\ IF live[Current] = Absent
     THEN NextDb("aside") /\ UNCHANGED <<dirVars, unchecked>>
     ELSE /\ live' = [live EXCEPT ![Current] = Absent]
          /\ backups' = [backups EXCEPT ![Current] = @ \cup {live[Current]}]
          /\ NoteUnchecked
          /\ pc' = "install"
          /\ UNCHANGED <<temp, todo, from, verify, rest, batch>>
  /\ UNCHANGED <<countVars, chain, vouched, created>>

(* Mutant: a backup takes the place of an earlier one.                      *)
MoveAsideOver ==
  /\ pc = "aside"
  /\ live' = [live EXCEPT ![Current] = Absent]
  /\ backups' = IF live[Current] = Absent THEN backups
                ELSE [backups EXCEPT ![Current] = {live[Current]}]
  /\ NoteUnchecked
  /\ pc' = "install"
  /\ UNCHANGED <<temp, todo, from, verify, rest, batch, countVars, chain, vouched, created>>

(* mv original backup, if there is an original.  Backup directories carry   *)
(* the time, and mv into one that is there moves beside what it holds.      *)
MoveAside ==
  /\ pc = "aside"
  /\ live' = [live EXCEPT ![Current] = Absent]
  /\ backups' = IF live[Current] = Absent THEN backups
                ELSE [backups EXCEPT ![Current] = @ \cup {live[Current]}]
  /\ NoteUnchecked
  /\ pc' = "install"
  /\ UNCHANGED <<temp, todo, from, verify, rest, batch, countVars, chain, vouched, created>>

(* mv migrated original.                                                    *)
Install ==
  /\ pc = "install"
  /\ temp[Current] # Absent
  /\ live' = [live EXCEPT ![Current] = temp[Current]]
  /\ temp' = [temp EXCEPT ![Current] = Absent]
  /\ vouched' = vouched \ {Current}
  /\ created' = created \ {Current}
  /\ NextDb("aside")
  /\ UNCHANGED <<backups, chain, unchecked, countVars>>

-----------------------------------------------------------------------------
(* An open, read, write or move fails, or the process is killed: the        *)
(* command ends, and what its batch holds is lost.                          *)
Interrupt ==
  /\ pc # "idle"
  /\ faults < MaxFaults
  /\ faults' = faults + 1
  /\ Idle
  /\ UNCHANGED <<dirVars, sessions, migrations, histVars>>

Migrate == OpenDbs \/ CopyKey \/ SetFails \/ FinishCopy \/ VerifyMigration
Swap == MoveAside \/ Install

Next ==
  \/ \E d \in Dbs, k \in Keys, v \in Values \cup {None} : NodeRuns(d, k, v)
  \/ \E S \in SUBSET Dbs, b \in Backends, v \in BOOLEAN : StartMigrate(S, b, v)
  \/ \E S \in SUBSET Dbs : StartSwap(S)
  \/ Migrate \/ Swap \/ Interrupt

Spec == Init /\ [][Next]_vars

(* A command that is not killed goes on to its end, and an operator whose   *)
(* swap was interrupted runs it again for the databases that are missing.   *)
Fairness ==
  /\ WF_vars(Migrate) /\ WF_vars(Swap)
  /\ \A d \in Dbs : WF_vars(live[d] = Absent /\ StartSwap({d}))

FairSpec == Spec /\ Fairness

-----------------------------------------------------------------------------
TypeOK ==
  /\ live \in [Dbs -> Directories \cup {Absent}]
  /\ temp \in [Dbs -> Directories \cup {Absent}]
  /\ backups \in [Dbs -> SUBSET Directories]
  /\ pc \in {"idle", "open", "copy", "verify", "aside", "install"}
  /\ todo \in Seq(Dbs) /\ (pc = "idle") = (todo = <<>>)
  /\ from \in Backends \cup {Absent} /\ verify \in BOOLEAN
  /\ rest \in Seq(Keys) /\ batch \subseteq Keys
  /\ chain \in [Dbs -> Contents]
  /\ vouched \subseteq Dbs /\ unchecked \subseteq Dbs /\ created \subseteq Dbs

(* A copy that passed verification is exactly what the node stored, although*)
(* it was made over what an interrupted run, of the same or of older data,  *)
(* had left in the temporary directory (migrate.go:132, 393-492), unless a  *)
(* copy that nobody verified had taken its source's place before.           *)
VerifiedIsExact ==
  \A d \in vouched : temp[d] # Absent /\ (d \notin unchecked => temp[d].data = chain[d])

(* What the node's directory holds for it: the database in its place, or,   *)
(* where there is none but what a migration created, the copy.              *)
InPlace(d) == IF live[d] # Absent /\ d \notin created THEN live[d] ELSE temp[d]

BackedUp(d) == \E b \in backups[d] : b.data = chain[d]

(* Whatever commands were started, failed, killed and repeated, and in the  *)
(* middle of any of them, what the node stored is whole and found where an  *)
(* operator would look: in the database's place or its temporary directory  *)
(* as long as only verified copies were swapped; and once the script was    *)
(* given a copy that is incomplete, outdated or just not verified, in a     *)
(* backup, which no later swap replaces (swap-migrated-db.sh:177-188,       *)
(* 266-290).                                                                *)
DataSurvives ==
  \A d \in Dbs :
    IF d \in unchecked THEN BackedUp(d) ELSE InPlace(d) # Absent /\ InPlace(d).data = chain[d]

(* A swap that was interrupted between its two moves is completed by        *)
(* running it again: a database that is missing comes back, and with all    *)
(* its data if its copy had been verified, unless its operator runs a       *)
(* migration instead, which creates an empty one in its place               *)
(* (swap-migrated-db.sh:266-290, migrate.go:103).                           *)
SwapResumes ==
  \A d \in Dbs :
    live[d] = Absent ~>
      d \in created \/ (live[d] # Absent /\ (d \in unchecked \/ live[d].data = chain[d]))

-----------------------------------------------------------------------------
(* The inductive invariant of the proofs.                                   *)

(* What a running command relies on: the directories of a copy are there,   *)
(* only keys of the source are copied, and a swap takes copies that are     *)
(* there, each once, noting the ones that are not verified.                 *)
CommandInv ==
  /\ pc \in {"open", "copy", "verify"} => from \in Backends
  /\ pc \in {"copy", "verify"} =>
       Current \notin vouched /\ live[Current] # Absent /\ temp[Current] # Absent
  /\ pc = "copy" => \A k \in Range(rest) \cup batch : live[Current].data[k] # None
  /\ pc # "copy" => batch = {}
  /\ pc \in {"aside", "install"} =>
       IsInjective(todo) /\ \A d \in Range(todo) : temp[d] # Absent
  /\ pc = "install" => live[Current] = Absent /\ Current \in vouched \cup unchecked

(* A directory that a migration created is empty as long as it is in place. *)
CreatedIsEmpty ==
  \A d \in created : live[d] # Absent => live[d].data = NoKeys

(* Where the database is not in its place, its original is in a backup.     *)
MovedIsBackedUp ==
  \A d \in Dbs : live[d] = Absent \/ d \in created \cup unchecked => BackedUp(d)

MigrateInv ==
  /\ TypeOK /\ CommandInv /\ CreatedIsEmpty /\ MovedIsBackedUp
  /\ VerifiedIsExact /\ DataSurvives
=============================================================================
