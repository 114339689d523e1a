---------------------------- MODULE SchemaSetup ----------------------------
(***************************************************************************)
(* APIResource.setup_schema (api/api_resource.py): the migration files of  *)
(* the deployed code against the migrations table, under the import guard  *)
(* all workers share.                                                      *)
(*                                                                         *)
(* A migration is a record [name, sha].  executed is the sequence of       *)
(* scripts that made the magic schema what it is, which no table records:  *)
(* the migrations table is what the code believes about it.                *)
(***************************************************************************)
EXTENDS Integers, Sequences, FiniteSets, SequencesExt

CONSTANT Procs

VARIABLES fs,         \* get_migrations(): the files of the deployed code
          migrations, \* the rows of the migrations table, oldest first
          executed,   \* the scripts run since the schema was last dropped
          ready,      \* the shared schema_setup_event
          guard,      \* who holds the import guard
          boot        \* how far each process is within setup_schema

schemaVars == <<fs, migrations, executed, ready, guard, boot>>

Out == [at |-> "out", applied |-> {}, next |-> 1]
To(p, where) == boot' = [boot EXCEPT ![p] = [Out EXCEPT !.at = where]]

SchemaInit(files, applied) ==
  /\ fs = files /\ migrations = applied /\ executed = applied
  /\ ready = FALSE /\ guard = "free"
  /\ boot = [p \in Procs |-> Out]

(* The fast path needs no lock.                                            *)
SetupEnter(p) ==
  /\ boot[p].at = "out"
  /\ To(p, IF ready THEN "done" ELSE "wait")
  /\ UNCHANGED <<fs, migrations, executed, ready, guard>>

SetupLock(p) ==
  /\ boot[p].at = "wait" /\ guard = "free"
  /\ IF ready THEN To(p, "done") /\ UNCHANGED guard ELSE To(p, "compare") /\ guard' = p
  /\ UNCHANGED <<fs, migrations, executed, ready>>

(* The rows are compared with the files pair by pair.  At a pair that      *)
(* differs everything is dropped and what was seen so far forgotten, and   *)
(* the comparison goes on with the rows it had read.                       *)
Pairs == 1 .. (IF Len(migrations) < Len(fs) THEN Len(migrations) ELSE Len(fs))
Differ == {i \in Pairs : migrations[i] # fs[i]}

SetupCompare(p) ==
  /\ boot[p].at = "compare"
  /\ boot' = [boot EXCEPT ![p] = [at |-> "apply", next |-> 1,
                                  applied |-> {migrations[i].sha : i \in {j \in Pairs : \A d \in Differ : d < j}}]]
  /\ IF Differ = {} THEN UNCHANGED <<migrations, executed>> ELSE migrations' = <<>> /\ executed' = <<>>
  /\ UNCHANGED <<fs, ready, guard>>

(* A script and its row are committed together.  Mutant: the row is        *)
(* committed first.                                                        *)
SetupApplyRecordFirst(p) ==
  /\ boot[p].at = "apply" /\ boot[p].next <= Len(fs)
  /\ LET m == fs[boot[p].next]
     IN IF m.sha \in boot[p].applied \/ m \in Range(migrations)
        THEN /\ boot' = [boot EXCEPT ![p].next = @ + 1]
             /\ executed' = IF m.sha \in boot[p].applied THEN executed ELSE Append(executed, m)
             /\ UNCHANGED migrations
        ELSE migrations' = Append(migrations, m) /\ UNCHANGED <<executed, boot>>
  /\ UNCHANGED <<fs, ready, guard>>

SetupApply(p) ==
  /\ boot[p].at = "apply" /\ boot[p].next <= Len(fs)
  /\ LET m == fs[boot[p].next]
     IN IF m.sha \in boot[p].applied THEN UNCHANGED <<migrations, executed>>
        ELSE executed' = Append(executed, m) /\ migrations' = Append(migrations, m)
  /\ boot' = [boot EXCEPT ![p].next = @ + 1]
  /\ UNCHANGED <<fs, ready, guard>>

(* A script fails: its transaction is rolled back and the lock released.   *)
SetupFail(p) ==
  /\ boot[p].at = "apply" /\ boot[p].next <= Len(fs) /\ fs[boot[p].next].sha \notin boot[p].applied
  /\ To(p, "raised") /\ guard' = "free"
  /\ UNCHANGED <<fs, migrations, executed, ready>>

(* Mutant of SetupDone: the last file is not waited for.                   *)
SetupDoneEarly(p) ==
  /\ boot[p].at = "apply" /\ boot[p].next >= Len(fs)
  /\ ready' = TRUE /\ guard' = "free" /\ To(p, "done")
  /\ UNCHANGED <<fs, migrations, executed>>

SetupDone(p) ==
  /\ boot[p].at = "apply" /\ boot[p].next > Len(fs)
  /\ ready' = TRUE /\ guard' = "free" /\ To(p, "done")
  /\ UNCHANGED <<fs, migrations, executed>>

SetupStep(p) == SetupEnter(p) \/ SetupLock(p) \/ SetupCompare(p) \/ SetupApply(p) \/ SetupDone(p)

(* All processes go, with what they had not committed; the next start may  *)
(* be of another version of the code.                                      *)
Redeploy(files) ==
  /\ fs' = files /\ ready' = FALSE /\ guard' = "free"
  /\ boot' = [p \in Procs |-> Out]
  /\ UNCHANGED <<migrations, executed>>

-----------------------------------------------------------------------------
(* A migration that is recorded has run and one that has run is recorded,  *)
(* in the same order, wherever the process was stopped: setup_schema()     *)
(* trusts the table for what to skip.                                      *)
MigrationsTellTheTruth == migrations = executed

(* "if any already applied migrations differ from what we want to apply    *)
(* then drop everything": once the event is set, every file has run.       *)
ReadyMeansMigrated == ready => Range(fs) \subseteq Range(executed)
=============================================================================
