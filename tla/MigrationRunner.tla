--------------------------- MODULE MigrationRunner ---------------------------
(***************************************************************************)
(* Runs of the migration runner against one database: the advisory lock,   *)
(* the ledger of checksums, one transaction for each file, and processes   *)
(* that die at any point and are started again.                            *)
(* Source: infrastructure/postgres/migrate.ts                              *)
(*                                                                         *)
(* A checkout is the directory a run reads: the content of the files       *)
(* 1, 2, ... in the order of their names, None where it has no such file.  *)
(* The checksum of a content is the content.                               *)
(***************************************************************************)
EXTENDS Naturals

CONSTANTS
  Run,      \* processes that migrate
  File,     \* files, named by their numbers
  Content,
  None,
  Checkouts \* the directories runs may be started on

VARIABLES
  lockHolder, \* pg_advisory_lock(MIGRATION_LOCK_ID)
  ledger,     \* schema_migrations: the checksum of each file, or None
  executed,   \* how often the SQL of each file has taken effect
  runs

vars == <<lockHolder, ledger, executed, runs>>

ASSUME FileAssumption ==
  File \subseteq Nat /\ None \notin Content \cup File \cup Run
(* Files are added at the end: a directory without a file has no later one.*)
ASSUME CheckoutAssumption ==
  /\ Checkouts \subseteq [File -> Content \cup {None}]
  /\ \A checkout \in Checkouts, f, g \in File :
       f < g /\ checkout[g] # None => checkout[f] # None

Phase == {"locking", "reading", "applying", "recording", "failing",
          "finishing", "failed", "done"}

RunRow == [phase: Phase, checkout: Checkouts, next: File \cup {None}]

TypeOK ==
  /\ lockHolder \in Run \cup {None}
  /\ ledger \in [File -> Content \cup {None}]
  /\ executed \in [File -> Nat]
  /\ runs \in [Run -> RunRow]

Init ==
  /\ lockHolder = None
  /\ ledger = [f \in File |-> None]
  /\ executed = [f \in File |-> 0]
  /\ runs \in [Run -> [phase: {"locking"}, checkout: Checkouts, next: {None}]]

(* The connection of the run holds the lock, or has it still to release.   *)
Locked == {"reading", "applying", "recording", "failing", "finishing"}

Become(r, phase) == runs' = [runs EXCEPT ![r].phase = phase]

(* Mutant: the lock is taken without waiting for its holder.               *)
LockRegardless(r) ==
  /\ runs[r].phase = "locking"
  /\ lockHolder' = r
  /\ runs' = [runs EXCEPT ![r].phase = "reading", ![r].next = None]
  /\ UNCHANGED <<ledger, executed>>

(* The lock, then ensureLedger and the list of the directory.              *)
Lock(r) ==
  /\ runs[r].phase = "locking" /\ lockHolder = None
  /\ lockHolder' = r
  /\ runs' = [runs EXCEPT ![r].phase = "reading", ![r].next = None]
  /\ UNCHANGED <<ledger, executed>>

(* The files of the run that are still to be looked at.                    *)
Unread(r) ==
  {f \in File : /\ runs[r].checkout[f] # None
                /\ runs[r].next # None => runs[r].next < f}

First(f, files) == f \in files /\ \A g \in files : f <= g

(* Mutant: a file the ledger knows is skipped whatever its content.        *)
ReadSkipping(r) ==
  /\ runs[r].phase = "reading"
  /\ \/ Unread(r) = {} /\ Become(r, "finishing")
     \/ \E f \in File :
          /\ First(f, Unread(r))
          /\ runs' = [runs EXCEPT ![r].next = f,
               ![r].phase = IF ledger[f] = None THEN "applying" ELSE "reading"]
  /\ UNCHANGED <<lockHolder, ledger, executed>>

(* The loop: a file of the ledger is skipped if its checksum is the same,  *)
(* and the end of the run if not; any other is applied.                    *)
Read(r) ==
  /\ runs[r].phase = "reading"
  /\ \/ Unread(r) = {} /\ Become(r, "finishing")
     \/ \E f \in File :
          /\ First(f, Unread(r))
          /\ runs' = [runs EXCEPT ![r].next = f,
               ![r].phase = IF ledger[f] = None THEN "applying"
                            ELSE IF ledger[f] = runs[r].checkout[f] THEN "reading"
                            ELSE "failing"]
  /\ UNCHANGED <<lockHolder, ledger, executed>>

(* applyMigration: the SQL of the file, inside its transaction.            *)
Execute(r) ==
  /\ runs[r].phase = "applying"
  /\ Become(r, "recording") \/ Become(r, "failing")
  /\ UNCHANGED <<lockHolder, ledger, executed>>

(* Mutant: the row is inserted in a transaction of its own.                *)
RecordOnly(r) ==
  /\ runs[r].phase = "recording"
  /\ ledger' = [ledger EXCEPT ![runs[r].next] = runs[r].checkout[runs[r].next]]
  /\ Become(r, "reading")
  /\ UNCHANGED <<lockHolder, executed>>

(* The row of the file, unique by its name, and COMMIT: SQL and row take   *)
(* effect together.  ROLLBACK if the name is taken or the commit fails.    *)
Record(r) ==
  LET f == runs[r].next
  IN  /\ runs[r].phase = "recording"
      /\ \/ /\ ledger[f] = None
            /\ ledger' = [ledger EXCEPT ![f] = runs[r].checkout[f]]
            /\ executed' = [executed EXCEPT ![f] = @ + 1]
            /\ Become(r, "reading")
         \/ /\ Become(r, "failing")
            /\ UNCHANGED <<ledger, executed>>
      /\ UNCHANGED lockHolder

(* Mutant: only a run that went well releases the lock.                    *)
UnlockWhenDone(r) ==
  /\ runs[r].phase \in {"failing", "finishing"}
  /\ lockHolder' = IF runs[r].phase = "finishing" THEN None ELSE lockHolder
  /\ Become(r, IF runs[r].phase = "finishing" THEN "done" ELSE "failed")
  /\ UNCHANGED <<ledger, executed>>

(* finally: the lock is released, however the loop ended.                  *)
Unlock(r) ==
  /\ runs[r].phase \in {"failing", "finishing"}
  /\ lockHolder' = None
  /\ Become(r, IF runs[r].phase = "finishing" THEN "done" ELSE "failed")
  /\ UNCHANGED <<ledger, executed>>

(* The process or its connection dies: the server rolls its transaction    *)
(* back and releases its lock.                                             *)
Die(r) ==
  /\ runs[r].phase \in Locked \cup {"locking"}
  /\ lockHolder' = IF runs[r].phase \in Locked THEN None ELSE lockHolder
  /\ Become(r, "failed")
  /\ UNCHANGED <<ledger, executed>>

(* Somebody runs it again, on the same checkout or on another.             *)
Start(r) ==
  /\ runs[r].phase \in {"failed", "done"}
  /\ \E checkout \in Checkouts :
       runs' = [runs EXCEPT ![r] =
         [phase |-> "locking", checkout |-> checkout, next |-> None]]
  /\ UNCHANGED <<lockHolder, ledger, executed>>

Work(r) == Lock(r) \/ Read(r) \/ Execute(r) \/ Record(r) \/ Unlock(r)

Next == \E r \in Run : Work(r) \/ Die(r) \/ Start(r)

Spec == Init /\ [][Next]_vars

(* A process goes on as long as it lives, and PostgreSQL queues the        *)
(* sessions that wait for the lock.                                        *)
FairSpec ==
  Spec /\ \A r \in Run :
            /\ WF_vars(Read(r) \/ Execute(r) \/ Record(r) \/ Unlock(r))
            /\ SF_vars(Lock(r))
----------------------------------------------------------------------------
(* The ledger has a row for exactly the files whose SQL has taken effect,  *)
(* and no SQL has taken effect twice, wherever processes died.             *)
LedgerIsTheSchema ==
  \A f \in File : executed[f] = IF ledger[f] = None THEN 0 ELSE 1

(* A run that comes to the end has every file of its checkout applied, by  *)
(* itself or by another run, with the content it has.                      *)
DoneMeansApplied ==
  \A r \in Run, f \in File :
    runs[r].phase = "done" /\ runs[r].checkout[f] # None
    => ledger[f] = runs[r].checkout[f]

(* No run executes the SQL of a file another run has applied: it would     *)
(* fail, or find its row in the way.                                       *)
NobodyIsAhead ==
  \A r \in Run :
    runs[r].phase \in {"applying", "recording"} => ledger[runs[r].next] = None

(* No migration is applied before one it may build on: none is skipped.    *)
NoGaps ==
  \A f, g \in File : f < g /\ ledger[g] # None => ledger[f] # None

(* Every run comes to an end, whoever holds the lock and whoever dies.     *)
EveryRunEnds ==
  \A r \in Run : runs[r].phase = "locking" ~> runs[r].phase \in {"failed", "done"}
=============================================================================
