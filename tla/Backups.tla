------------------------------ MODULE Backups ------------------------------
(***************************************************************************)
(* Dumps of the database: BackupService of                                 *)
(* backend/src/backup/backup.service.ts, by the nightly job or by hand.    *)
(*                                                                         *)
(* The record of a dump, its file and the process that writes it are three *)
(* things that go their own ways.  A dump holds what was committed when    *)
(* pg_dump began; here that is the rows of Catalog.                        *)
(***************************************************************************)
EXTENDS Catalog

CONSTANTS
  Dump,         \* calls of runBackup
  Manual,       \* those made by hand, with an actor
  Retention     \* backup.retentionDays; the clock counts days for it

ASSUME DumpAssumption == Manual \subseteq Dump /\ Dump \subseteq Actor /\ Retention \in Nat

VARIABLES
  backup,       \* backup[d]: how far the call is
  status,       \* status[d]: of its record
  startedAt,
  file,         \* file[d]: none, partial, whole or removed
  holds,        \* holds[d]: the rows in the file
  outdated,     \* outdated[d]: the dumps that d has found old
  before,       \* history: before[d], the rows there were when d began
  dawdled       \* history: dumps that took longer than old dumps are kept

backupVars == <<backup, status, startedAt, file, holds, outdated, before, dawdled>>

BackupsTypeOK ==
  /\ backup    \in [Dump -> {"new", "starting", "dumping", "recording", "auditing", "cleaning",
                             "unlinking", "failing", "done"}]
  /\ status    \in [Dump -> {"none", "PENDING", "SUCCESS", "FAILED"}]
  /\ startedAt \in [Dump -> Time]
  /\ file      \in [Dump -> {"none", "partial", "whole", "removed"}]
  /\ holds     \in [Dump -> SUBSET Row]
  /\ outdated  \in [Dump -> SUBSET Dump]
  /\ before    \in [Dump -> SUBSET Row]
  /\ dawdled   \subseteq Dump
  /\ \A d \in Dump : startedAt[d] <= clock

BackupsInit ==
  /\ backup    = [d \in Dump |-> "new"]
  /\ status    = [d \in Dump |-> "none"]
  /\ startedAt = [d \in Dump |-> 0]
  /\ file      = [d \in Dump |-> "none"]
  /\ holds     = [d \in Dump |-> {}]
  /\ outdated  = [d \in Dump |-> {}]
  /\ before    = [d \in Dump |-> {}]
  /\ dawdled   = {}

BackupGoes(d, st) == backup' = [backup EXCEPT ![d] = st]
StatusIs(d, st)   == status' = [status EXCEPT ![d] = st]

\* runBackup: the record.
RunBackup(d) ==
  /\ d \in scene.who /\ backup[d] = "new"
  /\ BackupGoes(d, "starting")
  /\ StatusIs(d, "PENDING")
  /\ startedAt' = [startedAt EXCEPT ![d] = clock]
  /\ before'    = [before EXCEPT ![d] = Visible]
  /\ UNCHANGED <<file, holds, outdated, dawdled>>

\* runPgDump: the process starts, with a snapshot of what is committed.
StartDump(d) ==
  /\ backup[d] = "starting"
  /\ BackupGoes(d, "dumping")
  /\ file'  = [file EXCEPT ![d] = "partial"]
  /\ holds' = [holds EXCEPT ![d] = Visible]
  /\ UNCHANGED <<status, startedAt, outdated, before, dawdled>>

\* A faulty variant of DumpCloses: the exit code is not looked at.
DumpClosesSomehow(d) ==
  /\ backup[d] = "dumping"
  /\ file' \in {file, [file EXCEPT ![d] = "whole"]}
  /\ BackupGoes(d, "recording")
  /\ UNCHANGED <<status, startedAt, holds, outdated, before, dawdled>>

\* It closes with code 0, the file being written, or with another.
DumpCloses(d) ==
  /\ backup[d] = "dumping"
  /\ \/ file' = [file EXCEPT ![d] = "whole"] /\ BackupGoes(d, "recording")
     \/ BackupGoes(d, "failing") /\ UNCHANGED file
  /\ UNCHANGED <<status, startedAt, holds, outdated, before, dawdled>>

RecordSuccess(d) ==
  /\ backup[d] = "recording"
  /\ StatusIs(d, "SUCCESS")
  /\ BackupGoes(d, IF d \in Manual THEN "auditing" ELSE "cleaning")
  /\ UNCHANGED <<startedAt, file, holds, outdated, before, dawdled>>

AuditBackup(d) ==
  /\ backup[d] = "auditing"
  /\ BackupGoes(d, "cleaning")
  /\ UNCHANGED <<status, startedAt, file, holds, outdated, before, dawdled>>

\* A faulty variant of FindOld: retentionDays is taken for none.
FindOlder(d) ==
  /\ backup[d] = "cleaning"
  /\ outdated' = [outdated EXCEPT ![d] = {e \in Dump : status[e] = "SUCCESS" /\ startedAt[e] < clock}]
  /\ dawdled'  = IF clock > startedAt[d] + Retention THEN dawdled \cup {d} ELSE dawdled
  /\ BackupGoes(d, "unlinking")
  /\ UNCHANGED <<status, startedAt, file, holds, before>>

\* cleanupOldBackups, its query.
FindOld(d) ==
  /\ backup[d] = "cleaning"
  /\ outdated' = [outdated EXCEPT ![d] =
       {e \in Dump : status[e] = "SUCCESS" /\ startedAt[e] + Retention < clock}]
  /\ dawdled'  = IF clock > startedAt[d] + Retention THEN dawdled \cup {d} ELSE dawdled
  /\ BackupGoes(d, "unlinking")
  /\ UNCHANGED <<status, startedAt, file, holds, before>>

\* The files are removed one by one; one that cannot be is passed over.  Their records stay
\* as they are.
Unlink(d) ==
  /\ backup[d] = "unlinking"
  /\ \E gone \in SUBSET outdated[d] :
       file' = [e \in Dump |-> IF e \in gone THEN "removed" ELSE file[e]]
  /\ outdated' = [outdated EXCEPT ![d] = {}]
  /\ BackupGoes(d, "done")
  /\ UNCHANGED <<status, startedAt, holds, before, dawdled>>

\* Whatever throws in the try: spawn, stat, the update, the audit log, the query for old dumps.
BackupThrows(d) ==
  /\ backup[d] \in {"starting", "recording", "auditing", "cleaning"}
  /\ BackupGoes(d, "failing")
  /\ UNCHANGED <<status, startedAt, file, holds, outdated, before, dawdled>>

\* The catch: the record, successful or not so far.
RecordFailure(d) ==
  /\ backup[d] = "failing"
  /\ StatusIs(d, "FAILED")
  /\ BackupGoes(d, "done")
  /\ UNCHANGED <<startedAt, file, holds, outdated, before, dawdled>>

\* The server stops, or the catch fails too: the record stays as it is, and so does the file,
\* or pg_dump finishes it alone.
BackupStops(d) ==
  /\ backup[d] \notin {"new", "done"}
  /\ file' \in {file, [file EXCEPT ![d] = IF backup[d] = "dumping" THEN "whole" ELSE @]}
  /\ outdated' = [outdated EXCEPT ![d] = {}]
  /\ BackupGoes(d, "done")
  /\ UNCHANGED <<status, startedAt, holds, before, dawdled>>

BackupStep ==
  \E d \in Dump :
    \/ RunBackup(d) \/ StartDump(d) \/ DumpCloses(d)
    \/ RecordSuccess(d) \/ AuditBackup(d) \/ FindOld(d) \/ Unlink(d)
    \/ BackupThrows(d) \/ RecordFailure(d) \/ BackupStops(d)

-----------------------------------------------------------------------------

\* A dump recorded as SUCCESS has, for as long as dumps are kept, a whole file with all that was
\* committed when it was asked for (backup.service.ts lines 44-56 and 106-123).
SuccessIsRestorable ==
  \A d \in Dump : status[d] = "SUCCESS" /\ startedAt[d] + Retention >= clock =>
    file[d] = "whole" /\ before[d] \subseteq holds[d]

\* Old dumps never leave the bakery without any: once one was recorded as SUCCESS there is a whole
\* file, unless a dump took longer than dumps are kept, and so removed even its own
\* (lines 68 and 106-123).
SomeDumpIsKept ==
  (\E d \in Dump : status[d] = "SUCCESS") /\ dawdled = {} => \E d \in Dump : file[d] = "whole"
=============================================================================
