------------------------------- MODULE Backups -------------------------------
(***************************************************************************)
(* The backup service (services/backup_service.rs) with its scheduler loop  *)
(* (scheduler.rs): one backup at a time, started by the scheduler when the  *)
(* last one is old enough or by an administrator whose connection may       *)
(* break; an archive is uploaded to the bucket, backups beyond the number   *)
(* to keep are deleted, and a state file records when it ended: of it only  *)
(* whether the interval has passed since is kept here.                      *)
(***************************************************************************)
EXTENDS Integers, FiniteSets

CONSTANTS
  Admins,        \* administrators that start backups by hand
  MaxObjects,    \* bound on uploads
  Keeps          \* the values rotation_keep takes; 0 keeps everything

ASSUME BackupsAssumption ==
  MaxObjects \in Nat /\ Keeps \subseteq Nat /\ "scheduler" \notin Admins

VARIABLES
  backupKeep,      \* rotation_keep of the configuration
  backupRunning,   \* Inner.running
  backupDue,       \* interval_minutes have passed since last_finished_at of backup_state.json
  backupRuns,      \* what each starter is doing
  bucket,          \* objects below the prefix: backups in order of upload, and 0
  uploads,         \* number of uploads so far
  abandoned        \* a connection broke during a backup (history)

backupsVars == <<backupKeep, backupRunning, backupDue, backupRuns, bucket, uploads, abandoned>>

\* An object below the prefix that is no backup: older than all of them.
Foreign == 0

Starters == Admins \cup {"scheduler"}
NoKey == 0

Holding == {"locked", "build", "upload", "list", "delete", "release"}
Awaiting == {"upload", "list", "delete"}

\* due: what the run read of the state file before it asked for the lock.
Run == [pc : {"none", "load", "lock", "record"} \cup Holding, due : BOOLEAN,
        key : 0..MaxObjects, keep : Keeps \cup {0}, doomed : SUBSET (0..MaxObjects)]
RunAt(pc) == [pc |-> pc, due |-> FALSE, key |-> NoKey, keep |-> 0, doomed |-> {}]

BackupsTypeOK ==
  /\ backupKeep \in Keeps /\ backupRunning \in BOOLEAN /\ backupDue \in BOOLEAN
  /\ backupRuns \in [Starters -> Run]
  /\ bucket \subseteq 0..MaxObjects /\ uploads \in 0..MaxObjects /\ abandoned \in BOOLEAN

BackupsInit ==
  /\ backupKeep \in Keeps /\ backupRunning = FALSE /\ backupDue = TRUE
  /\ backupRuns = [s \in Starters |-> RunAt("none")]
  /\ bucket = {Foreign} /\ uploads = 0 /\ abandoned = FALSE

---------------------------------------------------------------------------
(* One run. *)

At(s, pc) == backupRuns[s].pc = pc
GoesTo(s, next) == backupRuns' = [backupRuns EXCEPT ![s] = next]

\* Mutant: the outcome is recorded without the lock being released.
EndsWithoutRelease(s) == GoesTo(s, RunAt("record"))

\* run_backup_once is over, well or with an error: run_backup goes on the same.
Ends(s) == GoesTo(s, RunAt("release"))

\* run_scheduled_backup_if_needed: the interval counts from the end that the
\* state file tells, whether the backup succeeded or not.
Schedule ==
  /\ At("scheduler", "none") /\ ~backupRunning /\ backupDue
  /\ GoesTo("scheduler", RunAt("load"))
  /\ UNCHANGED <<backupKeep, backupRunning, backupDue, bucket, uploads, abandoned>>

StartByHand ==
  \E s \in Admins :
    /\ At(s, "none")
    /\ GoesTo(s, RunAt("load"))
    /\ UNCHANGED <<backupKeep, backupRunning, backupDue, bucket, uploads, abandoned>>

\* run_backup: the state file is read before the lock is asked for.
LoadState(s) ==
  /\ At(s, "load")
  /\ GoesTo(s, [RunAt("lock") EXCEPT !.due = backupDue])
  /\ UNCHANGED <<backupKeep, backupRunning, backupDue, bucket, uploads, abandoned>>

TakeLock(s) ==
  /\ At(s, "lock")
  /\ IF backupRunning
     THEN GoesTo(s, RunAt("none")) /\ UNCHANGED backupRunning
     ELSE GoesTo(s, [backupRuns[s] EXCEPT !.pc = "locked"]) /\ backupRunning' = TRUE
  /\ UNCHANGED <<backupKeep, backupDue, bucket, uploads, abandoned>>

\* The last_finished_at that was read goes back into the file.
SaveBegun(s) ==
  /\ At(s, "locked")
  /\ backupDue' = (backupDue \/ backupRuns[s].due)
  /\ GoesTo(s, RunAt("build"))
  /\ UNCHANGED <<backupKeep, backupRunning, bucket, uploads, abandoned>>

\* run_backup_once up to the upload: the settings are read; credentials that
\* are missing, an archive that cannot be built or a missing passphrase end it.
Build(s) ==
  /\ At(s, "build")
  /\ GoesTo(s, [RunAt("upload") EXCEPT !.keep = backupKeep]) \/ Ends(s)
  /\ UNCHANGED <<backupKeep, backupRunning, backupDue, bucket, uploads, abandoned>>

\* upload_bytes: an upload that is reported as failed may be stored.
Upload(s) ==
  LET keep == backupRuns[s].keep
  IN /\ At(s, "upload")
     /\ \/ /\ uploads < MaxObjects
           /\ uploads' = uploads + 1
           /\ bucket' = bucket \cup {uploads + 1}
           /\ \/ keep > 0 /\ GoesTo(s, [RunAt("list") EXCEPT !.key = uploads + 1, !.keep = keep])
              \/ Ends(s)
        \/ Ends(s) /\ UNCHANGED <<bucket, uploads>>
     /\ UNCHANGED <<backupKeep, backupRunning, backupDue, abandoned>>

\* Mutant: one backup less is kept.
DoomedOneMore(objects, keep) ==
  LET backups == objects \ {Foreign}
  IN {o \in backups : Cardinality({n \in backups : n > o}) + 1 >= keep}

\* apply_rotation: of the backups, newest first, those after the first `keep`.
Doomed(objects, keep) ==
  LET backups == objects \ {Foreign}
  IN {o \in backups : Cardinality({n \in backups : n > o}) >= keep}

ListBackups(s) ==
  /\ At(s, "list")
  /\ \/ LET doomed == Doomed(bucket, backupRuns[s].keep)
        IN /\ doomed # {}
           /\ GoesTo(s, [backupRuns[s] EXCEPT !.doomed = doomed, !.pc = "delete"])
     \/ Ends(s)
  /\ UNCHANGED <<backupKeep, backupRunning, backupDue, bucket, uploads, abandoned>>

\* The newest of those goes first; the first failure ends the rotation.
DeleteOld(s) ==
  LET doomed == backupRuns[s].doomed
      o == CHOOSE n \in doomed : \A m \in doomed : m =< n
  IN /\ At(s, "delete")
     /\ \/ /\ bucket' = bucket \ {o}
           /\ IF doomed = {o} THEN Ends(s)
              ELSE GoesTo(s, [backupRuns[s] EXCEPT !.doomed = doomed \ {o}])
        \/ Ends(s) /\ UNCHANGED bucket
     /\ UNCHANGED <<backupKeep, backupRunning, backupDue, uploads, abandoned>>

\* The lock is released before the outcome is recorded.
Release(s) ==
  /\ At(s, "release")
  /\ backupRunning' = FALSE
  /\ GoesTo(s, RunAt("record"))
  /\ UNCHANGED <<backupKeep, backupDue, bucket, uploads, abandoned>>

Record(s) ==
  /\ At(s, "record")
  /\ backupDue' = FALSE
  /\ GoesTo(s, RunAt("none"))
  /\ UNCHANGED <<backupKeep, backupRunning, bucket, uploads, abandoned>>

---------------------------------------------------------------------------
(* The rest of the world. *)

\* The handler of an administrator who closes the connection is dropped where
\* it waits, and with it what it would have done.
ConnectionBreaks ==
  \E s \in Admins :
    /\ backupRuns[s].pc \in Awaiting
    /\ GoesTo(s, RunAt("none"))
    /\ abandoned' = TRUE
    /\ UNCHANGED <<backupKeep, backupRunning, backupDue, bucket, uploads>>

DeleteBackup ==
  \E o \in bucket :
    /\ bucket' = bucket \ {o}
    /\ UNCHANGED <<backupKeep, backupRunning, backupDue, backupRuns, uploads, abandoned>>

ChangeKeep ==
  /\ backupKeep' \in Keeps \ {backupKeep}
  /\ UNCHANGED <<backupRunning, backupDue, backupRuns, bucket, uploads, abandoned>>

IntervalPasses ==
  /\ backupDue' = TRUE
  /\ UNCHANGED <<backupKeep, backupRunning, backupRuns, bucket, uploads, abandoned>>

BackupsRestart ==
  /\ backupRunning' = FALSE
  /\ backupRuns' = [s \in Starters |-> RunAt("none")]
  /\ abandoned' = FALSE
  /\ UNCHANGED <<backupKeep, backupDue, bucket, uploads>>

RunStep(s) ==
  LoadState(s) \/ TakeLock(s) \/ SaveBegun(s) \/ Build(s) \/ Upload(s) \/ ListBackups(s)
    \/ DeleteOld(s) \/ Release(s) \/ Record(s)

BackupsNext ==
  \/ Schedule \/ StartByHand \/ \E s \in Starters : RunStep(s)
  \/ ConnectionBreaks \/ DeleteBackup \/ ChangeKeep \/ IntervalPasses \/ BackupsRestart

BackupsSpec == BackupsInit /\ [][BackupsNext]_backupsVars

---------------------------------------------------------------------------
(* Properties. *)

\* The running flag is up exactly while one backup is at work, on every error
\* path too; only a connection that breaks during a backup leaves it up with
\* nobody to take it down.
BackupLockAccounted ==
  LET holders == {s \in Starters : backupRuns[s].pc \in Holding}
  IN Cardinality(holders) + (IF abandoned THEN 1 ELSE 0) = (IF backupRunning THEN 1 ELSE 0)

\* A rotation deletes only backups that at least as many newer ones as it has
\* to keep were uploaded after, whatever administrators delete in between; it
\* never touches another object, nor what its own run uploaded.
RotationSpares ==
  [][\A s \in Starters :
       At(s, "delete") /\ bucket' # bucket /\ backupRuns'[s] # backupRuns[s]
         => \A o \in bucket \ bucket' :
              o # Foreign /\ o < backupRuns[s].key /\ uploads - o >= backupRuns[s].keep]_backupsVars

=============================================================================
