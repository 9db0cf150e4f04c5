--------------------------- MODULE RemoteImports ---------------------------
(***************************************************************************)
(* The remote sources of accounts: the CLIProxyAPI pools of                 *)
(* services/cpa_service.rs and the sub2api servers of                       *)
(* services/sub2api_service.rs.  An administrator adds, edits and deletes   *)
(* remotes and starts imports; each import is a task of its own that works  *)
(* with the settings the remote had when it was started and reports into    *)
(* the remote's job, which any number of them share.  The job is read under *)
(* one lock and written back under another.                                 *)
(***************************************************************************)
EXTENDS Integers, FiniteSets

CONSTANTS
  Remotes,
  Imports,        \* tasks; each runs once
  Batch,          \* the number of accounts each import is started with
  MaxEdits        \* bound on the edits of a remote

ASSUME ImportsAssumption == Batch \in [Imports -> Nat \ {0}] /\ MaxEdits \in Nat

VARIABLES
  remotes,      \* pools and servers in memory, by id
  imports,      \* the import tasks
  edited,       \* the settings an administrator entered last (history)
  diskFailed,   \* cpa_config.json or sub2api_config.json could not be written
  shared        \* remotes whose job was not left to one import (history)

importsVars == <<remotes, imports, edited, diskFailed, shared>>

Unknown == -1
Deleted == -2

Unfinished == {"pending", "running"}
Statuses == Unfinished \cup {"failed", "completed"}
Job == [status : Statuses, total : Nat, completed : Nat, failed : Nat, errors : Nat]
NoJob == [status |-> "none"]
HasJob(job) == job # NoJob

Remote == [settings : 0..MaxEdits, job : Job \cup {NoJob}]

New == [pc |-> "new"]
Done == [pc |-> "done"]
Running(i) == imports[i] \notin {New, Done}

NoUpdates == [x \in {} |-> 0]
JobUpdates ==
  {NoUpdates} \cup [status : {"running"}] \cup [errors : Nat, failed : Nat]
  \cup [completed : Nat, failed : Nat]
  \cup [status : {"failed", "completed"}, completed : Nat, failed : Nat]
Task == [pc : {"fetch", "read", "base", "write"}, report : {"running", "error", "count", "end"},
         remote : Remotes, left : Nat, errors : Nat, tokens : Nat,
         base : Job \cup {NoJob}, updates : JobUpdates]

ImportsTypeOK ==
  /\ DOMAIN remotes \subseteq Remotes /\ remotes \in [DOMAIN remotes -> Remote]
  /\ imports \in [Imports -> Task \cup {New, Done}]
  /\ \A i \in Imports :
       Running(i) => imports[i].left + imports[i].errors + imports[i].tokens = Batch[i]
  /\ edited \in [Remotes -> 0..MaxEdits \cup {Unknown, Deleted}]
  /\ diskFailed \in BOOLEAN /\ shared \subseteq Remotes

ImportsInit ==
  /\ remotes = [r \in {} |-> 0]
  /\ imports = [i \in Imports |-> New]
  /\ edited = [r \in Remotes |-> Unknown]
  /\ diskFailed = FALSE /\ shared = {}

---------------------------------------------------------------------------
(* The store. *)

Put(f, k, v) == [x \in DOMAIN f \cup {k} |-> IF x = k THEN v ELSE f[x]]
Drop(f, k) == [x \in DOMAIN f \ {k} |-> f[x]]

\* persist, save_locked: the whole table is written; that it cannot be is logged
\* at most.
Persist == diskFailed' \in {diskFailed, TRUE}

\* Mutant: a job is taken over as it is.
KeepUnfinished(job) == job

\* normalize_import_job(_, true): a job that no task can be working on.
FailUnfinished(job) ==
  IF job.status \in Unfinished THEN [job EXCEPT !.status = "failed"] ELSE job

Normalized(remote) == [remote EXCEPT !.job = FailUnfinished(@)]

NewRemote == [settings |-> 0, job |-> NoJob]

AddRemote ==
  \E r \in Remotes :
    /\ edited[r] = Unknown
    /\ remotes' = Put(remotes, r, NewRemote)
    /\ Persist
    /\ edited' = [edited EXCEPT ![r] = 0]
    /\ UNCHANGED <<imports, shared>>

\* update_pool, update_server: the whole remote is normalized again, the job of
\* a running import with it.
Edit(remote) == Normalized([remote EXCEPT !.settings = @ + 1])

UpdateRemote ==
  \E r \in DOMAIN remotes :
    /\ remotes[r].settings < MaxEdits
    /\ remotes' = [remotes EXCEPT ![r] = Edit(@)]
    /\ Persist
    /\ edited' = [edited EXCEPT ![r] = remotes'[r].settings]
    /\ UNCHANGED <<imports, shared>>

DeleteRemote ==
  \E r \in DOMAIN remotes :
    /\ remotes' = Drop(remotes, r)
    /\ Persist
    /\ edited' = [edited EXCEPT ![r] = Deleted]
    /\ UNCHANGED <<imports, shared>>

---------------------------------------------------------------------------
(* Imports. *)

JobOf(r) == IF r \in DOMAIN remotes THEN remotes[r].job ELSE NoJob

\* Mutant: a remote that is gone is put back with its job.
PutImportJob(r, job) ==
  /\ remotes' = Put(remotes, r, [settings |-> IF r \in DOMAIN remotes THEN remotes[r].settings ELSE 0,
                                 job |-> job])
  /\ Persist

\* set_import_job: nothing when the remote is gone.
SetImportJob(r, job) ==
  IF r \in DOMAIN remotes
  THEN /\ remotes' = [remotes EXCEPT ![r].job = job]
       /\ Persist
  ELSE UNCHANGED <<remotes, diskFailed>>

NewJob(i) ==
  [status |-> "pending", total |-> Batch[i], completed |-> 0, failed |-> 0, errors |-> 0]

\* start_import: the new job takes the place of the old one, which a task may
\* still be working on.
StartImport ==
  \E r \in DOMAIN remotes, i \in Imports :
    /\ imports[i] = New
    /\ SetImportJob(r, NewJob(i))
    /\ imports' = [imports EXCEPT ![i] =
         [pc |-> "base", report |-> "running", remote |-> r,
          left |-> Batch[i], errors |-> 0, tokens |-> 0, base |-> NoJob, updates |-> [status |-> "running"]]]
    /\ shared' = (shared \ {r}) \cup {s \in {r} : \E j \in Imports : Running(j) /\ imports[j].remote = r}
    /\ UNCHANGED edited

\* Mutant: the progress keeps the number of failed accounts it was computed with.
UpdatesWithoutFailed(i, job) ==
  LET task == imports[i]
      errors == IF HasJob(job) THEN job.errors ELSE 0
      completed == IF HasJob(job) THEN job.completed ELSE 0
  IN CASE task.report = "error" -> [errors |-> errors + 1, failed |-> errors + 1]
       [] task.report = "count" -> [completed |-> completed + 1, failed |-> 0]
       [] task.report = "end" /\ task.tokens = 0 -> [status |-> "failed"]
       [] OTHER -> [status |-> "completed"]

\* What a report writes, computed from the job as it is read first.
Updates(i, job) ==
  LET task == imports[i]
      errors == IF HasJob(job) THEN job.errors ELSE 0
      completed == IF HasJob(job) THEN job.completed ELSE 0
  IN CASE task.report = "error" -> [errors |-> errors + 1, failed |-> errors + 1]
       [] task.report = "count" -> [completed |-> completed + 1, failed |-> errors]
       [] task.report = "end" /\ task.tokens = 0 ->
            [status |-> "failed", completed |-> IF HasJob(job) THEN job.total ELSE 0, failed |-> errors]
       [] OTHER -> [status |-> "completed", completed |-> Batch[i], failed |-> errors]

\* append_error returns when there is no job; the other reports go on, and
\* update_job returns.
ReadJob(i) ==
  /\ Running(i) /\ imports[i].pc = "read"
  /\ imports' = [imports EXCEPT ![i].pc = "base",
                                ![i].updates = Updates(i, JobOf(imports[i].remote))]
  /\ UNCHANGED <<remotes, edited, diskFailed, shared>>

\* get_import_job in update_job.
ReadBase(i) ==
  /\ Running(i) /\ imports[i].pc = "base"
  /\ imports' = [imports EXCEPT ![i].pc = "write", ![i].base = JobOf(imports[i].remote)]
  /\ UNCHANGED <<remotes, edited, diskFailed, shared>>

Merge(job, updates) == [f \in DOMAIN job |-> IF f \in DOMAIN updates THEN updates[f] ELSE job[f]]

\* What a task does next: an error is followed by the progress, the progress by
\* the next download, the last one by the end.
Following(task) ==
  CASE task.report = "error" -> [task EXCEPT !.pc = "read", !.report = "count"]
    [] task.report = "end" -> Done
    [] task.report \in {"running", "count"} /\ task.left = 0 ->
         [task EXCEPT !.pc = "read", !.report = "end"]
    [] OTHER -> [task EXCEPT !.pc = "fetch"]

\* The rest of update_job, and what the task does next.
WriteJob(i) ==
  LET task == imports[i]
      go == Following(task)
  IN /\ Running(i) /\ task.pc = "write"
     /\ IF HasJob(task.base)
        THEN SetImportJob(task.remote, Merge(task.base, task.updates))
        ELSE UNCHANGED <<remotes, diskFailed>>
     /\ imports' = [imports EXCEPT ![i] = IF go = Done THEN Done ELSE [go EXCEPT !.base = NoJob, !.updates = NoUpdates]]
     /\ UNCHANGED <<edited, shared>>

\* Mutant: a download that failed stays among those to do.
FetchEndsAgain(i) ==
  /\ Running(i) /\ imports[i].pc = "fetch"
  /\ \/ imports' = [imports EXCEPT ![i].pc = "read", ![i].report = "count",
                                   ![i].left = @ - 1, ![i].tokens = @ + 1]
     \/ imports' = [imports EXCEPT ![i].pc = "read", ![i].report = "error", ![i].errors = @ + 1]
  /\ UNCHANGED <<remotes, edited, diskFailed, shared>>

\* The next of the concurrent downloads ends.
FetchEnds(i) ==
  /\ Running(i) /\ imports[i].pc = "fetch"
  /\ \/ imports' = [imports EXCEPT ![i].pc = "read", ![i].report = "count",
                                   ![i].left = @ - 1, ![i].tokens = @ + 1]
     \/ imports' = [imports EXCEPT ![i].pc = "read", ![i].report = "error",
                                   ![i].left = @ - 1, ![i].errors = @ + 1]
  /\ UNCHANGED <<remotes, edited, diskFailed, shared>>

---------------------------------------------------------------------------

\* What the file holds: of a file that was not written only that it is older.
FileTables ==
  IF ~diskFailed THEN {remotes}
  ELSE {[r \in ids |-> [settings |-> v, job |-> JobOf(r)]] :
          ids \in SUBSET {r \in Remotes : edited[r] # Unknown}, v \in 0..MaxEdits}

\* load, load_servers: the tasks are gone, and every remote is normalized.
ImportsRestart ==
  /\ \E table \in FileTables : remotes' = [r \in DOMAIN table |-> Normalized(table[r])]
  /\ imports' = [i \in Imports |-> IF Running(i) THEN Done ELSE imports[i]]
  /\ shared' = Remotes
  /\ UNCHANGED <<edited, diskFailed>>

ImportStep(i) == FetchEnds(i) \/ ReadJob(i) \/ ReadBase(i) \/ WriteJob(i)

ImportsNext ==
  \/ AddRemote \/ UpdateRemote \/ DeleteRemote \/ StartImport
  \/ \E i \in Imports : ImportStep(i)
  \/ ImportsRestart

ImportsSpec == ImportsInit /\ [][ImportsNext]_importsVars

---------------------------------------------------------------------------
(* Properties. *)

\* A job that is shown as pending or running has a task that works on it and
\* will report its end, also when several imports write into it, when the
\* remote was edited meanwhile, and after a restart.
RunningHasTask ==
  \A r \in DOMAIN remotes :
    remotes[r].job.status \in Unfinished => \E i \in Imports : Running(i) /\ imports[i].remote = r

\* What an administrator entered stays: the reports of an import, which write
\* the whole remote back, never bring old settings or a deleted remote back, a
\* restart neither unless the file could not be written.
EditsPrevail == ~diskFailed => \A r \in DOMAIN remotes : remotes[r].settings = edited[r]

\* When the only import of a remote ends, its job counts every account once:
\* the failed ones are those that could not be downloaded, and the status says
\* whether there was a token at all.
ImportAccounted ==
  [][\A i \in Imports :
       LET task == imports[i]
       IN Running(i) /\ imports'[i] = Done /\ task.remote \in DOMAIN remotes \ shared'
          => LET job == remotes'[task.remote].job
             IN /\ job.completed = job.total /\ job.total = Batch[i]
                /\ job.failed = task.errors /\ job.errors = task.errors
                /\ job.status = (IF task.tokens = 0 THEN "failed" ELSE "completed")]_importsVars

=============================================================================
