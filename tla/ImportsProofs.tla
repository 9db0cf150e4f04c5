--------------------------- MODULE ImportsProofs ---------------------------
(***************************************************************************)
(* Proofs about RemoteImports: its types, that edits prevail, that a job    *)
(* shown as unfinished has a task, and that the job of a lone import counts *)
(* every account once.                                                      *)
(***************************************************************************)
EXTENDS RemoteImports, TLAPS

---------------------------------------------------------------------------
(* The invariant. *)

\* Where a task can stand, and what it is about to write there.
Stage(task) ==
  /\ task.pc = "fetch" => task.left > 0 /\ task.report \in {"running", "count"}
  /\ task.pc = "read" => task.report # "running"
  /\ task.report = "running" => task.left > 0 /\ task.errors = 0 /\ task.tokens = 0
  /\ task.report = "error" => task.errors > 0
  /\ task.report = "count" => task.errors + task.tokens > 0
  /\ task.report = "end" => task.left = 0
  /\ task.pc \in {"base", "write"} =>
       /\ task.report = "running" => task.updates = [status |-> "running"]
       /\ task.report = "error" => task.updates \in [errors : Nat, failed : Nat]
       /\ task.report = "count" => task.updates \in [completed : Nat, failed : Nat]
       /\ task.report = "end" =>
            task.updates \in [status : {"failed", "completed"}, completed : Nat, failed : Nat]

\* A remote that a task works on was added once, and has a job as long as it
\* is there; a task finds none only when the remote is gone for good.
Placed(i) ==
  LET r == imports[i].remote
  IN /\ edited[r] # Unknown
     /\ r \in DOMAIN remotes => HasJob(remotes[r].job)
     /\ imports[i].pc = "write" /\ r \in DOMAIN remotes => HasJob(imports[i].base)

\* The counters a lone import has reported so far, and its next report.
ErrorsShown(task) == IF task.report = "error" THEN task.errors - 1 ELSE task.errors
CompletedShown(task) ==
  IF task.report = "error" \/ (task.report = "count" /\ task.pc # "fetch")
  THEN task.errors + task.tokens - 1 ELSE task.errors + task.tokens
Shows(task, total, job) ==
  /\ job.total = total /\ job.completed = CompletedShown(task)
  /\ job.failed = ErrorsShown(task) /\ job.errors = ErrorsShown(task)
DueUpdates(task, total) ==
  CASE task.report = "running" -> [status |-> "running"]
    [] task.report = "error" -> [errors |-> task.errors, failed |-> task.errors]
    [] task.report = "count" ->
         [completed |-> task.errors + task.tokens, failed |-> task.errors]
    [] task.report = "end" -> [status |-> IF task.tokens = 0 THEN "failed" ELSE "completed",
                               completed |-> total, failed |-> task.errors]

\* The job of a remote that is not shared is that of the one task at work on it.
Accurate(task, total, job) ==
  /\ Shows(task, total, job)
  /\ task.pc = "write" => Shows(task, total, task.base)
  /\ task.pc \in {"base", "write"} => task.updates = DueUpdates(task, total)
Alone(i) ==
  LET r == imports[i].remote
  IN /\ \A j \in Imports : Running(j) /\ imports[j].remote = r => j = i
     /\ Accurate(imports[i], Batch[i], remotes[r].job)

KnownRemotes == \A r \in DOMAIN remotes : edited[r] # Unknown
TasksInv == \A i \in Imports : Running(i) => Stage(imports[i]) /\ Placed(i)
AloneInv ==
  \A i \in Imports : Running(i) /\ imports[i].remote \in DOMAIN remotes \ shared => Alone(i)

ImportsInv ==
  ImportsTypeOK /\ KnownRemotes /\ TasksInv /\ RunningHasTask /\ EditsPrevail /\ AloneInv

---------------------------------------------------------------------------
(* Jobs, remotes and tasks, changed field by field. *)

LEMMA NoJobFacts == NoJob.status \notin Statuses /\ NoJob \notin Job
<1>1. NoJob.status \notin Statuses
  BY DEF NoJob, Statuses, Unfinished
<1> QED BY <1>1 DEF Job

\* normalize_import_job ends a job and leaves its counters alone.
LEMMA FailedJob ==
  ASSUME NEW job \in Job \cup {NoJob}
  PROVE  /\ FailUnfinished(job) \in Job \cup {NoJob}
         /\ FailUnfinished(job).status \notin Unfinished
         /\ HasJob(FailUnfinished(job)) <=> HasJob(job)
         /\ HasJob(job) =>
              /\ FailUnfinished(job).total = job.total
              /\ FailUnfinished(job).completed = job.completed
              /\ FailUnfinished(job).failed = job.failed
              /\ FailUnfinished(job).errors = job.errors
<1>1. CASE job = NoJob
  <2>1. FailUnfinished(job) = job
    BY <1>1 DEF FailUnfinished, NoJob, Unfinished
  <2> QED BY <1>1, <2>1 DEF NoJob, Unfinished, HasJob
<1>2. CASE job \in Job /\ job.status \in Unfinished
  <2>1. FailUnfinished(job) = [job EXCEPT !.status = "failed"]
    BY <1>2 DEF FailUnfinished
  <2>2. /\ [job EXCEPT !.status = "failed"] \in Job
        /\ [job EXCEPT !.status = "failed"].status = "failed"
        /\ [job EXCEPT !.status = "failed"].total = job.total
        /\ [job EXCEPT !.status = "failed"].completed = job.completed
        /\ [job EXCEPT !.status = "failed"].failed = job.failed
        /\ [job EXCEPT !.status = "failed"].errors = job.errors
    BY <1>2 DEF Job, Statuses, Unfinished
  <2> QED BY <1>2, <2>1, <2>2, NoJobFacts DEF HasJob, Unfinished
<1>3. CASE job \in Job /\ job.status \notin Unfinished
  BY <1>3, NoJobFacts DEF FailUnfinished, HasJob
<1> QED BY <1>1, <1>2, <1>3

LEMMA NormalizedRemote ==
  ASSUME NEW remote \in Remote
  PROVE  /\ Normalized(remote) \in Remote
         /\ Normalized(remote).settings = remote.settings
         /\ Normalized(remote).job = FailUnfinished(remote.job)
<1>1. FailUnfinished(remote.job) \in Job \cup {NoJob}
  BY FailedJob DEF Remote
<1>2. Normalized(remote) = [settings |-> remote.settings, job |-> FailUnfinished(remote.job)]
  BY DEF Normalized, Remote
<1> QED BY <1>1, <1>2 DEF Remote

\* What a report leaves of the job it merges into, by the kind of the report.
LEMMA MergedFields ==
  ASSUME NEW job \in Job, NEW updates
  PROVE  Merge(job, updates) =
           [status |-> IF "status" \in DOMAIN updates THEN updates.status ELSE job.status,
            total |-> IF "total" \in DOMAIN updates THEN updates.total ELSE job.total,
            completed |-> IF "completed" \in DOMAIN updates THEN updates.completed ELSE job.completed,
            failed |-> IF "failed" \in DOMAIN updates THEN updates.failed ELSE job.failed,
            errors |-> IF "errors" \in DOMAIN updates THEN updates.errors ELSE job.errors]
<1>1. DOMAIN job = {"status", "total", "completed", "failed", "errors"}
  BY DEF Job
<1> QED BY <1>1 DEF Merge

LEMMA MergedRunning ==
  ASSUME NEW job \in Job, NEW updates \in [status : {"running"}]
  PROVE  /\ Merge(job, updates) \in Job
         /\ Merge(job, updates).total = job.total
         /\ Merge(job, updates).completed = job.completed
         /\ Merge(job, updates).failed = job.failed
         /\ Merge(job, updates).errors = job.errors
<1>1. DOMAIN updates = {"status"} /\ updates.status = "running"
  OBVIOUS
<1>2. Merge(job, updates) =
        [status |-> "running", total |-> job.total, completed |-> job.completed,
         failed |-> job.failed, errors |-> job.errors]
  BY <1>1, MergedFields
<1> QED BY <1>2 DEF Job, Statuses, Unfinished

LEMMA MergedErrors ==
  ASSUME NEW job \in Job, NEW updates \in [errors : Nat, failed : Nat]
  PROVE  /\ Merge(job, updates) \in Job
         /\ Merge(job, updates).total = job.total
         /\ Merge(job, updates).completed = job.completed
         /\ Merge(job, updates).failed = updates.failed
         /\ Merge(job, updates).errors = updates.errors
<1>1. DOMAIN updates = {"errors", "failed"} /\ updates.errors \in Nat /\ updates.failed \in Nat
  OBVIOUS
<1>2. Merge(job, updates) =
        [status |-> job.status, total |-> job.total, completed |-> job.completed,
         failed |-> updates.failed, errors |-> updates.errors]
  BY <1>1, MergedFields
<1> QED BY <1>1, <1>2 DEF Job

LEMMA MergedCount ==
  ASSUME NEW job \in Job, NEW updates \in [completed : Nat, failed : Nat]
  PROVE  /\ Merge(job, updates) \in Job
         /\ Merge(job, updates).total = job.total
         /\ Merge(job, updates).completed = updates.completed
         /\ Merge(job, updates).failed = updates.failed
         /\ Merge(job, updates).errors = job.errors
<1>1. /\ DOMAIN updates = {"completed", "failed"}
      /\ updates.completed \in Nat /\ updates.failed \in Nat
  OBVIOUS
<1>2. Merge(job, updates) =
        [status |-> job.status, total |-> job.total, completed |-> updates.completed,
         failed |-> updates.failed, errors |-> job.errors]
  BY <1>1, MergedFields
<1> QED BY <1>1, <1>2 DEF Job

LEMMA MergedEnd ==
  ASSUME NEW job \in Job,
         NEW updates \in [status : {"failed", "completed"}, completed : Nat, failed : Nat]
  PROVE  /\ Merge(job, updates) \in Job
         /\ Merge(job, updates).status = updates.status
         /\ Merge(job, updates).total = job.total
         /\ Merge(job, updates).completed = updates.completed
         /\ Merge(job, updates).failed = updates.failed
         /\ Merge(job, updates).errors = job.errors
<1>1. /\ DOMAIN updates = {"status", "completed", "failed"}
      /\ updates.status \in {"failed", "completed"}
      /\ updates.completed \in Nat /\ updates.failed \in Nat
  OBVIOUS
<1>2. Merge(job, updates) =
        [status |-> updates.status, total |-> job.total, completed |-> updates.completed,
         failed |-> updates.failed, errors |-> job.errors]
  BY <1>1, MergedFields
<1> QED BY <1>1, <1>2 DEF Job, Statuses

\* A task differs from one that has not begun or has ended.
LEMMA RunningIsTask ==
  /\ \A task \in Task : task # New /\ task # Done
  /\ ImportsTypeOK => \A i \in Imports : Running(i) <=> imports[i] \in Task
<1>1. \A task \in Task : task.pc # New.pc /\ task.pc # Done.pc
  BY DEF Task, New, Done
<1> QED BY <1>1 DEF ImportsTypeOK, Running
---------------------------------------------------------------------------
(* The steps of a task, as changes of its record. *)

LEMMA FetchedTask ==
  ASSUME NEW t \in Task, Stage(t), t.pc = "fetch",
         NEW n, \/ n = [t EXCEPT !.pc = "read", !.report = "count", !.left = @ - 1, !.tokens = @ + 1]
                \/ n = [t EXCEPT !.pc = "read", !.report = "error", !.left = @ - 1, !.errors = @ + 1]
  PROVE  /\ n \in Task /\ Stage(n) /\ n.remote = t.remote /\ n.pc = "read"
         /\ n.left + n.errors + n.tokens = t.left + t.errors + t.tokens
         /\ ErrorsShown(n) = ErrorsShown(t) /\ CompletedShown(n) = CompletedShown(t)
<1>1. /\ t.left \in Nat /\ t.errors \in Nat /\ t.tokens \in Nat /\ t.left > 0
      /\ t.report \in {"running", "count"}
  BY DEF Task, Stage
<1>2. CASE n = [t EXCEPT !.pc = "read", !.report = "count", !.left = @ - 1, !.tokens = @ + 1]
  <2>0. n = [pc |-> "read", report |-> "count", remote |-> t.remote, left |-> t.left - 1,
            errors |-> t.errors, tokens |-> t.tokens + 1, base |-> t.base, updates |-> t.updates]
    BY <1>2 DEF Task
  <2>1. t.left - 1 \in Nat /\ t.tokens + 1 \in Nat /\ n \in Task
    BY <1>1, <2>0 DEF Task
  <2>2. /\ n.pc = "read" /\ n.report = "count" /\ n.left = t.left - 1 /\ n.tokens = t.tokens + 1
        /\ n.errors = t.errors /\ n.remote = t.remote
    BY <2>0
  <2> QED BY <1>1, <2>1, <2>2 DEF Stage, ErrorsShown, CompletedShown
<1>3. CASE n = [t EXCEPT !.pc = "read", !.report = "error", !.left = @ - 1, !.errors = @ + 1]
  <2>0. n = [pc |-> "read", report |-> "error", remote |-> t.remote, left |-> t.left - 1,
            errors |-> t.errors + 1, tokens |-> t.tokens, base |-> t.base, updates |-> t.updates]
    BY <1>3 DEF Task
  <2>1. t.left - 1 \in Nat /\ t.errors + 1 \in Nat /\ n \in Task
    BY <1>1, <2>0 DEF Task
  <2>2. /\ n.pc = "read" /\ n.report = "error" /\ n.left = t.left - 1 /\ n.tokens = t.tokens
        /\ n.errors = t.errors + 1 /\ n.remote = t.remote
    BY <2>0
  <2>3. Stage(n)
    BY <1>1, <2>2 DEF Stage
  <2>4. ErrorsShown(n) = ErrorsShown(t) /\ CompletedShown(n) = CompletedShown(t)
    BY <1>1, <2>2 DEF ErrorsShown, CompletedShown
  <2> QED BY <1>1, <2>1, <2>2, <2>3, <2>4
<1> QED BY <1>2, <1>3

\* Every other field than pc and updates is that of the task.
LEMMA ReadTask ==
  ASSUME NEW t \in Task, Stage(t), t.pc = "read", NEW u \in JobUpdates,
         t.report = "error" => u \in [errors : Nat, failed : Nat],
         t.report = "count" => u \in [completed : Nat, failed : Nat],
         t.report = "end" => u \in [status : {"failed", "completed"}, completed : Nat, failed : Nat]
  PROVE  LET n == [t EXCEPT !.pc = "base", !.updates = u]
         IN /\ n \in Task /\ Stage(n) /\ n.remote = t.remote /\ n.pc = "base" /\ n.updates = u
            /\ n.left = t.left /\ n.errors = t.errors /\ n.tokens = t.tokens
            /\ n.report = t.report
            /\ ErrorsShown(n) = ErrorsShown(t) /\ CompletedShown(n) = CompletedShown(t)
<1> DEFINE n == [t EXCEPT !.pc = "base", !.updates = u]
<1>1. n \in Task
  BY DEF Task
<1>2. /\ n.pc = "base" /\ n.updates = u /\ n.remote = t.remote /\ n.report = t.report
      /\ n.left = t.left /\ n.errors = t.errors /\ n.tokens = t.tokens
  BY DEF Task
<1> HIDE DEF n
<1>3. Stage(n) /\ ErrorsShown(n) = ErrorsShown(t) /\ CompletedShown(n) = CompletedShown(t)
  BY <1>2 DEF Stage, ErrorsShown, CompletedShown
<1> QED BY <1>1, <1>2, <1>3 DEF n

LEMMA BasedTask ==
  ASSUME NEW t \in Task, Stage(t), t.pc = "base", NEW b \in Job \cup {NoJob}
  PROVE  LET n == [t EXCEPT !.pc = "write", !.base = b]
         IN /\ n \in Task /\ Stage(n) /\ n.remote = t.remote /\ n.pc = "write" /\ n.base = b
            /\ n.left = t.left /\ n.errors = t.errors /\ n.tokens = t.tokens
            /\ n.report = t.report /\ n.updates = t.updates
            /\ ErrorsShown(n) = ErrorsShown(t) /\ CompletedShown(n) = CompletedShown(t)
<1> DEFINE n == [t EXCEPT !.pc = "write", !.base = b]
<1>1. n \in Task
  BY DEF Task
<1>2. /\ n.pc = "write" /\ n.base = b /\ n.remote = t.remote /\ n.report = t.report
      /\ n.left = t.left /\ n.errors = t.errors /\ n.tokens = t.tokens /\ n.updates = t.updates
  BY DEF Task
<1> HIDE DEF n
<1>3. Stage(n) /\ ErrorsShown(n) = ErrorsShown(t) /\ CompletedShown(n) = CompletedShown(t)
  BY <1>2 DEF Stage, ErrorsShown, CompletedShown
<1> QED BY <1>1, <1>2, <1>3 DEF n

LEMMA ReportedTask ==
  ASSUME NEW f \in Task, NEW n, n = [f EXCEPT !.base = NoJob, !.updates = NoUpdates]
  PROVE  /\ n \in Task /\ n.pc = f.pc /\ n.report = f.report /\ n.remote = f.remote
         /\ n.left = f.left /\ n.errors = f.errors /\ n.tokens = f.tokens
<1>1. NoUpdates \in JobUpdates
  BY DEF JobUpdates
<1> QED BY <1>1 DEF Task

\* A task that goes on after its report was written.
LEMMA FollowingTask ==
  ASSUME NEW t \in Task, Stage(t), t.pc = "write", t.report # "end",
         NEW n, n = [Following(t) EXCEPT !.base = NoJob, !.updates = NoUpdates]
  PROVE  /\ Following(t) # Done
         /\ n \in Task /\ Stage(n) /\ n.remote = t.remote /\ n.pc \in {"read", "fetch"}
         /\ n.left = t.left /\ n.errors = t.errors /\ n.tokens = t.tokens
         /\ n.report = IF t.report = "error" THEN "count"
                       ELSE IF t.left = 0 THEN "end" ELSE t.report
         /\ n.pc = "fetch" => n.report = t.report
         /\ n.report = "count" /\ t.report = "count" => n.pc = "fetch"
<1>2. /\ t.report \in {"running", "error", "count"} /\ t.left \in Nat
      /\ t.errors \in Nat /\ t.tokens \in Nat
  BY DEF Task
<1>3. CASE t.report = "error"
  <2>1. Following(t) = [t EXCEPT !.pc = "read", !.report = "count"]
    BY <1>2, <1>3 DEF Following
  <2>2. /\ Following(t) \in Task
        /\ Following(t).pc = "read" /\ Following(t).report = "count" /\ Following(t).remote = t.remote
        /\ Following(t).left = t.left /\ Following(t).errors = t.errors
        /\ Following(t).tokens = t.tokens
    BY <2>1 DEF Task
  <2>3. /\ n \in Task /\ n.pc = "read" /\ n.report = "count" /\ n.remote = t.remote
        /\ n.left = t.left /\ n.errors = t.errors /\ n.tokens = t.tokens
    BY <2>2, ReportedTask
  <2>4. n.errors > 0 /\ n.errors \in Nat /\ n.tokens \in Nat
    BY <1>2, <1>3, <2>3 DEF Stage
  <2>5. n.errors + n.tokens > 0
    BY <2>4
  <2>6. Stage(n)
    BY <2>3, <2>5 DEF Stage
  <2> QED BY <1>2, <1>3, <2>2, <2>3, <2>6, RunningIsTask
<1>4. CASE t.report # "error" /\ t.left = 0
  <2>1. Following(t) = [t EXCEPT !.pc = "read", !.report = "end"]
    BY <1>2, <1>4 DEF Following
  <2>2. /\ Following(t) \in Task
        /\ Following(t).pc = "read" /\ Following(t).report = "end" /\ Following(t).remote = t.remote
        /\ Following(t).left = t.left /\ Following(t).errors = t.errors
        /\ Following(t).tokens = t.tokens
    BY <2>1 DEF Task
  <2>3. /\ n \in Task /\ n.pc = "read" /\ n.report = "end" /\ n.remote = t.remote
        /\ n.left = t.left /\ n.errors = t.errors /\ n.tokens = t.tokens
    BY <2>2, ReportedTask
  <2>4. Stage(n)
    BY <1>2, <1>4, <2>3 DEF Stage
  <2> QED BY <1>2, <1>4, <2>2, <2>3, <2>4, RunningIsTask
<1>5. CASE t.report # "error" /\ t.left # 0
  <2>1. Following(t) = [t EXCEPT !.pc = "fetch"]
    BY <1>2, <1>5 DEF Following
  <2>2. /\ Following(t) \in Task
        /\ Following(t).pc = "fetch" /\ Following(t).report = t.report /\ Following(t).remote = t.remote
        /\ Following(t).left = t.left /\ Following(t).errors = t.errors
        /\ Following(t).tokens = t.tokens
    BY <2>1 DEF Task
  <2>3. /\ n \in Task /\ n.pc = "fetch" /\ n.report = t.report /\ n.remote = t.remote
        /\ n.left = t.left /\ n.errors = t.errors /\ n.tokens = t.tokens
    BY <2>2, ReportedTask
  <2>4. Stage(n)
    BY <1>2, <1>5, <2>3 DEF Stage
  <2> QED BY <1>2, <1>5, <2>2, <2>3, <2>4, RunningIsTask
<1> QED BY <1>3, <1>4, <1>5
---------------------------------------------------------------------------
(* The steps preserve the invariant. *)

\* A task moves on, and writes the job of its remote at most.
LEMMA TaskMoves ==
  ASSUME ImportsInv, ImportsAssumption, NEW i \in Imports, Running(i),
         NEW r \in Remotes, r = imports[i].remote,
         NEW n \in Task, imports' = [imports EXCEPT ![i] = n], n.remote = r, Stage(n),
         n.left + n.errors + n.tokens = Batch[i],
         UNCHANGED <<edited, shared>>, diskFailed' \in {diskFailed, TRUE},
         DOMAIN remotes' = DOMAIN remotes, remotes' \in [DOMAIN remotes -> Remote],
         \A s \in DOMAIN remotes :
           /\ remotes'[s].settings = remotes[s].settings
           /\ s # r => remotes'[s] = remotes[s],
         r \in DOMAIN remotes => HasJob(remotes'[r].job),
         n.pc = "write" /\ r \in DOMAIN remotes => HasJob(n.base),
         r \in DOMAIN remotes \ shared => Accurate(n, Batch[i], remotes'[r].job)
  PROVE  ImportsInv'
<1> USE DEF ImportsInv
<1>1. ImportsTypeOK /\ imports[i] \in Task /\ i \in DOMAIN imports
  BY RunningIsTask DEF ImportsTypeOK
<1>2. /\ imports'[i] = n /\ \A j \in Imports \ {i} : imports'[j] = imports[j]
      /\ imports' \in [Imports -> Task \cup {New, Done}]
  BY <1>1 DEF ImportsTypeOK
<1>3. \A j \in Imports : Running(j)' <=> Running(j)
  BY <1>1, <1>2, RunningIsTask DEF Running
<1>4. \A j \in Imports : Running(j) => imports'[j].remote = imports[j].remote
  BY <1>2
<1>5. ImportsTypeOK'
  BY <1>1, <1>2, <1>3 DEF ImportsTypeOK
<1>6. KnownRemotes'
  BY DEF KnownRemotes
<1>7. TasksInv'
  <2> SUFFICES ASSUME NEW j \in Imports, Running(j)' PROVE Stage(imports'[j]) /\ Placed(j)'
    BY DEF TasksInv
  <2>1. Stage(imports[j]) /\ Placed(j)
    BY <1>3 DEF TasksInv
  <2>2. CASE j = i
    BY <1>1, <1>2, <2>1, <2>2 DEF Placed
  <2>3. CASE j # i
    <3>1. imports'[j] = imports[j]
      BY <1>2, <2>3
    <3>2. imports[j].remote \in DOMAIN remotes => HasJob(remotes'[imports[j].remote].job)
      BY <2>1 DEF Placed
    <3> QED BY <2>1, <3>1, <3>2 DEF Placed
  <2> QED BY <2>2, <2>3
<1>8. RunningHasTask'
  <2> SUFFICES ASSUME NEW s \in DOMAIN remotes', remotes'[s].job.status \in Unfinished
               PROVE  \E j \in Imports : Running(j)' /\ imports'[j].remote = s
    BY DEF RunningHasTask
  <2>1. CASE s = r
    BY <1>2, <1>3, <2>1
  <2>2. CASE s # r
    <3>1. remotes[s].job.status \in Unfinished
      BY <2>2
    <3>2. PICK j \in Imports : Running(j) /\ imports[j].remote = s
      BY <3>1 DEF RunningHasTask
    <3> QED BY <1>3, <1>4, <3>2
  <2> QED BY <2>1, <2>2
<1>9. EditsPrevail'
  BY <1>1 DEF EditsPrevail, ImportsTypeOK
<1>10. AloneInv'
  <2> SUFFICES ASSUME NEW j \in Imports, Running(j)', imports'[j].remote \in DOMAIN remotes' \ shared'
               PROVE  Alone(j)'
    BY DEF AloneInv
  <2>1. Running(j) /\ imports[j].remote \in DOMAIN remotes \ shared /\ Alone(j)
    BY <1>3, <1>4 DEF AloneInv
  <2>2. \A k \in Imports : Running(k)' /\ imports'[k].remote = imports'[j].remote => k = j
    BY <1>3, <1>4, <2>1 DEF Alone
  <2>3. Accurate(imports'[j], Batch[j], remotes'[imports'[j].remote].job)
    <3>1. CASE j = i
      BY <1>2, <2>1, <3>1
    <3>2. CASE j # i
      <4>1. imports[j].remote # r
        BY <2>1, <3>2 DEF Alone
      <4> QED BY <1>2, <2>1, <3>2, <4>1 DEF Alone
    <3> QED BY <3>1, <3>2
  <2> QED BY <2>2, <2>3 DEF Alone
<1> QED BY <1>5, <1>6, <1>7, <1>8, <1>9, <1>10
\* What the invariant says of a running task.
LEMMA RunningFacts ==
  ASSUME ImportsInv, NEW i \in Imports, Running(i)
  PROVE  /\ imports[i] \in Task /\ i \in DOMAIN imports /\ imports[i].remote \in Remotes
         /\ imports[i].left + imports[i].errors + imports[i].tokens = Batch[i]
         /\ Stage(imports[i]) /\ Placed(i)
         /\ imports[i].remote \in DOMAIN remotes \ shared =>
              Accurate(imports[i], Batch[i], remotes[imports[i].remote].job)
         /\ remotes \in [DOMAIN remotes -> Remote]
<1>1. imports[i] \in Task
  BY RunningIsTask DEF ImportsInv
<1>2. imports[i].remote \in Remotes
  BY <1>1 DEF Task
<1> QED BY <1>1, <1>2 DEF ImportsInv, ImportsTypeOK, TasksInv, AloneInv, Alone

LEMMA FetchEndsInv ==
  ASSUME ImportsInv, ImportsAssumption, NEW i \in Imports, FetchEnds(i)
  PROVE  ImportsInv'
<1> DEFINE t == imports[i]
           n == imports'[i]
<1>1. /\ Running(i) /\ t.pc = "fetch" /\ UNCHANGED <<remotes, edited, diskFailed, shared>>
      /\ \/ imports' = [imports EXCEPT ![i] =
              [t EXCEPT !.pc = "read", !.report = "count", !.left = @ - 1, !.tokens = @ + 1]]
         \/ imports' = [imports EXCEPT ![i] =
              [t EXCEPT !.pc = "read", !.report = "error", !.left = @ - 1, !.errors = @ + 1]]
  BY DEF FetchEnds
<1>2. /\ t \in Task /\ i \in DOMAIN imports /\ t.remote \in Remotes
      /\ t.left + t.errors + t.tokens = Batch[i] /\ Stage(t) /\ Placed(i)
      /\ t.remote \in DOMAIN remotes \ shared => Accurate(t, Batch[i], remotes[t.remote].job)
      /\ remotes \in [DOMAIN remotes -> Remote]
  BY <1>1, RunningFacts
<1>3. /\ imports' = [imports EXCEPT ![i] = n]
      /\ \/ n = [t EXCEPT !.pc = "read", !.report = "count", !.left = @ - 1, !.tokens = @ + 1]
         \/ n = [t EXCEPT !.pc = "read", !.report = "error", !.left = @ - 1, !.errors = @ + 1]
  BY <1>1, <1>2
<1> HIDE DEF t, n
<1>4. /\ n \in Task /\ Stage(n) /\ n.remote = t.remote /\ n.pc = "read"
      /\ n.left + n.errors + n.tokens = t.left + t.errors + t.tokens
      /\ ErrorsShown(n) = ErrorsShown(t) /\ CompletedShown(n) = CompletedShown(t)
  BY <1>1, <1>2, <1>3, FetchedTask
<1>5. t.remote \in DOMAIN remotes => HasJob(remotes'[t.remote].job)
  BY <1>1, <1>2 DEF Placed, t
<1>6. t.remote \in DOMAIN remotes \ shared => Accurate(n, Batch[i], remotes'[t.remote].job)
  BY <1>1, <1>2, <1>4 DEF Accurate, Shows
<1>7. t.remote = imports[i].remote
  BY DEF t
<1> QED BY <1>1, <1>2, <1>3, <1>4, <1>5, <1>6, <1>7, TaskMoves

\* What a report is about to write, from the job it reads.
LEMMA DueReport ==
  ASSUME NEW i \in Imports, NEW job \in Job \cup {NoJob}, ImportsAssumption,
         imports[i] \in Task, Stage(imports[i]), imports[i].pc = "read"
  PROVE  /\ Updates(i, job) \in JobUpdates
         /\ imports[i].report = "error" => Updates(i, job) \in [errors : Nat, failed : Nat]
         /\ imports[i].report = "count" => Updates(i, job) \in [completed : Nat, failed : Nat]
         /\ imports[i].report = "end" =>
              Updates(i, job) \in [status : {"failed", "completed"}, completed : Nat, failed : Nat]
         /\ HasJob(job) /\ Shows(imports[i], Batch[i], job)
              => Updates(i, job) = DueUpdates(imports[i], Batch[i])
<1> DEFINE errors == IF HasJob(job) THEN job.errors ELSE 0
           completed == IF HasJob(job) THEN job.completed ELSE 0
           total == IF HasJob(job) THEN job.total ELSE 0
           t == imports[i]
<1>1. /\ errors \in Nat /\ completed \in Nat /\ total \in Nat
  BY DEF Job, HasJob
<1>2. /\ Batch[i] \in Nat /\ t.tokens \in Nat /\ t.errors \in Nat
      /\ t.report \in {"error", "count", "end"}
  BY DEF ImportsAssumption, Task, Stage
<1>3. HasJob(job) /\ Shows(t, Batch[i], job) =>
        /\ errors = ErrorsShown(t) /\ completed = CompletedShown(t) /\ total = Batch[i]
  BY DEF Shows
<1>4. /\ t.report = "error" => Updates(i, job) = [errors |-> errors + 1, failed |-> errors + 1]
      /\ t.report = "count" => Updates(i, job) = [completed |-> completed + 1, failed |-> errors]
      /\ t.report = "end" => Updates(i, job) =
           IF t.tokens = 0 THEN [status |-> "failed", completed |-> total, failed |-> errors]
                           ELSE [status |-> "completed", completed |-> Batch[i], failed |-> errors]
  BY <1>2 DEF Updates
<1> HIDE DEF errors, completed, total, t
<1>5. CASE t.report = "error"
  <2>1. Updates(i, job) \in [errors : Nat, failed : Nat]
    BY <1>1, <1>4, <1>5
  <2>2. HasJob(job) /\ Shows(t, Batch[i], job) => errors + 1 = t.errors
    BY <1>2, <1>3, <1>5 DEF ErrorsShown
  <2>3. HasJob(job) /\ Shows(t, Batch[i], job) => Updates(i, job) = DueUpdates(t, Batch[i])
    BY <1>4, <1>5, <2>2 DEF DueUpdates
  <2> QED BY <1>5, <2>1, <2>3 DEF JobUpdates, t
<1>6. CASE t.report = "count"
  <2>1. Updates(i, job) \in [completed : Nat, failed : Nat]
    BY <1>1, <1>4, <1>6
  <2>2. t.pc = "read"
    BY DEF t
  <2>3. HasJob(job) /\ Shows(t, Batch[i], job) =>
          errors = t.errors /\ completed + 1 = t.errors + t.tokens
    BY <1>2, <1>3, <1>6, <2>2 DEF ErrorsShown, CompletedShown
  <2>4. HasJob(job) /\ Shows(t, Batch[i], job) => Updates(i, job) = DueUpdates(t, Batch[i])
    BY <1>4, <1>6, <2>3 DEF DueUpdates
  <2> QED BY <1>6, <2>1, <2>4 DEF JobUpdates, t
<1>7. CASE t.report = "end"
  <2>1. Updates(i, job) \in [status : {"failed", "completed"}, completed : Nat, failed : Nat]
    BY <1>1, <1>2, <1>4, <1>7
  <2>2. HasJob(job) /\ Shows(t, Batch[i], job) => errors = t.errors /\ total = Batch[i]
    BY <1>2, <1>3, <1>7 DEF ErrorsShown
  <2>3. HasJob(job) /\ Shows(t, Batch[i], job) => Updates(i, job) = DueUpdates(t, Batch[i])
    BY <1>4, <1>7, <2>2 DEF DueUpdates
  <2> QED BY <1>7, <2>1, <2>3 DEF JobUpdates, t
<1> QED BY <1>2, <1>5, <1>6, <1>7
LEMMA JobOfType ==
  ASSUME ImportsInv, NEW r PROVE JobOf(r) \in Job \cup {NoJob}
  BY DEF ImportsInv, ImportsTypeOK, JobOf, Remote

LEMMA ReadJobInv ==
  ASSUME ImportsInv, ImportsAssumption, NEW i \in Imports, ReadJob(i)
  PROVE  ImportsInv'
<1> DEFINE t == imports[i]
           n == imports'[i]
           u == Updates(i, JobOf(t.remote))
<1>1. /\ Running(i) /\ t.pc = "read" /\ UNCHANGED <<remotes, edited, diskFailed, shared>>
      /\ imports' = [imports EXCEPT ![i] = [t EXCEPT !.pc = "base", !.updates = u]]
  BY DEF ReadJob
<1>2. /\ t \in Task /\ i \in DOMAIN imports /\ t.remote \in Remotes
      /\ t.left + t.errors + t.tokens = Batch[i] /\ Stage(t) /\ Placed(i)
      /\ t.remote \in DOMAIN remotes \ shared => Accurate(t, Batch[i], remotes[t.remote].job)
      /\ remotes \in [DOMAIN remotes -> Remote]
  BY <1>1, RunningFacts
<1>3. imports' = [imports EXCEPT ![i] = n] /\ n = [t EXCEPT !.pc = "base", !.updates = u]
  BY <1>1, <1>2
<1>4. JobOf(t.remote) \in Job \cup {NoJob}
  BY JobOfType
<1>5. /\ u \in JobUpdates
      /\ t.report = "error" => u \in [errors : Nat, failed : Nat]
      /\ t.report = "count" => u \in [completed : Nat, failed : Nat]
      /\ t.report = "end" => u \in [status : {"failed", "completed"}, completed : Nat, failed : Nat]
      /\ HasJob(JobOf(t.remote)) /\ Shows(t, Batch[i], JobOf(t.remote))
           => u = DueUpdates(t, Batch[i])
  BY <1>1, <1>2, <1>4, DueReport
<1>6. t.remote = imports[i].remote
  BY DEF t
<1>7. t.remote \in DOMAIN remotes => HasJob(JobOf(t.remote)) /\ JobOf(t.remote) = remotes[t.remote].job
  BY <1>2 DEF Placed, JobOf, t
<1> HIDE DEF t, n, u
<1>8. /\ n \in Task /\ Stage(n) /\ n.remote = t.remote /\ n.pc = "base" /\ n.updates = u
      /\ n.left = t.left /\ n.errors = t.errors /\ n.tokens = t.tokens /\ n.report = t.report
      /\ ErrorsShown(n) = ErrorsShown(t) /\ CompletedShown(n) = CompletedShown(t)
  <2>1. /\ t \in Task /\ Stage(t) /\ t.pc = "read" /\ u \in JobUpdates
        /\ n = [t EXCEPT !.pc = "base", !.updates = u]
    BY <1>1, <1>2, <1>3, <1>5
  <2>2. /\ t.report = "error" => u \in [errors : Nat, failed : Nat]
        /\ t.report = "count" => u \in [completed : Nat, failed : Nat]
        /\ t.report = "end" => u \in [status : {"failed", "completed"}, completed : Nat, failed : Nat]
    BY <1>5
  <2> QED BY <2>1, <2>2, ReadTask
<1>9. t.remote \in DOMAIN remotes \ shared => Accurate(n, Batch[i], remotes'[t.remote].job)
  <2> SUFFICES ASSUME t.remote \in DOMAIN remotes \ shared
               PROVE  Accurate(n, Batch[i], remotes[t.remote].job)
    BY <1>1
  <2>1. Shows(t, Batch[i], remotes[t.remote].job)
    BY <1>2 DEF Accurate
  <2>2. n.updates = DueUpdates(t, Batch[i])
    BY <1>5, <1>7, <1>8, <2>1
  <2>3. n.updates = DueUpdates(n, Batch[i])
    BY <1>8, <2>2 DEF DueUpdates
  <2> QED BY <1>8, <2>1, <2>3 DEF Accurate, Shows
<1>10. t.remote \in DOMAIN remotes => HasJob(remotes'[t.remote].job)
  BY <1>1, <1>7
<1> QED BY <1>1, <1>2, <1>3, <1>6, <1>8, <1>9, <1>10, TaskMoves

LEMMA ReadBaseInv ==
  ASSUME ImportsInv, ImportsAssumption, NEW i \in Imports, ReadBase(i)
  PROVE  ImportsInv'
<1> DEFINE t == imports[i]
           n == imports'[i]
           b == JobOf(t.remote)
<1>1. /\ Running(i) /\ t.pc = "base" /\ UNCHANGED <<remotes, edited, diskFailed, shared>>
      /\ imports' = [imports EXCEPT ![i] = [t EXCEPT !.pc = "write", !.base = b]]
  BY DEF ReadBase
<1>2. /\ t \in Task /\ i \in DOMAIN imports /\ t.remote \in Remotes
      /\ t.left + t.errors + t.tokens = Batch[i] /\ Stage(t) /\ Placed(i)
      /\ t.remote \in DOMAIN remotes \ shared => Accurate(t, Batch[i], remotes[t.remote].job)
      /\ remotes \in [DOMAIN remotes -> Remote]
  BY <1>1, RunningFacts
<1>3. imports' = [imports EXCEPT ![i] = n] /\ n = [t EXCEPT !.pc = "write", !.base = b]
  BY <1>1, <1>2
<1>4. b \in Job \cup {NoJob}
  BY JobOfType
<1>5. t.remote = imports[i].remote
  BY DEF t
<1>6. t.remote \in DOMAIN remotes => HasJob(b) /\ b = remotes[t.remote].job
  BY <1>2 DEF Placed, JobOf, t
<1> HIDE DEF t, n, b
<1>7. /\ n \in Task /\ Stage(n) /\ n.remote = t.remote /\ n.pc = "write" /\ n.base = b
      /\ n.left = t.left /\ n.errors = t.errors /\ n.tokens = t.tokens /\ n.report = t.report
      /\ n.updates = t.updates
      /\ ErrorsShown(n) = ErrorsShown(t) /\ CompletedShown(n) = CompletedShown(t)
  <2>1. /\ t \in Task /\ Stage(t) /\ t.pc = "base" /\ b \in Job \cup {NoJob}
        /\ n = [t EXCEPT !.pc = "write", !.base = b]
    BY <1>1, <1>2, <1>3, <1>4
  <2> QED BY <2>1, BasedTask
<1>8. t.remote \in DOMAIN remotes \ shared => Accurate(n, Batch[i], remotes'[t.remote].job)
  <2> SUFFICES ASSUME t.remote \in DOMAIN remotes \ shared
               PROVE  Accurate(n, Batch[i], remotes[t.remote].job)
    BY <1>1
  <2>1. Shows(t, Batch[i], remotes[t.remote].job) /\ t.updates = DueUpdates(t, Batch[i])
    BY <1>1, <1>2 DEF Accurate
  <2>2. n.updates = DueUpdates(n, Batch[i])
    BY <1>7, <2>1 DEF DueUpdates
  <2> QED BY <1>6, <1>7, <2>1, <2>2 DEF Accurate, Shows
<1>9. t.remote \in DOMAIN remotes => HasJob(remotes'[t.remote].job)
  BY <1>1, <1>6
<1> QED BY <1>1, <1>2, <1>3, <1>5, <1>6, <1>7, <1>8, <1>9, TaskMoves

\* What the report of a running task writes: a job, that of the remote without
\* its settings.
LEMMA WrittenJob ==
  ASSUME ImportsInv, NEW i \in Imports, Running(i), imports[i].pc = "write",
         HasJob(imports[i].base)
  PROVE  /\ Merge(imports[i].base, imports[i].updates) \in Job
         /\ imports[i].report = "end" =>
              Merge(imports[i].base, imports[i].updates).status \notin Unfinished
         /\ Accurate(imports[i], Batch[i], imports[i].base) =>
              LET job == Merge(imports[i].base, imports[i].updates)
              IN /\ job.total = Batch[i] /\ job.errors = imports[i].errors
                 /\ job.failed = imports[i].errors
                 /\ imports[i].report = "running" => job.completed = 0
                 /\ imports[i].report = "error" =>
                      job.completed = imports[i].errors + imports[i].tokens - 1
                 /\ imports[i].report = "count" =>
                      job.completed = imports[i].errors + imports[i].tokens
                 /\ imports[i].report = "end" =>
                      /\ job.completed = Batch[i]
                      /\ job.status = IF imports[i].tokens = 0 THEN "failed" ELSE "completed"
<1> DEFINE t == imports[i]
           job == Merge(t.base, t.updates)
<1>1. /\ t \in Task /\ Stage(t) /\ t.base \in Job
      /\ t.report \in {"running", "error", "count", "end"}
      /\ t.errors \in Nat /\ t.tokens \in Nat
  BY RunningFacts DEF Task, HasJob
<1>2. /\ t.report = "running" => t.updates = [status |-> "running"]
      /\ t.report = "running" => t.errors = 0 /\ t.tokens = 0
      /\ t.report = "error" => t.updates \in [errors : Nat, failed : Nat]
      /\ t.report = "count" => t.updates \in [completed : Nat, failed : Nat]
      /\ t.report = "end" =>
           t.updates \in [status : {"failed", "completed"}, completed : Nat, failed : Nat]
  BY <1>1 DEF Stage
<1>3. Accurate(t, Batch[i], t.base) =>
        /\ t.base.total = Batch[i] /\ t.base.completed = CompletedShown(t)
        /\ t.base.failed = ErrorsShown(t) /\ t.base.errors = ErrorsShown(t)
        /\ t.updates = DueUpdates(t, Batch[i])
  BY DEF Accurate, Shows
<1>4. t.pc = "write"
  OBVIOUS
<1> HIDE DEF t
<1>5. CASE t.report = "running"
  <2>1. t.updates \in [status : {"running"}]
    BY <1>2, <1>5
  <2>2. /\ job \in Job /\ job.total = t.base.total /\ job.completed = t.base.completed
        /\ job.failed = t.base.failed /\ job.errors = t.base.errors
    BY <1>1, <2>1, MergedRunning
  <2> QED BY <1>1, <1>2, <1>3, <1>5, <2>2 DEF ErrorsShown, CompletedShown, t
<1>6. CASE t.report = "error"
  <2>1. /\ job \in Job /\ job.total = t.base.total /\ job.completed = t.base.completed
        /\ job.failed = t.updates.failed /\ job.errors = t.updates.errors
    BY <1>1, <1>2, <1>6, MergedErrors
  <2>2. Accurate(t, Batch[i], t.base) => t.updates = [errors |-> t.errors, failed |-> t.errors]
    BY <1>3, <1>6 DEF DueUpdates
  <2> QED BY <1>1, <1>3, <1>6, <2>1, <2>2 DEF CompletedShown, t
<1>7. CASE t.report = "count"
  <2>1. /\ job \in Job /\ job.total = t.base.total /\ job.completed = t.updates.completed
        /\ job.failed = t.updates.failed /\ job.errors = t.base.errors
    BY <1>1, <1>2, <1>7, MergedCount
  <2>2. Accurate(t, Batch[i], t.base) =>
          t.updates = [completed |-> t.errors + t.tokens, failed |-> t.errors]
    BY <1>3, <1>7 DEF DueUpdates
  <2> QED BY <1>1, <1>3, <1>7, <2>1, <2>2 DEF ErrorsShown, t
<1>8. CASE t.report = "end"
  <2>1. /\ job \in Job /\ job.total = t.base.total /\ job.completed = t.updates.completed
        /\ job.failed = t.updates.failed /\ job.errors = t.base.errors
        /\ job.status = t.updates.status /\ t.updates.status \in {"failed", "completed"}
    BY <1>1, <1>2, <1>8, MergedEnd
  <2>2. Accurate(t, Batch[i], t.base) =>
          t.updates = [status |-> IF t.tokens = 0 THEN "failed" ELSE "completed",
                       completed |-> Batch[i], failed |-> t.errors]
    BY <1>3, <1>8 DEF DueUpdates
  <2> QED BY <1>1, <1>3, <1>8, <2>1, <2>2 DEF ErrorsShown, Unfinished, t
<1> QED BY <1>1, <1>5, <1>6, <1>7, <1>8
\* set_import_job changes the job of one remote.
LEMMA SetJob ==
  ASSUME remotes \in [DOMAIN remotes -> Remote], NEW job \in Job, NEW r \in DOMAIN remotes,
         SetImportJob(r, job)
  PROVE  /\ DOMAIN remotes' = DOMAIN remotes /\ remotes' \in [DOMAIN remotes -> Remote]
         /\ remotes'[r].job = job /\ diskFailed' \in {diskFailed, TRUE}
         /\ \A s \in DOMAIN remotes :
              /\ remotes'[s].settings = remotes[s].settings
              /\ s # r => remotes'[s] = remotes[s]
<1>1. remotes' = [remotes EXCEPT ![r] = [remotes[r] EXCEPT !.job = job]] /\ Persist
  BY DEF SetImportJob
<1>2. remotes[r] \in Remote
  OBVIOUS
<1>3. /\ [remotes[r] EXCEPT !.job = job] \in Remote
      /\ [remotes[r] EXCEPT !.job = job].job = job
      /\ [remotes[r] EXCEPT !.job = job].settings = remotes[r].settings
  BY <1>2 DEF Remote
<1> QED BY <1>1, <1>3 DEF Persist

LEMMA WriteStep ==
  ASSUME ImportsInv, ImportsAssumption, NEW i \in Imports, WriteJob(i)
  PROVE  LET r == imports[i].remote
         IN /\ DOMAIN remotes' = DOMAIN remotes /\ remotes' \in [DOMAIN remotes -> Remote]
            /\ diskFailed' \in {diskFailed, TRUE} /\ UNCHANGED <<edited, shared>>
            /\ \A s \in DOMAIN remotes :
                 /\ remotes'[s].settings = remotes[s].settings
                 /\ s # r => remotes'[s] = remotes[s]
            /\ r \in DOMAIN remotes =>
                 /\ HasJob(imports[i].base)
                 /\ remotes'[r].job = Merge(imports[i].base, imports[i].updates)
                 /\ remotes'[r].job \in Job
            /\ imports' = [imports EXCEPT ![i] =
                 IF Following(imports[i]) = Done THEN Done
                 ELSE [Following(imports[i]) EXCEPT !.base = NoJob, !.updates = NoUpdates]]
<1> DEFINE r == imports[i].remote
<1>1. /\ Running(i) /\ imports[i].pc = "write" /\ UNCHANGED <<edited, shared>>
      /\ HasJob(imports[i].base) =>
           SetImportJob(r, Merge(imports[i].base, imports[i].updates))
      /\ ~HasJob(imports[i].base) => UNCHANGED <<remotes, diskFailed>>
  BY DEF WriteJob
<1>2. remotes \in [DOMAIN remotes -> Remote] /\ Placed(i)
  BY <1>1, RunningFacts
<1>3. CASE r \in DOMAIN remotes
  <2>1. HasJob(imports[i].base)
    BY <1>1, <1>2, <1>3 DEF Placed
  <2>2. Merge(imports[i].base, imports[i].updates) \in Job
    BY <1>1, <2>1, WrittenJob
  <2>3. SetImportJob(r, Merge(imports[i].base, imports[i].updates))
    BY <1>1, <2>1
  <2> HIDE <1>1
  <2>4. /\ DOMAIN remotes' = DOMAIN remotes /\ remotes' \in [DOMAIN remotes -> Remote]
        /\ remotes'[r].job = Merge(imports[i].base, imports[i].updates)
        /\ diskFailed' \in {diskFailed, TRUE}
        /\ \A s \in DOMAIN remotes :
             /\ remotes'[s].settings = remotes[s].settings
             /\ s # r => remotes'[s] = remotes[s]
    BY <1>2, <1>3, <2>2, <2>3, SetJob
  <2> QED BY <1>1, <1>3, <2>1, <2>2, <2>4 DEF WriteJob
<1>4. CASE r \notin DOMAIN remotes
  <2>1. UNCHANGED <<remotes, diskFailed>>
    BY <1>1, <1>4 DEF SetImportJob
  <2> QED BY <1>1, <1>2, <1>4, <2>1 DEF WriteJob
<1> QED BY <1>3, <1>4

\* A report that is not the last.
LEMMA WriteGoesOn ==
  ASSUME ImportsInv, ImportsAssumption, NEW i \in Imports, WriteJob(i),
         imports[i].report # "end"
  PROVE  ImportsInv'
<1> DEFINE t == imports[i]
           r == t.remote
           n == imports'[i]
<1>1. Running(i) /\ t.pc = "write"
  BY DEF WriteJob
<1>2. /\ t \in Task /\ i \in DOMAIN imports /\ r \in Remotes
      /\ t.left + t.errors + t.tokens = Batch[i] /\ Stage(t) /\ Placed(i)
  BY <1>1, RunningFacts
<1>3. r \in DOMAIN remotes \ shared => Accurate(t, Batch[i], remotes[r].job)
  BY <1>1, RunningFacts
<1>4. /\ DOMAIN remotes' = DOMAIN remotes /\ remotes' \in [DOMAIN remotes -> Remote]
      /\ diskFailed' \in {diskFailed, TRUE} /\ UNCHANGED <<edited, shared>>
      /\ \A s \in DOMAIN remotes :
           /\ remotes'[s].settings = remotes[s].settings
           /\ s # r => remotes'[s] = remotes[s]
      /\ r \in DOMAIN remotes =>
           /\ HasJob(t.base) /\ remotes'[r].job = Merge(t.base, t.updates)
           /\ remotes'[r].job \in Job
      /\ imports' = [imports EXCEPT ![i] =
           IF Following(t) = Done THEN Done
           ELSE [Following(t) EXCEPT !.base = NoJob, !.updates = NoUpdates]]
  BY WriteStep
<1>5. \A m : m = [Following(t) EXCEPT !.base = NoJob, !.updates = NoUpdates] =>
        /\ Following(t) # Done
        /\ m \in Task /\ Stage(m) /\ m.remote = t.remote /\ m.pc \in {"read", "fetch"}
        /\ m.left = t.left /\ m.errors = t.errors /\ m.tokens = t.tokens
        /\ m.report = IF t.report = "error" THEN "count"
                      ELSE IF t.left = 0 THEN "end" ELSE t.report
        /\ m.pc = "fetch" => m.report = t.report
        /\ m.report = "count" /\ t.report = "count" => m.pc = "fetch"
  BY <1>1, <1>2, FollowingTask
<1>6. Following(t) # Done
  BY <1>5
<1>7. n = [Following(t) EXCEPT !.base = NoJob, !.updates = NoUpdates]
      /\ imports' = [imports EXCEPT ![i] = n]
  BY <1>2, <1>4, <1>6
<1>8. /\ n \in Task /\ Stage(n) /\ n.remote = t.remote /\ n.pc \in {"read", "fetch"}
      /\ n.left = t.left /\ n.errors = t.errors /\ n.tokens = t.tokens
      /\ n.report = IF t.report = "error" THEN "count"
                    ELSE IF t.left = 0 THEN "end" ELSE t.report
      /\ n.pc = "fetch" => n.report = t.report
      /\ n.report = "count" /\ t.report = "count" => n.pc = "fetch"
  BY <1>5, <1>7
<1>9. r \in DOMAIN remotes \ shared => Accurate(n, Batch[i], remotes'[r].job)
  <2> SUFFICES ASSUME r \in DOMAIN remotes \ shared
               PROVE  Accurate(n, Batch[i], remotes'[r].job)
    OBVIOUS
  <2> DEFINE job == remotes'[r].job
  <2>1. Accurate(t, Batch[i], t.base)
    BY <1>1, <1>3 DEF Accurate
  <2>2. /\ job.total = Batch[i] /\ job.errors = t.errors /\ job.failed = t.errors
        /\ t.report = "running" => job.completed = 0
        /\ t.report = "error" => job.completed = t.errors + t.tokens - 1
        /\ t.report = "count" => job.completed = t.errors + t.tokens
    BY <1>1, <1>4, <2>1, WrittenJob
  <2>3. /\ t.report \in {"running", "error", "count"} /\ t.errors \in Nat /\ t.tokens \in Nat
        /\ t.report = "running" => t.errors = 0 /\ t.tokens = 0 /\ t.left > 0
    BY <1>2 DEF Task, Stage
  <2> HIDE DEF job, n, t
  <2>4. ErrorsShown(n) = t.errors
    BY <1>8, <2>3 DEF ErrorsShown
  <2>5. CompletedShown(n) = job.completed
    BY <1>8, <2>2, <2>3 DEF CompletedShown
  <2> QED BY <1>8, <2>2, <2>4, <2>5 DEF Accurate, Shows, job
<1>10. r \in DOMAIN remotes => HasJob(remotes'[r].job)
  BY <1>4, NoJobFacts DEF HasJob
<1>11. n.left + n.errors + n.tokens = Batch[i] /\ n.pc # "write"
  BY <1>2, <1>8
<1>12. r = imports[i].remote /\ n.remote = r
  BY <1>8
<1>13. n.pc = "write" /\ r \in DOMAIN remotes => HasJob(n.base)
  BY <1>11
<1>14. imports' = [imports EXCEPT ![i] = n]
  BY <1>7
<1>15. n \in Task /\ Stage(n) /\ r \in Remotes
  BY <1>2, <1>8
<1> HIDE DEF n, r, t
<1> QED BY <1>1, <1>4, <1>9, <1>10, <1>11, <1>12, <1>13, <1>14, <1>15, TaskMoves
\* The last report ends the task and the job with it.
LEMMA WriteEnds ==
  ASSUME ImportsInv, ImportsAssumption, NEW i \in Imports, WriteJob(i),
         imports[i].report = "end"
  PROVE  /\ ImportsInv'
         /\ LET r == imports[i].remote
            IN r \in DOMAIN remotes \ shared =>
                 LET job == remotes'[r].job
                 IN /\ job.completed = job.total /\ job.total = Batch[i]
                    /\ job.failed = imports[i].errors /\ job.errors = imports[i].errors
                    /\ job.status = (IF imports[i].tokens = 0 THEN "failed" ELSE "completed")
<1> DEFINE t == imports[i]
           r == t.remote
<1>1. Running(i) /\ t.pc = "write"
  BY DEF WriteJob
<1>2. /\ t \in Task /\ i \in DOMAIN imports /\ r \in Remotes /\ Placed(i)
      /\ r \in DOMAIN remotes \ shared => Accurate(t, Batch[i], remotes[r].job)
  BY <1>1, RunningFacts
<1>3. /\ DOMAIN remotes' = DOMAIN remotes /\ remotes' \in [DOMAIN remotes -> Remote]
      /\ diskFailed' \in {diskFailed, TRUE} /\ UNCHANGED <<edited, shared>>
      /\ \A s \in DOMAIN remotes :
           /\ remotes'[s].settings = remotes[s].settings
           /\ s # r => remotes'[s] = remotes[s]
      /\ r \in DOMAIN remotes =>
           /\ HasJob(t.base) /\ remotes'[r].job = Merge(t.base, t.updates)
           /\ remotes'[r].job \in Job
  BY WriteStep
<1>4. imports' = [imports EXCEPT ![i] = Done]
  <2>1. Following(t) = Done
    BY DEF Following
  <2> QED BY <2>1, WriteStep
<1>5. r \in DOMAIN remotes => remotes'[r].job.status \notin Unfinished
  BY <1>1, <1>3, WrittenJob
<1>6. r \in DOMAIN remotes \ shared =>
        /\ remotes'[r].job.total = Batch[i] /\ remotes'[r].job.completed = Batch[i]
        /\ remotes'[r].job.failed = t.errors /\ remotes'[r].job.errors = t.errors
        /\ remotes'[r].job.status = (IF t.tokens = 0 THEN "failed" ELSE "completed")
  <2> SUFFICES ASSUME r \in DOMAIN remotes \ shared
               PROVE  /\ remotes'[r].job.total = Batch[i] /\ remotes'[r].job.completed = Batch[i]
                      /\ remotes'[r].job.failed = t.errors /\ remotes'[r].job.errors = t.errors
                      /\ remotes'[r].job.status = (IF t.tokens = 0 THEN "failed" ELSE "completed")
    OBVIOUS
  <2>1. Accurate(t, Batch[i], t.base)
    BY <1>1, <1>2 DEF Accurate
  <2> QED BY <1>1, <1>3, <2>1, WrittenJob
<1>7. /\ imports'[i] = Done /\ \A j \in Imports \ {i} : imports'[j] = imports[j]
      /\ imports' \in [Imports -> Task \cup {New, Done}]
  BY <1>2, <1>4 DEF ImportsInv, ImportsTypeOK
<1>8. \A j \in Imports : Running(j)' <=> Running(j) /\ j # i
  BY <1>7 DEF Running
<1> HIDE DEF t, r
<1> USE DEF ImportsInv
<1>9. ImportsTypeOK'
  BY <1>3, <1>7, <1>8 DEF ImportsTypeOK
<1>10. KnownRemotes'
  BY <1>3 DEF KnownRemotes
<1>11. TasksInv'
  <2> SUFFICES ASSUME NEW j \in Imports, Running(j)' PROVE Stage(imports'[j]) /\ Placed(j)'
    BY DEF TasksInv
  <2>1. Running(j) /\ imports'[j] = imports[j] /\ Stage(imports[j]) /\ Placed(j)
    BY <1>7, <1>8 DEF TasksInv
  <2>2. imports[j].remote \in DOMAIN remotes => HasJob(remotes'[imports[j].remote].job)
    BY <1>3, <2>1, NoJobFacts DEF Placed, HasJob
  <2> QED BY <1>3, <2>1, <2>2 DEF Placed
<1>12. RunningHasTask'
  <2> SUFFICES ASSUME NEW s \in DOMAIN remotes', remotes'[s].job.status \in Unfinished
               PROVE  \E j \in Imports : Running(j)' /\ imports'[j].remote = s
    BY DEF RunningHasTask
  <2>1. s # r /\ s \in DOMAIN remotes /\ remotes[s].job.status \in Unfinished
    BY <1>3, <1>5
  <2>2. PICK j \in Imports : Running(j) /\ imports[j].remote = s
    BY <2>1 DEF RunningHasTask
  <2>3. j # i
    BY <2>1, <2>2 DEF r, t
  <2> QED BY <1>7, <1>8, <2>2, <2>3
<1>13. EditsPrevail'
  <2>1. EditsPrevail /\ diskFailed \in BOOLEAN
    BY DEF ImportsTypeOK
  <2>2. ~diskFailed' => ~diskFailed
    BY <1>3, <2>1
  <2>3. \A s \in DOMAIN remotes' :
          remotes'[s].settings = remotes[s].settings /\ edited'[s] = edited[s] /\ s \in DOMAIN remotes
    BY <1>3
  <2> QED BY <2>1, <2>2, <2>3 DEF EditsPrevail
<1>14. AloneInv'
  <2> SUFFICES ASSUME NEW j \in Imports, Running(j)', imports'[j].remote \in DOMAIN remotes' \ shared'
               PROVE  Alone(j)'
    BY DEF AloneInv
  <2>1. /\ Running(j) /\ j # i /\ imports'[j] = imports[j]
        /\ imports[j].remote \in DOMAIN remotes \ shared /\ Alone(j)
    BY <1>3, <1>7, <1>8 DEF AloneInv
  <2>2. imports[j].remote # r
    BY <1>1, <2>1 DEF Alone, r, t
  <2>3. \A k \in Imports : Running(k)' /\ imports'[k].remote = imports'[j].remote => k = j
    BY <1>7, <1>8, <2>1 DEF Alone
  <2> QED BY <1>3, <2>1, <2>2, <2>3 DEF Alone
<1> QED BY <1>6, <1>9, <1>10, <1>11, <1>12, <1>13, <1>14 DEF r, t

---------------------------------------------------------------------------
(* The administrator's steps. *)

\* Remotes come, change or go, and no task notices: every job that a task works
\* on keeps its counters.
LEMMA RemotesChange ==
  ASSUME ImportsInv, UNCHANGED <<imports, shared>>,
         DOMAIN remotes' \subseteq Remotes, remotes' \in [DOMAIN remotes' -> Remote],
         edited' \in [Remotes -> 0..MaxEdits \cup {Unknown, Deleted}],
         diskFailed' \in {diskFailed, TRUE},
         KnownRemotes', EditsPrevail',
         \A r \in Remotes : edited[r] # Unknown => edited'[r] # Unknown,
         \A r \in DOMAIN remotes' : r \in DOMAIN remotes \/ edited[r] = Unknown,
         \A r \in DOMAIN remotes' \ DOMAIN remotes : remotes'[r].job = NoJob,
         \A r \in DOMAIN remotes' \cap DOMAIN remotes :
            remotes'[r].job \in {remotes[r].job, FailUnfinished(remotes[r].job)}
  PROVE  ImportsInv'
<1> USE DEF ImportsInv
<1>1. \A j \in Imports : (Running(j)' <=> Running(j)) /\ imports'[j] = imports[j]
  BY DEF Running
<1>2. ImportsTypeOK'
  BY <1>1 DEF ImportsTypeOK
<1>3. \A r \in DOMAIN remotes' \cap DOMAIN remotes :
        /\ HasJob(remotes[r].job) => HasJob(remotes'[r].job)
        /\ \A task, total : HasJob(remotes[r].job) /\ Accurate(task, total, remotes[r].job)
                              => Accurate(task, total, remotes'[r].job)
        /\ remotes'[r].job.status \in Unfinished => remotes[r].job.status \in Unfinished
  <2> TAKE r \in DOMAIN remotes' \cap DOMAIN remotes
  <2> DEFINE job == remotes[r].job
             next == remotes'[r].job
  <2>1. job \in Job \cup {NoJob} /\ next \in {job, FailUnfinished(job)}
    BY DEF ImportsTypeOK, Remote
  <2> HIDE DEF job, next
  <2>2. /\ HasJob(job) => HasJob(next)
        /\ HasJob(job) => /\ next.total = job.total /\ next.completed = job.completed
                          /\ next.failed = job.failed /\ next.errors = job.errors
        /\ next.status \in Unfinished => job.status \in Unfinished
    BY <2>1, FailedJob
  <2>3. \A task, total : HasJob(job) /\ Accurate(task, total, job) => Accurate(task, total, next)
    BY <2>2 DEF Accurate, Shows
  <2> QED BY <2>2, <2>3 DEF job, next
<1>4. ASSUME NEW j \in Imports, Running(j)
      PROVE  /\ imports[j].remote \in Remotes /\ Stage(imports[j]) /\ Placed(j)
             /\ edited'[imports[j].remote] # Unknown
             /\ imports[j].remote \in DOMAIN remotes' => imports[j].remote \in DOMAIN remotes
  BY <1>4, RunningFacts DEF Placed
<1>5. TasksInv'
  <2> SUFFICES ASSUME NEW j \in Imports, Running(j) PROVE Stage(imports'[j]) /\ Placed(j)'
    BY <1>1 DEF TasksInv
  <2> DEFINE r == imports[j].remote
  <2>1. Stage(imports[j]) /\ Placed(j) /\ edited'[r] # Unknown
    BY <1>4
  <2>2. r \in DOMAIN remotes' => r \in DOMAIN remotes
    BY <1>4
  <2>3. r \in DOMAIN remotes' => HasJob(remotes[r].job) /\ HasJob(remotes'[r].job)
    BY <1>3, <2>1, <2>2 DEF Placed
  <2>4. imports[j].pc = "write" /\ r \in DOMAIN remotes' => HasJob(imports[j].base)
    BY <2>1, <2>2 DEF Placed
  <2> QED BY <1>1, <2>1, <2>3, <2>4 DEF Placed
<1>6. RunningHasTask'
  <2> SUFFICES ASSUME NEW s \in DOMAIN remotes', remotes'[s].job.status \in Unfinished
               PROVE  \E j \in Imports : Running(j)' /\ imports'[j].remote = s
    BY DEF RunningHasTask
  <2>1. s \in DOMAIN remotes
    BY NoJobFacts DEF Statuses
  <2>2. remotes[s].job.status \in Unfinished
    BY <1>3, <2>1
  <2> QED BY <1>1, <2>1, <2>2 DEF RunningHasTask
<1>7. AloneInv'
  <2> SUFFICES ASSUME NEW j \in Imports, Running(j), imports[j].remote \in DOMAIN remotes' \ shared
               PROVE  Alone(j)'
    BY <1>1 DEF AloneInv
  <2> DEFINE r == imports[j].remote
  <2>1. r \in DOMAIN remotes /\ Placed(j) /\ Alone(j)
    BY <1>4 DEF AloneInv
  <2>2. HasJob(remotes[r].job)
    BY <2>1 DEF Placed
  <2>3. Accurate(imports[j], Batch[j], remotes'[r].job)
    BY <1>3, <2>1, <2>2 DEF Alone
  <2> QED BY <1>1, <2>1, <2>3 DEF Alone
<1> QED BY <1>2, <1>5, <1>6, <1>7
LEMMA AddRemoteInv ==
  ASSUME ImportsInv, ImportsAssumption, AddRemote PROVE ImportsInv'
<1>1. PICK r \in Remotes :
        /\ edited[r] = Unknown /\ remotes' = Put(remotes, r, NewRemote) /\ Persist
        /\ edited' = [edited EXCEPT ![r] = 0] /\ UNCHANGED <<imports, shared>>
  BY DEF AddRemote
<1>2. /\ ImportsTypeOK /\ remotes \in [DOMAIN remotes -> Remote] /\ DOMAIN remotes \subseteq Remotes
      /\ edited \in [Remotes -> 0..MaxEdits \cup {Unknown, Deleted}] /\ diskFailed \in BOOLEAN
      /\ KnownRemotes /\ EditsPrevail
  BY DEF ImportsInv, ImportsTypeOK
<1>3. r \notin DOMAIN remotes
  BY <1>1, <1>2 DEF KnownRemotes
<1>4. NewRemote \in Remote /\ NewRemote.settings = 0 /\ NewRemote.job = NoJob
  BY DEF NewRemote, Remote, ImportsAssumption
<1>5. /\ DOMAIN remotes' = DOMAIN remotes \cup {r} /\ remotes'[r] = NewRemote
      /\ \A s \in DOMAIN remotes : remotes'[s] = remotes[s]
      /\ remotes' \in [DOMAIN remotes' -> Remote]
  BY <1>1, <1>2, <1>3, <1>4 DEF Put
<1>6. /\ edited'[r] = 0 /\ \A s \in Remotes \ {r} : edited'[s] = edited[s]
      /\ edited' \in [Remotes -> 0..MaxEdits \cup {Unknown, Deleted}]
  BY <1>1, <1>2 DEF ImportsAssumption
<1>7. 0 # Unknown
  BY DEF Unknown
<1>8. diskFailed' \in {diskFailed, TRUE}
  BY <1>1 DEF Persist
<1>9. KnownRemotes'
  BY <1>2, <1>5, <1>6, <1>7 DEF KnownRemotes
<1>10. EditsPrevail'
  <2> SUFFICES ASSUME ~diskFailed', NEW s \in DOMAIN remotes' PROVE remotes'[s].settings = edited'[s]
    BY DEF EditsPrevail
  <2>1. CASE s = r
    BY <1>4, <1>5, <1>6, <2>1
  <2>2. CASE s # r
    BY <1>2, <1>5, <1>6, <1>8, <2>2 DEF EditsPrevail
  <2> QED BY <2>1, <2>2
<1>11. DOMAIN remotes' \subseteq Remotes
  BY <1>2, <1>5
<1>12. \A s \in Remotes : edited[s] # Unknown => edited'[s] # Unknown
  BY <1>1, <1>6
<1>13. \A s \in DOMAIN remotes' : s \in DOMAIN remotes \/ edited[s] = Unknown
  BY <1>1, <1>5
<1>14. /\ \A s \in DOMAIN remotes' \ DOMAIN remotes : remotes'[s].job = NoJob
       /\ \A s \in DOMAIN remotes' \cap DOMAIN remotes :
            remotes'[s].job \in {remotes[s].job, FailUnfinished(remotes[s].job)}
  BY <1>4, <1>5
<1>15. UNCHANGED <<imports, shared>>
  BY <1>1
<1> QED BY <1>5, <1>6, <1>8, <1>9, <1>10, <1>11, <1>12, <1>13, <1>14, <1>15, RemotesChange

LEMMA UpdateRemoteInv ==
  ASSUME ImportsInv, ImportsAssumption, UpdateRemote PROVE ImportsInv'
<1>1. PICK r \in DOMAIN remotes :
        /\ remotes[r].settings < MaxEdits
        /\ remotes' = [remotes EXCEPT ![r] = Edit(remotes[r])]
        /\ Persist /\ edited' = [edited EXCEPT ![r] = remotes'[r].settings]
        /\ UNCHANGED <<imports, shared>>
  BY DEF UpdateRemote
<1>2. /\ ImportsTypeOK /\ remotes \in [DOMAIN remotes -> Remote] /\ DOMAIN remotes \subseteq Remotes
      /\ edited \in [Remotes -> 0..MaxEdits \cup {Unknown, Deleted}] /\ diskFailed \in BOOLEAN
      /\ KnownRemotes /\ EditsPrevail /\ remotes[r] \in Remote
  BY DEF ImportsInv, ImportsTypeOK
<1> DEFINE e == [remotes[r] EXCEPT !.settings = remotes[r].settings + 1]
<1>3. remotes[r].settings \in 0..MaxEdits /\ MaxEdits \in Nat
  BY <1>2 DEF Remote, ImportsAssumption
<1>4. remotes[r].settings + 1 \in 0..MaxEdits
  BY <1>1, <1>3
<1>5. e \in Remote /\ e.job = remotes[r].job /\ e.settings \in 0..MaxEdits
  BY <1>2, <1>4 DEF Remote
<1> HIDE DEF e
<1>6. /\ Normalized(e) \in Remote /\ Normalized(e).settings = e.settings
      /\ Normalized(e).job = FailUnfinished(remotes[r].job)
  BY <1>5, NormalizedRemote
<1>7. /\ DOMAIN remotes' = DOMAIN remotes /\ remotes'[r] = Normalized(e)
      /\ \A s \in DOMAIN remotes \ {r} : remotes'[s] = remotes[s]
      /\ remotes' \in [DOMAIN remotes' -> Remote]
  BY <1>1, <1>2, <1>6 DEF e, Edit
<1>8. /\ edited'[r] = remotes'[r].settings /\ \A s \in Remotes \ {r} : edited'[s] = edited[s]
      /\ edited' \in [Remotes -> 0..MaxEdits \cup {Unknown, Deleted}]
      /\ edited'[r] \in 0..MaxEdits
  BY <1>1, <1>2, <1>5, <1>6, <1>7
<1>9. edited'[r] # Unknown
  BY <1>3, <1>8 DEF Unknown
<1>10. diskFailed' \in {diskFailed, TRUE}
  BY <1>1 DEF Persist
<1>11. KnownRemotes'
  BY <1>2, <1>7, <1>8, <1>9 DEF KnownRemotes
<1>12. EditsPrevail'
  <2> SUFFICES ASSUME ~diskFailed', NEW s \in DOMAIN remotes' PROVE remotes'[s].settings = edited'[s]
    BY DEF EditsPrevail
  <2>1. CASE s = r
    BY <1>8, <2>1
  <2>2. CASE s # r
    BY <1>2, <1>7, <1>8, <1>10, <2>2 DEF EditsPrevail
  <2> QED BY <2>1, <2>2
<1>13. DOMAIN remotes' \subseteq Remotes
  BY <1>2, <1>7
<1>14. \A s \in Remotes : edited[s] # Unknown => edited'[s] # Unknown
  BY <1>8, <1>9
<1>15. \A s \in DOMAIN remotes' : s \in DOMAIN remotes \/ edited[s] = Unknown
  BY <1>7
<1>16. /\ \A s \in DOMAIN remotes' \ DOMAIN remotes : remotes'[s].job = NoJob
       /\ \A s \in DOMAIN remotes' \cap DOMAIN remotes :
            remotes'[s].job \in {remotes[s].job, FailUnfinished(remotes[s].job)}
  BY <1>6, <1>7
<1>17. UNCHANGED <<imports, shared>>
  BY <1>1
<1> QED BY <1>7, <1>8, <1>10, <1>11, <1>12, <1>13, <1>14, <1>15, <1>16, <1>17, RemotesChange

LEMMA DeleteRemoteInv ==
  ASSUME ImportsInv, ImportsAssumption, DeleteRemote PROVE ImportsInv'
<1>1. PICK r \in DOMAIN remotes :
        /\ remotes' = Drop(remotes, r) /\ Persist
        /\ edited' = [edited EXCEPT ![r] = Deleted] /\ UNCHANGED <<imports, shared>>
  BY DEF DeleteRemote
<1>2. /\ ImportsTypeOK /\ remotes \in [DOMAIN remotes -> Remote] /\ DOMAIN remotes \subseteq Remotes
      /\ edited \in [Remotes -> 0..MaxEdits \cup {Unknown, Deleted}] /\ diskFailed \in BOOLEAN
      /\ KnownRemotes /\ EditsPrevail
  BY DEF ImportsInv, ImportsTypeOK
<1>3. /\ DOMAIN remotes' = DOMAIN remotes \ {r}
      /\ \A s \in DOMAIN remotes \ {r} : remotes'[s] = remotes[s]
      /\ remotes' \in [DOMAIN remotes' -> Remote]
  BY <1>1, <1>2 DEF Drop
<1>4. /\ edited'[r] = Deleted /\ \A s \in Remotes \ {r} : edited'[s] = edited[s]
      /\ edited' \in [Remotes -> 0..MaxEdits \cup {Unknown, Deleted}]
  BY <1>1, <1>2
<1>5. Deleted # Unknown
  BY DEF Unknown, Deleted
<1>6. diskFailed' \in {diskFailed, TRUE}
  BY <1>1 DEF Persist
<1>7. KnownRemotes'
  BY <1>2, <1>3, <1>4 DEF KnownRemotes
<1>8. EditsPrevail'
  <2> SUFFICES ASSUME ~diskFailed', NEW s \in DOMAIN remotes' PROVE remotes'[s].settings = edited'[s]
    BY DEF EditsPrevail
  <2> QED BY <1>2, <1>3, <1>4, <1>6 DEF EditsPrevail
<1>9. DOMAIN remotes' \subseteq Remotes
  BY <1>2, <1>3
<1>10. \A s \in Remotes : edited[s] # Unknown => edited'[s] # Unknown
  BY <1>4, <1>5
<1>11. /\ \A s \in DOMAIN remotes' : s \in DOMAIN remotes \/ edited[s] = Unknown
       /\ \A s \in DOMAIN remotes' \ DOMAIN remotes : remotes'[s].job = NoJob
       /\ \A s \in DOMAIN remotes' \cap DOMAIN remotes :
            remotes'[s].job \in {remotes[s].job, FailUnfinished(remotes[s].job)}
  BY <1>3
<1>12. UNCHANGED <<imports, shared>>
  BY <1>1
<1> QED BY <1>3, <1>4, <1>6, <1>7, <1>8, <1>9, <1>10, <1>11, <1>12, RemotesChange
LEMMA StartImportInv ==
  ASSUME ImportsInv, ImportsAssumption, StartImport PROVE ImportsInv'
<1> DEFINE started(i, r) ==
      [pc |-> "base", report |-> "running", remote |-> r, left |-> Batch[i], errors |-> 0,
       tokens |-> 0, base |-> NoJob, updates |-> [status |-> "running"]]
<1>1. PICK r \in DOMAIN remotes, i \in Imports :
        /\ imports[i] = New /\ SetImportJob(r, NewJob(i))
        /\ imports' = [imports EXCEPT ![i] = started(i, r)]
        /\ shared' = (shared \ {r}) \cup
             {s \in {r} : \E j \in Imports : Running(j) /\ imports[j].remote = r}
        /\ UNCHANGED edited
  BY DEF StartImport
<1> DEFINE n == started(i, r)
<1>2. /\ ImportsTypeOK /\ remotes \in [DOMAIN remotes -> Remote] /\ DOMAIN remotes \subseteq Remotes
      /\ imports \in [Imports -> Task \cup {New, Done}] /\ r \in Remotes
      /\ diskFailed \in BOOLEAN /\ shared \subseteq Remotes
      /\ KnownRemotes /\ EditsPrevail /\ TasksInv /\ RunningHasTask /\ AloneInv
  BY DEF ImportsInv, ImportsTypeOK
<1>3. Batch[i] \in Nat /\ Batch[i] > 0
  BY DEF ImportsAssumption
<1>4. /\ n \in Task /\ n.remote = r /\ n.pc = "base" /\ n.report = "running" /\ n.left = Batch[i]
      /\ n.errors = 0 /\ n.tokens = 0 /\ n.updates = [status |-> "running"]
  BY <1>2, <1>3 DEF Task, JobUpdates
<1> HIDE DEF n
<1>5. /\ NewJob(i) \in Job /\ NewJob(i).total = Batch[i] /\ NewJob(i).completed = 0
      /\ NewJob(i).failed = 0 /\ NewJob(i).errors = 0
  BY <1>3 DEF NewJob, Job, Statuses, Unfinished
<1>6. /\ DOMAIN remotes' = DOMAIN remotes /\ remotes' \in [DOMAIN remotes -> Remote]
      /\ remotes'[r].job = NewJob(i) /\ diskFailed' \in {diskFailed, TRUE}
      /\ \A s \in DOMAIN remotes :
           /\ remotes'[s].settings = remotes[s].settings
           /\ s # r => remotes'[s] = remotes[s]
  BY <1>1, <1>2, <1>5, SetJob
<1>7. /\ imports'[i] = n /\ \A j \in Imports \ {i} : imports'[j] = imports[j]
      /\ imports' \in [Imports -> Task \cup {New, Done}]
  BY <1>1, <1>2, <1>4 DEF n
<1>8. /\ ~Running(i) /\ Running(i)' /\ \A j \in Imports \ {i} : Running(j)' <=> Running(j)
  BY <1>1, <1>4, <1>7, RunningIsTask DEF Running
<1>9. /\ \A s \in Remotes \ {r} : s \in shared' <=> s \in shared
      /\ r \notin shared' => \A j \in Imports : Running(j) => imports[j].remote # r
      /\ shared' \subseteq Remotes
  BY <1>1, <1>2
<1>10. HasJob(NewJob(i))
  BY <1>5, NoJobFacts DEF HasJob
<1>11. Stage(n)
  BY <1>3, <1>4 DEF Stage
<1>12. ImportsTypeOK'
  <2>1. \A j \in Imports : Running(j)' =>
          imports'[j].left + imports'[j].errors + imports'[j].tokens = Batch[j]
    <3> TAKE j \in Imports
    <3>1. CASE j = i
      BY <1>3, <1>4, <1>7, <3>1
    <3>2. CASE j # i
      BY <1>2, <1>7, <1>8, <3>2 DEF ImportsTypeOK
    <3> QED BY <3>1, <3>2
  <2> QED BY <1>1, <1>2, <1>6, <1>7, <1>9, <2>1 DEF ImportsTypeOK
<1>13. KnownRemotes'
  BY <1>1, <1>2, <1>6 DEF KnownRemotes
<1>14. TasksInv'
  <2> SUFFICES ASSUME NEW j \in Imports, Running(j)' PROVE Stage(imports'[j]) /\ Placed(j)'
    BY DEF TasksInv
  <2>1. CASE j = i
    BY <1>1, <1>2, <1>4, <1>6, <1>7, <1>10, <1>11, <2>1 DEF Placed, KnownRemotes
  <2>2. CASE j # i
    <3>1. imports'[j] = imports[j] /\ Stage(imports[j]) /\ Placed(j)
      BY <1>2, <1>7, <1>8, <2>2 DEF TasksInv
    <3>2. imports[j].remote \in DOMAIN remotes => HasJob(remotes'[imports[j].remote].job)
      BY <1>6, <1>10, <3>1 DEF Placed
    <3> QED BY <1>1, <1>6, <3>1, <3>2 DEF Placed
  <2> QED BY <2>1, <2>2
<1>15. RunningHasTask'
  <2> SUFFICES ASSUME NEW s \in DOMAIN remotes', remotes'[s].job.status \in Unfinished
               PROVE  \E j \in Imports : Running(j)' /\ imports'[j].remote = s
    BY DEF RunningHasTask
  <2>1. CASE s = r
    BY <1>4, <1>7, <1>8, <2>1
  <2>2. CASE s # r
    <3>1. PICK j \in Imports : Running(j) /\ imports[j].remote = s
      BY <1>2, <1>6, <2>2 DEF RunningHasTask
    <3> QED BY <1>7, <1>8, <3>1
  <2> QED BY <2>1, <2>2
<1>16. EditsPrevail'
  <2> SUFFICES ASSUME ~diskFailed', NEW s \in DOMAIN remotes' PROVE remotes'[s].settings = edited'[s]
    BY DEF EditsPrevail
  <2>1. ~diskFailed /\ s \in DOMAIN remotes /\ edited' = edited
    <3>1. ~diskFailed
      BY <1>6
    <3> QED BY <1>1, <1>6, <3>1
  <2>2. remotes[s].settings = edited[s]
    BY <1>2, <2>1 DEF EditsPrevail
  <2> QED BY <1>6, <2>1, <2>2
<1>17. AloneInv'
  <2> SUFFICES ASSUME NEW j \in Imports, Running(j)', imports'[j].remote \in DOMAIN remotes' \ shared'
               PROVE  Alone(j)'
    BY DEF AloneInv
  <2>1. CASE j = i
    <3>1. \A k \in Imports : Running(k)' /\ imports'[k].remote = r => k = i
      BY <1>4, <1>7, <1>8, <1>9, <2>1
    <3>2. n.updates = DueUpdates(n, Batch[i])
      BY <1>4 DEF DueUpdates
    <3>3. Shows(n, Batch[i], NewJob(i))
      BY <1>4, <1>5 DEF Shows, ErrorsShown, CompletedShown
    <3>4. Accurate(n, Batch[i], NewJob(i))
      BY <1>4, <3>2, <3>3 DEF Accurate
    <3> QED BY <1>4, <1>6, <1>7, <2>1, <3>1, <3>4 DEF Alone
  <2>2. CASE j # i
    <3>1. imports'[j] = imports[j] /\ Running(j) /\ imports[j].remote \in DOMAIN remotes
      BY <1>6, <1>7, <1>8, <2>2
    <3>2. imports[j].remote # r
      BY <1>9, <3>1
    <3>3. Alone(j)
      BY <1>2, <1>9, <3>1, <3>2 DEF AloneInv
    <3>4. \A k \in Imports : Running(k)' /\ imports'[k].remote = imports'[j].remote => k = j
      BY <1>4, <1>7, <1>8, <3>1, <3>2, <3>3 DEF Alone
    <3> QED BY <1>6, <3>1, <3>2, <3>3, <3>4 DEF Alone
  <2> QED BY <2>1, <2>2
<1> QED BY <1>12, <1>13, <1>14, <1>15, <1>16, <1>17 DEF ImportsInv

LEMMA ImportsRestartInv ==
  ASSUME ImportsInv, ImportsAssumption, ImportsRestart PROVE ImportsInv'
<1>1. PICK table \in FileTables :
        /\ remotes' = [r \in DOMAIN table |-> Normalized(table[r])]
        /\ imports' = [i \in Imports |-> IF Running(i) THEN Done ELSE imports[i]]
        /\ shared' = Remotes /\ UNCHANGED <<edited, diskFailed>>
  BY DEF ImportsRestart
<1>2. /\ ImportsTypeOK /\ remotes \in [DOMAIN remotes -> Remote] /\ DOMAIN remotes \subseteq Remotes
      /\ imports \in [Imports -> Task \cup {New, Done}] /\ KnownRemotes /\ EditsPrevail
  BY DEF ImportsInv, ImportsTypeOK
<1>3. /\ DOMAIN table \subseteq Remotes /\ table \in [DOMAIN table -> Remote]
      /\ \A r \in DOMAIN table : edited[r] # Unknown
      /\ ~diskFailed => table = remotes
  <2>1. CASE ~diskFailed
    BY <1>2, <2>1 DEF FileTables, KnownRemotes
  <2>2. CASE diskFailed
    <3>1. PICK ids \in SUBSET {r \in Remotes : edited[r] # Unknown}, v \in 0..MaxEdits :
            table = [r \in ids |-> [settings |-> v, job |-> JobOf(r)]]
      BY <2>2 DEF FileTables
    <3>2. \A r \in ids : [settings |-> v, job |-> JobOf(r)] \in Remote
      BY JobOfType DEF Remote
    <3> QED BY <2>2, <3>1, <3>2
  <2> QED BY <2>1, <2>2
<1>4. /\ DOMAIN remotes' = DOMAIN table /\ remotes' \in [DOMAIN remotes' -> Remote]
      /\ \A r \in DOMAIN remotes' :
           /\ remotes'[r].settings = table[r].settings
           /\ remotes'[r].job = FailUnfinished(table[r].job)
  BY <1>1, <1>3, NormalizedRemote
<1>5. \A r \in DOMAIN remotes' : remotes'[r].job.status \notin Unfinished
  BY <1>3, <1>4, FailedJob DEF Remote
<1>6. imports' \in [Imports -> Task \cup {New, Done}] /\ \A i \in Imports : ~Running(i)'
  BY <1>1, <1>2 DEF Running
<1>7. ImportsTypeOK'
  BY <1>1, <1>2, <1>3, <1>4, <1>6 DEF ImportsTypeOK
<1>8. KnownRemotes'
  BY <1>1, <1>3, <1>4 DEF KnownRemotes
<1>9. TasksInv' /\ AloneInv'
  BY <1>6 DEF TasksInv, AloneInv
<1>10. RunningHasTask'
  BY <1>5 DEF RunningHasTask
<1>11. EditsPrevail'
  BY <1>1, <1>2, <1>3, <1>4 DEF EditsPrevail
<1> QED BY <1>7, <1>8, <1>9, <1>10, <1>11 DEF ImportsInv
---------------------------------------------------------------------------
(* The theorems. *)

LEMMA ImportsInvInit == ImportsAssumption /\ ImportsInit => ImportsInv
<1> SUFFICES ASSUME ImportsAssumption, ImportsInit PROVE ImportsInv
  OBVIOUS
<1>1. /\ DOMAIN remotes = {} /\ imports = [i \in Imports |-> New]
      /\ edited = [r \in Remotes |-> Unknown] /\ diskFailed = FALSE /\ shared = {}
  BY DEF ImportsInit
<1>2. \A i \in Imports : ~Running(i)
  BY <1>1 DEF Running
<1>3. remotes \in [DOMAIN remotes -> Remote]
  BY <1>1 DEF ImportsInit
<1>4. ImportsTypeOK
  BY <1>1, <1>2, <1>3 DEF ImportsTypeOK
<1> QED BY <1>1, <1>2, <1>4
        DEF ImportsInv, KnownRemotes, TasksInv, RunningHasTask, EditsPrevail, AloneInv

LEMMA ImportsInvNext == ImportsAssumption /\ ImportsInv /\ [ImportsNext]_importsVars => ImportsInv'
<1> SUFFICES ASSUME ImportsAssumption, ImportsInv, [ImportsNext]_importsVars PROVE ImportsInv'
  OBVIOUS
<1>1. CASE AddRemote
  BY <1>1, AddRemoteInv
<1>2. CASE UpdateRemote
  BY <1>2, UpdateRemoteInv
<1>3. CASE DeleteRemote
  BY <1>3, DeleteRemoteInv
<1>4. CASE StartImport
  BY <1>4, StartImportInv
<1>5. ASSUME NEW i \in Imports, ImportStep(i) PROVE ImportsInv'
  <2>1. CASE FetchEnds(i)
    BY <2>1, FetchEndsInv
  <2>2. CASE ReadJob(i)
    BY <2>2, ReadJobInv
  <2>3. CASE ReadBase(i)
    BY <2>3, ReadBaseInv
  <2>4. CASE WriteJob(i)
    BY <2>4, WriteGoesOn, WriteEnds
  <2> QED BY <1>5, <2>1, <2>2, <2>3, <2>4 DEF ImportStep
<1>6. CASE ImportsRestart
  BY <1>6, ImportsRestartInv
<1>7. CASE UNCHANGED importsVars
  BY <1>7 DEF importsVars, ImportsInv, ImportsTypeOK, KnownRemotes, TasksInv, RunningHasTask,
              EditsPrevail, AloneInv, Running, Placed, Alone
<1> QED BY <1>1, <1>2, <1>3, <1>4, <1>5, <1>6, <1>7 DEF ImportsNext

\* With any number of remotes and imports, the types hold and a job that is
\* shown as pending or running has a task at work on its remote.
THEOREM RunningTasksHold == ImportsSpec => [](ImportsTypeOK /\ RunningHasTask)
<1>1. ImportsInv => ImportsTypeOK /\ RunningHasTask
  BY DEF ImportsInv
<1> QED BY <1>1, ImportsInvInit, ImportsInvNext, ImportsAssumption, PTL DEF ImportsSpec

\* What an administrator entered is never undone by the reports of an import,
\* though each report writes back a whole remote it read earlier.
THEOREM EditsHold == ImportsSpec => []EditsPrevail
<1>1. ImportsInv => EditsPrevail
  BY DEF ImportsInv
<1> QED BY <1>1, ImportsInvInit, ImportsInvNext, ImportsAssumption, PTL DEF ImportsSpec

\* A task ends by its last report, or with the process.
LEMMA OnlyReportsEnd ==
  ASSUME ImportsInv, ImportsAssumption, ImportsNext, NEW i \in Imports, Running(i), imports'[i] = Done
  PROVE  (WriteJob(i) /\ imports[i].report = "end") \/ shared' = Remotes
<1>1. /\ imports[i] \in Task /\ i \in DOMAIN imports /\ Stage(imports[i])
      /\ \A task \in Task : task # Done
      /\ imports \in [Imports -> Task \cup {New, Done}]
  BY RunningFacts, RunningIsTask DEF ImportsInv, ImportsTypeOK
<1>2. CASE AddRemote \/ UpdateRemote \/ DeleteRemote
  BY <1>1, <1>2 DEF AddRemote, UpdateRemote, DeleteRemote
<1>3. CASE StartImport
  <2>1. PICK j \in Imports : imports[j] = New /\ \E n : imports' = [imports EXCEPT ![j] = n]
    BY <1>3 DEF StartImport
  <2>2. j # i
    BY <2>1 DEF Running
  <2> QED BY <1>1, <2>1, <2>2
<1>4. ASSUME NEW j \in Imports, ImportStep(j), j # i PROVE FALSE
  <2>1. \E n : imports' = [imports EXCEPT ![j] = n]
    BY <1>4 DEF ImportStep, FetchEnds, ReadJob, ReadBase, WriteJob
  <2> QED BY <1>1, <1>4, <2>1
<1>5. CASE FetchEnds(i)
  <2> DEFINE t == imports[i]
  <2>1. \/ imports'[i] = [t EXCEPT !.pc = "read", !.report = "count",
                                  !.left = @ - 1, !.tokens = @ + 1]
        \/ imports'[i] = [t EXCEPT !.pc = "read", !.report = "error",
                                  !.left = @ - 1, !.errors = @ + 1]
    BY <1>1, <1>5 DEF FetchEnds
  <2>2. t \in Task /\ Stage(t) /\ t.pc = "fetch"
    BY <1>1, <1>5 DEF FetchEnds
  <2> HIDE DEF t
  <2>3. imports'[i] \in Task
    BY <2>1, <2>2, FetchedTask
  <2> QED BY <1>1, <2>3
<1>6. CASE ReadJob(i)
  <2>1. imports'[i].pc = "base"
    BY <1>1, <1>6 DEF ReadJob, Task
  <2> QED BY <2>1 DEF Done
<1>7. CASE ReadBase(i)
  <2>1. imports'[i].pc = "write"
    BY <1>1, <1>7 DEF ReadBase, Task
  <2> QED BY <2>1 DEF Done
<1>8. CASE WriteJob(i) /\ imports[i].report # "end"
  <2> DEFINE n == [Following(imports[i]) EXCEPT !.base = NoJob, !.updates = NoUpdates]
  <2>1. imports[i].pc = "write"
    BY <1>8 DEF WriteJob
  <2>2. Following(imports[i]) # Done /\ n \in Task
    BY <1>1, <1>8, <2>1, FollowingTask
  <2>3. imports'[i] = n
    BY <1>1, <1>8, <2>2, WriteStep
  <2> QED BY <1>1, <2>2, <2>3
<1>9. CASE ImportsRestart
  BY <1>9 DEF ImportsRestart
<1> QED BY <1>2, <1>3, <1>4, <1>5, <1>6, <1>7, <1>8, <1>9 DEF ImportsNext, ImportStep

\* When the only import of a remote ends, its job has counted every account of
\* the batch once, whatever the batches, the edits and the other imports.
THEOREM ImportAccountedHolds == ImportsSpec => ImportAccounted
<1> DEFINE Counted ==
      \A i \in Imports :
        LET task == imports[i]
        IN Running(i) /\ imports'[i] = Done /\ task.remote \in DOMAIN remotes \ shared'
           => LET job == remotes'[task.remote].job
              IN /\ job.completed = job.total /\ job.total = Batch[i]
                 /\ job.failed = task.errors /\ job.errors = task.errors
                 /\ job.status = (IF task.tokens = 0 THEN "failed" ELSE "completed")
<1>1. ImportsAssumption /\ ImportsInv /\ [ImportsNext]_importsVars => [Counted]_importsVars
  <2> SUFFICES ASSUME ImportsAssumption, ImportsInv, ImportsNext, NEW i \in Imports,
                      Running(i), imports'[i] = Done, imports[i].remote \in DOMAIN remotes \ shared'
               PROVE  LET job == remotes'[imports[i].remote].job
                      IN /\ job.completed = job.total /\ job.total = Batch[i]
                         /\ job.failed = imports[i].errors /\ job.errors = imports[i].errors
                         /\ job.status = (IF imports[i].tokens = 0 THEN "failed" ELSE "completed")
    OBVIOUS
  <2>1. imports[i].remote \in Remotes
    BY RunningFacts
  <2>2. WriteJob(i) /\ imports[i].report = "end"
    BY <2>1, OnlyReportsEnd
  <2>3. shared' = shared
    BY <2>2 DEF WriteJob
  <2> QED BY <2>2, <2>3, WriteEnds
<1> QED BY <1>1, ImportsInvInit, ImportsInvNext, ImportsAssumption, PTL DEF ImportsSpec, ImportAccounted
=============================================================================
