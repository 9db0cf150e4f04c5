----------------------------- MODULE ImageTasks -----------------------------
(***************************************************************************)
(* The image task service of services/image_task_service.rs: a map of      *)
(* tasks behind one mutex, its file, and one spawned run_task per accepted *)
(* submission.  A task is keyed by its owner and the client's task id;     *)
(* prompts, images, models and the log line of a call are left out.        *)
(***************************************************************************)
EXTENDS Integers, Functions

CONSTANTS
  Task,        \* owner:client_task_id, the keys of the map
  NoTask,
  Runner,      \* spawned run_task instances: a bound on those alive at once
  Retention,   \* config image_retention_days, at least 1
  MaxTime,     \* bound on the clock, in the unit of Retention
  Ambiguous    \* times whose local wall-clock text names two instants

ASSUME RetentionAssumption == Retention \in Nat \ {0}
ASSUME NoTaskAssumption == NoTask \notin Task
ASSUME TimeAssumption == MaxTime \in Nat /\ Ambiguous \subseteq 0..MaxTime

VARIABLES
  tasks,    \* partial function: task -> status and updated_at
  file,     \* image_tasks.json
  behind,   \* the last save failed, or the last load found less than the file
            \* has and nothing was saved since (history)
  run,      \* what each run_task is doing, and for which task
  now       \* the clock

vars == <<tasks, file, behind, run, now>>

Free == [at |-> "free", key |-> NoTask]

Time == 0..MaxTime
Status == {"queued", "running", "success", "error"}
TaskState == [status : Status, updated : Time]

Finished(t) == t.status \in {"success", "error"}
Unfinished == {k \in DOMAIN tasks : ~Finished(tasks[k])}

---------------------------------------------------------------------------
(* cleanup_tasks.  updated_at is stored as local wall-clock text; a text    *)
(* that names two instants is not parsed and counts as the epoch.           *)

\* Mutant: a task that is still queued or running can expire as well.
ExpiredWhateverItsStatus(t) == t.updated \in Ambiguous \/ t.updated < now - Retention

Expired(t) ==
  /\ Finished(t)
  /\ t.updated \in Ambiguous \/ t.updated < now - Retention

Pruned(map) == Restrict(map, {k \in DOMAIN map : ~Expired(map[k])})

Put(f, k, v) == [x \in DOMAIN f \cup {k} |-> IF x = k THEN v ELSE f[x]]

\* save_tasks replaces the file by renaming a complete copy over it, and
\* ignores an error: then the file stays as it was.
SaveTasks(map) ==
  \/ file' = map /\ behind' = FALSE
  \/ file' = file /\ behind' = TRUE

\* cleanup_tasks followed by save_tasks if it removed something.
CleanupTasks ==
  /\ tasks' = Pruned(tasks)
  /\ IF tasks' = tasks THEN UNCHANGED <<file, behind>> ELSE SaveTasks(tasks')

---------------------------------------------------------------------------

\* Mutant: an expired task with the submitted id is pruned from the map, but
\* the early return forgets to save.
SubmitForgettingToSave(k) ==
  IF k \in DOMAIN Pruned(tasks)
    THEN /\ tasks' = Pruned(tasks)
         /\ UNCHANGED <<file, behind, run, now>>
    ELSE \E r \in Runner :
           /\ run[r] = Free
           /\ tasks' = Put(Pruned(tasks), k, [status |-> "queued", updated |-> now])
           /\ SaveTasks(tasks')
           /\ run' = [run EXCEPT ![r] = [at |-> "spawned", key |-> k]]
           /\ UNCHANGED now

\* Mutant: a submission is taken again when the task has finished.
SubmitAgain(k) ==
  IF k \in DOMAIN Pruned(tasks) /\ k \in Unfinished
    THEN CleanupTasks /\ UNCHANGED <<run, now>>
    ELSE \E r \in Runner :
           /\ run[r] = Free
           /\ tasks' = Put(Pruned(tasks), k, [status |-> "queued", updated |-> now])
           /\ SaveTasks(tasks')
           /\ run' = [run EXCEPT ![r] = [at |-> "spawned", key |-> k]]
           /\ UNCHANGED now

\* A known task is returned as it is, so a client may repeat a submission; a
\* new one is recorded, saved and given to a spawned run_task.
Submit(k) ==
  IF k \in DOMAIN Pruned(tasks)
    THEN CleanupTasks /\ UNCHANGED <<run, now>>
    ELSE \E r \in Runner :
           /\ run[r] = Free
           /\ tasks' = Put(Pruned(tasks), k, [status |-> "queued", updated |-> now])
           /\ SaveTasks(tasks')
           /\ run' = [run EXCEPT ![r] = [at |-> "spawned", key |-> k]]
           /\ UNCHANGED now

\* list_tasks and cleanup.
List == CleanupTasks /\ UNCHANGED <<run, now>>

UpdateTask(k, status) ==
  IF k \in DOMAIN tasks
    THEN /\ tasks' = Put(tasks, k, [status |-> status, updated |-> now])
         /\ SaveTasks(tasks')
    ELSE UNCHANGED <<tasks, file, behind>>

RunTask(r) ==
  /\ run[r].at = "spawned"
  /\ UpdateTask(run[r].key, "running")
  /\ run' = [run EXCEPT ![r].at = "running"]
  /\ UNCHANGED now

\* Mutant: the branch without images ends without a word.
CollectImageOutputsSilently(r, outcome) ==
  /\ run[r].at = "running"
  /\ IF outcome = "success"
       THEN UpdateTask(run[r].key, outcome)
       ELSE UNCHANGED <<tasks, file, behind>>
  /\ run' = [run EXCEPT ![r] = Free]
  /\ UNCHANGED now

\* The image flow ended: with images, without any, or with an error.
CollectImageOutputs(r, outcome) ==
  /\ run[r].at = "running"
  /\ UpdateTask(run[r].key, outcome)
  /\ run' = [run EXCEPT ![r] = Free]
  /\ UNCHANGED now

Tick ==
  /\ now < MaxTime
  /\ now' = now + 1
  /\ UNCHANGED <<tasks, file, behind, run>>

---------------------------------------------------------------------------
(* A crash or a stop, and ImageTaskService::new. *)

\* Mutant: an interrupted task gets a status of its own, one nothing else knows.
RecoverAsInterrupted(map) ==
  [k \in DOMAIN map |-> IF Finished(map[k]) THEN map[k]
                                            ELSE [status |-> "interrupted", updated |-> now]]

RecoverUnfinished(map) ==
  [k \in DOMAIN map |-> IF Finished(map[k]) THEN map[k]
                                            ELSE [status |-> "error", updated |-> now]]

Restart ==
  /\ tasks' = Pruned(RecoverUnfinished(file))
  /\ IF tasks' = file THEN file' = file /\ behind' = FALSE ELSE SaveTasks(tasks')
  /\ run' = [r \in Runner |-> Free]
  /\ UNCHANGED now

\* load_tasks gives an empty map when the file cannot be read or parsed;
\* there is then nothing to recover, to prune or to save.
RestartUnread ==
  /\ tasks' = [k \in {} |-> k]
  /\ file' = file /\ behind' = (file # tasks')
  /\ run' = [r \in Runner |-> Free]
  /\ UNCHANGED now

---------------------------------------------------------------------------

Init ==
  /\ tasks = [k \in {} |-> k]
  /\ file = tasks
  /\ behind = FALSE
  /\ run = [r \in Runner |-> Free]
  /\ now = 0

RunStep(r) == RunTask(r) \/ \E outcome \in {"success", "error"} : CollectImageOutputs(r, outcome)

Next ==
  \/ \E k \in Task : Submit(k)
  \/ List
  \/ \E r \in Runner : RunStep(r)
  \/ Tick
  \/ Restart \/ RestartUnread

Spec == Init /\ [][Next]_vars

\* Spawned tasks are scheduled, and the image flow ends: every upstream call
\* has a timeout.
FairSpec == Spec /\ \A r \in Runner : WF_vars(RunStep(r))

---------------------------------------------------------------------------
(* Properties *)

\* The type of every variable.
TypeOK ==
  /\ DOMAIN tasks \subseteq Task /\ \A k \in DOMAIN tasks : tasks[k] \in TaskState
  /\ DOMAIN file \subseteq Task /\ \A k \in DOMAIN file : file[k] \in TaskState
  /\ behind \in BOOLEAN
  /\ run \in [Runner -> [at : {"free", "spawned", "running"}, key : Task \cup {NoTask}]]
  /\ now \in Time

Busy(r) == run[r].at # "free"

\* One run_task works on each unfinished task and none on any other, through
\* repeated submissions, pruning, failed saves and restarts: no image is
\* generated twice for one task, and no task waits for a run that is gone.
OneRunPerTask ==
  /\ \A k \in Unfinished : \E r \in Runner : Busy(r) /\ run[r].key = k
  /\ \A r \in Runner : Busy(r) => run[r].key \in Unfinished
  /\ \A r, s \in Runner : Busy(r) /\ Busy(s) /\ run[r].key = run[s].key => r = s

\* Unless the last save failed, or the file could not be loaded and nothing has
\* been saved since, the file is what a client sees: no path that changes the
\* map, early returns and recovery included, forgets to save.
FileIsCurrent == behind \/ file = tasks

\* A client that has seen a result goes on seeing it, over restarts, until the
\* retention has passed; only a restart that cannot load the file, or one after
\* a failed save, may lose it.
OutcomeStable ==
  [][\/ RestartUnread
     \/ behind /\ Restart
     \/ \A k \in DOMAIN tasks :
          Finished(tasks[k]) /\ now - tasks[k].updated <= Retention
            => k \in DOMAIN tasks' /\ tasks'[k].status = tasks[k].status]_vars

\* Every accepted task ends, whatever is submitted, pruned and restarted.
EveryTaskEnds == \A k \in Task : k \in Unfinished ~> k \notin Unfinished
=============================================================================
