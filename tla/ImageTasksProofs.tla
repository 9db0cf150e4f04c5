-------------------------- MODULE ImageTasksProofs --------------------------
(***************************************************************************)
(* Theorems about ImageTasks for every set of tasks, every number of runs  *)
(* and every retention.  OneRunPerTask and FileIsCurrent are inductive     *)
(* together with the types; OutcomeStable follows from them step by step.  *)
(***************************************************************************)
EXTENDS ImageTasks, TLAPS

MapType(map) == DOMAIN map \subseteq Task /\ \A k \in DOMAIN map : map[k] \in TaskState

\* A task that is stored has its type, and so has a pruned or recovered map.
LEMMA MapTypes ==
  ASSUME now \in Time, NEW map, MapType(map)
  PROVE  /\ MapType(Pruned(map))
         /\ MapType(RecoverUnfinished(map))
         /\ \A k \in Task, st \in Status, t \in Time :
              MapType(Put(map, k, [status |-> st, updated |-> t]))
<1>1. Pruned(map) = [k \in {j \in DOMAIN map : ~Expired(map[j])} |-> map[k]]
  BY DEF Pruned, Restrict
<1>2. MapType(Pruned(map))
  BY <1>1 DEF MapType
<1>3. [status |-> "error", updated |-> now] \in TaskState
  BY DEF TaskState, Status
<1>4. MapType(RecoverUnfinished(map))
  BY <1>3 DEF MapType, RecoverUnfinished
<1>5. ASSUME NEW k \in Task, NEW st \in Status, NEW t \in Time
      PROVE  MapType(Put(map, k, [status |-> st, updated |-> t]))
  <2>1. [status |-> st, updated |-> t] \in TaskState
    BY DEF TaskState
  <2> QED BY <2>1 DEF MapType, Put
<1> QED BY <1>2, <1>4, <1>5

\* Saving a well typed map keeps the file well typed.
LEMMA SaveTypes ==
  ASSUME NEW map, MapType(map), MapType(file), SaveTasks(map)
  PROVE  MapType(file') /\ behind' \in BOOLEAN
BY DEF SaveTasks

LEMMA TypeNext == ASSUME TypeOK, [Next]_vars PROVE TypeOK'
<1> DEFINE RunType == [Runner -> [at : {"free", "spawned", "running"}, key : Task \cup {NoTask}]]
<1>0. MapType(tasks) /\ MapType(file) /\ now \in Time /\ run \in RunType
  BY DEF TypeOK, MapType
<1> SUFFICES MapType(tasks') /\ MapType(file') /\ behind' \in BOOLEAN /\ run' \in RunType
             /\ now' \in Time
  BY DEF TypeOK, MapType, TaskState, Time
<1>1. ASSUME CleanupTasks PROVE MapType(tasks') /\ MapType(file') /\ behind' \in BOOLEAN
  BY <1>0, <1>1, MapTypes, SaveTypes DEF CleanupTasks, TypeOK
<1>2. ASSUME NEW k \in Task \cup {NoTask}, NEW st \in Status, UpdateTask(k, st)
      PROVE  MapType(tasks') /\ MapType(file') /\ behind' \in BOOLEAN
  <2>1. CASE k \in DOMAIN tasks
    BY <1>0, <1>2, <2>1, MapTypes, SaveTypes DEF UpdateTask, MapType
  <2>2. CASE k \notin DOMAIN tasks
    BY <1>0, <1>2, <2>2 DEF UpdateTask, TypeOK
  <2> QED BY <2>1, <2>2
<1>3. ASSUME NEW k \in Task, Submit(k)
      PROVE  MapType(tasks') /\ MapType(file') /\ behind' \in BOOLEAN /\ run' \in RunType
             /\ now' = now
  <2>1. CASE k \in DOMAIN Pruned(tasks)
    BY <1>0, <1>1, <1>3, <2>1 DEF Submit
  <2>2. CASE k \notin DOMAIN Pruned(tasks)
    <3>1. PICK r \in Runner :
            /\ tasks' = Put(Pruned(tasks), k, [status |-> "queued", updated |-> now])
            /\ SaveTasks(tasks')
            /\ run' = [run EXCEPT ![r] = [at |-> "spawned", key |-> k]]
            /\ now' = now
      BY <1>3, <2>2 DEF Submit
    <3>2. MapType(tasks')
      BY <1>0, <3>1, MapTypes DEF Status
    <3> QED BY <1>0, <3>1, <3>2, SaveTypes
  <2> QED BY <2>1, <2>2
<1>4. ASSUME NEW r \in Runner, RunStep(r)
      PROVE  MapType(tasks') /\ MapType(file') /\ behind' \in BOOLEAN /\ run' \in RunType
             /\ now' = now
  <2>1. run[r].key \in Task \cup {NoTask}
    BY <1>0
  <2>2. PICK st \in Status : UpdateTask(run[r].key, st)
    BY <1>4 DEF RunStep, RunTask, CollectImageOutputs, Status
  <2>3. run' \in RunType
    BY <1>0, <1>4, SMT DEF RunStep, RunTask, CollectImageOutputs, Free
  <2> QED BY <1>2, <1>4, <2>1, <2>2, <2>3 DEF RunStep, RunTask, CollectImageOutputs
<1>5. CASE Tick
  BY <1>0, <1>5, TimeAssumption, SMT DEF Tick, TypeOK, Time
<1>6. CASE Restart
  <2>1. MapType(tasks')
    BY <1>0, <1>6, MapTypes DEF Restart
  <2>2. MapType(file') /\ behind' \in BOOLEAN
    BY <1>0, <1>6, <2>1, SaveTypes DEF Restart
  <2> QED BY <1>0, <1>6, <2>1, <2>2 DEF Restart, Free
<1>7. CASE RestartUnread
  <2>1. MapType(tasks') /\ behind' \in BOOLEAN
    BY <1>7 DEF RestartUnread, MapType
  <2> QED BY <1>0, <1>7, <2>1 DEF RestartUnread, Free
<1>8. CASE UNCHANGED vars
  BY <1>0, <1>8 DEF vars, TypeOK
<1> QED BY <1>0, <1>1, <1>3, <1>4, <1>5, <1>6, <1>7, <1>8 DEF Next, List

---------------------------------------------------------------------------

\* Pruning removes finished tasks only.
LEMMA PrunedKeepsUnfinished ==
  /\ DOMAIN Pruned(tasks) \subseteq DOMAIN tasks
  /\ \A k \in DOMAIN Pruned(tasks) : Pruned(tasks)[k] = tasks[k]
  /\ \A k \in DOMAIN tasks : k \in DOMAIN Pruned(tasks) <=> ~Expired(tasks[k])
  /\ {k \in DOMAIN Pruned(tasks) : ~Finished(Pruned(tasks)[k])} = Unfinished
BY DEF Pruned, Restrict, Expired, Unfinished

LEMMA OneRunNext == ASSUME TypeOK, OneRunPerTask, [Next]_vars PROVE OneRunPerTask'
<1>1. ASSUME Unfinished' = Unfinished, run' = run PROVE OneRunPerTask'
  BY <1>1 DEF OneRunPerTask, Busy
<1>2. ASSUME CleanupTasks PROVE Unfinished' = Unfinished
  BY <1>2, PrunedKeepsUnfinished DEF CleanupTasks, Unfinished, Finished
<1>3. ASSUME NEW k \in Task, Submit(k) PROVE OneRunPerTask'
  <2>1. CASE k \in DOMAIN Pruned(tasks)
    BY <1>1, <1>2, <1>3, <2>1 DEF Submit
  <2>2. CASE k \notin DOMAIN Pruned(tasks)
    <3>1. PICK r \in Runner :
            /\ run[r] = Free
            /\ tasks' = Put(Pruned(tasks), k, [status |-> "queued", updated |-> now])
            /\ run' = [run EXCEPT ![r] = [at |-> "spawned", key |-> k]]
      BY <1>3, <2>2 DEF Submit
    <3>2. Unfinished' = Unfinished \cup {k}
      <4>1. DOMAIN tasks' = DOMAIN Pruned(tasks) \cup {k}
            /\ tasks'[k].status = "queued"
            /\ \A j \in DOMAIN Pruned(tasks) : j # k => tasks'[j] = Pruned(tasks)[j]
        BY <3>1 DEF Put
      <4>2. \A j \in DOMAIN tasks' : j # k => (Finished(tasks'[j]) <=> Finished(Pruned(tasks)[j]))
        BY <4>1 DEF Finished
      <4>3. ~Finished(tasks'[k])
        BY <4>1 DEF Finished
      <4>4. Unfinished' = {j \in DOMAIN tasks' : ~Finished(tasks'[j])}
        BY DEF Unfinished, Finished
      <4> QED BY <2>2, <4>1, <4>2, <4>3, <4>4, PrunedKeepsUnfinished
    <3>3. k \notin Unfinished /\ ~Busy(r)
      BY <2>2, <3>1, PrunedKeepsUnfinished DEF Busy, Free
    <3>4. \A s \in Runner : run'[s] = IF s = r THEN [at |-> "spawned", key |-> k] ELSE run[s]
      BY <3>1 DEF TypeOK
    <3>5. \A s \in Runner : Busy(s)' <=> s = r \/ Busy(s)
      BY <3>4 DEF Busy
    <3> QED BY <3>2, <3>3, <3>4, <3>5 DEF OneRunPerTask
  <2> QED BY <2>1, <2>2
<1>4. ASSUME NEW r \in Runner, RunTask(r) PROVE OneRunPerTask'
  <2>1. run[r].key \in Unfinished /\ run[r].key \in DOMAIN tasks
    BY <1>4 DEF RunTask, OneRunPerTask, Busy, Unfinished
  <2>2. tasks' = Put(tasks, run[r].key, [status |-> "running", updated |-> now])
    BY <1>4, <2>1 DEF RunTask, UpdateTask
  <2>3. Unfinished' = Unfinished
    BY <2>1, <2>2 DEF Unfinished, Put, Finished
  <2>4. \A s \in Runner : run'[s].key = run[s].key /\ (Busy(s)' <=> Busy(s))
    BY <1>4, SMT DEF RunTask, TypeOK, Busy
  <2> QED BY <2>3, <2>4 DEF OneRunPerTask
<1>5. ASSUME NEW r \in Runner, NEW outcome \in {"success", "error"}, CollectImageOutputs(r, outcome)
      PROVE  OneRunPerTask'
  <2> DEFINE k == run[r].key
  <2>1. Busy(r) /\ k \in Unfinished /\ k \in DOMAIN tasks
    BY <1>5 DEF CollectImageOutputs, OneRunPerTask, Busy, Unfinished
  <2>2. tasks' = Put(tasks, k, [status |-> outcome, updated |-> now])
    BY <1>5, <2>1 DEF CollectImageOutputs, UpdateTask
  <2>3. Unfinished' = Unfinished \ {k}
    <3>1. DOMAIN tasks' = DOMAIN tasks /\ tasks'[k].status = outcome
          /\ \A j \in DOMAIN tasks : j # k => tasks'[j] = tasks[j]
      BY <2>1, <2>2 DEF Put
    <3>2. Unfinished' = {j \in DOMAIN tasks' : ~Finished(tasks'[j])}
      BY DEF Unfinished, Finished
    <3> QED BY <3>1, <3>2 DEF Unfinished, Finished
  <2>4. \A s \in Runner : run'[s] = IF s = r THEN Free ELSE run[s]
    BY <1>5 DEF CollectImageOutputs, TypeOK
  <2>5. \A s \in Runner : Busy(s)' <=> s # r /\ Busy(s)
    BY <2>4 DEF Busy, Free
  <2> HIDE DEF k
  <2> QED BY <2>1, <2>3, <2>4, <2>5 DEF OneRunPerTask, k
<1>6. CASE Restart
  <2>1. \A r \in Runner : ~Busy(r)'
    BY <1>6 DEF Restart, Busy, Free
  <2>2. \A k \in DOMAIN RecoverUnfinished(file) : Finished(RecoverUnfinished(file)[k])
    BY DEF RecoverUnfinished, Finished
  <2>3. DOMAIN tasks' \subseteq DOMAIN RecoverUnfinished(file)
        /\ \A k \in DOMAIN tasks' : tasks'[k] = RecoverUnfinished(file)[k]
    BY <1>6 DEF Restart, Pruned, Restrict
  <2>4. Unfinished' = {}
    BY <2>2, <2>3 DEF Unfinished, Finished
  <2> QED BY <2>1, <2>4 DEF OneRunPerTask
<1>7. CASE RestartUnread
  <2>1. \A r \in Runner : ~Busy(r)'
    BY <1>7 DEF RestartUnread, Busy, Free
  <2>2. Unfinished' = {}
    BY <1>7 DEF RestartUnread, Unfinished
  <2> QED BY <2>1, <2>2 DEF OneRunPerTask
<1>8. CASE UNCHANGED vars \/ Tick
  BY <1>1, <1>8 DEF vars, Tick, Unfinished, Finished
<1> QED BY <1>1, <1>2, <1>3, <1>4, <1>5, <1>6, <1>7, <1>8 DEF Next, RunStep, List

\* Every path that changes the map saves it, but for a load that fails.
LEMMA FileNext == ASSUME FileIsCurrent, [Next]_vars PROVE FileIsCurrent'
<1>1. ASSUME NEW map, SaveTasks(map), tasks' = map PROVE FileIsCurrent'
  BY <1>1 DEF FileIsCurrent, SaveTasks
<1>2. ASSUME UNCHANGED <<tasks, file, behind>> PROVE FileIsCurrent'
  BY <1>2 DEF FileIsCurrent
<1>3. CASE CleanupTasks
  BY <1>1, <1>3 DEF CleanupTasks, FileIsCurrent
<1>4. ASSUME NEW k \in Task, Submit(k) PROVE FileIsCurrent'
  BY <1>1, <1>3, <1>4 DEF Submit
<1>5. ASSUME NEW r \in Runner, RunStep(r) PROVE FileIsCurrent'
  BY <1>1, <1>2, <1>5 DEF RunStep, RunTask, CollectImageOutputs, UpdateTask
<1>6. CASE Restart
  BY <1>1, <1>6 DEF Restart, FileIsCurrent
<1>7. CASE RestartUnread
  BY <1>7 DEF RestartUnread, FileIsCurrent
<1>8. CASE Tick \/ UNCHANGED vars
  BY <1>2, <1>8 DEF Tick, vars
<1> QED BY <1>3, <1>4, <1>5, <1>6, <1>7, <1>8 DEF Next, List

---------------------------------------------------------------------------

IndInv == TypeOK /\ OneRunPerTask /\ FileIsCurrent

LEMMA IndInvAlways == Spec => []IndInv
<1>1. Init => IndInv
  <2> SUFFICES ASSUME Init PROVE IndInv
    OBVIOUS
  <2>1. TypeOK
    <3>1. DOMAIN tasks = {} /\ DOMAIN file = {}
      BY DEF Init
    <3>2. Free \in [at : {"free", "spawned", "running"}, key : Task \cup {NoTask}]
      BY DEF Free
    <3>3. now \in Time
      BY TimeAssumption DEF Init, Time
    <3> QED BY <3>1, <3>2, <3>3 DEF Init, TypeOK
  <2>2. Unfinished = {} /\ \A r \in Runner : ~Busy(r)
    BY DEF Init, Unfinished, Busy, Free
  <2> QED BY <2>1, <2>2 DEF Init, IndInv, OneRunPerTask, FileIsCurrent
<1>2. IndInv /\ [Next]_vars => IndInv'
  BY TypeNext, OneRunNext, FileNext DEF IndInv
<1> QED BY <1>1, <1>2, PTL DEF Spec

\* The map, the file and the runs keep their types.
THEOREM TypeCorrect == Spec => []TypeOK
<1>1. IndInv => TypeOK
  BY DEF IndInv
<1> QED BY <1>1, IndInvAlways, PTL

\* However often a client repeats a submission, whenever tasks are pruned and
\* the service restarts, an unfinished task has its one run.
THEOREM OneRunHolds == Spec => []OneRunPerTask
<1>1. IndInv => OneRunPerTask
  BY DEF IndInv
<1> QED BY <1>1, IndInvAlways, PTL

\* The file is what a client sees, unless the last save failed or a load did
\* and nothing has been saved since.
THEOREM FileCurrentHolds == Spec => []FileIsCurrent
<1>1. IndInv => FileIsCurrent
  BY DEF IndInv
<1> QED BY <1>1, IndInvAlways, PTL

\* A finished task survives every step, a restart after a good save and with a
\* readable file included, until its retention has passed, if wall-clock times are unambiguous.
THEOREM OutcomeKept == ASSUME Ambiguous = {} PROVE Spec => OutcomeStable
<1> DEFINE Keep == \A k \in DOMAIN tasks :
                     Finished(tasks[k]) /\ now - tasks[k].updated <= Retention
                       => k \in DOMAIN tasks' /\ tasks'[k].status = tasks[k].status
<1>1. ASSUME IndInv, [Next]_vars, ~(behind /\ Restart), ~RestartUnread PROVE Keep
  <2> SUFFICES ASSUME NEW k \in DOMAIN tasks, Finished(tasks[k]),
                      now - tasks[k].updated <= Retention
               PROVE  k \in DOMAIN tasks' /\ tasks'[k].status = tasks[k].status
    OBVIOUS
  <2>1. tasks[k] \in TaskState /\ now \in Nat /\ tasks[k].updated \in Nat /\ k \in Task
    BY <1>1, TimeAssumption, SMT DEF IndInv, TypeOK, TaskState, Time
  <2>2. ~Expired(tasks[k])
    BY <2>1, RetentionAssumption, SMT DEF Expired
  <2>3. k \in DOMAIN Pruned(tasks) /\ Pruned(tasks)[k] = tasks[k]
    BY <2>2, PrunedKeepsUnfinished
  <2>4. CASE CleanupTasks
    BY <2>3, <2>4 DEF CleanupTasks
  <2>5. ASSUME NEW j \in Task, Submit(j)
        PROVE  k \in DOMAIN tasks' /\ tasks'[k].status = tasks[k].status
    BY <2>3, <2>4, <2>5 DEF Submit, Put
  <2>6. ASSUME NEW r \in Runner, RunStep(r)
        PROVE  k \in DOMAIN tasks' /\ tasks'[k].status = tasks[k].status
    <3>1. run[r].key # k
      BY <1>1, <2>6 DEF IndInv, OneRunPerTask, Busy, RunStep, RunTask, CollectImageOutputs, Unfinished
    <3> QED BY <2>6, <3>1 DEF RunStep, RunTask, CollectImageOutputs, UpdateTask, Put
  <2>7. CASE Restart
    <3>1. file = tasks
      BY <1>1, <2>7 DEF IndInv, FileIsCurrent
    <3>2. k \in DOMAIN RecoverUnfinished(tasks) /\ RecoverUnfinished(tasks)[k] = tasks[k]
      BY DEF RecoverUnfinished
    <3>3. k \in DOMAIN Pruned(RecoverUnfinished(tasks))
          /\ Pruned(RecoverUnfinished(tasks))[k] = tasks[k]
      BY <2>2, <3>2 DEF Pruned, Restrict
    <3> QED BY <2>7, <3>1, <3>3 DEF Restart
  <2>8. CASE UNCHANGED vars \/ Tick
    BY <2>8 DEF vars, Tick
  <2> QED BY <1>1, <2>4, <2>5, <2>6, <2>7, <2>8 DEF Next, List
<1>2. IndInv /\ [Next]_vars => [RestartUnread \/ (behind /\ Restart) \/ Keep]_vars
  BY <1>1
<1> QED BY <1>2, IndInvAlways, PTL DEF Spec, OutcomeStable
=============================================================================
