----------------------------- MODULE RegisterRun -----------------------------
(***************************************************************************)
(* The registration orchestrator of services/register_service.rs: start,   *)
(* stop and update change a config behind a mutex, and a spawned run task  *)
(* reads it between its steps.  The registrations of a run are futures it  *)
(* holds and polls itself: one that was pushed begins when the run awaits  *)
(* them.  How one goes, and the log and statistics lines, are left out.    *)
(***************************************************************************)
EXTENDS Integers

CONSTANTS
  Run,       \* run tasks: a bound on those alive at once
  Threads,   \* config threads, read once when a run starts
  Total      \* config total

ASSUME ThreadsAssumption == Threads \in Nat \ {0}
ASSUME TotalAssumption == Total \in Nat \ {0}

VARIABLES
  enabled,   \* config enabled, saved with every change
  mode,      \* config mode; quota and available both fill the pool
  running,   \* the guard against a second run task
  boot,      \* the constructor spawned a start() that has not run yet
  run,       \* the local state of each run task
  allowance  \* what each run could still begin when the last stop came, less
             \* what it began since (history)

vars == <<enabled, mode, running, boot, run, allowance>>

Mode == {"total", "pool"}
PC == {"none", "top", "check", "target", "exit", "sleep", "await", "final"}

\* submitted is counted up to Total, the only value it is compared with; the
\* futures a run holds are those pushed and not polled yet and those begun.
RunState == [pc : PC, cfg : Mode, submitted : 0..Total, pushed : 0..Threads, begun : 0..Threads]
NoRun == [pc |-> "none", cfg |-> "total", submitted |-> 0, pushed |-> 0, begun |-> 0]

Futs(s) == s.pushed + s.begun

Alive(r) == run[r].pc # "none"
At(r, pc) == run[r].pc = pc
Set(r, s) == run' = [run EXCEPT ![r] = s]
Go(r, pc) == Set(r, [run[r] EXCEPT !.pc = pc])

---------------------------------------------------------------------------
(* The requests of the admin *)

\* Mutant: the guard is not checked.
StartUnguarded ==
  /\ enabled' = TRUE /\ running' = TRUE
  /\ \E r \in Run : ~Alive(r) /\ Set(r, [NoRun EXCEPT !.pc = "top"])
  /\ UNCHANGED <<mode, allowance>>

\* With a run alive, start only enables it again.
Start ==
  /\ enabled' = TRUE /\ running' = TRUE
  /\ IF running
       THEN UNCHANGED run
       ELSE \E r \in Run : ~Alive(r) /\ Set(r, [NoRun EXCEPT !.pc = "top"])
  /\ UNCHANGED <<mode, allowance>>

StartRequested == Start /\ UNCHANGED boot

Stop ==
  /\ enabled' = FALSE
  /\ allowance' = IF enabled THEN [r \in Run |-> run[r].pushed + 1] ELSE allowance
  /\ UNCHANGED <<mode, running, boot, run>>

Update ==
  /\ \E m \in Mode : mode' = m
  /\ UNCHANGED <<enabled, running, boot, run, allowance>>

\* A crash or a stop of the process; a run that was enabled is resumed.
Restart ==
  /\ running' = FALSE /\ boot' = enabled /\ run' = [r \in Run |-> NoRun]
  /\ UNCHANGED <<enabled, mode, allowance>>

BootStart == boot /\ Start /\ boot' = FALSE

---------------------------------------------------------------------------
(* run *)

SnapshotConfig(r) ==
  /\ At(r, "top")
  /\ Set(r, [run[r] EXCEPT !.cfg = mode, !.pc = "check"])
  /\ UNCHANGED <<enabled, mode, running, boot, allowance>>

IsEnabled(r) ==
  /\ At(r, "check")
  /\ Go(r, IF enabled THEN "target" ELSE "exit")
  /\ UNCHANGED <<enabled, mode, running, boot, allowance>>

\* One more registration is pushed.
Submitted(s) ==
  [s EXCEPT !.submitted = IF @ < Total THEN @ + 1 ELSE @, !.pushed = @ + 1]

\* Mutant: the enabled flag is read once per round, not once per registration.
TargetReachedWithoutRecheck(r) ==
  /\ At(r, "target")
  /\ \E reached \in BOOLEAN :
       /\ run[r].cfg = "total" => (reached <=> run[r].submitted >= Total)
       /\ IF reached \/ Futs(run[r]) >= Threads
            THEN Go(r, "exit")
            ELSE Set(r, Submitted(run[r]))
  /\ UNCHANGED <<enabled, mode, running, boot, allowance>>

\* Mutant: one registration too many in flight.
TargetReachedOffByOne(r) ==
  /\ At(r, "target")
  /\ \E reached \in BOOLEAN :
       /\ run[r].cfg = "total" => (reached <=> run[r].submitted >= Total)
       /\ IF reached \/ Futs(run[r]) > Threads
            THEN Go(r, "exit")
            ELSE Set(r, [Submitted(run[r]) EXCEPT !.pc = "check"])
  /\ UNCHANGED <<enabled, mode, running, boot, allowance>>

\* The pool's level is anybody's: in a pool mode it may be reached or not.
TargetReached(r) ==
  /\ At(r, "target")
  /\ \E reached \in BOOLEAN :
       /\ run[r].cfg = "total" => (reached <=> run[r].submitted >= Total)
       /\ IF reached \/ Futs(run[r]) >= Threads
            THEN Go(r, "exit")
            ELSE Set(r, [Submitted(run[r]) EXCEPT !.pc = "check"])
  /\ UNCHANGED <<enabled, mode, running, boot, allowance>>

\* Mutant: in a pool mode a stop does not end the run.
LeaveLoopInTotalModeOnly(r) ==
  /\ At(r, "exit")
  /\ Go(r, IF Futs(run[r]) > 0 THEN "await"
           ELSE IF run[r].cfg = "total" THEN "final" ELSE "sleep")
  /\ UNCHANGED <<enabled, mode, running, boot, allowance>>

LeaveLoop(r) ==
  /\ At(r, "exit")
  /\ Go(r, IF Futs(run[r]) > 0 THEN "await"
           ELSE IF ~enabled \/ run[r].cfg = "total" THEN "final" ELSE "sleep")
  /\ UNCHANGED <<enabled, mode, running, boot, allowance>>

Sleep(r) ==
  /\ At(r, "sleep")
  /\ Go(r, "top")
  /\ UNCHANGED <<enabled, mode, running, boot, allowance>>

\* futs.next() polls a future that was pushed for the first time.
RegistrationBegins(r) ==
  /\ At(r, "await") /\ run[r].pushed > 0
  /\ Set(r, [run[r] EXCEPT !.pushed = @ - 1, !.begun = @ + 1])
  /\ allowance' = IF enabled THEN allowance ELSE [allowance EXCEPT ![r] = @ - 1]
  /\ UNCHANGED <<enabled, mode, running, boot>>

\* One that was begun is done, whether or not all others have been polled.
RegistrationEnds(r) ==
  /\ At(r, "await") /\ run[r].begun > 0
  /\ Set(r, [run[r] EXCEPT !.begun = @ - 1, !.pc = "top"])
  /\ UNCHANGED <<enabled, mode, running, boot, allowance>>

Finish(r) ==
  /\ At(r, "final")
  /\ Set(r, NoRun)
  /\ enabled' = FALSE /\ running' = FALSE
  /\ UNCHANGED <<mode, boot, allowance>>

---------------------------------------------------------------------------

Init ==
  /\ enabled \in BOOLEAN
  /\ mode \in Mode
  /\ running = FALSE
  /\ boot = enabled
  /\ run = [r \in Run |-> NoRun]
  /\ allowance = [r \in Run |-> 0]

RunStep(r) ==
  \/ SnapshotConfig(r) \/ IsEnabled(r) \/ TargetReached(r) \/ LeaveLoop(r)
  \/ Sleep(r) \/ RegistrationBegins(r) \/ RegistrationEnds(r) \/ Finish(r)

Next ==
  \/ StartRequested \/ Stop \/ Update \/ Restart \/ BootStart
  \/ \E r \in Run : RunStep(r)

Spec == Init /\ [][Next]_vars

\* A spawned run is scheduled; its sleep and its registrations end.
FairSpec == Spec /\ \A r \in Run : WF_vars(RunStep(r))

---------------------------------------------------------------------------
(* Properties *)

\* The type of every variable; a run never holds more than `threads`
\* registrations.
TypeOK ==
  /\ enabled \in BOOLEAN /\ mode \in Mode /\ running \in BOOLEAN /\ boot \in BOOLEAN
  /\ run \in [Run -> RunState]
  /\ \A r \in Run : Futs(run[r]) <= Threads
  /\ allowance \in [Run -> Int]

\* The `running` guard is exact: there is one run task while it is set, and
\* none while it is not, so start, stop, resumption and the end of a run never
\* leave two runs registering at once or a guard without a run.
OneRun ==
  /\ \A r, s \in Run : Alive(r) /\ Alive(s) => r = s
  /\ running <=> \E r \in Run : Alive(r)

\* After a stop a run begins the registrations it has already pushed and at
\* most one more, the one whose is_enabled was read before the stop, whatever
\* ends, restarts and second stops come in between.
StopAdmitsPushed == \A r \in Run : allowance[r] >= 0

\* A stop that is not taken back ends the run.
StopEndsRun == ~enabled ~> ~running \/ enabled

\* start() "(or re-enable) the run": a run that was enabled when it ends had
\* no more to do, that is, it was a run in total mode.
ReenabledRunGoesOn ==
  [][\A r \in Run : Finish(r) /\ run[r].cfg = "pool" => ~enabled]_vars
=============================================================================
