--------------------------- MODULE RegisterProofs ---------------------------
(***************************************************************************)
(* Theorems about RegisterRun for every number of threads and every total. *)
(* StopAdmitsPushed needs to know that what a run may still begin covers   *)
(* what it has pushed, and the one that the is_enabled read before the     *)
(* stop may still push.                                                    *)
(***************************************************************************)
EXTENDS RegisterRun, TLAPS

\* What a run may still begin after a stop: what it has pushed, and one more
\* if it stands between its is_enabled and the push.
Pending(s) == s.pushed + IF s.pc = "target" THEN 1 ELSE 0

AllowanceInv ==
  \A r \in Run :
    /\ allowance[r] >= 0
    /\ Alive(r) /\ ~enabled => allowance[r] >= Pending(run[r])

IndInv == TypeOK /\ OneRun /\ AllowanceInv

---------------------------------------------------------------------------
(* The state of one run *)

\* A run's state with one field changed is still a run's state.
LEMMA FieldType ==
  ASSUME NEW s \in RunState
  PROVE  /\ \A c \in PC : [s EXCEPT !.pc = c] \in RunState
         /\ \A m \in Mode : [s EXCEPT !.cfg = m] \in RunState
         /\ \A n \in 0..Total : [s EXCEPT !.submitted = n] \in RunState
         /\ \A n \in 0..Threads : /\ [s EXCEPT !.pushed = n] \in RunState
                                  /\ [s EXCEPT !.begun = n] \in RunState
<1>1. \A c \in PC : [s EXCEPT !.pc = c] \in RunState
  BY SMT DEF RunState
<1>2. \A m \in Mode : [s EXCEPT !.cfg = m] \in RunState
  BY SMT DEF RunState
<1>3. \A n \in 0..Total : [s EXCEPT !.submitted = n] \in RunState
  BY SMT DEF RunState
<1>4. \A n \in 0..Threads : [s EXCEPT !.pushed = n] \in RunState
  BY SMT DEF RunState
<1>5. \A n \in 0..Threads : [s EXCEPT !.begun = n] \in RunState
  BY SMT DEF RunState
<1> QED BY <1>1, <1>2, <1>3, <1>4, <1>5

LEMMA NoRunType == NoRun \in RunState /\ [NoRun EXCEPT !.pc = "top"] \in RunState
<1>1. NoRun \in RunState
  BY TotalAssumption, ThreadsAssumption, SMT DEF NoRun, RunState, PC, Mode
<1>2. [NoRun EXCEPT !.pc = "top"] \in RunState
  BY <1>1, FieldType DEF PC
<1> QED BY <1>1, <1>2

\* What a run may become: of its type, and with its futures within threads.
GoodRun(s) == s \in RunState /\ Futs(s) <= Threads

LEMMA NoRunGood == GoodRun(NoRun) /\ GoodRun([NoRun EXCEPT !.pc = "top"])
<1>1. Futs(NoRun) = 0 /\ Futs([NoRun EXCEPT !.pc = "top"]) = 0
  BY SMT DEF Futs, NoRun
<1> QED BY <1>1, NoRunType, ThreadsAssumption, SMT DEF GoodRun

\* The numbers of a run are numbers.
LEMMA RunNumbers ==
  ASSUME TypeOK, NEW r \in Run
  PROVE  /\ GoodRun(run[r])
         /\ run[r].pushed \in Nat /\ run[r].begun \in Nat
         /\ run[r].pushed + run[r].begun <= Threads
         /\ Pending(run[r]) \in Nat
<1>1. run[r] \in RunState /\ Futs(run[r]) <= Threads
  BY DEF TypeOK
<1>2. run[r].pushed \in Nat /\ run[r].begun \in Nat
  BY <1>1, ThreadsAssumption, SMT DEF RunState
<1> QED BY <1>1, <1>2, SMT DEF Futs, Pending, GoodRun

\* A run with room for one more registration is in order after pushing it,
\* and owes no more to its allowance than before.
LEMMA SubmittedGood ==
  ASSUME TypeOK, NEW r \in Run, Futs(run[r]) < Threads, run[r].pc = "target"
  PROVE  LET s == [Submitted(run[r]) EXCEPT !.pc = "check"] IN
         GoodRun(s) /\ s.pc = "check" /\ Pending(s) = Pending(run[r])
<1> DEFINE n == IF run[r].submitted < Total THEN run[r].submitted + 1 ELSE run[r].submitted
           k == run[r].pushed + 1
           a == [run[r] EXCEPT !.submitted = n]
           b == [a EXCEPT !.pushed = k]
           c == [b EXCEPT !.pc = "check"]
<1>0. run[r] \in RunState
  BY DEF TypeOK
<1>1. n \in 0..Total /\ k \in 0..Threads
  <2>1. run[r].submitted \in 0..Total
    BY <1>0 DEF RunState
  <2>2. n \in 0..Total
    BY <2>1, TotalAssumption, SMT
  <2>3. k \in 0..Threads
    BY RunNumbers, ThreadsAssumption, SMT DEF Futs
  <2> QED BY <2>2, <2>3
<1> HIDE DEF n, k
<1>2. a \in RunState
  BY <1>0, <1>1, FieldType
<1>3. b \in RunState
  BY <1>1, <1>2, FieldType
<1>4. c \in RunState
  BY <1>3, FieldType DEF PC
<1>5. c = [Submitted(run[r]) EXCEPT !.pc = "check"]
  BY <1>0, SMT DEF Submitted, RunState, n, k
<1>6. c.pc = "check" /\ c.pushed = run[r].pushed + 1 /\ c.begun = run[r].begun
  BY <1>0, SMT DEF RunState, k
<1> HIDE DEF c
<1>7. Futs(c) <= Threads /\ Pending(c) = Pending(run[r])
  BY <1>6, RunNumbers, ThreadsAssumption, SMT DEF Futs, Pending
<1> QED BY <1>4, <1>5, <1>6, <1>7 DEF GoodRun

\* Going somewhere changes nothing but where the run is.
LEMMA GoGood ==
  ASSUME TypeOK, NEW r \in Run, NEW c \in PC
  PROVE  LET s == [run[r] EXCEPT !.pc = c] IN
         /\ GoodRun(s) /\ s.pc = c
         /\ Pending(s) = run[r].pushed + IF c = "target" THEN 1 ELSE 0
<1> DEFINE s == [run[r] EXCEPT !.pc = c]
<1>1. run[r] \in RunState
  BY DEF TypeOK
<1>2. s \in RunState
  BY <1>1, FieldType
<1>3. s.pc = c /\ s.pushed = run[r].pushed /\ s.begun = run[r].begun
  BY <1>1, SMT DEF RunState
<1> HIDE DEF s
<1>4. Futs(s) <= Threads
  BY <1>3, RunNumbers DEF Futs
<1> QED BY <1>2, <1>3, <1>4 DEF GoodRun, Pending, s

---------------------------------------------------------------------------
(* The steps of a run *)

\* One run moves to a state in order and stays alive, within its allowance,
\* and the others stay: the invariant is kept.
LEMMA RunMoves ==
  ASSUME IndInv, NEW r \in Run, NEW s, Alive(r), GoodRun(s), Set(r, s), s.pc # "none",
         UNCHANGED <<enabled, mode, running, boot>>,
         allowance' \in [Run -> Int],
         \A q \in Run \ {r} : allowance'[q] = allowance[q],
         allowance'[r] >= 0, ~enabled => allowance'[r] >= Pending(s)
  PROVE  IndInv'
<1>1. run' \in [Run -> RunState] /\ run'[r] = s /\ \A q \in Run \ {r} : run'[q] = run[q]
  BY Zenon DEF IndInv, TypeOK, Set, GoodRun
<1>2. TypeOK'
  <2>1. \A q \in Run : Futs(run'[q]) <= Threads
    BY <1>1 DEF IndInv, TypeOK, GoodRun
  <2> QED BY <1>1, <2>1 DEF IndInv, TypeOK, Futs, RunState, PC, Mode
<1>3. \A q \in Run : Alive(q)' <=> Alive(q)
  BY <1>1 DEF Alive
<1>4. OneRun'
  BY <1>3 DEF OneRun, IndInv
<1>5. AllowanceInv'
  <2> SUFFICES ASSUME NEW q \in Run
               PROVE  /\ allowance'[q] >= 0
                      /\ Alive(q) /\ ~enabled => allowance'[q] >= Pending(run'[q])
    BY <1>3 DEF AllowanceInv, Pending
  <2>1. CASE q = r
    BY <1>1, <2>1
  <2>2. CASE q # r
    BY <1>1, <2>2 DEF IndInv, AllowanceInv
  <2> QED BY <2>1, <2>2
<1> QED BY <1>2, <1>4, <1>5 DEF IndInv

\* The same, for a step that begins no registration and has no more pending.
LEMMA QuietStep ==
  ASSUME IndInv, NEW r \in Run, NEW s, Alive(r), GoodRun(s), Set(r, s), s.pc # "none",
         ~enabled => Pending(s) <= Pending(run[r]),
         UNCHANGED <<enabled, mode, running, boot, allowance>>
  PROVE  IndInv'
<1>1. allowance[r] \in Int /\ Pending(s) \in Nat /\ Pending(run[r]) \in Nat
  <2>1. s.pushed \in Nat
    BY ThreadsAssumption, SMT DEF GoodRun, RunState
  <2>2. Pending(s) \in Nat
    BY <2>1, SMT DEF Pending
  <2> QED BY <2>2, RunNumbers DEF IndInv, TypeOK
<1>2. /\ allowance'[r] >= 0
      /\ ~enabled => allowance'[r] >= Pending(s)
  BY <1>1, SMT DEF IndInv, AllowanceInv
<1> QED BY <1>2, RunMoves DEF IndInv, TypeOK

\* A registration that begins is one the run had pushed.
LEMMA BeginsStep ==
  ASSUME IndInv, NEW r \in Run, RegistrationBegins(r)
  PROVE  IndInv'
<1> DEFINE i == run[r].pushed - 1
           j == run[r].begun + 1
           a == [run[r] EXCEPT !.pushed = i]
           s == [a EXCEPT !.begun = j]
<1>0. TypeOK /\ run[r] \in RunState /\ At(r, "await") /\ run[r].pushed > 0
  BY DEF IndInv, TypeOK, RegistrationBegins
<1>1. i \in 0..Threads /\ j \in 0..Threads /\ i + j = run[r].pushed + run[r].begun
  BY <1>0, RunNumbers, ThreadsAssumption, SMT
<1> HIDE DEF i, j
<1>2. a \in RunState
  BY <1>0, <1>1, FieldType
<1>3. s \in RunState
  BY <1>1, <1>2, FieldType
<1>4. s = [run[r] EXCEPT !.pushed = @ - 1, !.begun = @ + 1]
  BY <1>0, SMT DEF RunState, i, j
<1>5. s.pc = "await" /\ s.pushed = i /\ s.begun = j
  BY <1>0, SMT DEF RunState, At
<1>6. Set(r, s)
  BY <1>4 DEF RegistrationBegins
<1> HIDE DEF s
<1>7. GoodRun(s)
  BY <1>0, <1>1, <1>3, <1>5, RunNumbers, SMT DEF GoodRun, Futs
<1>8. Pending(s) = Pending(run[r]) - 1 /\ Pending(s) \in Nat /\ Pending(run[r]) \in Nat
  BY <1>0, <1>1, <1>5, RunNumbers, SMT DEF Pending, At, i
<1>9. UNCHANGED <<enabled, mode, running, boot>>
  BY DEF RegistrationBegins
<1>10. allowance' \in [Run -> Int] /\ \A q \in Run \ {r} : allowance'[q] = allowance[q]
  BY <1>0, SMT DEF RegistrationBegins, TypeOK
<1>11. Alive(r) /\ s.pc # "none"
  BY <1>0, <1>5 DEF At, Alive
<1>12. allowance'[r] >= 0 /\ (~enabled => allowance'[r] >= Pending(s))
  <2>1. allowance[r] \in Int /\ allowance[r] >= 0
        /\ (~enabled => allowance[r] >= Pending(run[r]))
    BY <1>0, <1>11 DEF IndInv, AllowanceInv, TypeOK
  <2>2. CASE enabled
    BY <2>1, <2>2 DEF RegistrationBegins
  <2>3. CASE ~enabled
    <3>1. allowance'[r] = allowance[r] - 1
      BY <1>0, <2>3 DEF RegistrationBegins, TypeOK
    <3> QED BY <1>8, <2>1, <2>3, <3>1, SMT
  <2> QED BY <2>2, <2>3
<1> QED BY <1>6, <1>7, <1>9, <1>10, <1>11, <1>12, RunMoves

\* The end of a run: the guard is taken off and no run is left.
LEMMA FinishStep ==
  ASSUME IndInv, NEW r \in Run, Finish(r)
  PROVE  IndInv'
<1>1. Alive(r)
  BY DEF Finish, At, Alive
<1>2. NoRun.pc = "none"
  BY DEF NoRun
<1>3. run' \in [Run -> RunState] /\ run'[r] = NoRun /\ \A q \in Run \ {r} : run'[q] = run[q]
  BY NoRunType, Zenon DEF Finish, Set, IndInv, TypeOK
<1>4. \A q \in Run : run'[q].pc = "none"
  BY <1>1, <1>2, <1>3 DEF IndInv, OneRun, Alive
<1>5. TypeOK'
  <2>1. \A q \in Run : Futs(run'[q]) <= Threads
    BY <1>3, NoRunGood DEF IndInv, TypeOK, GoodRun
  <2> QED BY <1>3, <2>1 DEF TypeOK, IndInv, Finish, Futs, RunState, PC, Mode
<1>6. OneRun'
  BY <1>4 DEF OneRun, Alive, Finish
<1>7. AllowanceInv'
  BY <1>4 DEF AllowanceInv, Alive, Finish, IndInv
<1> QED BY <1>5, <1>6, <1>7 DEF IndInv

LEMMA RunStepInv ==
  ASSUME IndInv, NEW r \in Run, RunStep(r)
  PROVE  IndInv'
<1>0. run[r] \in RunState /\ TypeOK
  BY DEF IndInv, TypeOK
<1>a. run[r].pushed \in Nat /\ run[r].begun \in Nat /\ Pending(run[r]) \in Nat
      /\ run[r].pushed <= Pending(run[r])
  BY <1>0, RunNumbers, SMT DEF Pending
<1>1. CASE SnapshotConfig(r)
  <2> DEFINE a == [run[r] EXCEPT !.cfg = mode]
             s == [a EXCEPT !.pc = "check"]
  <2>1. a \in RunState
    BY <1>0, FieldType DEF TypeOK
  <2>2. s \in RunState
    BY <2>1, FieldType DEF PC
  <2>3. s = [run[r] EXCEPT !.cfg = mode, !.pc = "check"]
        /\ s.pc = "check" /\ s.pushed = run[r].pushed /\ s.begun = run[r].begun
    BY <1>0, SMT DEF RunState
  <2> HIDE DEF s
  <2>4. GoodRun(s) /\ Pending(s) <= Pending(run[r])
    BY <1>0, <1>a, <2>2, <2>3, RunNumbers, SMT DEF GoodRun, Futs, Pending
  <2>5. Set(r, s) /\ Alive(r)
    BY <1>1, <2>3 DEF SnapshotConfig, Alive, At
  <2> QED BY <1>1, <2>3, <2>4, <2>5, QuietStep DEF SnapshotConfig
<1>2. CASE IsEnabled(r)
  <2> DEFINE c == IF enabled THEN "target" ELSE "exit"
  <2>1. c \in PC /\ c # "none" /\ (~enabled => c # "target")
    BY DEF PC
  <2>2. Set(r, [run[r] EXCEPT !.pc = c]) /\ Alive(r)
    BY <1>2 DEF IsEnabled, Go, At, Alive
  <2> HIDE DEF c
  <2>3. LET s == [run[r] EXCEPT !.pc = c] IN
        GoodRun(s) /\ s.pc = c /\ (~enabled => Pending(s) = run[r].pushed)
    BY <1>0, <1>a, <2>1, GoGood, SMT
  <2> QED BY <1>2, <1>a, <2>1, <2>2, <2>3, QuietStep DEF IsEnabled
<1>3. CASE TargetReached(r)
  <2>1. run[r].pc = "target" /\ Alive(r)
    BY <1>3 DEF TargetReached, At, Alive
  <2>2. CASE Go(r, "exit")
    <3> DEFINE c == "exit"
    <3>1. c \in PC /\ c \notin {"none", "target"}
      BY DEF PC
    <3>2. Set(r, [run[r] EXCEPT !.pc = c])
      BY <2>2 DEF Go
    <3> HIDE DEF c
    <3>3. LET s == [run[r] EXCEPT !.pc = c] IN
          GoodRun(s) /\ s.pc = c /\ Pending(s) = run[r].pushed
      BY <1>0, <1>a, <3>1, GoGood, SMT
    <3> QED BY <1>3, <1>a, <2>1, <3>1, <3>2, <3>3, QuietStep DEF TargetReached
  <2>3. CASE Futs(run[r]) < Threads /\ Set(r, [Submitted(run[r]) EXCEPT !.pc = "check"])
    <3> DEFINE s == [Submitted(run[r]) EXCEPT !.pc = "check"]
    <3>1. GoodRun(s) /\ s.pc = "check" /\ Pending(s) = Pending(run[r])
      BY <1>0, <2>1, <2>3, SubmittedGood
    <3>2. Set(r, s)
      BY <2>3
    <3> HIDE DEF s
    <3> QED BY <1>3, <1>a, <2>1, <3>1, <3>2, QuietStep DEF TargetReached
  <2>4. Futs(run[r]) \in Nat
    BY <1>a DEF Futs
  <2>5. Futs(run[r]) >= Threads \/ Futs(run[r]) < Threads
    BY <2>4, ThreadsAssumption, SMT
  <2> QED BY <1>3, <2>2, <2>3, <2>5 DEF TargetReached
<1>4. CASE LeaveLoop(r)
  <2> DEFINE c == IF Futs(run[r]) > 0 THEN "await"
                  ELSE IF ~enabled \/ run[r].cfg = "total" THEN "final" ELSE "sleep"
  <2>1. c \in PC /\ c \notin {"none", "target"}
    BY DEF PC
  <2>2. Set(r, [run[r] EXCEPT !.pc = c]) /\ Alive(r)
    BY <1>4 DEF LeaveLoop, Go, At, Alive
  <2> HIDE DEF c
  <2>3. LET s == [run[r] EXCEPT !.pc = c] IN
        GoodRun(s) /\ s.pc = c /\ Pending(s) = run[r].pushed
    BY <1>0, <1>a, <2>1, GoGood, SMT
  <2> QED BY <1>4, <1>a, <2>1, <2>2, <2>3, QuietStep DEF LeaveLoop
<1>5. CASE Sleep(r)
  <2> DEFINE c == "top"
  <2>1. c \in PC /\ c \notin {"none", "target"}
    BY DEF PC
  <2>2. Set(r, [run[r] EXCEPT !.pc = c]) /\ Alive(r)
    BY <1>5 DEF Sleep, Go, At, Alive
  <2> HIDE DEF c
  <2>3. LET s == [run[r] EXCEPT !.pc = c] IN
        GoodRun(s) /\ s.pc = c /\ Pending(s) = run[r].pushed
    BY <1>0, <1>a, <2>1, GoGood, SMT
  <2> QED BY <1>5, <1>a, <2>1, <2>2, <2>3, QuietStep DEF Sleep
<1>6. CASE RegistrationBegins(r)
  BY <1>6, BeginsStep
<1>7. CASE RegistrationEnds(r)
  <2> DEFINE i == run[r].begun - 1
             a == [run[r] EXCEPT !.begun = i]
             s == [a EXCEPT !.pc = "top"]
  <2>1. i \in 0..Threads /\ run[r].pushed + i <= Threads
    BY <1>0, <1>7, RunNumbers, ThreadsAssumption, SMT DEF RegistrationEnds
  <2> HIDE DEF i
  <2>2. a \in RunState
    BY <1>0, <2>1, FieldType
  <2>3. s \in RunState
    BY <2>2, FieldType DEF PC
  <2>4. s = [run[r] EXCEPT !.begun = @ - 1, !.pc = "top"]
        /\ s.pc = "top" /\ s.pushed = run[r].pushed /\ s.begun = i
    BY <1>0, SMT DEF RunState, i
  <2> HIDE DEF s
  <2>5. GoodRun(s) /\ Pending(s) <= Pending(run[r])
    BY <1>a, <2>1, <2>3, <2>4, SMT DEF GoodRun, Futs, Pending
  <2>6. Set(r, s) /\ Alive(r)
    BY <1>7, <2>4 DEF RegistrationEnds, Alive, At
  <2> QED BY <1>7, <2>4, <2>5, <2>6, QuietStep DEF RegistrationEnds
<1>8. CASE Finish(r)
  BY <1>8, FinishStep
<1> QED BY <1>1, <1>2, <1>3, <1>4, <1>5, <1>6, <1>7, <1>8 DEF RunStep

---------------------------------------------------------------------------
(* The requests, and the invariant *)

\* Steps that leave the runs alone, and the allowance unless they stop them.
LEMMA SameRuns ==
  ASSUME IndInv, UNCHANGED <<run, running>>, enabled' \in BOOLEAN, mode' \in Mode,
         boot' \in BOOLEAN, allowance' \in [Run -> Int],
         \A r \in Run : /\ allowance'[r] >= 0
                        /\ Alive(r) /\ ~enabled' => allowance'[r] >= Pending(run[r])
  PROVE  IndInv'
<1>1. TypeOK'
  BY DEF IndInv, TypeOK, Futs, RunState, PC, Mode
<1>2. OneRun' /\ AllowanceInv'
  BY DEF IndInv, OneRun, AllowanceInv, Alive, Pending
<1> QED BY <1>1, <1>2 DEF IndInv

LEMMA StopStep == ASSUME IndInv, Stop PROVE IndInv'
<1>0. TypeOK /\ AllowanceInv
  BY DEF IndInv
<1>1. CASE enabled
  <2>1. \A r \in Run : allowance'[r] = run[r].pushed + 1
    BY <1>1 DEF Stop
  <2>2. \A r \in Run : run[r].pushed + 1 \in Nat /\ run[r].pushed + 1 >= Pending(run[r])
    <3> TAKE r \in Run
    <3>1. run[r].pushed \in Nat
      BY <1>0, RunNumbers
    <3> QED BY <3>1, SMT DEF Pending
  <2>3. allowance' \in [Run -> Int]
    BY <1>1, <2>2 DEF Stop
  <2>4. \A r \in Run : allowance'[r] >= 0 /\ allowance'[r] >= Pending(run[r])
    <3> TAKE r \in Run
    <3>1. run[r].pushed + 1 \in Nat
      BY <2>2
    <3>2. run[r].pushed + 1 >= 0
      BY <3>1, SMT
    <3> QED BY <2>1, <2>2, <3>2
  <2> QED BY <1>0, <2>3, <2>4, SameRuns DEF Stop, TypeOK
<1>2. CASE ~enabled
  BY <1>0, <1>2, SameRuns DEF Stop, TypeOK, AllowanceInv
<1> QED BY <1>1, <1>2

LEMMA StartStep ==
  ASSUME IndInv, Start, boot' \in BOOLEAN
  PROVE  IndInv'
<1>0. TypeOK /\ AllowanceInv
  BY DEF IndInv
<1>1. enabled' = TRUE /\ running' = TRUE /\ mode' = mode /\ allowance' = allowance
  BY DEF Start
<1>2. CASE running /\ UNCHANGED run
  BY <1>0, <1>1, <1>2, SameRuns DEF TypeOK, AllowanceInv
<1>3. CASE ~running /\ \E r \in Run : ~Alive(r) /\ Set(r, [NoRun EXCEPT !.pc = "top"])
  <2>1. PICK r \in Run : Set(r, [NoRun EXCEPT !.pc = "top"])
    BY <1>3
  <2> DEFINE s == [NoRun EXCEPT !.pc = "top"]
  <2>2. GoodRun(s) /\ s.pc = "top"
    BY NoRunGood DEF NoRun
  <2> HIDE DEF s
  <2>3. /\ run' \in [Run -> RunState] /\ run'[r] = s
        /\ \A q \in Run \ {r} : run'[q] = run[q]
    BY <1>0, <2>1, <2>2, Zenon DEF Set, TypeOK, GoodRun, s
  <2>4. \A q \in Run : ~Alive(q)
    BY <1>3 DEF IndInv, OneRun
  <2>5. TypeOK'
    <3>1. \A q \in Run : Futs(run'[q]) <= Threads
      BY <1>0, <2>2, <2>3 DEF TypeOK, GoodRun
    <3> QED BY <1>0, <1>1, <2>3, <3>1 DEF TypeOK, Futs, RunState, PC, Mode
  <2>6. OneRun'
    BY <1>1, <2>2, <2>3, <2>4 DEF OneRun, Alive
  <2>7. AllowanceInv'
    BY <1>0, <1>1 DEF AllowanceInv
  <2> QED BY <2>5, <2>6, <2>7 DEF IndInv
<1> QED BY <1>2, <1>3 DEF Start

LEMMA RestartStep == ASSUME IndInv, Restart PROVE IndInv'
<1>1. \A r \in Run : run'[r] = NoRun
  BY DEF Restart
<1>2. \A r \in Run : run'[r].pc = "none"
  BY <1>1 DEF NoRun
<1>3. TypeOK'
  BY <1>1, NoRunGood DEF TypeOK, IndInv, Restart, GoodRun, Futs, RunState, PC, Mode
<1>4. OneRun' /\ AllowanceInv'
  BY <1>2 DEF OneRun, AllowanceInv, IndInv, Alive, Restart
<1> QED BY <1>3, <1>4 DEF IndInv

LEMMA IndInvInit == ASSUME Init PROVE IndInv
<1>1. \A r \in Run : run[r] = NoRun /\ run[r].pc = "none"
  BY DEF Init, NoRun
<1>2. TypeOK
  <2>1. run \in [Run -> RunState] /\ \A r \in Run : Futs(run[r]) <= Threads
    BY <1>1, NoRunGood DEF GoodRun, Init
  <2>2. allowance \in [Run -> Int]
    BY SMT DEF Init
  <2>3. running \in BOOLEAN /\ boot \in BOOLEAN
    BY DEF Init
  <2> QED BY <2>1, <2>2, <2>3 DEF TypeOK, Init
<1>3. OneRun /\ AllowanceInv
  BY <1>1, SMT DEF OneRun, AllowanceInv, Alive, Init
<1> QED BY <1>2, <1>3 DEF IndInv

LEMMA IndInvNext == ASSUME IndInv, [Next]_vars PROVE IndInv'
<1>1. CASE StartRequested
  BY <1>1, StartStep DEF StartRequested, IndInv, TypeOK
<1>2. CASE BootStart
  BY <1>2, StartStep DEF BootStart
<1>3. CASE Stop
  BY <1>3, StopStep
<1>4. CASE Update \/ UNCHANGED vars
  BY <1>4, SameRuns DEF Update, vars, IndInv, TypeOK, AllowanceInv
<1>5. CASE Restart
  BY <1>5, RestartStep
<1>6. CASE \E r \in Run : RunStep(r)
  BY <1>6, RunStepInv
<1> QED BY <1>1, <1>2, <1>3, <1>4, <1>5, <1>6 DEF Next

LEMMA IndInvAlways == Spec => []IndInv
BY IndInvInit, IndInvNext, PTL DEF Spec

\* The variables of the orchestrator keep their types, and a run never holds
\* more than `threads` registrations, for every `threads`.
THEOREM TypeCorrect == Spec => []TypeOK
BY IndInvAlways, PTL DEF IndInv

\* The running guard is exact: never two run tasks, never a guard without one.
THEOREM OneRunHolds == Spec => []OneRun
BY IndInvAlways, PTL DEF IndInv

\* After a stop a run begins what it has pushed and at most one more.
THEOREM StopAdmitsPushedHolds == Spec => []StopAdmitsPushed
<1>1. IndInv => StopAdmitsPushed
  BY DEF IndInv, AllowanceInv, StopAdmitsPushed
<1> QED BY <1>1, IndInvAlways, PTL
=============================================================================
