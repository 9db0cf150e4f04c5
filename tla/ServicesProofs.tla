----------------------------- MODULE ServicesProofs -------------------------
(***************************************************************************)
(* Proofs about the smaller services: backups (BackupsInv), auth keys       *)
(* (KeysInv), OAuth sessions (SessionsInv), settings (SettingsInv), bearers *)
(* of remote servers (their types), registrations (RegistrationInv), and,   *)
(* from these and the modules it extends, about all services side by side.  *)
(***************************************************************************)
EXTENDS MCServices, ImportsProofs, GalleryProofs, FiniteSetTheorems, WellFoundedInduction

---------------------------------------------------------------------------
(* Finite sets of numbers. *)

\* A finite set of numbers has a greatest one: of the sets of those that are at
\* least as great as one of them, a smallest one is that of the greatest.
LEMMA GreatestExists ==
  ASSUME NEW D \in SUBSET Nat, D # {}, IsFiniteSet(D)
  PROVE  \E x \in D : \A y \in D : y =< x
<1> DEFINE above(x) == {y \in D : y >= x}
           tops == {above(x) : x \in D}
<1>1. tops \subseteq FiniteSubsetsOf(D) /\ tops # {}
  <2>1. ASSUME NEW x \in D PROVE IsFiniteSet(above(x))
    <3>1. above(x) \in SUBSET D
      OBVIOUS
    <3> HIDE DEF above
    <3> QED BY <3>1, FS_Subset
  <2> QED BY <2>1 DEF FiniteSubsetsOf
<1>2. PICK top \in tops : \A other \in tops : ~(<<other, top>> \in StrictSubsetOrdering(D))
  <2> HIDE DEF tops
  <2> QED BY <1>1, FS_StrictSubsetOrderingWellFounded, WFMin
<1>3. PICK x \in D : top = above(x)
  OBVIOUS
<1>4. ASSUME NEW y \in D, ~(y =< x) PROVE FALSE
  <2>1. \A z \in D : z \in Nat
    OBVIOUS
  <2>2. above(y) \subseteq top /\ x \in top /\ x \notin above(y)
    <3>1. x \in Nat /\ y \in Nat /\ y > x
      BY <1>4, <2>1
    <3>2. \A z \in D : z >= y => z >= x
      BY <2>1, <3>1
    <3>3. x \in above(x) /\ x \notin above(y)
      BY <3>1
    <3> QED BY <1>3, <3>2, <3>3
  <2>3. <<above(y), top>> \in StrictSubsetOrdering(D)
    <3>1. above(y) \subseteq D /\ top \subseteq D
      BY <1>3
    <3> HIDE DEF above
    <3> QED BY <2>2, <3>1 DEF StrictSubsetOrdering
  <2> QED BY <1>2, <2>3
<1> QED BY <1>4

LEMMA LeastExists ==
  ASSUME NEW D \in SUBSET Nat, D # {}
  PROVE  \E x \in D : \A y \in D : x =< y
<1>1. PICK top \in D : TRUE
  OBVIOUS
<1> DEFINE below == {top - y : y \in {z \in D : z =< top}}
<1>2. top \in Nat /\ \A z \in D : z \in Nat
  BY <1>1
<1>3. below \subseteq 0..top /\ top - top \in below
  BY <1>1, <1>2
<1>4. IsFiniteSet(0..top) /\ 0..top \subseteq Nat
  BY <1>2, FS_Interval
<1>5. PICK b \in below : \A y \in below : y =< b
  <2> HIDE DEF below
  <2>1. IsFiniteSet(below) /\ below \in SUBSET Nat /\ below # {}
    BY <1>3, <1>4, FS_Subset
  <2> QED BY <2>1, GreatestExists
<1>6. PICK x \in D : x =< top /\ b = top - x
  OBVIOUS
<1>7. ASSUME NEW y \in D PROVE x =< y
  <2>1. y \in Nat /\ x \in Nat
    BY <1>2
  <2>2. CASE y =< top
    <3>1. top - y =< top - x
      BY <1>5, <1>6, <2>2
    <3> QED BY <1>2, <2>1, <3>1
  <2>3. CASE ~(y =< top)
    BY <1>2, <1>6, <2>1, <2>3
  <2> QED BY <2>2, <2>3
<1> QED BY <1>7

---------------------------------------------------------------------------
(* Backups. *)

Holds(s) == backupRuns[s].pc \in Holding

\* One run holds the lock, which is then up; without a holder it is up only for
\* a run that was abandoned.
LockInv ==
  /\ \A s, t \in Starters : Holds(s) /\ Holds(t) => s = t
  /\ \A s \in Starters : Holds(s) => backupRunning /\ ~abandoned
  /\ abandoned => backupRunning
  /\ backupRunning => abandoned \/ \E s \in Starters : Holds(s)

\* While a run rotates, what it uploaded is the last upload; everything it is
\* about to delete is a backup with as many later uploads as it has to keep.
RotationInv ==
  /\ \A o \in bucket : o =< uploads
  /\ \A s \in Starters :
       At(s, "list") \/ At(s, "delete") => backupRuns[s].key = uploads /\ backupRuns[s].keep > 0
  /\ \A s \in Starters :
       At(s, "delete") =>
         /\ backupRuns[s].doomed # {}
         /\ \A o \in backupRuns[s].doomed :
              o # Foreign /\ uploads - o >= backupRuns[s].keep

BackupsInv == BackupsTypeOK /\ LockInv /\ RotationInv

\* As many backups newer than o as there are, so many were uploaded after it.
LEMMA NewerUploads ==
  ASSUME NEW S \in SUBSET Nat, NEW n \in Nat, NEW o \in S, \A x \in S : x =< n
  PROVE  Cardinality({x \in S : x > o}) \in Nat /\ Cardinality({x \in S : x > o}) =< n - o
<1>1. o \in Nat /\ o =< n /\ \A x \in S : x \in Nat
  OBVIOUS
<1>2. IsFiniteSet(o + 1 .. n) /\ Cardinality(o + 1 .. n) = n - o
  <2>1. o + 1 \in Int /\ n \in Int /\ (IF o + 1 > n THEN 0 ELSE n - (o + 1) + 1) = n - o
    BY <1>1
  <2> QED BY <2>1, FS_Interval
<1>3. {x \in S : x > o} \in SUBSET (o + 1 .. n)
  <2>1. \A x \in S : x > o => x \in o + 1 .. n
    BY <1>1
  <2> QED BY <2>1
<1> DEFINE newer == {x \in S : x > o}
<1> HIDE DEF newer
<1>4. IsFiniteSet(newer) /\ Cardinality(newer) =< n - o
  BY <1>2, <1>3, FS_Subset DEF newer
<1>5. Cardinality(newer) \in Nat
  BY <1>4, FS_CardinalityType
<1> QED BY <1>4, <1>5 DEF newer

LEMMA DoomedOld ==
  ASSUME BackupsInv, NEW keep \in Nat, NEW o \in Doomed(bucket, keep)
  PROVE  o \in bucket /\ o # Foreign /\ uploads - o >= keep
<1>1. bucket \subseteq Nat /\ uploads \in Nat /\ \A x \in bucket : x =< uploads
  BY BackupsAssumption DEF BackupsInv, BackupsTypeOK, RotationInv
<1>2. o \in bucket \ {Foreign} /\ Cardinality({n \in bucket \ {Foreign} : n > o}) >= keep
  BY DEF Doomed
<1>3. /\ Cardinality({n \in bucket \ {Foreign} : n > o}) \in Nat
      /\ Cardinality({n \in bucket \ {Foreign} : n > o}) =< uploads - o
  BY <1>1, <1>2, NewerUploads
<1> QED BY <1>1, <1>2, <1>3

\* The states of a run: at a place of its own, and as it goes on.
LEMMA RunType ==
  /\ \A pc \in {"none", "load", "lock", "record"} \cup Holding :
       RunAt(pc) \in Run /\ RunAt(pc).pc = pc
  /\ \A run \in Run : run.keep \in Nat
  /\ \A due \in BOOLEAN : /\ [RunAt("lock") EXCEPT !.due = due] \in Run
                          /\ [RunAt("lock") EXCEPT !.due = due].pc = "lock"
  /\ \A run \in Run : [run EXCEPT !.pc = "locked"] \in Run
  /\ \A keep \in Keeps : /\ [RunAt("upload") EXCEPT !.keep = keep] \in Run
                         /\ [RunAt("upload") EXCEPT !.keep = keep].pc = "upload"
                         /\ [RunAt("upload") EXCEPT !.keep = keep].keep = keep
<1> USE BackupsAssumption DEF Run, RunAt, NoKey, Holding
<1>1. \A pc \in {"none", "load", "lock", "record"} \cup Holding :
        RunAt(pc) \in Run /\ RunAt(pc).pc = pc
  OBVIOUS
<1>2. ASSUME NEW run \in Run PROVE run.keep \in Nat
  <2>1. run.keep \in Keeps \cup {0}
    OBVIOUS
  <2>2. Keeps \cup {0} \subseteq Nat
    BY BackupsAssumption
  <2> QED BY <2>1, <2>2
<1>3. \A due \in BOOLEAN : /\ [RunAt("lock") EXCEPT !.due = due] \in Run
                           /\ [RunAt("lock") EXCEPT !.due = due].pc = "lock"
  OBVIOUS
<1>4. \A run \in Run : [run EXCEPT !.pc = "locked"] \in Run
  OBVIOUS
<1>5. ASSUME NEW keep \in Keeps
      PROVE  /\ [RunAt("upload") EXCEPT !.keep = keep] \in Run
             /\ [RunAt("upload") EXCEPT !.keep = keep].pc = "upload"
             /\ [RunAt("upload") EXCEPT !.keep = keep].keep = keep
  <2>1. \A run \in Run : /\ [run EXCEPT !.keep = keep] \in Run
                         /\ [run EXCEPT !.keep = keep].pc = run.pc
                         /\ [run EXCEPT !.keep = keep].keep = keep
    OBVIOUS
  <2>2. RunAt("upload") \in Run /\ RunAt("upload").pc = "upload"
    BY <1>1
  <2> QED BY <2>1, <2>2
<1> QED BY <1>1, <1>2, <1>3, <1>4, <1>5

LEMMA BackupsInvInit == BackupsInit => BackupsInv
<1> SUFFICES ASSUME BackupsInit PROVE BackupsInv
  OBVIOUS
<1>1. BackupsTypeOK
  <2>1. RunAt("none") \in Run
    BY RunType
  <2>2. bucket \subseteq 0..MaxObjects /\ uploads \in 0..MaxObjects
    BY BackupsAssumption DEF BackupsInit, Foreign
  <2> QED BY <2>1, <2>2 DEF BackupsInit, BackupsTypeOK
<1>2. LockInv /\ RotationInv
  BY RunType, BackupsAssumption DEF BackupsInit, LockInv, RotationInv, Holds, Holding, At, Foreign
<1> QED BY <1>1, <1>2 DEF BackupsInv

\* A run that does not take the lock, nor begins to delete, moves on and leaves
\* the lock alone, or gives it back.
LEMMA RunMoves ==
  ASSUME BackupsInv, NEW s \in Starters, NEW run \in Run, GoesTo(s, run),
         UNCHANGED <<bucket, uploads, backupKeep>>, backupDue' \in BOOLEAN,
         run.pc \notin {"list", "delete"},
         \/ /\ run.pc \in Holding <=> Holds(s)
            /\ UNCHANGED <<backupRunning, abandoned>>
         \/ /\ Holds(s) /\ run.pc \notin Holding /\ abandoned' \in BOOLEAN
            /\ backupRunning' = abandoned' /\ ~abandoned
  PROVE  BackupsInv'
<1>1. /\ backupRuns' \in [Starters -> Run] /\ backupRuns'[s] = run
      /\ \A t \in Starters \ {s} : backupRuns'[t] = backupRuns[t]
  BY DEF BackupsInv, BackupsTypeOK, GoesTo
<1>2. BackupsTypeOK'
  BY <1>1 DEF BackupsInv, BackupsTypeOK
<1>3. LockInv'
  BY <1>1 DEF BackupsInv, LockInv, Holds, BackupsTypeOK
<1>4. RotationInv'
  BY <1>1 DEF BackupsInv, RotationInv, At
<1> QED BY <1>2, <1>3, <1>4 DEF BackupsInv

LEMMA TakeLockStep ==
  ASSUME BackupsInv, NEW s \in Starters, TakeLock(s)
  PROVE  BackupsInv'
<1>1. backupRuns[s] \in Run /\ ~Holds(s)
  BY DEF BackupsInv, BackupsTypeOK, TakeLock, At, Holds, Holding
<1>2. CASE backupRunning
  <2>1. RunAt("none") \in Run /\ RunAt("none").pc = "none"
    BY RunType
  <2> QED BY <1>1, <1>2, <2>1, RunMoves DEF TakeLock, Holding, BackupsInv, BackupsTypeOK
<1>3. CASE ~backupRunning
  <2> DEFINE run == [backupRuns[s] EXCEPT !.pc = "locked"]
  <2>1. run \in Run /\ run.pc = "locked"
    <3>1. run.pc = "locked"
      BY <1>1 DEF Run
    <3> QED BY <1>1, <3>1, RunType
  <2> HIDE DEF run
  <2>2. /\ GoesTo(s, run) /\ backupRunning' = TRUE
        /\ UNCHANGED <<backupKeep, backupDue, bucket, uploads, abandoned>>
    BY <1>3 DEF TakeLock, run
  <2>3. /\ backupRuns' \in [Starters -> Run] /\ backupRuns'[s] = run
        /\ \A t \in Starters \ {s} : backupRuns'[t] = backupRuns[t]
    BY <2>1, <2>2 DEF BackupsInv, BackupsTypeOK, GoesTo
  <2>4. BackupsTypeOK'
    BY <2>2, <2>3 DEF BackupsInv, BackupsTypeOK
  <2>5. LockInv'
    BY <1>3, <2>1, <2>2, <2>3 DEF BackupsInv, LockInv, Holds, Holding
  <2>6. RotationInv'
    BY <2>1, <2>2, <2>3 DEF BackupsInv, RotationInv, At
  <2> QED BY <2>4, <2>5, <2>6 DEF BackupsInv
<1> QED BY <1>2, <1>3

\* A run that holds the lock goes on with a rotation in order: the other runs
\* are not at theirs, so an upload of this one cannot concern them.
LEMMA RotatingRun ==
  ASSUME BackupsInv, NEW s \in Starters, Holds(s), NEW run \in Run, run.pc \in Holding,
         GoesTo(s, run), bucket' \subseteq 0..MaxObjects, uploads' \in 0..MaxObjects,
         \A o \in bucket' : o =< uploads',
         UNCHANGED <<backupKeep, backupRunning, backupDue, abandoned>>,
         run.pc \in {"list", "delete"} => run.key = uploads' /\ run.keep > 0,
         run.pc = "delete" =>
           /\ run.doomed # {}
           /\ \A o \in run.doomed : o # Foreign /\ uploads' - o >= run.keep
  PROVE  BackupsInv'
<1>1. /\ backupRuns' \in [Starters -> Run] /\ backupRuns'[s] = run
      /\ \A t \in Starters \ {s} : backupRuns'[t] = backupRuns[t]
  BY DEF BackupsInv, BackupsTypeOK, GoesTo
<1>2. \A t \in Starters \ {s} : ~Holds(t) /\ ~At(t, "list") /\ ~At(t, "delete")
  BY DEF BackupsInv, LockInv, Holds, At, Holding
<1>3. BackupsTypeOK'
  BY <1>1 DEF BackupsInv, BackupsTypeOK
<1>4. LockInv'
  BY <1>1 DEF BackupsInv, LockInv, Holds
<1>5. RotationInv'
  BY <1>1, <1>2 DEF RotationInv, At
<1> QED BY <1>3, <1>4, <1>5 DEF BackupsInv

\* A run that ends its work goes to release, from wherever it is.
LEMMA EndsStep ==
  ASSUME BackupsInv, NEW s \in Starters, Holds(s), Ends(s),
         bucket' \subseteq 0..MaxObjects, uploads' \in 0..MaxObjects,
         \A o \in bucket' : o =< uploads',
         UNCHANGED <<backupKeep, backupRunning, backupDue, abandoned>>
  PROVE  BackupsInv'
<1>1. RunAt("release") \in Run /\ RunAt("release").pc = "release"
  BY RunType DEF Holding
<1> QED BY <1>1, RotatingRun DEF Ends, Holding

LEMMA BucketBounds ==
  BackupsInv => /\ bucket \subseteq 0..MaxObjects /\ uploads \in 0..MaxObjects
                /\ \A o \in bucket : o \in Nat /\ o =< uploads
                /\ uploads \in Nat /\ MaxObjects \in Nat
<1> SUFFICES ASSUME BackupsInv
             PROVE  /\ bucket \subseteq 0..MaxObjects /\ uploads \in 0..MaxObjects
                    /\ \A o \in bucket : o \in Nat /\ o =< uploads
                    /\ uploads \in Nat /\ MaxObjects \in Nat
  OBVIOUS
<1>1. bucket \subseteq 0..MaxObjects /\ uploads \in 0..MaxObjects
  BY DEF BackupsInv, BackupsTypeOK
<1>2. \A o \in bucket : o =< uploads
  BY DEF BackupsInv, RotationInv
<1>3. \A n \in 0..MaxObjects : n \in Nat
  BY BackupsAssumption
<1>4. MaxObjects \in Nat
  BY BackupsAssumption
<1> QED BY <1>1, <1>2, <1>3, <1>4

LEMMA UploadStep ==
  ASSUME BackupsInv, NEW s \in Starters, Upload(s)
  PROVE  BackupsInv'
<1> DEFINE keep == backupRuns[s].keep
<1>1. /\ backupRuns[s] \in Run /\ Holds(s) /\ keep \in Nat
      /\ UNCHANGED <<backupKeep, backupRunning, backupDue, abandoned>>
  BY RunType DEF BackupsInv, BackupsTypeOK, Upload, At, Holds, Holding
<1>2. CASE Ends(s) /\ UNCHANGED <<bucket, uploads>>
  BY <1>1, <1>2, EndsStep, BucketBounds
<1>3. CASE uploads < MaxObjects /\ uploads' = uploads + 1 /\ bucket' = bucket \cup {uploads + 1}
  <2>1. bucket' \subseteq 0..MaxObjects /\ uploads' \in 1..MaxObjects /\ \A o \in bucket' : o =< uploads'
    BY <1>3, BucketBounds
  <2>2. CASE Ends(s)
    BY <1>1, <2>1, <2>2, EndsStep
  <2>3. CASE keep > 0 /\ GoesTo(s, [RunAt("list") EXCEPT !.key = uploads + 1, !.keep = keep])
    <3> DEFINE run == [RunAt("list") EXCEPT !.key = uploads + 1, !.keep = keep]
    <3>1. keep \in Keeps \cup {0} /\ uploads + 1 \in 0..MaxObjects
      BY <1>1, <1>3, <2>1 DEF Run
    <3>2. RunAt("list") \in Run /\ RunAt("list").pc = "list"
      BY RunType DEF Holding
    <3>3. run \in Run /\ run.pc = "list" /\ run.key = uploads + 1 /\ run.keep = keep
      BY <3>1, <3>2 DEF Run
    <3> HIDE DEF run
    <3>4. GoesTo(s, run)
      BY <2>3 DEF run
    <3> QED BY <1>1, <1>3, <2>1, <2>3, <3>3, <3>4, RotatingRun DEF Holding
  <2> QED BY <1>2, <1>3, <2>2, <2>3 DEF Upload
<1> QED BY <1>2, <1>3 DEF Upload

LEMMA ListStep ==
  ASSUME BackupsInv, NEW s \in Starters, ListBackups(s)
  PROVE  BackupsInv'
<1> DEFINE doomed == Doomed(bucket, backupRuns[s].keep)
           run == [backupRuns[s] EXCEPT !.doomed = doomed, !.pc = "delete"]
<1>1. /\ backupRuns[s] \in Run /\ Holds(s) /\ At(s, "list") /\ backupRuns[s].keep \in Nat
      /\ UNCHANGED <<backupKeep, backupRunning, backupDue, bucket, uploads, abandoned>>
  BY RunType DEF BackupsInv, BackupsTypeOK, ListBackups, At, Holds, Holding
<1>2. CASE Ends(s)
  BY <1>1, <1>2, EndsStep, BucketBounds
<1>3. CASE doomed # {} /\ GoesTo(s, run)
  <2>1. doomed \subseteq bucket /\ \A o \in doomed : o # Foreign /\ uploads - o >= backupRuns[s].keep
    BY <1>1, DoomedOld
  <2>2. doomed \in SUBSET (0..MaxObjects)
    BY <2>1, BucketBounds
  <2> HIDE DEF doomed
  <2>3. /\ run \in Run /\ run.pc = "delete" /\ run.doomed = doomed
        /\ run.key = backupRuns[s].key /\ run.keep = backupRuns[s].keep
    BY <1>1, <2>2 DEF Run, Holding
  <2> HIDE DEF run
  <2>4. run.key = uploads /\ run.keep > 0
    BY <1>1, <2>3 DEF BackupsInv, RotationInv
  <2> QED BY <1>1, <1>3, <2>1, <2>3, <2>4, BucketBounds, RotatingRun DEF Holding
<1> QED BY <1>2, <1>3 DEF ListBackups

\* What DeleteOld deletes is one of the doomed.
LEMMA DeletesDoomed ==
  ASSUME BackupsInv, NEW s \in Starters, At(s, "delete")
  PROVE  LET doomed == backupRuns[s].doomed
         IN  (CHOOSE n \in doomed : \A m \in doomed : m =< n) \in doomed
<1> DEFINE doomed == backupRuns[s].doomed
<1>1. doomed \subseteq 0..MaxObjects /\ doomed # {} /\ MaxObjects \in Nat
  BY BackupsAssumption DEF BackupsInv, BackupsTypeOK, RotationInv, Run
<1> HIDE DEF doomed
<1>2. IsFiniteSet(doomed) /\ doomed \in SUBSET Nat
  <2>1. IsFiniteSet(0..MaxObjects) /\ 0..MaxObjects \subseteq Nat
    BY <1>1, FS_Interval
  <2> QED BY <1>1, <2>1, FS_Subset
<1>3. \E n \in doomed : \A m \in doomed : m =< n
  BY <1>1, <1>2, GreatestExists
<1>4. (CHOOSE n \in doomed : \A m \in doomed : m =< n) \in doomed
  BY <1>3
<1> QED BY <1>4 DEF doomed

LEMMA DeleteStep ==
  ASSUME BackupsInv, NEW s \in Starters, DeleteOld(s)
  PROVE  BackupsInv'
<1> DEFINE doomed == backupRuns[s].doomed
           o == CHOOSE n \in doomed : \A m \in doomed : m =< n
           run == [backupRuns[s] EXCEPT !.doomed = doomed \ {o}]
<1>1. /\ backupRuns[s] \in Run /\ Holds(s) /\ At(s, "delete")
      /\ UNCHANGED <<backupKeep, backupRunning, backupDue, uploads, abandoned>>
  BY DEF BackupsInv, BackupsTypeOK, DeleteOld, At, Holds, Holding
<1>2. o \in doomed
  BY <1>1, DeletesDoomed
<1>3. bucket' \subseteq bucket
  BY DEF DeleteOld
<1>4. CASE Ends(s)
  BY <1>1, <1>3, <1>4, EndsStep, BucketBounds
<1>5. CASE doomed # {o} /\ GoesTo(s, run)
  <2> HIDE DEF o
  <2>1. /\ run \in Run /\ run.pc = "delete" /\ run.doomed = doomed \ {o}
        /\ run.key = backupRuns[s].key /\ run.keep = backupRuns[s].keep
    BY <1>1 DEF Run, At
  <2>2. doomed \ {o} # {}
    BY <1>2, <1>5
  <2>3. /\ backupRuns[s].key = uploads /\ backupRuns[s].keep > 0
        /\ \A n \in doomed : n # Foreign /\ uploads - n >= backupRuns[s].keep
    BY <1>1 DEF BackupsInv, RotationInv
  <2> HIDE DEF run
  <2> QED BY <1>1, <1>3, <1>5, <2>1, <2>2, <2>3, BucketBounds, RotatingRun DEF Holding
<1> QED BY <1>4, <1>5 DEF DeleteOld

\* The steps of a run that leave the bucket alone and take no lock.
LEMMA QuietSteps ==
  ASSUME BackupsInv, NEW s \in Starters,
         LoadState(s) \/ SaveBegun(s) \/ Build(s) \/ Release(s) \/ Record(s)
  PROVE  BackupsInv'
<1>1. backupRuns[s] \in Run /\ backupDue \in BOOLEAN /\ backupKeep \in Keeps
  BY DEF BackupsInv, BackupsTypeOK
<1>2. CASE LoadState(s)
  <2> DEFINE run == [RunAt("lock") EXCEPT !.due = backupDue]
  <2>1. run \in Run /\ run.pc = "lock"
    BY <1>1, RunType
  <2> HIDE DEF run
  <2>2. GoesTo(s, run) /\ ~Holds(s)
    BY <1>2 DEF LoadState, run, At, Holds, Holding
  <2> QED BY <1>1, <1>2, <2>1, <2>2, RunMoves DEF LoadState, Holding
<1>3. CASE SaveBegun(s)
  <2>1. RunAt("build") \in Run /\ RunAt("build").pc = "build" /\ Holds(s)
    BY <1>3, RunType DEF SaveBegun, At, Holds, Holding
  <2>2. backupDue' \in BOOLEAN
    BY <1>1, <1>3 DEF SaveBegun, Run
  <2> QED BY <1>3, <2>1, <2>2, RunMoves DEF SaveBegun, Holding
<1>4. CASE Build(s)
  <2>1. Holds(s)
    BY <1>4 DEF Build, At, Holds, Holding
  <2>2. CASE Ends(s)
    BY <1>4, <2>1, <2>2, EndsStep, BucketBounds DEF Build
  <2>3. CASE GoesTo(s, [RunAt("upload") EXCEPT !.keep = backupKeep])
    <3> DEFINE run == [RunAt("upload") EXCEPT !.keep = backupKeep]
    <3>1. run \in Run /\ run.pc = "upload"
      BY <1>1, RunType
    <3> HIDE DEF run
    <3>2. GoesTo(s, run)
      BY <2>3 DEF run
    <3> QED BY <1>1, <1>4, <2>1, <3>1, <3>2, RunMoves DEF Build, Holding
  <2> QED BY <1>4, <2>2, <2>3 DEF Build
<1>5. CASE Release(s)
  <2>1. RunAt("record") \in Run /\ RunAt("record").pc = "record" /\ Holds(s) /\ ~abandoned
    BY <1>5, RunType DEF Release, At, Holds, Holding, BackupsInv, LockInv
  <2>2. abandoned' = FALSE /\ backupRunning' = FALSE
    BY <1>5, <2>1 DEF Release, BackupsInv, BackupsTypeOK
  <2> QED BY <1>1, <1>5, <2>1, <2>2, RunMoves DEF Release, Holding
<1>6. CASE Record(s)
  <2>1. RunAt("none") \in Run /\ RunAt("none").pc = "none" /\ ~Holds(s)
    BY <1>6, RunType DEF Record, At, Holds, Holding
  <2> QED BY <1>6, <2>1, RunMoves DEF Record, Holding
<1> QED BY <1>2, <1>3, <1>4, <1>5, <1>6

LEMMA StartSteps ==
  ASSUME BackupsInv, Schedule \/ StartByHand
  PROVE  BackupsInv'
<1>1. PICK s \in Starters : /\ At(s, "none") /\ GoesTo(s, RunAt("load"))
                            /\ UNCHANGED <<backupKeep, backupRunning, backupDue, bucket, uploads, abandoned>>
  BY DEF Schedule, StartByHand, Starters
<1>2. RunAt("load") \in Run /\ RunAt("load").pc = "load" /\ ~Holds(s) /\ backupDue' \in BOOLEAN
  BY <1>1, RunType DEF At, Holds, Holding, BackupsInv, BackupsTypeOK
<1> QED BY <1>1, <1>2, RunMoves DEF Holding

LEMMA BreakStep ==
  ASSUME BackupsInv, ConnectionBreaks
  PROVE  BackupsInv'
<1>1. PICK s \in Admins : /\ backupRuns[s].pc \in Awaiting /\ GoesTo(s, RunAt("none"))
                          /\ abandoned' = TRUE
                          /\ UNCHANGED <<backupKeep, backupRunning, backupDue, bucket, uploads>>
  BY DEF ConnectionBreaks
<1>2. s \in Starters /\ Holds(s) /\ backupRunning /\ ~abandoned /\ backupDue' \in BOOLEAN
  BY <1>1 DEF Starters, Holds, Awaiting, Holding, BackupsInv, LockInv, BackupsTypeOK
<1>3. backupRunning' = abandoned'
  BY <1>1, <1>2 DEF BackupsInv, BackupsTypeOK
<1>4. RunAt("none") \in Run /\ RunAt("none").pc = "none"
  BY RunType
<1> QED BY <1>1, <1>2, <1>3, <1>4, RunMoves DEF Holding

\* What the runs do not see: deletions by administrators, the configuration and
\* the clock.
LEMMA WorldSteps ==
  ASSUME BackupsInv, DeleteBackup \/ ChangeKeep \/ IntervalPasses \/ UNCHANGED backupsVars
  PROVE  BackupsInv'
<1>1. /\ bucket' \subseteq bucket /\ backupKeep' \in Keeps /\ backupDue' \in BOOLEAN
      /\ UNCHANGED <<backupRunning, backupRuns, uploads, abandoned>>
  BY DEF DeleteBackup, ChangeKeep, IntervalPasses, backupsVars, BackupsInv, BackupsTypeOK
<1>2. BackupsTypeOK'
  BY <1>1 DEF BackupsInv, BackupsTypeOK
<1>3. LockInv'
  BY <1>1 DEF BackupsInv, LockInv, Holds
<1>4. RotationInv'
  BY <1>1 DEF BackupsInv, RotationInv, At
<1> QED BY <1>2, <1>3, <1>4 DEF BackupsInv

LEMMA BackupsRestartStep ==
  ASSUME BackupsInv, BackupsRestart
  PROVE  BackupsInv'
<1>1. RunAt("none") \in Run /\ RunAt("none").pc = "none"
  BY RunType
<1>2. BackupsTypeOK'
  BY <1>1 DEF BackupsRestart, BackupsInv, BackupsTypeOK
<1>3. LockInv' /\ RotationInv'
  BY <1>1 DEF BackupsRestart, BackupsInv, LockInv, RotationInv, Holds, Holding, At
<1> QED BY <1>2, <1>3 DEF BackupsInv

LEMMA BackupsInvNext == BackupsInv /\ [BackupsNext]_backupsVars => BackupsInv'
  BY TakeLockStep, UploadStep, ListStep, DeleteStep, QuietSteps, StartSteps, BreakStep, WorldSteps,
     BackupsRestartStep DEF BackupsNext, RunStep

LEMMA BackupsInvHolds == BackupsSpec => []BackupsInv
  BY BackupsInvInit, BackupsInvNext, PTL DEF BackupsSpec

\* What the invariant says of the flag.
LEMMA BackupLockFollows == BackupsInv => BackupLockAccounted
<1> SUFFICES ASSUME BackupsInv PROVE BackupLockAccounted
  BY DEF BackupsInv
<1> DEFINE holders == {s \in Starters : backupRuns[s].pc \in Holding}
<1>1. \A s, t \in holders : s = t
  BY DEF BackupsInv, LockInv, Holds
<1>2. CASE holders = {}
  <2>1. Cardinality(holders) = 0 /\ (abandoned <=> backupRunning)
    BY <1>2, FS_EmptySet DEF BackupsInv, LockInv, Holds
  <2> QED BY <2>1 DEF BackupLockAccounted
<1>3. CASE holders # {}
  <2>1. PICK s \in holders : holders = {s}
    BY <1>1, <1>3
  <2>2. Cardinality(holders) = 1
    BY <2>1, FS_Singleton
  <2>3. backupRunning /\ ~abandoned
    BY <2>1 DEF BackupsInv, LockInv, Holds
  <2> QED BY <2>2, <2>3 DEF BackupLockAccounted
<1> QED BY <1>2, <1>3

\* The running flag is up exactly while one backup is at work, or one was
\* abandoned: for every number of administrators and every value of rotation_keep.
THEOREM BackupLockHolds == BackupsSpec => [](BackupsTypeOK /\ BackupLockAccounted)
<1>1. BackupsInv => BackupsTypeOK
  BY DEF BackupsInv
<1> QED BY <1>1, BackupLockFollows, BackupsInvHolds, PTL

\* A rotation deletes only backups that at least rotation_keep later ones were
\* uploaded after; never another object, nor what its own run uploaded.
THEOREM RotationSparesHolds == BackupsSpec => RotationSpares
<1> DEFINE Spares ==
      \A s \in Starters :
        At(s, "delete") /\ bucket' # bucket /\ backupRuns'[s] # backupRuns[s]
          => \A o \in bucket \ bucket' :
               o # Foreign /\ o < backupRuns[s].key /\ uploads - o >= backupRuns[s].keep
<1>1. ASSUME BackupsInv, [BackupsNext]_backupsVars PROVE Spares \/ UNCHANGED backupsVars
  <2> SUFFICES ASSUME BackupsNext,
                      NEW s \in Starters, At(s, "delete"), bucket' # bucket,
                      backupRuns'[s] # backupRuns[s], NEW o \in bucket \ bucket'
               PROVE  o # Foreign /\ o < backupRuns[s].key /\ uploads - o >= backupRuns[s].keep
    BY <1>1
  <2>1. \A t \in Starters : RunStep(t) => t = s
    <3> SUFFICES ASSUME NEW t \in Starters, RunStep(t), t # s PROVE FALSE
      OBVIOUS
    <3>1. backupRuns'[s] = backupRuns[s]
      BY <1>1 DEF RunStep, LoadState, TakeLock, SaveBegun, Build, Upload, ListBackups, DeleteOld,
                  Release, Record, GoesTo, Ends, BackupsInv, BackupsTypeOK
    <3> QED BY <3>1
  <2>2. DeleteOld(s)
    <3>1. PICK t \in Starters : Upload(t) \/ DeleteOld(t)
      BY DEF BackupsNext, RunStep, Schedule, StartByHand, LoadState, TakeLock, SaveBegun, Build,
             ListBackups, Release, Record, ConnectionBreaks, DeleteBackup, ChangeKeep,
             IntervalPasses, BackupsRestart
    <3>2. t = s
      BY <2>1, <3>1 DEF RunStep
    <3> QED BY <3>1, <3>2 DEF Upload, At
  <2>3. o \in backupRuns[s].doomed
    BY <2>2, DeletesDoomed, <1>1 DEF DeleteOld
  <2>4. o # Foreign /\ uploads - o >= backupRuns[s].keep
    BY <1>1, <2>3 DEF BackupsInv, RotationInv
  <2>5. backupRuns[s].key = uploads /\ backupRuns[s].keep > 0
    BY <1>1 DEF BackupsInv, RotationInv
  <2>6. o \in Nat /\ uploads \in Nat /\ backupRuns[s].keep \in Nat
    BY <1>1, BucketBounds, RunType DEF BackupsInv, BackupsTypeOK
  <2> QED BY <2>4, <2>5, <2>6
<1>2. BackupsSpec => [][Spares]_backupsVars
  BY <1>1, BackupsInvHolds, PTL DEF BackupsSpec
<1> QED BY <1>2 DEF RotationSpares

---------------------------------------------------------------------------
(* Auth keys. *)

\* A list of keys in order: no two have one secret, none has the administrator's,
\* and none that is enabled has a secret out of use.
Orderly(items) ==
  /\ items \in Items
  /\ \A k \in DOMAIN items : items[k].secret \in secretsUsed \ {AdminSecret}
  /\ \A j, k \in DOMAIN items : items[j].secret = items[k].secret => j = k
  /\ \A k \in DOMAIN items : items[k].enabled => items[k].secret \notin revoked

\* Once the copy in memory can be stored by an authentication, it has every
\* stored key that is not to go.
CopyInv ==
  (\E k \in DOMAIN keyItems : keyItems[k].secret \in handedOut)
    => DOMAIN keyStore \subseteq DOMAIN keyItems \cup dropAsked

KeysInv ==
  /\ KeysTypeOK /\ Orderly(keyItems) /\ Orderly(keyStore) /\ CopyInv
  /\ revoked \subseteq secretsUsed \ {AdminSecret} /\ handedOut \subseteq secretsUsed \cup {AdminSecret}

LEMMA ItemsDef ==
  \A items : items \in Items <=> items \in [DOMAIN items -> KeyItem] /\ DOMAIN items \subseteq KeyIds
  BY DEF Items

LEMMA NoItemsType == NoItems \in Items /\ DOMAIN NoItems = {}
  BY ItemsDef DEF NoItems

LEMMA WithType ==
  ASSUME NEW items \in Items, NEW k \in KeyIds, NEW item \in KeyItem
  PROVE  /\ With(items, k, item) \in Items
         /\ DOMAIN With(items, k, item) = DOMAIN items \cup {k}
         /\ With(items, k, item)[k] = item
         /\ \A j \in DOMAIN items \ {k} : With(items, k, item)[j] = items[j]
<1> DEFINE with == With(items, k, item)
<1>1. /\ DOMAIN with = DOMAIN items \cup {k} /\ with[k] = item
      /\ \A j \in DOMAIN items \ {k} : with[j] = items[j]
      /\ with = [j \in DOMAIN with |-> with[j]]
  BY DEF With
<1> HIDE DEF with
<1>2. DOMAIN with \subseteq KeyIds /\ \A j \in DOMAIN with : with[j] \in KeyItem
  BY <1>1, ItemsDef
<1>3. with \in Items
  BY <1>1, <1>2, ItemsDef
<1> QED BY <1>1, <1>3 DEF with

LEMMA WithoutType ==
  ASSUME NEW items \in Items, NEW k
  PROVE  /\ Without(items, k) \in Items
         /\ DOMAIN Without(items, k) = DOMAIN items \ {k}
         /\ \A j \in DOMAIN items \ {k} : Without(items, k)[j] = items[j]
<1> DEFINE without == Without(items, k)
<1>1. /\ DOMAIN without = DOMAIN items \ {k}
      /\ \A j \in DOMAIN items \ {k} : without[j] = items[j]
      /\ without = [j \in DOMAIN without |-> without[j]]
  BY DEF Without
<1> HIDE DEF without
<1>2. DOMAIN without \subseteq KeyIds /\ \A j \in DOMAIN without : without[j] \in KeyItem
  BY <1>1, ItemsDef
<1>3. without \in Items
  BY <1>1, <1>2, ItemsDef
<1> QED BY <1>1, <1>3 DEF without

\* What was loaded is in order, as is what a save leaves stored.
LEMMA LoadedOrderly ==
  ASSUME KeysInv, NEW loads \in BOOLEAN
  PROVE  /\ Orderly(Loaded(loads)) /\ Loaded(loads) \in Items
         /\ Loaded(loads) = keyStore \/ DOMAIN Loaded(loads) = {}
         /\ loads => Loaded(loads) = keyStore
  BY NoItemsType DEF KeysInv, Orderly, Loaded

LEMMA KeysInvInit == KeysInit => KeysInv
<1> SUFFICES ASSUME KeysInit PROVE KeysInv
  OBVIOUS
<1>1. PICK first \in {{}} \cup {{k} : k \in KeyIds}, s \in Secrets \ {AdminSecret} :
        /\ keyStore = [k \in first |-> [name |-> DefaultName, role |-> "admin", secret |-> s,
                                        enabled |-> TRUE]]
        /\ keyIdsUsed = first
        /\ secretsUsed = (IF first = {} THEN {} ELSE {s})
  BY DEF KeysInit
<1>2. first \subseteq KeyIds /\ \A j, k \in first : j = k
  OBVIOUS
<1>3. [name |-> DefaultName, role |-> "admin", secret |-> s, enabled |-> TRUE] \in KeyItem
  BY KeysAssumption DEF KeyItem, Roles
<1>4. /\ keyStore \in Items /\ DOMAIN keyStore = first
      /\ \A k \in first : keyStore[k].secret = s
  BY <1>1, <1>2, <1>3, ItemsDef
<1>5. /\ keyItems = keyStore /\ handedOut = secretsUsed /\ secretsUsed \subseteq {s}
      /\ first # {} => s \in secretsUsed
      /\ flushed = {} /\ revoked = {} /\ dropAsked = {} /\ blind = FALSE
  BY <1>1 DEF KeysInit
<1>6. KeysTypeOK
  BY <1>1, <1>2, <1>4, <1>5 DEF KeysTypeOK
<1>7. Orderly(keyStore)
  BY <1>2, <1>4, <1>5 DEF Orderly
<1>8. CopyInv
  BY <1>5 DEF CopyInv
<1> QED BY <1>5, <1>6, <1>7, <1>8 DEF KeysInv

\* The steps that change no history variable.
LEMMA PlainSteps ==
  ASSUME KeysInv, ListKeys \/ Authenticate \/ MinutePasses \/ KeysRestart \/ UNCHANGED keysVars
  PROVE  KeysInv'
<1> USE DEF keysHistory
<1>1. /\ UNCHANGED keysHistory /\ flushed' \subseteq KeyIds /\ blind' \in BOOLEAN
      /\ keyItems' \in {keyItems, keyStore, NoItems} /\ keyStore' \in {keyItems, keyStore, NoItems}
      /\ \/ DOMAIN keyItems' = {}
         \/ keyItems' = keyStore /\ keyStore' = keyStore
         \/ keyItems' = keyItems /\ DOMAIN keyStore' \subseteq DOMAIN keyStore
         \/ keyItems' = keyItems /\ keyStore' = keyItems
  <2>1. /\ KeysTypeOK /\ DOMAIN NoItems = {} /\ DOMAIN keyItems \subseteq KeyIds
    BY NoItemsType, ItemsDef DEF KeysInv, KeysTypeOK
  <2>2. CASE ListKeys
    BY <2>1, <2>2 DEF ListKeys, Loaded, KeysTypeOK
  <2>3. CASE Authenticate
    BY <2>1, <2>3 DEF Authenticate, Saved, Outcomes, KeysTypeOK
  <2>4. CASE MinutePasses
    BY <2>1, <2>4 DEF MinutePasses, KeysTypeOK
  <2>5. CASE KeysRestart
    BY <2>1, <2>5 DEF KeysRestart, Loaded, KeysTypeOK
  <2>6. CASE UNCHANGED keysVars
    BY <2>1, <2>6 DEF keysVars, KeysTypeOK
  <2> QED BY <2>2, <2>3, <2>4, <2>5, <2>6
<1>2. Orderly(NoItems)
  BY NoItemsType DEF Orderly
<1>3. Orderly(keyItems') /\ Orderly(keyStore')
  BY <1>1, <1>2 DEF KeysInv
<1>4. Orderly(keyItems)' /\ Orderly(keyStore)'
  BY <1>1, <1>3 DEF Orderly
<1>5. KeysTypeOK'
  BY <1>1, <1>3 DEF Orderly, KeysInv, KeysTypeOK
<1>6. CopyInv'
  BY <1>1 DEF KeysInv, CopyInv
<1> QED BY <1>1, <1>4, <1>5, <1>6 DEF KeysInv

\* What a save does to the stored keys.
LEMMA SaveResult ==
  ASSUME NEW items, NEW outcome \in Outcomes, Saved(items, outcome)
  PROVE  /\ keyStore' \in {items, keyStore, NoItems}
         /\ outcome = "saved" => keyStore' = items
         /\ outcome = "failed" => keyStore' = keyStore
         /\ outcome = "torn" => keyStore' = NoItems
  BY DEF Saved, Outcomes

\* A new list, orderly for the new history, is stored or not: what stays stored
\* is orderly when nothing stored is out of use that was not.
LEMMA StoreItems ==
  ASSUME KeysInv, NEW items, NEW outcome \in Outcomes, keyItems' = items, Saved(items, outcome),
         Orderly(keyItems)',
         secretsUsed \subseteq secretsUsed',
         outcome # "saved" => revoked' \subseteq revoked
  PROVE  Orderly(keyStore)'
<1>1. CASE keyStore' = items
  BY <1>1 DEF Orderly
<1>2. CASE outcome = "failed"
  BY <1>2, SaveResult DEF KeysInv, Orderly
<1>3. CASE keyStore' = NoItems
  BY <1>3, NoItemsType DEF Orderly
<1> QED BY <1>1, <1>2, <1>3, SaveResult DEF Outcomes

\* An operation that is refused has replaced the copy in memory all the same.
LEMMA RefusedStep ==
  ASSUME KeysInv, NEW loads \in BOOLEAN, keyItems' = Loaded(loads), blind' = ~loads,
         dropAsked \subseteq dropAsked', dropAsked' \subseteq KeyIds,
         UNCHANGED <<keyStore, flushed, keyIdsUsed, secretsUsed, handedOut, revoked>>
  PROVE  KeysInv'
<1>1. /\ Orderly(Loaded(loads)) /\ Loaded(loads) \in Items
      /\ Loaded(loads) = keyStore \/ DOMAIN Loaded(loads) = {}
  BY LoadedOrderly
<1>2. KeysTypeOK'
  BY <1>1 DEF KeysInv, KeysTypeOK
<1>3. Orderly(keyItems)' /\ Orderly(keyStore)'
  BY <1>1 DEF KeysInv, Orderly
<1>4. CopyInv'
  BY <1>1 DEF CopyInv
<1> QED BY <1>2, <1>3, <1>4 DEF KeysInv

LEMMA CreateStep ==
  ASSUME KeysInv, CreateKey
  PROVE  KeysInv'
<1>1. PICK loads \in BOOLEAN, outcome \in Outcomes, name \in Names :
        LET before == Loaded(loads)
        IN \/ /\ keyItems' = before
              /\ blind' = ~loads
              /\ UNCHANGED <<keyStore, flushed, keysHistory>>
           \/ /\ \E k \in KeyIds \ keyIdsUsed : \E s \in Secrets \ (secretsUsed \cup {AdminSecret}) :
                   /\ keyItems' = With(before, k, [name |-> name, role |-> "user", secret |-> s,
                                                  enabled |-> TRUE])
                   /\ keyIdsUsed' = keyIdsUsed \cup {k}
                   /\ secretsUsed' = secretsUsed \cup {s}
                   /\ handedOut' = (IF outcome = "saved" THEN handedOut \cup {s} ELSE handedOut)
              /\ Saved(keyItems', outcome)
              /\ blind' = (~loads \/ outcome = "torn")
              /\ UNCHANGED <<flushed, revoked, dropAsked>>
  BY DEF CreateKey
<1> DEFINE before == Loaded(loads)
<1>2. CASE keyItems' = before /\ blind' = ~loads /\ UNCHANGED <<keyStore, flushed, keysHistory>>
  <2>1. dropAsked \subseteq KeyIds
    BY DEF KeysInv, KeysTypeOK
  <2> QED BY <1>2, <2>1, RefusedStep DEF keysHistory
<1>3. ASSUME NEW k \in KeyIds \ keyIdsUsed, NEW s \in Secrets \ (secretsUsed \cup {AdminSecret}),
             keyItems' = With(before, k, [name |-> name, role |-> "user", secret |-> s,
                                          enabled |-> TRUE]),
             keyIdsUsed' = keyIdsUsed \cup {k},
             secretsUsed' = secretsUsed \cup {s},
             handedOut' = (IF outcome = "saved" THEN handedOut \cup {s} ELSE handedOut),
             Saved(keyItems', outcome),
             blind' = (~loads \/ outcome = "torn"),
             UNCHANGED <<flushed, revoked, dropAsked>>
      PROVE  KeysInv'
  <2> DEFINE item == [name |-> name, role |-> "user", secret |-> s, enabled |-> TRUE]
  <2>1. item \in KeyItem /\ item.secret = s
    BY DEF KeyItem, Roles
  <2> HIDE DEF item
  <2>2. /\ Orderly(before) /\ before \in Items
        /\ before = keyStore \/ DOMAIN before = {}
    BY LoadedOrderly
  <2>3. keyItems' = With(before, k, item)
    BY <1>3 DEF item
  <2>4. /\ keyItems' \in Items /\ DOMAIN keyItems' = DOMAIN before \cup {k} /\ keyItems'[k] = item
        /\ \A j \in DOMAIN before \ {k} : keyItems'[j] = before[j]
    <3>1. /\ With(before, k, item) \in Items
          /\ DOMAIN With(before, k, item) = DOMAIN before \cup {k}
          /\ With(before, k, item)[k] = item
          /\ \A j \in DOMAIN before \ {k} : With(before, k, item)[j] = before[j]
      BY <2>1, <2>2, WithType
    <3> QED BY <2>3, <3>1
  <2> HIDE DEF before
  <2>5. Orderly(keyItems)'
    <3>1. \A j \in DOMAIN before : before[j].secret \in secretsUsed /\ before[j].secret # s
      BY <1>3, <2>2 DEF Orderly
    <3>2. s \notin revoked
      BY <1>3 DEF KeysInv
    <3>3. \A j \in DOMAIN keyItems' : keyItems'[j].secret \in secretsUsed' \ {AdminSecret}
      BY <1>3, <2>1, <2>2, <2>4 DEF Orderly
    <3>4. \A i, j \in DOMAIN keyItems' : keyItems'[i].secret = keyItems'[j].secret => i = j
      BY <2>1, <2>2, <2>4, <3>1 DEF Orderly
    <3>5. \A j \in DOMAIN keyItems' : keyItems'[j].enabled => keyItems'[j].secret \notin revoked'
      BY <1>3, <2>1, <2>2, <2>4, <3>2 DEF Orderly
    <3> QED BY <2>4, <3>3, <3>4, <3>5 DEF Orderly
  <2>6. Orderly(keyStore)'
    BY <1>3, <2>5, StoreItems
  <2>7. KeysTypeOK'
    BY <1>3, <2>5, <2>6 DEF KeysInv, KeysTypeOK, Orderly
  <2>8. CopyInv'
    <3>1. CASE before = keyStore /\ before # NoItems
      BY <1>3, <2>4, <3>1, SaveResult, NoItemsType DEF CopyInv
    <3>2. CASE outcome \in {"saved", "torn"}
      BY <1>3, <2>4, <3>2, SaveResult, NoItemsType DEF CopyInv
    <3>3. CASE DOMAIN before = {} /\ outcome = "failed"
      <4>1. keyItems'[k].secret \notin handedOut' /\ DOMAIN keyItems' = {k}
        BY <1>3, <2>1, <2>4, <3>3 DEF KeysInv
      <4> QED BY <4>1 DEF CopyInv
    <3> QED BY <2>2, <3>1, <3>2, <3>3, NoItemsType DEF Outcomes
  <2> QED BY <1>3, <2>5, <2>6, <2>7, <2>8 DEF KeysInv
<1> QED BY <1>1, <1>2, <1>3

LEMMA UpdateStep ==
  ASSUME KeysInv, UpdateKey
  PROVE  KeysInv'
<1>1. PICK loads \in BOOLEAN, outcome \in Outcomes, k \in KeyIds,
           name \in Names, enabled \in BOOLEAN, s \in Secrets :
        LET before == Loaded(loads)
            found == k \in DOMAIN before /\ before[k].role = "user"
            accepted == found /\ NameFree(before, name, k) /\ SecretFree(before, s, k)
            item == [name |-> name, role |-> "user", secret |-> s, enabled |-> enabled]
            out == (IF enabled THEN {} ELSE {s}) \cup ({before[k].secret} \ {s})
        IN /\ UNCHANGED <<flushed, keyIdsUsed, dropAsked>>
           /\ \/ /\ keyItems' = before
                 /\ blind' = ~loads
                 /\ UNCHANGED <<keyStore, secretsUsed, handedOut, revoked>>
              \/ /\ accepted
                 /\ keyItems' = With(before, k, item)
                 /\ Saved(keyItems', outcome)
                 /\ blind' = (~loads \/ outcome = "torn")
                 /\ secretsUsed' = secretsUsed \cup {s}
                 /\ handedOut' = handedOut \cup {s}
                 /\ revoked' = (revoked \ (IF enabled THEN {s} ELSE {}))
                                 \cup (IF outcome = "saved" THEN out ELSE {})
  BY DEF UpdateKey
<1> DEFINE before == Loaded(loads)
           item == [name |-> name, role |-> "user", secret |-> s, enabled |-> enabled]
           out == (IF enabled THEN {} ELSE {s}) \cup ({before[k].secret} \ {s})
<1>2. CASE keyItems' = before /\ blind' = ~loads /\ UNCHANGED <<keyStore, secretsUsed, handedOut, revoked>>
  <2>1. dropAsked \subseteq KeyIds
    BY DEF KeysInv, KeysTypeOK
  <2> QED BY <1>1, <1>2, <2>1, RefusedStep
<1>3. CASE /\ k \in DOMAIN before /\ SecretFree(before, s, k)
           /\ keyItems' = With(before, k, item)
           /\ Saved(keyItems', outcome)
           /\ blind' = (~loads \/ outcome = "torn")
           /\ secretsUsed' = secretsUsed \cup {s}
           /\ handedOut' = handedOut \cup {s}
           /\ revoked' = (revoked \ (IF enabled THEN {s} ELSE {}))
                           \cup (IF outcome = "saved" THEN out ELSE {})
  <2>1. item \in KeyItem /\ item.secret = s /\ item.enabled = enabled
    BY DEF KeyItem, Roles
  <2> HIDE DEF item
  <2>2. /\ Orderly(before) /\ before \in Items /\ before = keyStore
        /\ before[k].secret \in secretsUsed \ {AdminSecret}
    BY <1>3, LoadedOrderly DEF Orderly
  <2> HIDE DEF before
  <2>a. keyItems' = With(before, k, item) /\ k \in DOMAIN before
    BY <1>3
  <2>3. /\ keyItems' \in Items /\ DOMAIN keyItems' = DOMAIN before /\ keyItems'[k] = item
        /\ \A j \in DOMAIN before \ {k} : keyItems'[j] = before[j]
    <3>1. before \in Items /\ item \in KeyItem /\ k \in KeyIds
      BY <2>1, <2>2
    <3>2. /\ With(before, k, item) \in Items
          /\ DOMAIN With(before, k, item) = DOMAIN before \cup {k}
          /\ With(before, k, item)[k] = item
          /\ \A j \in DOMAIN before \ {k} : With(before, k, item)[j] = before[j]
      BY <3>1, WithType
    <3>3. DOMAIN before \cup {k} = DOMAIN before
      BY <2>a
    <3> QED BY <2>a, <3>2, <3>3
  <2>4. s # AdminSecret /\ \A j \in DOMAIN before \ {k} : before[j].secret # s
    BY <1>3 DEF SecretFree
  <2>5. Orderly(keyItems)'
    <3>1. \A j \in DOMAIN keyItems' : keyItems'[j].secret \in secretsUsed' \ {AdminSecret}
      BY <1>3, <2>1, <2>2, <2>3, <2>4 DEF Orderly
    <3>2. \A i, j \in DOMAIN keyItems' : keyItems'[i].secret = keyItems'[j].secret => i = j
      BY <2>1, <2>2, <2>3, <2>4 DEF Orderly
    <3>3. \A j \in DOMAIN before \ {k} : keyItems'[j].enabled => keyItems'[j].secret \notin revoked'
      BY <1>3, <2>2, <2>3, <2>4 DEF Orderly
    <3>4. enabled => s \notin revoked'
      BY <1>3
    <3> QED BY <2>1, <2>3, <3>1, <3>2, <3>3, <3>4 DEF Orderly
  <2>6. Orderly(keyStore)'
    <3>1. outcome # "saved" => revoked' \subseteq revoked
      BY <1>3
    <3> QED BY <1>3, <2>5, <3>1, StoreItems
  <2>7. revoked' \subseteq secretsUsed' \ {AdminSecret}
    BY <1>3, <2>2, <2>4 DEF KeysInv
  <2>8. KeysTypeOK'
    <3>1. secretsUsed' \subseteq Secrets /\ handedOut' \subseteq Secrets /\ blind' \in BOOLEAN
      BY <1>3 DEF KeysInv, KeysTypeOK
    <3> QED BY <1>1, <2>5, <2>6, <2>7, <3>1 DEF KeysInv, KeysTypeOK, Orderly
  <2>9. CopyInv'
    BY <1>3, <2>2, <2>3, SaveResult, NoItemsType DEF CopyInv
  <2> QED BY <1>3, <2>5, <2>6, <2>7, <2>8, <2>9 DEF KeysInv
<1> QED BY <1>1, <1>2, <1>3

LEMMA DeleteKeyStep ==
  ASSUME KeysInv, DeleteKey
  PROVE  KeysInv'
<1>1. PICK loads \in BOOLEAN, outcome \in Outcomes, k \in KeyIds :
        LET before == Loaded(loads)
        IN /\ dropAsked' = dropAsked \cup {k}
           /\ UNCHANGED <<flushed, keyIdsUsed, secretsUsed, handedOut>>
           /\ \/ /\ keyItems' = before
                 /\ blind' = ~loads
                 /\ UNCHANGED <<keyStore, revoked>>
              \/ /\ k \in DOMAIN before
                 /\ keyItems' = Without(before, k)
                 /\ Saved(keyItems', outcome)
                 /\ blind' = (~loads \/ outcome = "torn")
                 /\ revoked' = (IF outcome = "saved" THEN revoked \cup {before[k].secret} ELSE revoked)
  BY DEF DeleteKey
<1> DEFINE before == Loaded(loads)
<1>2. dropAsked' \subseteq KeyIds
  BY <1>1 DEF KeysInv, KeysTypeOK
<1>3. CASE keyItems' = before /\ blind' = ~loads /\ UNCHANGED <<keyStore, revoked>>
  BY <1>1, <1>2, <1>3, RefusedStep
<1>4. CASE /\ k \in DOMAIN before
           /\ keyItems' = Without(before, k)
           /\ Saved(keyItems', outcome)
           /\ blind' = (~loads \/ outcome = "torn")
           /\ revoked' = (IF outcome = "saved" THEN revoked \cup {before[k].secret} ELSE revoked)
  <2>1. /\ Orderly(before) /\ before \in Items /\ before = keyStore
        /\ before[k].secret \in secretsUsed \ {AdminSecret}
    BY <1>4, LoadedOrderly DEF Orderly
  <2> HIDE DEF before
  <2>2. /\ keyItems' \in Items /\ DOMAIN keyItems' = DOMAIN before \ {k}
        /\ \A j \in DOMAIN before \ {k} : keyItems'[j] = before[j]
    <3>1. /\ Without(before, k) \in Items
          /\ DOMAIN Without(before, k) = DOMAIN before \ {k}
          /\ \A j \in DOMAIN before \ {k} : Without(before, k)[j] = before[j]
      BY <2>1, WithoutType
    <3> QED BY <1>4, <3>1
  <2>3. Orderly(keyItems)'
    BY <1>1, <1>4, <2>1, <2>2 DEF Orderly
  <2>4. Orderly(keyStore)'
    BY <1>1, <1>4, <2>3, StoreItems
  <2>5. revoked' \subseteq secretsUsed' \ {AdminSecret}
    BY <1>1, <1>4, <2>1 DEF KeysInv
  <2>6. KeysTypeOK'
    BY <1>1, <1>2, <1>4, <2>3, <2>4, <2>5 DEF KeysInv, KeysTypeOK, Orderly
  <2>7. CopyInv'
    BY <1>1, <1>4, <2>1, <2>2, SaveResult, NoItemsType DEF CopyInv
  <2> QED BY <1>1, <2>3, <2>4, <2>5, <2>6, <2>7 DEF KeysInv
<1> QED BY <1>1, <1>3, <1>4

LEMMA KeysInvNext == KeysInv /\ [KeysNext]_keysVars => KeysInv'
  BY PlainSteps, CreateStep, UpdateStep, DeleteKeyStep DEF KeysNext

LEMMA KeysInvHolds == KeysSpec => []KeysInv
  BY KeysInvInit, KeysInvNext, PTL DEF KeysSpec

\* Whatever loads and saves fail, a secret whose key was reported deleted,
\* disabled or replaced opens nothing until an administrator asks for it again:
\* for any number of keys and secrets.
THEOREM RevokedKeysHold == KeysSpec => [](KeysTypeOK /\ RevokedKeysFail)
<1>1. KeysInv => KeysTypeOK /\ RevokedKeysFail
  BY DEF KeysInv, Orderly, RevokedKeysFail, Accepts
<1> QED BY <1>1, KeysInvHolds, PTL

\* A stored key disappears only when its deletion was asked for, or when a load
\* or a save came to nothing.
THEOREM StoreLosesNoKeyHolds == KeysSpec => StoreLosesNoKey
<1> DEFINE Kept == DOMAIN keyStore \subseteq DOMAIN keyStore' \cup dropAsked' \/ blind'
<1>1. ASSUME KeysInv, [KeysNext]_keysVars PROVE Kept
  <2> SUFFICES ASSUME ~blind' PROVE DOMAIN keyStore \subseteq DOMAIN keyStore' \cup dropAsked'
    OBVIOUS
  <2>1. CASE UNCHANGED keyStore
    BY <2>1
  <2>2. CASE CreateKey
    <3>1. CASE UNCHANGED keyStore
      BY <3>1
    <3>2. ASSUME NEW k \in KeyIds, NEW item, NEW outcome \in Outcomes,
                 keyItems' = With(keyStore, k, item), Saved(keyItems', outcome), outcome # "torn"
          PROVE  DOMAIN keyStore \subseteq DOMAIN keyStore'
      BY <3>2, SaveResult DEF With, Outcomes
    <3> QED BY <2>2, <3>1, <3>2, LoadedOrderly, <1>1 DEF CreateKey
  <2>3. CASE UpdateKey
    <3>1. ASSUME NEW k \in KeyIds, NEW item, NEW outcome \in Outcomes,
                 keyItems' = With(keyStore, k, item), Saved(keyItems', outcome), outcome # "torn"
          PROVE  DOMAIN keyStore \subseteq DOMAIN keyStore'
      BY <3>1, SaveResult DEF With, Outcomes
    <3>2. PICK loads \in BOOLEAN, outcome \in Outcomes, k \in KeyIds :
            \/ UNCHANGED keyStore
            \/ /\ \E item : keyItems' = With(Loaded(loads), k, item)
               /\ Saved(keyItems', outcome)
               /\ blind' = (~loads \/ outcome = "torn")
      BY <2>3 DEF UpdateKey
    <3>3. CASE UNCHANGED keyStore
      BY <3>3
    <3>4. CASE /\ \E item : keyItems' = With(Loaded(loads), k, item)
               /\ Saved(keyItems', outcome)
               /\ blind' = (~loads \/ outcome = "torn")
      BY <3>1, <3>4, LoadedOrderly, <1>1
    <3> QED BY <3>2, <3>3, <3>4
  <2>4. CASE DeleteKey
    <3>1. ASSUME NEW k \in KeyIds, NEW outcome \in Outcomes, dropAsked' = dropAsked \cup {k},
                 keyItems' = Without(keyStore, k), Saved(keyItems', outcome), outcome # "torn"
          PROVE  DOMAIN keyStore \subseteq DOMAIN keyStore' \cup dropAsked'
      BY <3>1, SaveResult DEF Without, Outcomes
    <3> QED BY <2>1, <2>4, <3>1, LoadedOrderly, <1>1 DEF DeleteKey
  <2>5. CASE Authenticate
    <3>1. PICK k \in DOMAIN keyItems, outcome \in Outcomes :
            /\ keyItems[k].secret \in handedOut /\ Saved(keyItems, outcome)
            /\ outcome # "torn" /\ UNCHANGED dropAsked
      BY <2>5 DEF Authenticate, keysHistory
    <3>2. DOMAIN keyStore \subseteq DOMAIN keyItems \cup dropAsked
      BY <3>1, <1>1 DEF KeysInv, CopyInv
    <3> QED BY <3>1, <3>2, SaveResult DEF Outcomes
  <2> QED BY <1>1, <2>1, <2>2, <2>3, <2>4, <2>5
          DEF KeysNext, ListKeys, MinutePasses, KeysRestart, keysVars
<1>2. KeysSpec => [][Kept]_keysVars
  BY <1>1, KeysInvHolds, PTL DEF KeysSpec
<1> QED BY <1>2 DEF StoreLosesNoKey

---------------------------------------------------------------------------
(* Manual logins. *)

\* A call that got tokens used up the code of the session it picked.
SessionsInv ==
  /\ SessionsTypeOK
  /\ \A c \in FinishCalls : finishes[c].pc = "granted" => codes[finishes[c].picked] = "used"

\* Any part of the sessions is finite.
LEMMA SessionsFinite ==
  ASSUME SessionsInv, NEW S \in SUBSET sessions
  PROVE  IsFiniteSet(S) /\ Cardinality(S) \in Nat /\ S \in SUBSET Nat
<1>1. MaxStarts \in Nat /\ SessionIds = 1..MaxStarts /\ S \subseteq SessionIds
  BY SessionsAssumption DEF SessionsInv, SessionsTypeOK, SessionIds
<1>2. IsFiniteSet(SessionIds) /\ SessionIds \subseteq Nat
  BY <1>1, FS_Interval
<1> QED BY <1>1, <1>2, FS_Subset, FS_CardinalityType

\* A purge leaves as many sessions as the limit allows: all others that are left
\* are newer than the oldest one.
LEMMA PurgedLimit ==
  ASSUME SessionsInv
  PROVE  Purged \subseteq sessions /\ Cardinality(Purged) =< MaxSessions
<1>1. Purged \subseteq Live /\ Live \subseteq sessions
  BY DEF Purged, Live
<1>2. IsFiniteSet(Purged) /\ Purged \in SUBSET Nat /\ MaxSessions \in Nat \ {0}
  BY <1>1, SessionsFinite, SessionsAssumption
<1>3. CASE Purged = {}
  BY <1>1, <1>2, <1>3, FS_EmptySet
<1>4. CASE Purged # {}
  <2>1. PICK x \in Purged : \A y \in Purged : x =< y
    BY <1>2, <1>4, LeastExists
  <2> DEFINE newer == {n \in Live : n > x}
  <2>2. Cardinality(newer) < MaxSessions /\ IsFiniteSet(newer) /\ Cardinality(newer) \in Nat
    <3>1. newer \in SUBSET sessions
      BY <1>1
    <3>2. Cardinality(newer) < MaxSessions
      BY <2>1 DEF Purged
    <3> QED BY <3>1, <3>2, SessionsFinite
  <2>3. Purged \ {x} \in SUBSET newer
    BY <1>1, <1>2, <2>1
  <2>4. Cardinality(Purged \ {x}) =< Cardinality(newer) /\ Cardinality(Purged \ {x}) \in Nat
    <3> HIDE DEF newer
    <3> QED BY <2>2, <2>3, FS_Subset, FS_CardinalityType
  <2>5. Cardinality(Purged) \in Nat /\ Cardinality(Purged \ {x}) = Cardinality(Purged) - 1
    BY <1>2, <2>1, FS_RemoveElement, FS_CardinalityType
  <2> QED BY <1>1, <1>2, <2>2, <2>4, <2>5
<1> QED BY <1>3, <1>4

\* A session that a purge removes is outdated, or has as many newer ones as the
\* limit allows.
LEMMA PurgedOldest ==
  ASSUME SessionsInv, NEW s \in sessions, s \notin Purged
  PROVE  s \in outdated \/ Cardinality({n \in sessions : n > s}) >= MaxSessions
<1> SUFFICES ASSUME s \notin outdated PROVE Cardinality({n \in sessions : n > s}) >= MaxSessions
  OBVIOUS
<1> DEFINE above == {n \in Live : n > s}
           open == {n \in sessions : n > s}
<1>1. above \in SUBSET open /\ open \in SUBSET sessions /\ above \in SUBSET sessions
  BY DEF Live
<1>2. ~(Cardinality(above) < MaxSessions)
  BY DEF Purged, Live
<1> HIDE DEF above, open
<1>3. IsFiniteSet(open) /\ Cardinality(open) \in Nat /\ Cardinality(above) \in Nat
  BY <1>1, SessionsFinite
<1>4. Cardinality(above) =< Cardinality(open)
  BY <1>1, <1>3, FS_Subset
<1>5. Cardinality(open) >= MaxSessions
  BY <1>2, <1>3, <1>4, SessionsAssumption
<1> QED BY <1>5 DEF open

LEMMA SessionsInvInit == SessionsInit => SessionsInv
<1> SUFFICES ASSUME SessionsInit PROVE SessionsInv
  OBVIOUS
<1>1. Cardinality(sessions) = 0
  BY FS_EmptySet DEF SessionsInit
<1> QED BY <1>1, SessionsAssumption DEF SessionsInit, SessionsInv, SessionsTypeOK, NoFinish

\* Fewer sessions are still within the limit.
LEMMA FewerSessions ==
  ASSUME SessionsInv, NEW S \in SUBSET sessions
  PROVE  Cardinality(S) =< MaxSessions + 1
<1>1. IsFiniteSet(sessions) /\ Cardinality(sessions) \in Nat /\ Cardinality(S) \in Nat
  BY SessionsFinite
<1>2. Cardinality(S) =< Cardinality(sessions) /\ Cardinality(sessions) =< MaxSessions + 1
  BY <1>1, FS_Subset DEF SessionsInv, SessionsTypeOK
<1> QED BY <1>1, <1>2, SessionsAssumption

LEMMA SessionsInvNext == SessionsInv /\ [SessionsNext]_sessionsVars => SessionsInv'
<1> SUFFICES ASSUME SessionsInv, [SessionsNext]_sessionsVars PROVE SessionsInv'
  OBVIOUS
<1>1. CASE StartLogin
  <2>1. starts' \in SessionIds /\ starts' \in 0..MaxStarts
    BY <1>1, SessionsAssumption DEF StartLogin, SessionsInv, SessionsTypeOK, SessionIds
  <2>2. Purged \in SUBSET sessions /\ Cardinality(Purged) =< MaxSessions
    BY PurgedLimit
  <2>3. Cardinality(Purged \cup {starts'}) =< MaxSessions + 1
    <3>1. IsFiniteSet(Purged) /\ Cardinality(Purged) \in Nat
      BY <2>2, SessionsFinite
    <3>2. Cardinality(Purged \cup {starts'}) \in {Cardinality(Purged), Cardinality(Purged) + 1}
      BY <3>1, FS_AddElement
    <3> QED BY <2>2, <3>1, <3>2, SessionsAssumption
  <2> QED BY <1>1, <2>1, <2>2, <2>3 DEF StartLogin, SessionsInv, SessionsTypeOK
<1>2. CASE BeginFinish
  <2>1. PICK c \in FinishCalls, code \in SessionIds :
          \E named \in {code, NoSession}, remembered \in SessionIds \cup {NoSession} :
            LET picked == Picked(named, remembered, Purged)
            IN /\ finishes[c] = NoFinish /\ codes[code] # "none"
               /\ remembered =< starts /\ {named, remembered} # {NoSession}
               /\ sessions' = Purged
               /\ finishes' = [finishes EXCEPT ![c] =
                    IF picked # NoSession /\ named \in {NoSession, picked}
                      THEN [pc |-> "exchange", code |-> code, picked |-> picked]
                      ELSE NoFinish]
               /\ UNCHANGED <<outdated, starts, codes>>
    BY <1>2 DEF BeginFinish
  <2>2. PICK named \in {code, NoSession}, remembered \in SessionIds \cup {NoSession} :
          LET picked == Picked(named, remembered, Purged)
          IN /\ sessions' = Purged
             /\ finishes' = [finishes EXCEPT ![c] =
                  IF picked # NoSession /\ named \in {NoSession, picked}
                    THEN [pc |-> "exchange", code |-> code, picked |-> picked]
                    ELSE NoFinish]
             /\ UNCHANGED <<outdated, starts, codes>>
    BY <2>1
  <2> DEFINE picked == Picked(named, remembered, Purged)
  <2>3. Purged \in SUBSET sessions
    BY PurgedLimit
  <2>4. picked # NoSession => picked \in SessionIds
    BY <2>3 DEF Picked, SessionsInv, SessionsTypeOK
  <2> HIDE DEF picked
  <2>5. picked # NoSession => [pc |-> "exchange", code |-> code, picked |-> picked] \in Finish
    BY <2>4 DEF Finish
  <2>6. finishes' = [finishes EXCEPT ![c] =
                       IF picked # NoSession /\ named \in {NoSession, picked}
                         THEN [pc |-> "exchange", code |-> code, picked |-> picked]
                         ELSE NoFinish]
    BY <2>2 DEF picked
  <2>7. finishes' \in [FinishCalls -> Finish \cup {NoFinish}]
    BY <2>5, <2>6 DEF SessionsInv, SessionsTypeOK
  <2>8. \A d \in FinishCalls : finishes'[d].pc = "granted" => finishes'[d] = finishes[d]
    BY <2>6 DEF SessionsInv, SessionsTypeOK, NoFinish
  <2>9. Cardinality(sessions') =< MaxSessions + 1
    BY <2>2, <2>3, FewerSessions
  <2> QED BY <2>2, <2>3, <2>7, <2>8, <2>9 DEF SessionsInv, SessionsTypeOK
<1>3. CASE AuthorizeInBrowser
  <2>1. codes' \in [SessionIds -> {"none", "issued", "used"}]
        /\ \A s \in SessionIds : codes[s] = "used" => codes'[s] = "used"
    BY <1>3 DEF AuthorizeInBrowser, SessionsInv, SessionsTypeOK
  <2>2. \A c \in FinishCalls : finishes[c].pc = "granted" => finishes[c].picked \in SessionIds
    BY DEF SessionsInv, SessionsTypeOK, Finish, NoFinish
  <2> QED BY <1>3, <2>1, <2>2 DEF AuthorizeInBrowser, SessionsInv, SessionsTypeOK
<1>4. CASE SessionExpires
  <2>1. outdated' \subseteq SessionIds
    BY <1>4, SessionsAssumption DEF SessionExpires, SessionsInv, SessionsTypeOK, SessionIds
  <2> QED BY <1>4, <2>1 DEF SessionExpires, SessionsInv, SessionsTypeOK
<1>5. ASSUME NEW c \in FinishCalls, finishes[c] # NoFinish, ExchangeCode(c)
      PROVE  SessionsInv'
  <2>1. /\ finishes[c] \in Finish /\ finishes[c].picked \in SessionIds
        /\ \A d \in FinishCalls : finishes[d].pc = "granted" => finishes[d].picked \in SessionIds
    BY <1>5 DEF SessionsInv, SessionsTypeOK, Finish, NoFinish
  <2>2. PICK pc \in {"granted", "refused"} :
          /\ finishes' = [finishes EXCEPT ![c].pc = pc]
          /\ \/ UNCHANGED codes /\ pc = "refused"
             \/ codes' = [codes EXCEPT ![finishes[c].picked] = "used"]
    BY <1>5 DEF ExchangeCode
  <2>3. /\ finishes' \in [FinishCalls -> Finish \cup {NoFinish}]
        /\ finishes'[c].pc = pc /\ finishes'[c].picked = finishes[c].picked
        /\ \A d \in FinishCalls \ {c} : finishes'[d] = finishes[d]
    <3>1. [finishes[c] EXCEPT !.pc = pc] \in Finish
      BY <2>1 DEF Finish
    <3> QED BY <2>1, <2>2, <3>1 DEF SessionsInv, SessionsTypeOK, Finish
  <2>4. /\ codes' \in [SessionIds -> {"none", "issued", "used"}]
        /\ \A s \in SessionIds : codes[s] = "used" => codes'[s] = "used"
        /\ pc = "granted" => codes'[finishes[c].picked] = "used"
    BY <2>1, <2>2 DEF SessionsInv, SessionsTypeOK
  <2> QED BY <1>5, <2>1, <2>3, <2>4 DEF ExchangeCode, SessionsInv, SessionsTypeOK
<1>6. ASSUME NEW c \in FinishCalls, FinishLogin(c)
      PROVE  SessionsInv'
  <2>1. sessions' \in SUBSET sessions
    BY <1>6 DEF FinishLogin
  <2>2. Cardinality(sessions') =< MaxSessions + 1
    BY <2>1, FewerSessions
  <2> QED BY <1>6, <2>1, <2>2 DEF FinishLogin, SessionsInv, SessionsTypeOK, NoFinish
<1>7. CASE UNCHANGED sessionsVars
  BY <1>7 DEF sessionsVars, SessionsInv, SessionsTypeOK
<1> QED BY <1>1, <1>2, <1>3, <1>4, <1>5, <1>6, <1>7 DEF SessionsNext

LEMMA SessionsInvHolds == SessionsSpec => []SessionsInv
  BY SessionsInvInit, SessionsInvNext, PTL DEF SessionsSpec

\* An open login session goes only when it has expired, when the code its URL
\* led to was exchanged, or when MAX_SESSIONS newer ones are open: for every
\* limit and any number of calls of finish.
THEOREM OpenSessionsHold == SessionsSpec => []SessionsTypeOK /\ OpenSessionsStay
<1> DEFINE Stay ==
      \A s \in sessions \ sessions' :
        s \in outdated \/ codes[s] = "used"
          \/ Cardinality({n \in sessions : n > s}) >= MaxSessions
<1>1. ASSUME SessionsInv, [SessionsNext]_sessionsVars PROVE Stay
  <2> SUFFICES ASSUME NEW s \in sessions \ sessions'
               PROVE  s \in outdated \/ codes[s] = "used"
                        \/ Cardinality({n \in sessions : n > s}) >= MaxSessions
    OBVIOUS
  <2>1. CASE s \notin Purged
    BY <1>1, <2>1, PurgedOldest
  <2>2. CASE s \in Purged
    <3>1. PICK c \in FinishCalls : FinishLogin(c)
      BY <1>1, <2>2 DEF SessionsNext, StartLogin, BeginFinish, AuthorizeInBrowser, SessionExpires,
                        ExchangeCode, sessionsVars
    <3>2. s = finishes[c].picked /\ finishes[c].pc = "granted"
      BY <3>1 DEF FinishLogin
    <3> QED BY <1>1, <3>2 DEF SessionsInv
  <2> QED BY <2>1, <2>2
<1>2. SessionsSpec => [][Stay]_sessionsVars
  BY <1>1, SessionsInvHolds, PTL DEF SessionsSpec
<1>3. SessionsInv => SessionsTypeOK
  BY DEF SessionsInv
<1> QED BY <1>2, <1>3, SessionsInvHolds, PTL DEF OpenSessionsStay

---------------------------------------------------------------------------
(* Settings. *)

\* No copy on its way to the file has a storage section that was refused.
SettingsInv ==
  /\ SettingsTypeOK /\ StoredSettingsValid
  /\ \A e \in Editors : saving[e] # NoCopy => saving[e].storage # "incomplete"

\* The settings a patch leaves are settings.
LEMMA PatchedSettings ==
  ASSUME NEW old \in Settings,
         NEW patch \in [storage : StorageValues \cup {"keep"}, plain : PlainValues \cup {"keep"}]
  PROVE  [key \in DOMAIN old |-> IF patch[key] = "keep" THEN old[key] ELSE patch[key]] \in Settings
<1> DEFINE next == [key \in DOMAIN old |-> IF patch[key] = "keep" THEN old[key] ELSE patch[key]]
<1>1. DOMAIN old = {"storage", "plain"}
  BY DEF Settings
<1>2. next = [storage |-> next.storage, plain |-> next.plain]
  BY <1>1
<1>3. next.storage \in StorageValues /\ next.plain \in PlainValues \cup {"default"}
  BY <1>1 DEF Settings
<1> HIDE DEF next
<1>4. next \in Settings
  BY <1>2, <1>3 DEF Settings
<1> QED BY <1>4 DEF next

LEMMA SettingsInvInit == SettingsInit => SettingsInv
  BY DEF SettingsInit, SettingsInv, SettingsTypeOK, StoredSettingsValid, Settings, StorageValues,
         Defaults, NoCopy

LEMMA SettingsInvNext == SettingsInv /\ [SettingsNext]_settingsVars => SettingsInv'
<1> SUFFICES ASSUME SettingsInv, [SettingsNext]_settingsVars PROVE SettingsInv'
  OBVIOUS
<1> USE DEF SettingsInv, SettingsTypeOK, StoredSettingsValid
<1>1. CASE UpdateSettings
  <2>1. PICK e \in Editors,
             patch \in [storage : StorageValues \cup {"keep"}, plain : PlainValues \cup {"keep"}] :
          LET next == [key \in DOMAIN live |-> IF patch[key] = "keep" THEN live[key] ELSE patch[key]]
          IN /\ live' = next
             /\ saving' = [saving EXCEPT ![e] = IF Rejected(patch, next) THEN NoCopy ELSE next]
             /\ UNCHANGED stored
    BY <1>1 DEF UpdateSettings
  <2>2. live' \in Settings
    BY <2>1, PatchedSettings
  <2>3. saving' = [saving EXCEPT ![e] = IF live'.storage = "incomplete" THEN NoCopy ELSE live']
    BY <2>1 DEF Rejected
  <2> QED BY <2>1, <2>2, <2>3
<1>2. CASE SaveSettings
  <2>1. Defaults \in Settings /\ Defaults.storage # "incomplete"
    BY DEF Defaults, Settings, StorageValues
  <2> QED BY <1>2, <2>1 DEF SaveSettings
<1>3. CASE SettingsRestart
  BY <1>3 DEF SettingsRestart
<1>4. CASE UNCHANGED settingsVars
  BY <1>4 DEF settingsVars
<1> QED BY <1>1, <1>2, <1>3, <1>4 DEF SettingsNext

\* The settings keep their types, and a storage section that was refused never
\* reaches config.json, whatever updates, writes that fail and restarts do.
THEOREM StoredSettingsHold == SettingsSpec => [](SettingsTypeOK /\ StoredSettingsValid)
<1>1. SettingsInv => SettingsTypeOK /\ StoredSettingsValid
  BY DEF SettingsInv
<1> QED BY <1>1, SettingsInvInit, SettingsInvNext, PTL DEF SettingsSpec

---------------------------------------------------------------------------
(* Bearers. *)

\* The state of one call, changed field by field.
LEMMA CallType ==
  ASSUME NEW call \in ServerCall
  PROVE  /\ [call EXCEPT !.pc = "login"] \in ServerCall
         /\ \A b \in NoBearer..MaxEntries : [call EXCEPT !.pc = "page", !.bearer = b] \in ServerCall
         /\ call.page < MaxPages => NextPage(call) \in ServerCall /\ NextAccount(call) \in ServerCall
<1>1. [call EXCEPT !.pc = "login"] \in ServerCall
  BY DEF ServerCall
<1>2. ASSUME NEW b \in NoBearer..MaxEntries
      PROVE  [call EXCEPT !.pc = "page", !.bearer = b] \in ServerCall
  BY DEF ServerCall, NoBearer
<1>3. ASSUME call.page < MaxPages
      PROVE  NextPage(call) \in ServerCall /\ NextAccount(call) \in ServerCall
  <2>1. call.page + 1 \in 1..MaxPages /\ NoBearer \in -1..MaxEntries
    BY <1>3, BearersAssumption DEF ServerCall, NoBearer
  <2> QED BY <2>1 DEF ServerCall, NextPage, NextAccount
<1> QED BY <1>1, <1>2, <1>3

LEMMA BearersTypeInit == BearersInit => BearersTypeOK
  BY BearersAssumption DEF BearersInit, BearersTypeOK, Gone, NoBearer

LEMMA BearersTypeNext == BearersTypeOK /\ [BearersNext]_bearersVars => BearersTypeOK'
<1> SUFFICES ASSUME BearersTypeOK, [BearersNext]_bearersVars PROVE BearersTypeOK'
  OBVIOUS
<1> USE BearersAssumption DEF BearersTypeOK
<1>1. CASE EditServer
  BY <1>1 DEF EditServer, DropBearer, Gone, NoBearer
<1>2. CASE StartCall
  <2>1. PICK c \in BearerCalls, v \in BearerServers :
          /\ entered[v] # Gone
          /\ serverCalls' = [serverCalls EXCEPT ![c] = [pc |-> "started", server |-> v,
               settings |-> entered[v], bearer |-> NoBearer, page |-> 1]]
          /\ UNCHANGED <<entered, bearers>>
    BY <1>2 DEF StartCall
  <2>2. entered[v] \in 0..MaxEntries
    BY <2>1 DEF Gone
  <2>3. [pc |-> "started", server |-> v, settings |-> entered[v], bearer |-> NoBearer, page |-> 1]
          \in ServerCall
    BY <2>2 DEF ServerCall, NoBearer
  <2> QED BY <2>1, <2>3
<1>3. CASE BearerExpires
  BY <1>3 DEF BearerExpires, DropBearer, NoBearer
<1>4. ASSUME NEW c \in BearerCalls, serverCalls[c] # NoCall, AuthHeaders(c) \/ Login(c) \/ Answer(c)
      PROVE  BearersTypeOK'
  <2>1. serverCalls[c] \in ServerCall
    BY <1>4
  <2>2. CASE AuthHeaders(c)
    <3>1. bearers[serverCalls[c].server] \in NoBearer..MaxEntries
      BY <2>1 DEF ServerCall
    <3>2. [serverCalls[c] EXCEPT !.pc = "page", !.bearer = bearers[serverCalls[c].server]] \in ServerCall
      BY <2>1, <3>1, CallType
    <3>3. [serverCalls[c] EXCEPT !.pc = "login"] \in ServerCall
      BY <2>1, CallType
    <3> QED BY <2>2, <3>2, <3>3 DEF AuthHeaders
  <2>3. CASE Login(c)
    <3>1. serverCalls[c].server \in BearerServers /\ serverCalls[c].settings \in 0..MaxEntries
      BY <2>1 DEF ServerCall
    <3>2. [serverCalls[c] EXCEPT !.pc = "page", !.bearer = serverCalls[c].settings] \in ServerCall
      <4>1. serverCalls[c].settings \in NoBearer..MaxEntries
        BY <3>1, BearersAssumption DEF NoBearer
      <4> QED BY <2>1, <4>1, CallType
    <3>3. serverCalls' \in [BearerCalls -> ServerCall \cup {NoCall}]
      BY <2>3, <3>2 DEF Login
    <3>4. CASE UNCHANGED bearers
      BY <2>3, <3>3, <3>4 DEF Login
    <3>5. CASE bearers' = [bearers EXCEPT ![serverCalls[c].server] = serverCalls[c].settings]
      BY <2>3, <3>1, <3>3, <3>5 DEF Login, NoBearer
    <3> QED BY <2>3, <3>4, <3>5 DEF Login
  <2>4. CASE Answer(c)
    BY <2>1, <2>4, CallType DEF Answer
  <2> QED BY <1>4, <2>2, <2>3, <2>4
<1>5. CASE UNCHANGED bearersVars
  BY <1>5 DEF bearersVars
<1> QED BY <1>1, <1>2, <1>3, <1>4, <1>5 DEF BearersNext

---------------------------------------------------------------------------
(* Registrations. *)

\* From the mailbox on; once the mail is asked for; once a code was found.
Addressed == {"mailbox", "authorized", "password", "sent", "code", "valid", "created", "done"}
Asked == {"sent", "code", "valid", "created", "done", "failed"}
Coded == {"code", "valid", "created", "done", "failed"}

HasMail(r) == \E mail \in inbox : mail.by = r

\* The alias of r has been taken.
Uses(r) == regs[r].pc \in Addressed \/ HasMail(r)

AddressInv ==
  \A r \in Registrations :
    /\ regs[r].pc = "check" => regs[r].address \in Aliases
    /\ regs[r].pc \in Addressed => regs[r].address \in Aliases \cup {Own}

\* The mail of a registration went to the address it has.
InboxInv ==
  \A mail \in inbox : mail.to = regs[mail.by].address /\ regs[mail.by].pc \in Asked

CodeInv == \A r \in Registrations : regs[r].code # NoMail => regs[r].pc \in Coded

\* An alias that was recorded is in the file, unless the file did not keep it.
RecordedInv ==
  \A r \in Registrations :
    (regs[r].pc \in Addressed \/ HasMail(r)) /\ regs[r].address \in Aliases
      => regs[r].address \in aliasFile \cup loose

\* Two registrations have one alias only when it was given out twice.
SharedInv ==
  \A q, r \in Registrations :
    q # r /\ Uses(q) /\ Uses(r) /\ regs[q].address = regs[r].address /\ regs[r].address \in Aliases
      => regs[r].address \in loose

RegistrationInv ==
  /\ RegistrationTypeOK /\ OwnCode
  /\ AddressInv /\ InboxInv /\ CodeInv /\ RecordedInv /\ SharedInv

\* A registration's state with one field changed.
LEMMA RegisteringType ==
  ASSUME NEW reg \in Registering
  PROVE  /\ \A pc \in Waiting \cup {"done", "failed"} : [reg EXCEPT !.pc = pc] \in Registering
         /\ \A a \in Aliases \cup {Own, NoAddress}, pc \in Waiting \cup {"done", "failed"} :
              /\ [reg EXCEPT !.pc = pc, !.address = a] \in Registering
              /\ [[reg EXCEPT !.pc = pc] EXCEPT !.address = a] \in Registering
         /\ \A mail \in Mail, pc \in Waiting \cup {"done", "failed"} :
              [[reg EXCEPT !.pc = pc] EXCEPT !.code = mail] \in Registering
<1>1. ASSUME NEW pc \in Waiting \cup {"done", "failed"}
      PROVE  [reg EXCEPT !.pc = pc] \in Registering
  BY DEF Registering
<1>2. ASSUME NEW a \in Aliases \cup {Own, NoAddress}, NEW pc \in Waiting \cup {"done", "failed"}
      PROVE  /\ [reg EXCEPT !.pc = pc, !.address = a] \in Registering
             /\ [[reg EXCEPT !.pc = pc] EXCEPT !.address = a] \in Registering
  BY DEF Registering
<1>3. ASSUME NEW mail \in Mail, NEW pc \in Waiting \cup {"done", "failed"}
      PROVE  [[reg EXCEPT !.pc = pc] EXCEPT !.code = mail] \in Registering
  BY DEF Registering
<1> QED BY <1>1, <1>2, <1>3

\* A step of one registration that leaves its address and the inbox alone and
\* takes no alias into use.
LEMMA ProceedsInv ==
  ASSUME RegistrationInv, NEW r \in Registrations, NEW pc \in Waiting \cup {"done", "failed"},
         regs' = [regs EXCEPT ![r].pc = pc], UNCHANGED <<turn, aliasFile, inbox, loose>>,
         pc = "check" => regs[r].pc = "check",
         pc \in Addressed => regs[r].pc \in Addressed,
         regs[r].pc \in Asked => pc \in Asked,
         regs[r].pc \in Coded => pc \in Coded
  PROVE  RegistrationInv'
<1>1. /\ regs' \in [Registrations -> Registering]
      /\ regs'[r].pc = pc /\ regs'[r].address = regs[r].address /\ regs'[r].code = regs[r].code
      /\ \A q \in Registrations \ {r} : regs'[q] = regs[q]
  <2>1. regs[r] \in Registering /\ [regs[r] EXCEPT !.pc = pc] \in Registering
    BY RegisteringType DEF RegistrationInv, RegistrationTypeOK
  <2> QED BY <2>1 DEF RegistrationInv, RegistrationTypeOK, Registering
<1>2. RegistrationTypeOK'
  BY <1>1 DEF RegistrationInv, RegistrationTypeOK
<1>3. OwnCode'
  BY <1>1 DEF RegistrationInv, OwnCode
<1>4. AddressInv'
  BY <1>1 DEF RegistrationInv, AddressInv
<1>5. InboxInv'
  BY <1>1 DEF RegistrationInv, InboxInv
<1>6. CodeInv'
  BY <1>1 DEF RegistrationInv, CodeInv
<1>7. RecordedInv'
  BY <1>1 DEF RegistrationInv, RecordedInv, HasMail
<1>8. SharedInv'
  BY <1>1 DEF RegistrationInv, SharedInv, Uses, HasMail
<1> QED BY <1>2, <1>3, <1>4, <1>5, <1>6, <1>7, <1>8 DEF RegistrationInv

LEMMA MailBy == RegistrationInv => \A mail \in inbox : mail \in Mail /\ mail.by \in Registrations
  BY DEF RegistrationInv, RegistrationTypeOK, Mail

LEMMA RegistrationInvInit == RegistrationInit => RegistrationInv
<1> SUFFICES ASSUME RegistrationInit PROVE RegistrationInv
  OBVIOUS
<1>1. RegistrationTypeOK
  BY RegistrationAssumption DEF RegistrationInit, RegistrationTypeOK, Registering, Waiting
<1>2. OwnCode /\ CodeInv
  BY DEF RegistrationInit, OwnCode, CodeInv
<1>3. AddressInv /\ InboxInv /\ RecordedInv /\ SharedInv
  BY DEF RegistrationInit, AddressInv, InboxInv, RecordedInv, SharedInv, Uses, HasMail, Addressed
<1> QED BY <1>1, <1>2, <1>3 DEF RegistrationInv

\* The steps that only proceed, and those that end a registration.
LEMMA ProceedsStep ==
  ASSUME RegistrationInv, NEW r \in Registrations,
         WarmUp(r) \/ PlatformAuthorize(r) \/ RegisterUser(r) \/ ValidateOtp(r)
           \/ CreateAccount(r) \/ ExchangeRegisteredTokens(r)
  PROVE  RegistrationInv'
<1> USE DEF Waiting, Addressed, Asked, Coded
<1>1. CASE WarmUp(r)
  BY <1>1, ProceedsInv DEF WarmUp, Proceeds
<1>2. CASE PlatformAuthorize(r)
  BY <1>2, ProceedsInv DEF PlatformAuthorize, Proceeds
<1>3. CASE RegisterUser(r)
  BY <1>3, ProceedsInv DEF RegisterUser, Proceeds
<1>4. CASE ValidateOtp(r)
  BY <1>4, ProceedsInv DEF ValidateOtp, Proceeds
<1>5. CASE CreateAccount(r)
  BY <1>5, ProceedsInv DEF CreateAccount, Proceeds
<1>6. CASE ExchangeRegisteredTokens(r)
  BY <1>6, ProceedsInv DEF ExchangeRegisteredTokens, Proceeds
<1> QED BY <1>1, <1>2, <1>3, <1>4, <1>5, <1>6

\* A registration that has asked for no mail moves to a state in order, and
\* takes no alias into use that it had not.
LEMMA EarlyStep ==
  ASSUME RegistrationInv, NEW r \in Registrations, NEW reg \in Registering,
         regs[r].pc \notin Asked, regs' = [regs EXCEPT ![r] = reg],
         turn' \in 0..NumProviders - 1, UNCHANGED <<aliasFile, inbox, loose>>,
         reg.code = regs[r].code,
         reg.pc = "check" => reg.address \in Aliases,
         reg.pc \in Addressed => reg.address = Own
  PROVE  RegistrationInv'
<1>1. /\ regs' \in [Registrations -> Registering] /\ regs'[r] = reg
      /\ \A q \in Registrations \ {r} : regs'[q] = regs[q]
  BY DEF RegistrationInv, RegistrationTypeOK
<1>2. /\ regs[r].code = NoMail /\ ~HasMail(r)
      /\ \A mail \in inbox : mail.by # r /\ mail.by \in Registrations
  BY DEF RegistrationInv, RegistrationTypeOK, CodeInv, InboxInv, HasMail, Asked, Coded, Mail
<1>3. RegistrationTypeOK'
  BY <1>1 DEF RegistrationInv, RegistrationTypeOK
<1>4. OwnCode' /\ CodeInv'
  BY <1>1, <1>2 DEF RegistrationInv, OwnCode, CodeInv
<1>5. AddressInv'
  BY <1>1 DEF RegistrationInv, AddressInv
<1>6. InboxInv'
  BY <1>1, <1>2 DEF RegistrationInv, InboxInv
<1>7. RecordedInv'
  BY <1>1, <1>2, AliasesAssumption DEF RegistrationInv, RecordedInv, HasMail
<1>8. SharedInv'
  BY <1>1, <1>2, AliasesAssumption DEF RegistrationInv, SharedInv, Uses, HasMail
<1> QED BY <1>3, <1>4, <1>5, <1>6, <1>7, <1>8 DEF RegistrationInv

\* The steps up to the mailbox that take no alias into use.
LEMMA MailboxSteps ==
  ASSUME RegistrationInv, NEW r \in Registrations,
         NextProvider(r) \/ CreateMailbox(r) \/ CreateDdgAlias(r)
  PROVE  RegistrationInv'
<1> USE DEF Waiting, Addressed, Asked, Coded
<1>1. regs[r] \in Registering /\ turn \in 0..NumProviders - 1 /\ NumProviders \in Nat \ {0}
  BY RegistrationAssumption DEF RegistrationInv, RegistrationTypeOK
<1>2. CASE NextProvider(r)
  <2>1. CASE regs' = [regs EXCEPT ![r].pc = "failed"] /\ UNCHANGED turn
    BY <1>2, <2>1, ProceedsInv DEF NextProvider
  <2>2. CASE regs[r].turns < NumProviders /\ turn' = (turn + 1) % NumProviders
    <3> DEFINE pc == IF turn + 1 \in regs[r].tried THEN "turn"
                     ELSE IF turn + 1 \in DdgProviders THEN "alias" ELSE "plain"
               reg == [regs[r] EXCEPT !.turns = @ + 1, !.tried = @ \cup {turn + 1}, !.pc = pc]
    <3>1. turn + 1 \in 1..NumProviders /\ (turn + 1) % NumProviders \in 0..NumProviders - 1
      BY <1>1
    <3>2. regs[r].turns + 1 \in 0..NumProviders
      BY <1>1, <2>2 DEF Registering
    <3>3. reg \in Registering /\ reg.code = regs[r].code /\ reg.pc = pc
      BY <1>1, <3>1, <3>2 DEF Registering
    <3>4. regs' = [regs EXCEPT ![r] = reg]
      BY <1>1, <1>2, <2>2 DEF NextProvider, Registering
    <3> HIDE DEF reg
    <3> QED BY <1>2, <2>2, <3>1, <3>3, <3>4, EarlyStep DEF NextProvider
  <2> QED BY <1>2, <2>1, <2>2 DEF NextProvider
<1>3. CASE CreateMailbox(r)
  <2>1. CASE regs' = [regs EXCEPT ![r].pc = "failed"]
    BY <1>3, <2>1, ProceedsInv DEF CreateMailbox
  <2>2. CASE regs' = [regs EXCEPT ![r].pc = "mailbox", ![r].address = Own]
    <3> DEFINE reg == [[regs[r] EXCEPT !.pc = "mailbox"] EXCEPT !.address = Own]
    <3>1. reg \in Registering /\ reg.code = regs[r].code /\ reg.pc = "mailbox" /\ reg.address = Own
      BY <1>1, RegisteringType DEF Registering
    <3>2. regs' = [regs EXCEPT ![r] = reg]
      BY <2>2 DEF RegistrationInv, RegistrationTypeOK
    <3> HIDE DEF reg
    <3> QED BY <1>1, <1>3, <3>1, <3>2, EarlyStep DEF CreateMailbox
  <2> QED BY <1>3, <2>1, <2>2 DEF CreateMailbox
<1>4. CASE CreateDdgAlias(r)
  <2>1. CASE regs' = [regs EXCEPT ![r].pc = "failed"]
    BY <1>4, <2>1, ProceedsInv DEF CreateDdgAlias
  <2>2. ASSUME NEW a \in Aliases, regs' = [regs EXCEPT ![r].pc = "check", ![r].address = a]
        PROVE  RegistrationInv'
    <3> DEFINE reg == [[regs[r] EXCEPT !.pc = "check"] EXCEPT !.address = a]
    <3>1. reg \in Registering /\ reg.code = regs[r].code /\ reg.pc = "check" /\ reg.address = a
      BY <1>1, RegisteringType DEF Registering
    <3>2. regs' = [regs EXCEPT ![r] = reg]
      BY <2>2 DEF RegistrationInv, RegistrationTypeOK
    <3> HIDE DEF reg
    <3> QED BY <1>1, <1>4, <3>1, <3>2, EarlyStep DEF CreateDdgAlias
  <2> QED BY <1>4, <2>1, <2>2 DEF CreateDdgAlias
<1> QED BY <1>2, <1>3, <1>4

\* An alias that is found unused is one nobody has taken, unless a read failed
\* or it is already known to be loose; whatever becomes of the file, an alias it
\* does not keep counts as loose.
LEMMA TakeStep ==
  ASSUME RegistrationInv, NEW r \in Registrations, TakeAlias(r)
  PROVE  RegistrationInv'
<1> USE DEF Waiting, Addressed, Asked, Coded
<1> DEFINE a == regs[r].address
<1>1. regs[r] \in Registering /\ regs[r].pc = "check" /\ a \in Aliases
  BY DEF RegistrationInv, RegistrationTypeOK, TakeAlias, AddressInv
<1>2. CASE /\ regs' = [regs EXCEPT ![r].pc = "turn", ![r].address = NoAddress]
           /\ UNCHANGED <<aliasFile, loose>>
  <2> DEFINE reg == [[regs[r] EXCEPT !.pc = "turn"] EXCEPT !.address = NoAddress]
  <2>1. reg \in Registering /\ reg.code = regs[r].code /\ reg.pc = "turn"
    BY <1>1, RegisteringType DEF Registering
  <2>2. regs' = [regs EXCEPT ![r] = reg] /\ UNCHANGED <<turn, inbox>>
    BY <1>2 DEF RegistrationInv, RegistrationTypeOK, TakeAlias
  <2>3. turn' \in 0..NumProviders - 1
    BY <2>2 DEF RegistrationInv, RegistrationTypeOK
  <2> HIDE DEF reg
  <2> QED BY <1>1, <1>2, <2>1, <2>2, <2>3, EarlyStep
<1>3. ASSUME NEW pc \in {"mailbox", "failed"}, regs' = [regs EXCEPT ![r].pc = pc],
             \E used \in {aliasFile, {}} : aliasFile' \in {used \cup {a}, aliasFile, {}},
             loose' = loose \cup ({a} \cap aliasFile) \cup ((aliasFile \cup {a}) \ aliasFile')
      PROVE  RegistrationInv'
  <2> DEFINE reg == [regs[r] EXCEPT !.pc = pc]
  <2>1. reg \in Registering /\ reg.code = regs[r].code /\ reg.pc = pc /\ reg.address = a
    BY <1>1, RegisteringType DEF Registering
  <2>2. /\ regs' \in [Registrations -> Registering] /\ regs'[r] = reg
        /\ \A q \in Registrations \ {r} : regs'[q] = regs[q]
    BY <1>3, <2>1 DEF RegistrationInv, RegistrationTypeOK
  <2> HIDE DEF reg
  <2>3. /\ regs[r].code = NoMail /\ ~HasMail(r)
        /\ \A mail \in inbox : mail.by # r /\ mail.by \in Registrations
    BY <1>1 DEF RegistrationInv, RegistrationTypeOK, CodeInv, InboxInv, HasMail, Mail
  <2>4. UNCHANGED <<turn, inbox>>
    BY DEF TakeAlias
  <2>5. aliasFile' \subseteq Aliases /\ loose' \subseteq Aliases /\ loose \subseteq loose'
    BY <1>1, <1>3 DEF RegistrationInv, RegistrationTypeOK
  <2>6. /\ aliasFile \cup loose \cup {a} \subseteq aliasFile' \cup loose'
        /\ a \in aliasFile \cup loose => a \in loose'
    BY <1>3
  <2>7. RegistrationTypeOK'
    BY <2>2, <2>4, <2>5 DEF RegistrationInv, RegistrationTypeOK
  <2>8. OwnCode' /\ CodeInv'
    BY <2>1, <2>2, <2>3, <2>4, <2>5 DEF RegistrationInv, OwnCode, CodeInv
  <2>9. AddressInv' /\ InboxInv'
    BY <1>1, <2>1, <2>2, <2>3, <2>4 DEF RegistrationInv, AddressInv, InboxInv
  <2>10. RecordedInv'
    BY <2>1, <2>2, <2>3, <2>4, <2>5, <2>6 DEF RegistrationInv, RecordedInv, HasMail
  <2>11. \A q \in Registrations \ {r} : Uses(q) /\ regs[q].address = a => a \in loose'
    BY <1>1, <2>6 DEF RegistrationInv, RecordedInv, Uses
  <2>12. SharedInv'
    <3>1. \A q \in Registrations \ {r} : Uses(q)' => Uses(q)
      BY <2>2, <2>4 DEF Uses, HasMail
    <3> QED BY <2>1, <2>2, <2>4, <2>5, <2>11, <3>1 DEF RegistrationInv, SharedInv
  <2> QED BY <2>7, <2>8, <2>9, <2>10, <2>12 DEF RegistrationInv
<1> QED BY <1>2, <1>3 DEF TakeAlias

\* The mail goes to the address of the registration, which it keeps from then on.
LEMMA SendStep ==
  ASSUME RegistrationInv, NEW r \in Registrations, SendOtp(r)
  PROVE  RegistrationInv'
<1> USE DEF Waiting, Addressed, Asked, Coded
<1>1. PICK pc \in {"sent", "failed"}, h \in Headers :
        /\ regs' = [regs EXCEPT ![r].pc = pc]
        /\ inbox' = inbox \cup {[to |-> regs[r].address, by |-> r, header |-> h]}
  BY DEF SendOtp, Proceeds
<1> DEFINE mail == [to |-> regs[r].address, by |-> r, header |-> h]
<1>2. /\ regs[r] \in Registering /\ regs[r].pc = "password" /\ regs[r].address \in Aliases \cup {Own}
      /\ UNCHANGED <<turn, aliasFile, loose>>
  BY DEF RegistrationInv, RegistrationTypeOK, SendOtp, Proceeds, AddressInv
<1>3. /\ regs' \in [Registrations -> Registering]
      /\ regs'[r].pc = pc /\ regs'[r].address = regs[r].address /\ regs'[r].code = regs[r].code
      /\ \A q \in Registrations \ {r} : regs'[q] = regs[q]
  <2>1. [regs[r] EXCEPT !.pc = pc] \in Registering
    BY <1>2, RegisteringType
  <2> QED BY <1>1, <1>2, <2>1 DEF RegistrationInv, RegistrationTypeOK, Registering
<1>4. mail \in Mail /\ mail.to = regs[r].address /\ mail.by = r
  BY <1>2 DEF Mail
<1> HIDE DEF mail
<1>5. inbox' = inbox \cup {mail}
  BY <1>1 DEF mail
<1>6. RegistrationTypeOK'
  BY <1>2, <1>3, <1>4, <1>5 DEF RegistrationInv, RegistrationTypeOK
<1>7. OwnCode' /\ CodeInv'
  BY <1>2, <1>3 DEF RegistrationInv, OwnCode, CodeInv
<1>8. AddressInv' /\ InboxInv'
  BY <1>1, <1>2, <1>3, <1>4, <1>5 DEF RegistrationInv, AddressInv, InboxInv
<1>9. \A q \in Registrations : HasMail(q)' <=> HasMail(q) \/ q = r
  BY <1>4, <1>5 DEF HasMail
<1>10. RecordedInv'
  BY <1>1, <1>2, <1>3, <1>9 DEF RegistrationInv, RecordedInv
<1>11. SharedInv'
  <2>1. \A q \in Registrations : (Uses(q)' <=> Uses(q)) /\ regs'[q].address = regs[q].address
    BY <1>1, <1>2, <1>3, <1>9 DEF Uses
  <2> QED BY <1>2, <2>1 DEF RegistrationInv, SharedInv
<1> QED BY <1>6, <1>7, <1>8, <1>10, <1>11 DEF RegistrationInv

\* A code in a mail that says whom it is for belongs to the registration that
\* takes it, or both of them have the same alias.
LEMMA WaitStep ==
  ASSUME RegistrationInv, NEW r \in Registrations, WaitForCode(r)
  PROVE  RegistrationInv'
<1> USE DEF Waiting, Addressed, Asked, Coded
<1>1. CASE regs' = [regs EXCEPT ![r].pc = "failed"]
  BY <1>1, ProceedsInv DEF WaitForCode
<1>2. ASSUME NEW mail \in inbox, Matches(mail, regs[r].address), mail.to = Own => mail.by = r,
             regs' = [regs EXCEPT ![r].pc = "code", ![r].code = mail]
      PROVE  RegistrationInv'
  <2> DEFINE reg == [[regs[r] EXCEPT !.pc = "code"] EXCEPT !.code = mail]
  <2>1. /\ regs[r] \in Registering /\ regs[r].pc = "sent" /\ mail \in Mail
        /\ UNCHANGED <<turn, aliasFile, inbox, loose>>
    BY DEF RegistrationInv, RegistrationTypeOK, WaitForCode
  <2>2. /\ reg \in Registering /\ reg.pc = "code" /\ reg.code = mail
        /\ reg.address = regs[r].address
    BY <2>1, RegisteringType DEF Registering
  <2>3. /\ regs' \in [Registrations -> Registering] /\ regs'[r] = reg
        /\ \A q \in Registrations \ {r} : regs'[q] = regs[q]
    BY <1>2, <2>2 DEF RegistrationInv, RegistrationTypeOK
  <2> HIDE DEF reg
  <2>4. mail.header = "address" /\ mail.by # r => regs[r].address \in loose
    <3> SUFFICES ASSUME mail.header = "address", mail.by # r PROVE regs[r].address \in loose
      OBVIOUS
    <3>1. mail.to # Own /\ mail.to = regs[r].address
      BY <1>2 DEF Matches
    <3>2. mail.by \in Registrations /\ mail.to \in Aliases /\ regs[mail.by].address = mail.to
      BY <2>1, <3>1 DEF Mail, RegistrationInv, InboxInv
    <3>3. Uses(r) /\ Uses(mail.by)
      BY <2>1, <3>2 DEF Uses, HasMail
    <3> QED BY <3>1, <3>2, <3>3 DEF RegistrationInv, SharedInv
  <2>5. RegistrationTypeOK'
    BY <2>1, <2>3 DEF RegistrationInv, RegistrationTypeOK
  <2>6. OwnCode' /\ CodeInv'
    BY <2>1, <2>2, <2>3, <2>4 DEF RegistrationInv, OwnCode, CodeInv
  <2>7. AddressInv' /\ InboxInv'
    <3>1. AddressInv'
      BY <2>1, <2>2, <2>3 DEF RegistrationInv, AddressInv
    <3>2. InboxInv'
      BY <2>1, <2>2, <2>3, MailBy DEF RegistrationInv, InboxInv
    <3> QED BY <3>1, <3>2
  <2>8. RecordedInv'
    BY <2>1, <2>2, <2>3 DEF RegistrationInv, RecordedInv, HasMail
  <2>9. SharedInv'
    BY <2>1, <2>2, <2>3 DEF RegistrationInv, SharedInv, Uses, HasMail
  <2> QED BY <2>5, <2>6, <2>7, <2>8, <2>9 DEF RegistrationInv
<1> QED BY <1>1, <1>2 DEF WaitForCode

\* A restart fails what was under way; addresses, codes and mail stay.
LEMMA RestartStep ==
  ASSUME RegistrationInv, RegistrationRestart
  PROVE  RegistrationInv'
<1> USE DEF Waiting, Addressed, Asked, Coded
<1>1. ASSUME NEW q \in Registrations
      PROVE  /\ regs'[q] \in Registering
             /\ regs'[q].pc = regs[q].pc \/ regs'[q].pc = "failed"
             /\ regs'[q].pc \notin Waiting \ {"start"}
             /\ regs'[q].address = regs[q].address /\ regs'[q].code = regs[q].code
  <2>1. regs[q] \in Registering /\ [regs[q] EXCEPT !.pc = "failed"] \in Registering
    BY RegisteringType DEF RegistrationInv, RegistrationTypeOK
  <2> QED BY <2>1 DEF RegistrationRestart, Registering
<1>2. regs' \in [Registrations -> Registering] /\ turn' = 0 /\ UNCHANGED <<aliasFile, inbox, loose>>
  BY <1>1 DEF RegistrationRestart
<1>3. RegistrationTypeOK'
  BY <1>2, RegistrationAssumption DEF RegistrationInv, RegistrationTypeOK
<1>4. OwnCode' /\ CodeInv'
  BY <1>1, <1>2 DEF RegistrationInv, OwnCode, CodeInv
<1>5. AddressInv'
  BY <1>1, <1>2 DEF RegistrationInv, AddressInv
<1>6. InboxInv'
  <2>1. \A mail \in inbox : mail.by \in Registrations
    BY DEF RegistrationInv, RegistrationTypeOK, Mail
  <2> QED BY <1>1, <1>2, <2>1 DEF RegistrationInv, InboxInv
<1>7. RecordedInv'
  BY <1>1, <1>2 DEF RegistrationInv, RecordedInv, HasMail
<1>8. SharedInv'
  <2>1. \A q \in Registrations : Uses(q)' => Uses(q)
    BY <1>1, <1>2 DEF Uses, HasMail
  <2> QED BY <1>1, <1>2, <2>1 DEF RegistrationInv, SharedInv
<1> QED BY <1>3, <1>4, <1>5, <1>6, <1>7, <1>8 DEF RegistrationInv

LEMMA RegistrationInvNext == RegistrationInv /\ [RegistrationNext]_registrationVars => RegistrationInv'
<1> SUFFICES ASSUME RegistrationInv, [RegistrationNext]_registrationVars PROVE RegistrationInv'
  OBVIOUS
<1>1. CASE UNCHANGED registrationVars
  BY <1>1 DEF registrationVars, RegistrationInv, RegistrationTypeOK, OwnCode, AddressInv, InboxInv,
              CodeInv, RecordedInv, SharedInv, Uses, HasMail
<1>2. CASE RegistrationNext
  BY <1>2, ProceedsStep, MailboxSteps, TakeStep, SendStep, WaitStep, RestartStep
     DEF RegistrationNext
<1> QED BY <1>1, <1>2

\* The registrations keep their types, and although all aliases forward to one
\* inbox, a registration takes a code that names an alias only when the code was
\* sent for itself or that alias was given out again after a read or write of the
\* file failed: for any number of registrations, providers and aliases.
THEOREM OwnCodeHolds == RegistrationSpec => [](RegistrationTypeOK /\ OwnCode)
<1>1. RegistrationInv => RegistrationTypeOK /\ OwnCode
  BY DEF RegistrationInv
<1> QED BY <1>1, RegistrationInvInit, RegistrationInvNext, PTL DEF RegistrationSpec
---------------------------------------------------------------------------
(* The services together. *)

ServicesInv ==
  /\ focus \in {"keys", "imports", "bearers", "backups", "gallery",
                "sessions", "settings", "registration"}
  /\ KeysInv /\ ImportsInv /\ BearersTypeOK /\ BackupsInv /\ GalleryInv
  /\ SessionsInv /\ SettingsInv /\ RegistrationInv

\* Each service moves on its own; none disturbs another's.
LEMMA ServicesInvHolds == Spec => []ServicesInv
<1>1. Init => ServicesInv
  BY KeysInvInit, ImportsInvInit, BearersTypeInit, BackupsInvInit, GalleryInvInit,
     SessionsInvInit, SettingsInvInit, RegistrationInvInit, ImportsAssumption
     DEF Init, ServicesInv
<1>2. ServicesInv /\ [Next]_vars => ServicesInv'
  <2> SUFFICES ASSUME ServicesInv, [Next]_vars PROVE ServicesInv'
    OBVIOUS
  <2>1. /\ [KeysNext]_keysVars /\ [ImportsNext]_importsVars /\ [BearersNext]_bearersVars
        /\ [BackupsNext]_backupsVars /\ [GalleryNext]_galleryVars /\ [SessionsNext]_sessionsVars
        /\ [SettingsNext]_settingsVars /\ [RegistrationNext]_registrationVars
        /\ UNCHANGED focus
    <3>1. CASE Keys
      BY <3>1 DEF Keys
    <3>2. CASE RemoteImport
      BY <3>2 DEF RemoteImport
    <3>3. CASE Bearers
      BY <3>3 DEF Bearers
    <3>4. CASE Backup
      BY <3>4 DEF Backup
    <3>5. CASE Pictures
      BY <3>5 DEF Pictures
    <3>6. CASE Logins
      BY <3>6 DEF Logins
    <3>7. CASE Settle
      BY <3>7 DEF Settle
    <3>8. CASE Register
      BY <3>8 DEF Register
    <3>9. CASE UNCHANGED vars
      BY <3>9 DEF vars
    <3> QED BY <3>1, <3>2, <3>3, <3>4, <3>5, <3>6, <3>7, <3>8, <3>9 DEF Next
  <2> QED BY <2>1, KeysInvNext, ImportsInvNext, BearersTypeNext, BackupsInvNext, GalleryInvNext,
             SessionsInvNext, SettingsInvNext, RegistrationInvNext, ImportsAssumption
             DEF ServicesInv
<1> QED BY <1>1, <1>2, PTL DEF Spec

\* Whichever services move, the variables of each keep their types.
THEOREM ServicesTypesHold == Spec => []ServicesTypeOK
<1>1. ServicesInv => ServicesTypeOK
  <2> SUFFICES ASSUME ServicesInv PROVE ServicesTypeOK
    OBVIOUS
  <2>1. /\ KeysTypeOK /\ ImportsTypeOK /\ BearersTypeOK /\ BackupsTypeOK /\ GalleryTypeOK
        /\ SessionsTypeOK /\ SettingsTypeOK /\ RegistrationTypeOK
    BY DEF ServicesInv, KeysInv, ImportsInv, BackupsInv, GalleryInv,
           SessionsInv, SettingsInv, RegistrationInv
  <2>2. focus \in {"keys", "imports", "bearers", "backups", "gallery",
                   "sessions", "settings", "registration"}
    BY DEF ServicesInv
  <2> QED BY <2>1, <2>2 DEF ServicesTypeOK
<1> QED BY <1>1, ServicesInvHolds, PTL

\* The safety invariants of all services hold side by side in the specification
\* that puts them together.
THEOREM ServicesHold ==
  Spec => [](/\ RevokedKeysFail /\ RunningHasTask /\ EditsPrevail
             /\ BackupLockAccounted /\ SavedImagesServed /\ DeletedImagesGone
             /\ StoredSettingsValid /\ OwnCode)
<1>1. ServicesInv => SavedImagesServed /\ DeletedImagesGone
  BY GalleryPromises DEF ServicesInv
<1>2. ServicesInv => /\ RevokedKeysFail /\ RunningHasTask /\ EditsPrevail
                     /\ BackupLockAccounted /\ StoredSettingsValid /\ OwnCode
  <2> SUFFICES ASSUME ServicesInv
               PROVE  /\ RevokedKeysFail /\ RunningHasTask /\ EditsPrevail
                      /\ BackupLockAccounted /\ StoredSettingsValid /\ OwnCode
    OBVIOUS
  <2>1. RevokedKeysFail
    BY DEF ServicesInv, KeysInv, Orderly, RevokedKeysFail, Accepts
  <2>2. BackupLockAccounted
    BY BackupLockFollows DEF ServicesInv
  <2>3. RunningHasTask /\ EditsPrevail /\ StoredSettingsValid /\ OwnCode
    BY DEF ServicesInv, ImportsInv, SettingsInv, RegistrationInv
  <2> QED BY <2>1, <2>2, <2>3
<1> QED BY <1>1, <1>2, ServicesInvHolds, PTL
=============================================================================
