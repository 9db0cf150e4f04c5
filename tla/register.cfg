CONSTANTS
  Run = {r1, r2}
  Threads = 2
  Total = 3
SPECIFICATION FairSpec
INVARIANTS TypeOK OneRun StopAdmitsPushed
PROPERTIES StopEndsRun
