CONSTANTS
  Task = {k1, k2}
  NoTask = NoTask
  Runner = {r1, r2}
  Retention = 1
  MaxTime = 3
  Ambiguous = {}
SPECIFICATION FairSpec
INVARIANTS TypeOK OneRunPerTask FileIsCurrent
PROPERTIES OutcomeStable EveryTaskEnds
