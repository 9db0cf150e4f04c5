CONSTANTS
  Token = {t1, t2}
  Imported = {}
  MaxConcurrency = 1
  MaxQuota = 1
  Request = {r1, r2}
  TextRequest = {}
  Job = {}
  NoToken = NoToken
  NoProc = NoProc
  MaxAttempts = 2
  Reimport = FALSE
SYMMETRY FreshSymmetry
SPECIFICATION Spec
INVARIANTS TypeOK SlotLimit SlotAccounting
PROPERTIES ImplementsSemaphore
