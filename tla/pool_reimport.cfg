CONSTANTS
  Token = {t1}
  Imported = {t1}
  MaxConcurrency = 1
  MaxQuota = 0
  Request = {r1, r2}
  TextRequest = {}
  Job = {j1}
  NoToken = NoToken
  NoProc = NoProc
  MaxAttempts = 2
  Reimport = TRUE
SPECIFICATION Spec
INVARIANTS AccountConcurrency
