CONSTANTS
  Token = {t1, t2, t3}
  Imported = {}
  MaxConcurrency = 1
  MaxQuota = 0
  Request = {r1}
  TextRequest = {}
  Job = {j1}
  NoToken = NoToken
  NoProc = NoProc
  MaxAttempts = 1
  Reimport = FALSE
SYMMETRY FreshSymmetry
SPECIFICATION Spec
PROPERTIES RotationKeepsOldNames RotationOfRequestedTokenOnly
