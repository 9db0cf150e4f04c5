CONSTANTS
  Token = {t1, t2}
  Imported = {t1}
  MaxConcurrency = 1
  MaxQuota = 0
  Request = {r1}
  TextRequest = {x1}
  Job = {}
  NoToken = NoToken
  NoProc = NoProc
  MaxAttempts = 1
  Reimport = FALSE
SPECIFICATION EndlessSpec
PROPERTIES SlotEventuallyReleased TextEventuallyEnds
