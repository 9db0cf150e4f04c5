CONSTANTS
  Generated = {g1, g2}
  Attached = {u1}
  PollTimeout = 2
  LongTimeout = 3
  SettleSecs = 1
  MaxBackoff = 2
  MaxImages = 2
  Budget <- OneRetryButTls
  MaxRefused = 1
  MaxLength = 4
  MaxAttempts = 2
  Images = {"a"}
  Handled = {"a"}
  Syncers = {"s1"}
  Deleters = {"d1"}
  Modes = {"local", "webdav", "both", "none"}
SPECIFICATION Spec
INVARIANTS RequestsTypeOK AttemptEndExpected SiblingsKeepResults StreamGrammar NothingMissing
PROPERTIES PollEnds RequestEnds ThumbnailsGo
CHECK_DEADLOCK FALSE
