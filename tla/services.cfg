CONSTANTS
  KeyIds = {k1, k2}
  Secrets = {"root", "s1", "s2"}
  Names = {"user", "name"}
  AdminSecret = "root"
  DefaultName = "user"
  Remotes = {"v1"}
  Imports = {"i1", "i2"}
  Batch <- TwoAndOne
  MaxEdits = 1
  BearerServers = {"v1"}
  BearerCalls = {"c1", "c2"}
  MaxEntries = 2
  MaxPages = 2
  Admins = {"m1"}
  MaxObjects = 3
  Keeps = {0, 1, 2}
  Images = {"a"}
  Handled = {"a"}
  Syncers = {"s1", "s2"}
  Deleters = {"d1", "d2"}
  Modes = {"local", "webdav", "both", "none"}
  MaxSessions = 2
  MaxStarts = 4
  FinishCalls = {"f1", "f2"}
  Editors = {"e1", "e2"}
  PlainValues = {"p"}
  Registrations = {"r1", "r2"}
  NumProviders = 3
  DdgProviders = {1, 2}
  Aliases = {"x", "y"}
SPECIFICATION Spec
INVARIANTS ServicesTypeOK RevokedKeysFail RunningHasTask EditsPrevail BackupLockAccounted  DeletedImagesGone StoredSettingsValid OwnCode
PROPERTIES StoreLosesNoKey ImportAccounted RotationSpares OpenSessionsStay
CHECK_DEADLOCK FALSE
