----------------------------- MODULE MCServices -----------------------------
(***************************************************************************)
(* Small instances of the services that keep state of their own beside the  *)
(* pool and the tasks, in one run: `focus` names the one that moves, the    *)
(* others stay in an initial state.                                         *)
(***************************************************************************)
EXTENDS AuthKeys, RemoteImports, ServerBearers, Backups, Gallery,
        OAuthSessions, SettingsStore, Registration

VARIABLE focus

vars == <<focus, keysVars, importsVars, bearersVars, backupsVars, galleryVars,
          sessionsVars, settingsVars, registrationVars>>

TwoAndOne == [i \in Imports |-> IF i = "i1" THEN 2 ELSE 1]

Init ==
  /\ KeysInit /\ ImportsInit /\ BearersInit /\ BackupsInit /\ GalleryInit
  /\ SessionsInit /\ SettingsInit /\ RegistrationInit
  /\ focus \in {"keys", "imports", "bearers", "backups", "gallery",
                "sessions", "settings", "registration"}
  /\ focus # "keys" => keyStore = NoItems
  /\ focus # "backups" => backupKeep = 0

Keys ==
  /\ focus = "keys" /\ KeysNext
  /\ UNCHANGED <<focus, importsVars, bearersVars, backupsVars, galleryVars,
                 sessionsVars, settingsVars, registrationVars>>

RemoteImport ==
  /\ focus = "imports" /\ ImportsNext
  /\ UNCHANGED <<focus, keysVars, bearersVars, backupsVars, galleryVars,
                 sessionsVars, settingsVars, registrationVars>>

Bearers ==
  /\ focus = "bearers" /\ BearersNext
  /\ UNCHANGED <<focus, keysVars, importsVars, backupsVars, galleryVars,
                 sessionsVars, settingsVars, registrationVars>>

Backup ==
  /\ focus = "backups" /\ BackupsNext
  /\ UNCHANGED <<focus, keysVars, importsVars, bearersVars, galleryVars,
                 sessionsVars, settingsVars, registrationVars>>

Pictures ==
  /\ focus = "gallery" /\ GalleryNext
  /\ UNCHANGED <<focus, keysVars, importsVars, bearersVars, backupsVars,
                 sessionsVars, settingsVars, registrationVars>>

Logins ==
  /\ focus = "sessions" /\ SessionsNext
  /\ UNCHANGED <<focus, keysVars, importsVars, bearersVars, backupsVars,
                 galleryVars, settingsVars, registrationVars>>

Settle ==
  /\ focus = "settings" /\ SettingsNext
  /\ UNCHANGED <<focus, keysVars, importsVars, bearersVars, backupsVars,
                 galleryVars, sessionsVars, registrationVars>>

Register ==
  /\ focus = "registration" /\ RegistrationNext
  /\ UNCHANGED <<focus, keysVars, importsVars, bearersVars, backupsVars,
                 galleryVars, sessionsVars, settingsVars>>

Next == Keys \/ RemoteImport \/ Bearers \/ Backup \/ Pictures \/ Logins \/ Settle \/ Register

Spec == Init /\ [][Next]_vars

\* The variables of the service that moves keep their types, and an import has
\* no more accounts in all than it was started with.
ServicesTypeOK ==
  CASE focus = "keys" -> KeysTypeOK
    [] focus = "imports" -> ImportsTypeOK
    [] focus = "bearers" -> BearersTypeOK
    [] focus = "backups" -> BackupsTypeOK
    [] focus = "gallery" -> GalleryTypeOK
    [] focus = "sessions" -> SessionsTypeOK
    [] focus = "settings" -> SettingsTypeOK
    [] focus = "registration" -> RegistrationTypeOK
=============================================================================
