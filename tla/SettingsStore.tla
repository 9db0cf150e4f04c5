--------------------------- MODULE SettingsStore ---------------------------
(***************************************************************************)
(* The settings (config.rs): one map in memory, which every reader of the   *)
(* program looks at, and config.json.  An update changes the map, checks    *)
(* it, and writes a copy of it to the file without the lock.  Two sections  *)
(* are told apart: image_storage, which is checked, and any other.          *)
(***************************************************************************)
EXTENDS Naturals

CONSTANTS
  Editors,       \* requests that update the settings
  PlainValues    \* values of the section that is not checked

VARIABLES
  live,          \* ConfigInner.data
  stored,        \* config.json
  saving         \* editor -> the copy it is about to write

settingsVars == <<live, stored, saving>>

\* incomplete: enabled in a mode other than none, without URL or password.
StorageValues == {"default", "complete", "incomplete"}
Settings == [storage : StorageValues, plain : PlainValues \cup {"default"}]
Defaults == [storage |-> "default", plain |-> "default"]
NoCopy == [storage |-> "none"]

SettingsTypeOK ==
  /\ live \in Settings /\ stored \in Settings
  /\ saving \in [Editors -> Settings \cup {NoCopy}]

SettingsInit ==
  /\ stored = Defaults
  /\ live = stored
  /\ saving = [e \in Editors |-> NoCopy]

\* Mutant: only a section the patch has is checked.
RejectedPatch(patch, next) ==
  patch.storage = "incomplete"

\* validate_image_storage_settings, for the map as the patch leaves it.
Rejected(patch, next) == next.storage = "incomplete"

\* update: the patch is in memory whether it is refused or not.
UpdateSettings ==
  \E e \in Editors :
    \E patch \in [storage : StorageValues \cup {"keep"}, plain : PlainValues \cup {"keep"}] :
      LET next == [key \in DOMAIN live |-> IF patch[key] = "keep" THEN live[key] ELSE patch[key]]
      IN /\ saving[e] = NoCopy
         /\ live' = next
         /\ saving' = [saving EXCEPT ![e] = IF Rejected(patch, next) THEN NoCopy ELSE next]
         /\ UNCHANGED stored

\* save: copies are written in any order; a write may fail before or after the
\* file was emptied, which reads as no settings at all.
SaveSettings ==
  \E e \in Editors :
    /\ saving[e] # NoCopy
    /\ stored' \in {saving[e], stored, Defaults}
    /\ saving' = [saving EXCEPT ![e] = NoCopy]
    /\ UNCHANGED live

\* load: with the auth key in the environment, as it does not start without one.
SettingsRestart ==
  /\ live' = stored
  /\ saving' = [e \in Editors |-> NoCopy]
  /\ UNCHANGED stored

SettingsNext == UpdateSettings \/ SaveSettings \/ SettingsRestart

SettingsSpec == SettingsInit /\ [][SettingsNext]_settingsVars

---------------------------------------------------------------------------

\* A storage section that was refused never reaches the file, although it stays
\* in memory and every later update writes the whole map.
StoredSettingsValid == stored.storage # "incomplete"
=============================================================================
