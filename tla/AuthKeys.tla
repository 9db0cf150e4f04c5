------------------------------ MODULE AuthKeys ------------------------------
(***************************************************************************)
(* The auth keys (services/auth_service.rs) over a storage backend          *)
(* (services/storage/): the service answers authentications from its copy   *)
(* in memory, replaces that copy by the stored keys before every            *)
(* administrative operation, and stores the whole copy again after it, and  *)
(* at most once a minute for each key that was used.  A load that fails is  *)
(* an empty list of keys; a save may fail, and a JSON file whose writing    *)
(* fails half-way cannot be read any more, which is an empty list too.  The *)
(* backends are the JSON file and the database; the git repository, which   *)
(* keeps what it could not push, is not modelled.                           *)
(***************************************************************************)
EXTENDS Naturals, FiniteSets

CONSTANTS
  KeyIds, Secrets, Names,
  AdminSecret,      \* the auth-key of the configuration
  DefaultName       \* the name of a key created without one

ASSUME KeysAssumption == AdminSecret \in Secrets /\ DefaultName \in Names

VARIABLES
  keyItems,     \* Inner.items
  keyStore,     \* the keys a load that succeeds returns
  flushed,      \* keys stored less than a minute ago (last_used_flush_at)
  keyIdsUsed,   \* ids of all keys so far
  secretsUsed,  \* secrets of all keys so far
  handedOut,    \* secrets an administrator was given or chose
  revoked,      \* secrets an administrator was told to be out of use (history)
  dropAsked,    \* keys an administrator asked to delete (history)
  blind         \* the last load or save came to nothing (history)

keysVars == <<keyItems, keyStore, flushed, keyIdsUsed, secretsUsed, handedOut, revoked,
              dropAsked, blind>>
keysHistory == <<keyIdsUsed, secretsUsed, handedOut, revoked, dropAsked>>

Roles == {"admin", "user"}
KeyItem == [name : Names, role : Roles, secret : Secrets, enabled : BOOLEAN]
Items == UNION {[ids -> KeyItem] : ids \in SUBSET KeyIds}
NoItems == [k \in {} |-> 0]

KeysTypeOK ==
  /\ keyItems \in Items /\ keyStore \in Items
  /\ flushed \subseteq KeyIds /\ keyIdsUsed \subseteq KeyIds
  /\ secretsUsed \subseteq Secrets /\ handedOut \subseteq Secrets
  /\ revoked \subseteq Secrets /\ dropAsked \subseteq KeyIds /\ blind \in BOOLEAN

\* An installation starts with no key, or with one administrator key.
KeysInit ==
  /\ \E first \in {{}} \cup {{k} : k \in KeyIds} :
       \E s \in Secrets \ {AdminSecret} :
         /\ keyStore = [k \in first |-> [name |-> DefaultName, role |-> "admin", secret |-> s,
                                         enabled |-> TRUE]]
         /\ keyIdsUsed = first
         /\ secretsUsed = (IF first = {} THEN {} ELSE {s})
  /\ keyItems = keyStore
  /\ handedOut = secretsUsed
  /\ flushed = {} /\ revoked = {} /\ dropAsked = {} /\ blind = FALSE

---------------------------------------------------------------------------
(* The backend. *)

Loaded(loads) == IF loads THEN keyStore ELSE NoItems

\* Mutant: rows of keys that are gone stay.
SavedOnTop(items, saves) ==
  keyStore' = (CASE saves = "saved" -> [k \in DOMAIN items \cup DOMAIN keyStore |->
                                          IF k \in DOMAIN items THEN items[k] ELSE keyStore[k]]
                 [] saves = "failed" -> keyStore
                 [] OTHER -> NoItems)

\* A save that fails leaves the stored keys alone, or torn.
Saved(items, saves) ==
  keyStore' = (CASE saves = "saved" -> items [] saves = "failed" -> keyStore [] OTHER -> NoItems)

Outcomes == {"saved", "failed", "torn"}

---------------------------------------------------------------------------
(* Operations.  The routes list the keys once more after a change that      *)
(* succeeded, outside the lock of the change: a ListKeys of its own.        *)

NameFree(items, name, k) == \A j \in DOMAIN items \ {k} : items[j].role = "user" => items[j].name # name

SecretFree(items, s, k) == s # AdminSecret /\ \A j \in DOMAIN items \ {k} : items[j].secret # s

\* Mutant: the keys of the same name go with it.
WithoutName(items, k) == [j \in {i \in DOMAIN items : items[i].name # items[k].name} |-> items[j]]

Without(items, k) == [j \in DOMAIN items \ {k} |-> items[j]]
With(items, k, item) == [j \in DOMAIN items \cup {k} |-> IF j = k THEN item ELSE items[j]]

ListKeys ==
  \E loads \in BOOLEAN :
    /\ keyItems' = Loaded(loads)
    /\ blind' = ~loads
    /\ UNCHANGED <<keyStore, flushed, keysHistory>>

\* create_key for the role "user": the service draws a secret nobody has; the
\* administrator is told it when the save succeeds.  A name that is taken is
\* refused, after the reload.
CreateKey ==
  \E loads \in BOOLEAN, saves \in Outcomes, name \in Names :
    LET before == Loaded(loads)
    IN \/ /\ ~NameFree(before, name, "none")
          /\ keyItems' = before
          /\ blind' = ~loads
          /\ UNCHANGED <<keyStore, flushed, keysHistory>>
       \/ /\ NameFree(before, name, "none")
          /\ \E k \in KeyIds \ keyIdsUsed : \E s \in Secrets \ (secretsUsed \cup {AdminSecret}) :
               /\ keyItems' = With(before, k, [name |-> name, role |-> "user", secret |-> s,
                                              enabled |-> TRUE])
               /\ keyIdsUsed' = keyIdsUsed \cup {k}
               /\ secretsUsed' = secretsUsed \cup {s}
               /\ handedOut' = (IF saves = "saved" THEN handedOut \cup {s} ELSE handedOut)
          /\ Saved(keyItems', saves)
          /\ blind' = (~loads \/ saves = "torn")
          /\ UNCHANGED <<flushed, revoked, dropAsked>>

\* update_key: a new name, state and secret for a key of the role "user".  What
\* is refused, or is not found, has reloaded the copy all the same; what cannot
\* be stored stays in memory.
UpdateKey ==
  \E loads \in BOOLEAN, saves \in Outcomes, k \in KeyIds :
    \E name \in Names, enabled \in BOOLEAN, s \in Secrets :
      LET before == Loaded(loads)
          found == k \in DOMAIN before /\ before[k].role = "user"
          accepted == found /\ NameFree(before, name, k) /\ SecretFree(before, s, k)
          item == [name |-> name, role |-> "user", secret |-> s, enabled |-> enabled]
          out == (IF enabled THEN {} ELSE {s}) \cup ({before[k].secret} \ {s})
      IN /\ ~found => name = DefaultName /\ enabled /\ s = AdminSecret
         /\ UNCHANGED <<flushed, keyIdsUsed, dropAsked>>
         /\ \/ /\ ~accepted
               /\ keyItems' = before
               /\ blind' = ~loads
               /\ UNCHANGED <<keyStore, secretsUsed, handedOut, revoked>>
            \/ /\ accepted
               /\ keyItems' = With(before, k, item)
               /\ Saved(keyItems', saves)
               /\ blind' = (~loads \/ saves = "torn")
               /\ secretsUsed' = secretsUsed \cup {s}
               /\ handedOut' = handedOut \cup {s}
               /\ revoked' = (revoked \ (IF enabled THEN {s} ELSE {}))
                               \cup (IF saves = "saved" THEN out ELSE {})

\* delete_key: the answer is true only when the key was found and the rest
\* could be stored.
DeleteKey ==
  \E loads \in BOOLEAN, saves \in Outcomes, k \in KeyIds :
    LET before == Loaded(loads)
        found == k \in DOMAIN before /\ before[k].role = "user"
    IN /\ dropAsked' = dropAsked \cup {k}
       /\ UNCHANGED <<flushed, keyIdsUsed, secretsUsed, handedOut>>
       /\ \/ /\ ~found
             /\ keyItems' = before
             /\ blind' = ~loads
             /\ UNCHANGED <<keyStore, revoked>>
          \/ /\ found
             /\ keyItems' = Without(before, k)
             /\ Saved(keyItems', saves)
             /\ blind' = (~loads \/ saves = "torn")
             /\ revoked' = (IF saves = "saved" THEN revoked \cup {before[k].secret} ELSE revoked)

\* require_identity: the auth-key of the configuration is looked at first, then
\* the keys in memory, which are not reloaded.
Accepts(s) ==
  s = AdminSecret \/ \E k \in DOMAIN keyItems : keyItems[k].enabled /\ keyItems[k].secret = s

\* authenticate: the copy in memory is stored unless the key was, in the last
\* minute; only a save that succeeds counts.
Authenticate ==
  \E s \in handedOut \ {AdminSecret} :
    \E k \in DOMAIN keyItems, saves \in Outcomes :
      /\ keyItems[k].enabled /\ keyItems[k].secret = s
      /\ k \notin flushed
      /\ Saved(keyItems, saves)
      /\ flushed' = (IF saves = "saved" THEN flushed \cup {k} ELSE flushed)
      /\ blind' = (saves = "torn" \/ (blind /\ saves = "failed"))
      /\ UNCHANGED <<keyItems, keysHistory>>

MinutePasses ==
  \E k \in flushed : flushed' = flushed \ {k} /\ UNCHANGED <<keyItems, keyStore, blind, keysHistory>>

KeysRestart ==
  \E loads \in BOOLEAN :
    /\ keyItems' = Loaded(loads)
    /\ blind' = ~loads
    /\ flushed' = {}
    /\ UNCHANGED <<keyStore, keysHistory>>

KeysNext ==
  \/ ListKeys \/ CreateKey \/ UpdateKey \/ DeleteKey \/ Authenticate \/ MinutePasses \/ KeysRestart

KeysSpec == KeysInit /\ [][KeysNext]_keysVars

---------------------------------------------------------------------------
(* Properties. *)

\* A secret whose key was reported deleted, disabled or replaced opens nothing
\* until an administrator asks for it again, whatever loads and saves fail and
\* however often the copy in memory is stored or replaced in between.
RevokedKeysFail == \A s \in revoked : ~Accepts(s)

\* A stored key disappears only because its deletion was asked for, or because
\* a load or a save failed: the copies that authentications store never drop
\* what an administrator created.
StoreLosesNoKey ==
  [][DOMAIN keyStore \subseteq DOMAIN keyStore' \cup dropAsked' \/ blind']_keysVars

=============================================================================
