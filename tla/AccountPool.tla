---------------------------- MODULE AccountPool ----------------------------
(***************************************************************************)
(* The account pool of services/account_service.rs: the maps behind its    *)
(* one mutex and the critical sections that change them.  Every operator   *)
(* named after a method is one critical section of that method; the        *)
(* clients that run them, with the awaits between them, are in PoolClients.*)
(***************************************************************************)
EXTENDS Integers, FiniteSets, Functions

CONSTANTS
  Token,            \* access tokens, the keys of the pool
  Imported,         \* the tokens storage holds when the process starts
  MaxConcurrency,   \* config image_account_concurrency, at least 1
  MaxQuota          \* largest remaining image quota upstream reports

ASSUME ImportedAssumption == Imported \subseteq Token
ASSUME ConcurrencyAssumption == MaxConcurrency \in Nat \ {0}
ASSUME QuotaAssumption == MaxQuota \in Nat

VARIABLES
  accounts,   \* Pool.accounts: token -> account, defined on the live tokens
  inflight,   \* Pool.image_inflight: slots taken, 0 where the map has no key
  aliases,    \* Pool.token_aliases: rotated token -> its replacement
  issued      \* every token ever imported or issued (history)

poolVars == <<accounts, inflight, aliases, issued>>

Status == {"normal", "limited", "abnormal", "disabled"}
Unknown == -1                           \* image_quota_unknown = true
Quota == (0..MaxQuota) \cup {Unknown}
Account == [status: Status, quota: Quota]

Live == DOMAIN accounts
Fresh == Token \ issued

---------------------------------------------------------------------------
(* Alias resolution.  A token no longer in the pool is forwarded to the    *)
(* token that replaced it, along the chain, to the first live token or to  *)
(* the end of the chain; on a cycle the walk stops where it started.       *)

Forwarded(t) == t \notin Live /\ t \in DOMAIN aliases

Chain(t) ==
  {u \in Token : \A S \in SUBSET Token :
      (t \in S /\ \A x \in S : Forwarded(x) => aliases[x] \in S) => u \in S}

ChainEnds(t) == {u \in Chain(t) : ~Forwarded(u)}

Resolve(t) ==
  IF ~Forwarded(t) \/ ChainEnds(t) = {} THEN t ELSE CHOOSE u \in ChainEnds(t) : TRUE

---------------------------------------------------------------------------
(* Selection, for requests that want no particular plan or source (what a   *)
(* filter adds, an account that stops matching, is a choice of the client); *)
(* the round-robin index is abstracted to "any candidate".                  *)

IsImageAccountAvailable(a) == a.status = "normal" /\ a.quota # 0

ReadyCandidates(excluded) ==
  {t \in Live \ excluded : IsImageAccountAvailable(accounts[t])}

\* Mutant: an account that is just full still counts as free.
AvailableCandidatesOffByOne(excluded) ==
  {t \in ReadyCandidates(excluded) : inflight[t] <= MaxConcurrency}

AvailableCandidates(excluded) ==
  {t \in ReadyCandidates(excluded) : inflight[t] < MaxConcurrency}

TextCandidates(excluded) ==
  {t \in Live \ excluded : accounts[t].status \notin {"disabled", "abnormal"}}

---------------------------------------------------------------------------
(* Critical sections. *)

Put(f, k, v) == [x \in DOMAIN f \cup {k} |-> IF x = k THEN v ELSE f[x]]
Drop(f, S) == Restrict(f, DOMAIN f \ S)

TakeSlot(t) ==
  /\ inflight' = [inflight EXCEPT ![t] = @ + 1]
  /\ UNCHANGED <<accounts, aliases, issued>>

\* Mutant: a release after the account was deleted goes below zero.
ReleaseImageSlotUnchecked(t) ==
  /\ inflight' = [inflight EXCEPT ![Resolve(t)] = @ - 1]
  /\ UNCHANGED <<accounts, aliases, issued>>

ReleaseImageSlot(t) ==
  /\ inflight' = [inflight EXCEPT ![Resolve(t)] = IF @ <= 1 THEN 0 ELSE @ - 1]
  /\ UNCHANGED <<accounts, aliases, issued>>

\* The common tail of update_account and mark_image_result: a rate-limited
\* account may be removed instead of stored, according to a setting that can
\* change at any time; its slots and aliases are left behind.
StoreAccount(t, a) ==
  /\ \/ accounts' = Put(accounts, t, a)
     \/ a.status = "limited" /\ accounts' = Drop(accounts, {t})
  /\ UNCHANGED <<inflight, aliases, issued>>

UpdateAccount(t, status, quota) ==
  LET u == Resolve(t) IN
  IF u \in Live
    THEN StoreAccount(u, [accounts[u] EXCEPT !.status = status, !.quota = quota])
    ELSE UNCHANGED poolVars

DeleteAccounts(S) ==
  LET gone == {Resolve(t) : t \in S} IN
  /\ accounts' = Drop(accounts, gone)
  /\ inflight' = [t \in Token |-> IF t \in gone THEN 0 ELSE inflight[t]]
  /\ aliases' = Restrict(aliases, {t \in DOMAIN aliases \ gone : aliases[t] \notin gone})
  /\ UNCHANGED issued

\* update_account with {"status": abnormal, "quota": 0}; a quota that is
\* unknown stays unknown, the flag is not part of the update.
MarkAbnormal(t) ==
  LET u == Resolve(t) IN
  IF u \in Live
    THEN UpdateAccount(u, "abnormal", IF accounts[u].quota = Unknown THEN Unknown ELSE 0)
    ELSE UNCHANGED poolVars

\* Deletes or marks, by the auto_remove_invalid_accounts setting.
RemoveInvalidToken(t) == DeleteAccounts({t}) \/ MarkAbnormal(t)

\* Any account: a bare token keeps what the pool has of it, or starts without
\* quota, and the fields of an imported account overwrite both.
AddAccount(t, a) ==
  /\ accounts' = Put(accounts, t, a)
  /\ issued' = issued \cup {t}
  /\ UNCHANGED <<inflight, aliases>>

\* A finished generation: a success consumes quota, and an exhausted account
\* becomes limited; a failure changes only counters.
AfterSuccess(a) ==
  LET left == IF a.quota = Unknown THEN Unknown ELSE IF a.quota = 0 THEN 0 ELSE a.quota - 1 IN
  [a EXCEPT !.quota = left,
            !.status = IF left = 0 THEN "limited"
                       ELSE IF @ = "limited" THEN "normal" ELSE @]

RecordImageResult(t, success) ==
  LET u == Resolve(t) IN
  IF u \in Live
    THEN StoreAccount(u, IF success THEN AfterSuccess(accounts[u]) ELSE accounts[u])
    ELSE UNCHANGED poolVars

\* Mutant: the slots stay with the old token.
ApplyRefreshedTokensLeavingSlots(t, new) ==
  LET old == Resolve(t) IN
  /\ issued' = issued \cup {new}
  /\ accounts' = IF old \in Live THEN Put(Drop(accounts, {old}), new, accounts[old]) ELSE accounts
  /\ aliases' = IF old \in Live /\ new # old THEN Put(aliases, old, new) ELSE aliases
  /\ UNCHANGED inflight

\* Mutant: the old token gets no alias.
ApplyRefreshedTokensWithoutAlias(t, new) ==
  LET old == Resolve(t) IN
  /\ issued' = issued \cup {new}
  /\ accounts' = IF old \in Live THEN Put(Drop(accounts, {old}), new, accounts[old]) ELSE accounts
  /\ UNCHANGED <<aliases, inflight>>

\* The response of the token endpoint is applied to whatever the old token
\* resolves to now; a rotated account moves with its slots.
ApplyRefreshedTokens(t, new) ==
  LET old == Resolve(t) IN
  IF old \notin Live
    THEN UNCHANGED <<accounts, inflight, aliases>> /\ issued' = issued \cup {new}
    ELSE /\ accounts' = Put(Drop(accounts, {old}), new, accounts[old])
         /\ issued' = issued \cup {new}
         /\ IF new = old
              THEN UNCHANGED <<inflight, aliases>>
              ELSE /\ aliases' = Put(aliases, old, new)
                   /\ inflight' = [inflight EXCEPT ![old] = 0,
                                                   ![new] = @ + inflight[old]]

---------------------------------------------------------------------------

PoolInit ==
  /\ accounts \in [Imported -> Account]
  /\ inflight = [t \in Token |-> 0]
  /\ aliases = [t \in {} |-> t]
  /\ issued = Imported

PoolTypeOK ==
  /\ Live \subseteq issued
  /\ \A t \in Live : accounts[t] \in Account
  /\ inflight \in [Token -> Nat]
  /\ DOMAIN aliases \subseteq Token
  /\ \A t \in DOMAIN aliases : aliases[t] \in Token
  /\ issued \subseteq Token
=============================================================================
