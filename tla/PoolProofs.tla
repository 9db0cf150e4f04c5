----------------------------- MODULE PoolProofs -----------------------------
(***************************************************************************)
(* Theorems about PoolClients for every set of tokens, requests and jobs.  *)
(* TypeInv is the typing made inductive, IssuedInv says that every token   *)
(* mentioned has been issued.  SlotInv, which rests on TypeInv, carries    *)
(* the limit on slots and the lock on refreshes: a rotation moves slots to *)
(* a token nobody has used, so it cannot push a counter over the limit.    *)
(***************************************************************************)
EXTENDS PoolClients, TLAPS

---------------------------------------------------------------------------
(* The local state of one process *)

\* What a process relies on where it stands: another attempt is left when it
\* looks for a slot, and the token of its current step is one.
LocalOK(s) ==
  /\ s.pc = "acquire" => s.tries < MaxAttempts
  /\ s.pc \in {"refresh", "oauth", "info", "info2", "suspect", "condemn", "mark", "text"}
       => s.active \in Token
  /\ s.pc = "generate" => s.held \in Token
  /\ s.pc = "oauth" => s.called \in Token

GoodState(s) == s \in ProcState /\ LocalOK(s)

TypeInv == Typed /\ \A p \in Proc : LocalOK(proc[p])

\* Resolving an access token gives an access token.
LEMMA ResolveType == ASSUME NEW t \in Token PROVE Resolve(t) \in Token
<1>1. CASE ~Forwarded(t) \/ ChainEnds(t) = {}
  BY <1>1 DEF Resolve
<1>2. CASE ~(~Forwarded(t) \/ ChainEnds(t) = {})
  <2>1. Resolve(t) = CHOOSE u \in ChainEnds(t) : TRUE
    BY <1>2, Zenon DEF Resolve
  <2>2. ChainEnds(t) \subseteq Token
    BY DEF ChainEnds, Chain
  <2>3. PICK u : u \in ChainEnds(t)
    BY <1>2
  <2>4. Resolve(t) \in ChainEnds(t)
    BY <2>1, <2>3
  <2> QED BY <2>2, <2>4
<1> QED BY <1>1, <1>2

\* A field of a process can be replaced by any value of its type.
LEMMA FieldType ==
  ASSUME NEW s \in ProcState
  PROVE  /\ \A c \in PC : [s EXCEPT !.pc = c] \in ProcState
         /\ \A w \in Why : [s EXCEPT !.why = w] \in ProcState
         /\ \A t \in MaybeToken : /\ [s EXCEPT !.held = t] \in ProcState
                                  /\ [s EXCEPT !.active = t] \in ProcState
                                  /\ [s EXCEPT !.called = t] \in ProcState
         /\ \A S \in SUBSET Token : [s EXCEPT !.attempted = S] \in ProcState
         /\ \A n \in 0..MaxAttempts : [s EXCEPT !.tries = n] \in ProcState
<1>1. \A c \in PC : [s EXCEPT !.pc = c] \in ProcState
  BY SMT DEF ProcState
<1>2. \A w \in Why : [s EXCEPT !.why = w] \in ProcState
  BY SMT DEF ProcState
<1>3. \A t \in MaybeToken : [s EXCEPT !.held = t] \in ProcState
  BY SMT DEF ProcState
<1>4. \A t \in MaybeToken : [s EXCEPT !.active = t] \in ProcState
  BY SMT DEF ProcState
<1>5. \A t \in MaybeToken : [s EXCEPT !.called = t] \in ProcState
  BY SMT DEF ProcState
<1>6. \A S \in SUBSET Token : [s EXCEPT !.attempted = S] \in ProcState
  BY SMT DEF ProcState
<1>7. \A n \in 0..MaxAttempts : [s EXCEPT !.tries = n] \in ProcState
  BY SMT DEF ProcState
<1> QED BY <1>1, <1>2, <1>3, <1>4, <1>5, <1>6, <1>7

\* A process that starts over, and one that looks for a slot, is in order.
LEMMA IdleGood == GoodState(Idle) /\ GoodState(NewCall)
<1>1. Idle \in ProcState
  BY AttemptsAssumption, SMT DEF ProcState, Idle, PC, Why, MaybeToken
<1>2. NewCall \in ProcState
  BY <1>1, FieldType DEF NewCall, PC
<1>3. LocalOK(Idle) /\ LocalOK(NewCall)
  BY AttemptsAssumption, SMT DEF LocalOK, Idle, NewCall
<1> QED BY <1>1, <1>2, <1>3 DEF GoodState

\* What holds of a process in a state where all are in order.
LEMMA ProcGood ==
  ASSUME TypeInv, NEW p \in Proc
  PROVE  /\ GoodState(proc[p])
         /\ \A pcs : At(p, pcs) /\ pcs \subseteq {"refresh", "oauth", "info", "info2", "suspect",
                                               "condemn", "mark", "text"}
              => proc[p].active \in Token
BY DEF TypeInv, Typed, GoodState, LocalOK, At

\* One process moves to a state in order, the others stay: all are in order.
LEMMA SetGood ==
  ASSUME TypeInv, NEW p \in Proc, NEW s, GoodState(s), Set(p, s)
  PROVE  proc' \in [Proc -> ProcState] /\ \A q \in Proc : LocalOK(proc'[q])
BY SMT DEF TypeInv, Typed, Set, GoodState

\* A step that leaves the token and goes where nothing else is relied on.
LEMMA GoGood ==
  ASSUME TypeInv, NEW p \in Proc,
         NEW c \in {"release", "pick", "suspect", "condemn"},
         c \in {"suspect", "condemn"} => proc[p].active \in Token
  PROVE  GoodState([proc[p] EXCEPT !.pc = c])
<1>1. proc[p] \in ProcState
  BY ProcGood DEF GoodState
<1>2. [proc[p] EXCEPT !.pc = c] \in ProcState
  BY <1>1, FieldType DEF PC
<1>3. LocalOK([proc[p] EXCEPT !.pc = c])
  BY <1>1, SMT DEF LocalOK, ProcState
<1> QED BY <1>2, <1>3 DEF GoodState

\* refresh_access_token returns to each of its callers in order.
LEMMA ContinueGood ==
  ASSUME TypeInv, NEW p \in Proc, At(p, {"refresh", "oauth"}), NEW t \in Token
  PROVE  GoodState(Continue(p, t))
<1> DEFINE s == [proc[p] EXCEPT !.called = NoToken]
<1>1. proc[p] \in ProcState /\ proc[p].active \in Token
  BY ProcGood DEF GoodState
<1>2. s \in ProcState /\ s.active \in Token /\ s.attempted \cup {t} \in SUBSET Token
  <2>1. s \in ProcState
    BY <1>1, FieldType DEF MaybeToken
  <2>2. s.active = proc[p].active /\ s.attempted = proc[p].attempted
    BY <1>1, SMT DEF ProcState
  <2> QED BY <1>1, <2>1, <2>2, SMT DEF ProcState
<1> HIDE DEF s
<1> DEFINE moved(c) == [s EXCEPT !.pc = c, !.active = t]
           tried == [s EXCEPT !.pc = "text", !.active = t, !.attempted = @ \cup {t}]
<1>3. \A c \in {"info", "info2"} : GoodState(moved(c))
  <2> TAKE c \in {"info", "info2"}
  <2>1. [s EXCEPT !.pc = c] \in ProcState
    BY <1>2, FieldType DEF PC
  <2>2. moved(c) \in ProcState
    BY <2>1, FieldType DEF MaybeToken
  <2>3. LocalOK(moved(c))
    BY <1>2, SMT DEF LocalOK, ProcState
  <2> QED BY <2>2, <2>3 DEF GoodState
<1>4. \A c \in {"suspect", "condemn"} : GoodState([s EXCEPT !.pc = c])
  <2> TAKE c \in {"suspect", "condemn"}
  <2>1. [s EXCEPT !.pc = c] \in ProcState
    BY <1>2, FieldType DEF PC
  <2>2. LocalOK([s EXCEPT !.pc = c])
    BY <1>2, SMT DEF LocalOK, ProcState
  <2> QED BY <2>1, <2>2 DEF GoodState
<1>5. GoodState(tried)
  <2>1. moved("text") \in ProcState
    <3>1. [s EXCEPT !.pc = "text"] \in ProcState
      BY <1>2, FieldType DEF PC
    <3> QED BY <3>1, FieldType DEF MaybeToken
  <2>2. tried = [moved("text") EXCEPT !.attempted = s.attempted \cup {t}]
    OBVIOUS
  <2>3. tried \in ProcState
    BY <1>2, <2>1, <2>2, FieldType
  <2>4. LocalOK(tried)
    BY <1>2, SMT DEF LocalOK, ProcState
  <2> QED BY <2>3, <2>4 DEF GoodState
<1> HIDE DEF moved, tried
<1>6. CASE s.why = "preflight"
  BY <1>3, <1>6 DEF Continue, s, moved
<1>7. CASE s.why = "invalid"
  BY <1>3, <1>4, <1>7 DEF Continue, s, moved
<1>8. CASE s.why = "stream"
  BY <1>4, <1>8, IdleGood DEF Continue, s
<1>9. CASE s.why = "text"
  BY <1>5, <1>9, IdleGood DEF Continue, s, tried
<1>10. CASE s.why = "textInvalid"
  BY <1>4, <1>5, <1>10 DEF Continue, s, tried
<1>11. CASE s.why \notin {"preflight", "invalid", "stream", "text", "textInvalid"}
  BY <1>11, IdleGood DEF Continue, s
<1> QED BY <1>6, <1>7, <1>8, <1>9, <1>10, <1>11

---------------------------------------------------------------------------
(* The critical sections keep the types of the pool *)

\* The status and the quota of an account can be replaced.
LEMMA AccountField ==
  ASSUME NEW a \in Account
  PROVE  /\ \A x \in Status : [a EXCEPT !.status = x] \in Account
         /\ \A q \in Quota : [a EXCEPT !.quota = q] \in Account
BY SMT DEF Account

\* Storing an account, or removing one, keeps the map well typed.
LEMMA PutDropType ==
  ASSUME PoolTypeOK, NEW t \in Live, NEW a \in Account
  PROVE  /\ DOMAIN Put(accounts, t, a) \subseteq issued
         /\ \A u \in DOMAIN Put(accounts, t, a) : Put(accounts, t, a)[u] \in Account
         /\ DOMAIN Drop(accounts, {t}) \subseteq issued
         /\ \A u \in DOMAIN Drop(accounts, {t}) : Drop(accounts, {t})[u] \in Account
<1>1. DOMAIN Put(accounts, t, a) = Live
  BY DEF Put, Live
<1>2. \A u \in Live : Put(accounts, t, a)[u] \in Account
  BY DEF Put, Live, PoolTypeOK
<1>3. Drop(accounts, {t}) = [u \in Live \ {t} |-> accounts[u]]
  BY DEF Drop, Restrict, Live
<1> QED BY <1>1, <1>2, <1>3 DEF PoolTypeOK

LEMMA StoreAccountType ==
  ASSUME PoolTypeOK, NEW t \in Live, NEW a \in Account, StoreAccount(t, a)
  PROVE  PoolTypeOK'
<1>1. Live' \subseteq issued' /\ \A u \in Live' : accounts'[u] \in Account
  BY PutDropType DEF StoreAccount, Live
<1> QED BY <1>1 DEF PoolTypeOK, StoreAccount

LEMMA UpdateAccountType ==
  ASSUME PoolTypeOK, NEW t, NEW status \in Status, NEW quota \in Quota,
         UpdateAccount(t, status, quota)
  PROVE  PoolTypeOK'
<1> DEFINE u == Resolve(t)
           a == [accounts[u] EXCEPT !.status = status, !.quota = quota]
<1>1. CASE u \in Live
  <2>1. accounts[u] \in Account
    BY <1>1 DEF PoolTypeOK
  <2>2. [accounts[u] EXCEPT !.status = status] \in Account
    BY <2>1, AccountField
  <2>3. a \in Account
    BY <2>2, AccountField
  <2>4. StoreAccount(u, a)
    BY <1>1 DEF UpdateAccount
  <2> QED BY <1>1, <2>3, <2>4, StoreAccountType
<1>2. CASE u \notin Live
  BY <1>2 DEF UpdateAccount, PoolTypeOK, poolVars, Live
<1> QED BY <1>1, <1>2

LEMMA DeleteAccountsType ==
  ASSUME PoolTypeOK, NEW S, DeleteAccounts(S)
  PROVE  PoolTypeOK'
<1> DEFINE gone == {Resolve(t) : t \in S}
<1>1. accounts' = [u \in Live \ gone |-> accounts[u]] /\ issued' = issued
  BY DEF DeleteAccounts, Drop, Restrict, Live
<1>2. inflight' \in [Token -> Nat]
  BY DEF DeleteAccounts, PoolTypeOK
<1>3. DOMAIN aliases' \subseteq DOMAIN aliases
      /\ \A t \in DOMAIN aliases' : aliases'[t] = aliases[t]
  BY DEF DeleteAccounts, Restrict
<1> QED BY <1>1, <1>2, <1>3 DEF PoolTypeOK, Live

LEMMA RemoveInvalidTokenType ==
  ASSUME PoolTypeOK, NEW t, RemoveInvalidToken(t)
  PROVE  PoolTypeOK'
<1>1. CASE DeleteAccounts({t})
  BY <1>1, DeleteAccountsType
<1>2. CASE MarkAbnormal(t)
  <2>1. CASE Resolve(t) \in Live
    <3>1. accounts[Resolve(t)].quota \in Quota
      BY <2>1 DEF PoolTypeOK, Account
    <3>2. "abnormal" \in Status /\ Unknown \in Quota /\ 0 \in Quota
      BY QuotaAssumption DEF Status, Quota, Unknown
    <3> QED BY <1>2, <2>1, <3>1, <3>2, UpdateAccountType DEF MarkAbnormal
  <2>2. CASE Resolve(t) \notin Live
    BY <1>2, <2>2 DEF MarkAbnormal, PoolTypeOK, poolVars, Live
  <2> QED BY <2>1, <2>2
<1> QED BY <1>1, <1>2 DEF RemoveInvalidToken

LEMMA AddAccountType ==
  ASSUME PoolTypeOK, NEW t \in Token, NEW a \in Account, AddAccount(t, a)
  PROVE  PoolTypeOK'
<1>1. DOMAIN accounts' = Live \cup {t} /\ \A u \in DOMAIN accounts' : accounts'[u] \in Account
  BY DEF AddAccount, Put, PoolTypeOK, Live
<1> QED BY <1>1 DEF AddAccount, PoolTypeOK, Live

LEMMA RecordImageResultType ==
  ASSUME PoolTypeOK, NEW t, NEW success \in BOOLEAN, RecordImageResult(t, success)
  PROVE  PoolTypeOK'
<1> DEFINE u == Resolve(t)
           a == IF success THEN AfterSuccess(accounts[u]) ELSE accounts[u]
<1>1. CASE u \in Live
  <2>1. accounts[u] \in Account
    BY <1>1 DEF PoolTypeOK
  <2>2. ASSUME NEW b \in Account PROVE AfterSuccess(b) \in Account
    <3> DEFINE left == IF b.quota = Unknown THEN Unknown ELSE IF b.quota = 0 THEN 0 ELSE b.quota - 1
               next == IF left = 0 THEN "limited" ELSE IF b.status = "limited" THEN "normal" ELSE b.status
    <3>1. left \in Quota /\ next \in Status
      BY QuotaAssumption, SMT DEF Account, Quota, Unknown, Status
    <3> HIDE DEF left, next
    <3>2. [b EXCEPT !.quota = left] \in Account
      BY <3>1, AccountField
    <3>3. [[b EXCEPT !.quota = left] EXCEPT !.status = next] \in Account
      BY <3>1, <3>2, AccountField
    <3>4. AfterSuccess(b) = [[b EXCEPT !.quota = left] EXCEPT !.status = next]
      BY DEF AfterSuccess, left, next
    <3> QED BY <3>3, <3>4
  <2>3. a \in Account
    BY <2>1, <2>2
  <2> QED BY <1>1, <2>3, StoreAccountType DEF RecordImageResult
<1>2. CASE u \notin Live
  BY <1>2 DEF RecordImageResult, PoolTypeOK, poolVars, Live
<1> QED BY <1>1, <1>2

LEMMA ApplyRefreshedTokensType ==
  ASSUME PoolTypeOK, NEW t \in Token, NEW new \in Token, ApplyRefreshedTokens(t, new)
  PROVE  PoolTypeOK'
<1> DEFINE old == Resolve(t)
<1>1. old \in Token
  BY ResolveType
<1>2. CASE old \notin Live
  BY <1>2 DEF ApplyRefreshedTokens, PoolTypeOK, Live
<1>3. CASE old \in Live
  <2>0. accounts' = [u \in (Live \ {old}) \cup {new} |->
                        IF u = new THEN accounts[old] ELSE accounts[u]]
    <3>1. Drop(accounts, {old}) = [u \in Live \ {old} |-> accounts[u]]
      BY DEF Drop, Restrict, Live
    <3>2. accounts' = Put(Drop(accounts, {old}), new, accounts[old])
      BY <1>3 DEF ApplyRefreshedTokens
    <3> QED BY <3>1, <3>2 DEF Put
  <2>1. DOMAIN accounts' = (Live \ {old}) \cup {new}
        /\ \A u \in DOMAIN accounts' : accounts'[u] \in Account
    BY <1>3, <2>0 DEF PoolTypeOK
  <2>2. issued' = issued \cup {new}
    BY <1>3 DEF ApplyRefreshedTokens
  <2>3. inflight' \in [Token -> Nat]
    BY <1>1, <1>3, SMT DEF ApplyRefreshedTokens, PoolTypeOK
  <2>4. DOMAIN aliases' \subseteq Token /\ \A u \in DOMAIN aliases' : aliases'[u] \in Token
    BY <1>1, <1>3 DEF ApplyRefreshedTokens, Put, PoolTypeOK
  <2> QED BY <2>1, <2>2, <2>3, <2>4 DEF PoolTypeOK, Live
<1> QED BY <1>2, <1>3

LEMMA SlotType ==
  ASSUME PoolTypeOK, NEW t, TakeSlot(t) \/ ReleaseImageSlot(t)
  PROVE  PoolTypeOK'
BY SMT DEF TakeSlot, ReleaseImageSlot, PoolTypeOK, Live

---------------------------------------------------------------------------
(* Type correctness *)

\* What a step owes TypeInv: the pool's types, the processes, the lock.
LEMMA TypeInvStep ==
  ASSUME TypeInv, PoolTypeOK', refreshLock' \in Proc \cup {NoProc},
         NEW p \in Proc, NEW s, GoodState(s), Set(p, s)
  PROVE  TypeInv'
<1>1. proc' \in [Proc -> ProcState] /\ \A q \in Proc : LocalOK(proc'[q])
  BY SetGood
<1>2. PC' = PC /\ Why' = Why /\ MaybeToken' = MaybeToken /\ ProcState' = ProcState
  BY DEF PC, Why, MaybeToken, ProcState
<1> QED BY <1>1, <1>2 DEF TypeInv, Typed, LocalOK

LEMMA PoolUnchangedType == ASSUME PoolTypeOK, UNCHANGED poolVars PROVE PoolTypeOK'
BY DEF PoolTypeOK, poolVars, Live

LEMMA FailedFetchGood ==
  ASSUME TypeInv, NEW p \in Proc PROVE GoodState(AfterFailedFetch(p))
BY IdleGood, GoGood DEF AfterFailedFetch

LEMMA RefreshStepType ==
  ASSUME TypeInv, NEW p \in Proc,
         \/ RefreshNotNeeded(p) \/ RequestAccessTokenRefresh(p)
         \/ RefreshSucceeds(p) \/ RefreshFails(p)
  PROVE  TypeInv'
<1> USE DEF TypeInv, Typed
<1>0. proc[p] \in ProcState /\ PoolTypeOK
  BY ProcGood DEF GoodState
<1>1. CASE RefreshNotNeeded(p)
  <2>1. proc[p].active \in Token /\ At(p, {"refresh", "oauth"})
    BY <1>1, ProcGood DEF RefreshNotNeeded, At
  <2>2. Resolve(proc[p].active) \in Token
    BY <2>1, ResolveType
  <2>3. PICK t \in Token : Set(p, Continue(p, t))
    BY <1>1, <2>1, <2>2 DEF RefreshNotNeeded
  <2> QED BY <1>0, <1>1, <2>1, <2>3, ContinueGood, TypeInvStep, PoolUnchangedType
          DEF RefreshNotNeeded
<1>2. CASE RequestAccessTokenRefresh(p)
  <2> DEFINE t == Resolve(proc[p].active)
             s == [proc[p] EXCEPT !.pc = "oauth", !.called = t]
  <2>1. proc[p].active \in Token
    BY <1>2, ProcGood DEF RequestAccessTokenRefresh, At
  <2>2. t \in Token
    BY <2>1, ResolveType
  <2> HIDE DEF t
  <2>3. s \in ProcState
    <3>1. [proc[p] EXCEPT !.pc = "oauth"] \in ProcState
      BY <1>0, FieldType DEF PC
    <3> QED BY <3>1, <2>2, FieldType DEF MaybeToken
  <2>4. LocalOK(s)
    BY <1>0, <2>1, <2>2, SMT DEF LocalOK, ProcState
  <2>5. Set(p, s)
    BY <1>2 DEF RequestAccessTokenRefresh, t
  <2> HIDE DEF s
  <2> QED BY <1>0, <1>2, <2>3, <2>4, <2>5, TypeInvStep, PoolUnchangedType
          DEF RequestAccessTokenRefresh, GoodState
<1>3. CASE RefreshSucceeds(p)
  <2>1. proc[p].called \in Token /\ At(p, {"refresh", "oauth"})
    BY <1>3, <1>0 DEF RefreshSucceeds, At, LocalOK
  <2>2. Resolve(proc[p].called) \in Token
    BY <2>1, ResolveType
  <2>3. PICK new \in Token, t \in Token :
          ApplyRefreshedTokens(proc[p].called, new) /\ Set(p, Continue(p, t))
    BY <1>3, <2>1, <2>2 DEF RefreshSucceeds, Fresh
  <2>4. PoolTypeOK'
    BY <1>0, <2>1, <2>3, ApplyRefreshedTokensType
  <2> QED BY <1>3, <2>1, <2>3, <2>4, ContinueGood, TypeInvStep DEF RefreshSucceeds
<1>4. CASE RefreshFails(p)
  <2>1. proc[p].called \in Token /\ At(p, {"refresh", "oauth"})
    BY <1>4, <1>0 DEF RefreshFails, At, LocalOK
  <2> QED BY <1>0, <1>4, <2>1, ContinueGood, TypeInvStep, PoolUnchangedType DEF RefreshFails
<1> QED BY <1>1, <1>2, <1>3, <1>4

LEMMA InfoStepType ==
  ASSUME TypeInv, NEW p \in Proc,
         \/ \E info \in RemoteInfo, matches \in BOOLEAN : UserInfoArrives(p, info, matches)
         \/ UserInfoInvalid(p) \/ UserInfoFails(p)
         \/ RecordInvalidTokenSeen(p) \/ Condemn(p)
  PROVE  TypeInv'
<1> USE DEF TypeInv, Typed
<1>0. proc[p] \in ProcState /\ PoolTypeOK
  BY ProcGood DEF GoodState
<1>1. ASSUME NEW info \in RemoteInfo, NEW matches \in BOOLEAN, UserInfoArrives(p, info, matches)
      PROVE  TypeInv'
  <2> DEFINE t == Resolve(proc[p].active)
             gen == [proc[p] EXCEPT !.pc = "generate", !.why = "none", !.held = t,
                                    !.active = t, !.attempted = @ \cup {t}]
             rel == [proc[p] EXCEPT !.pc = "release", !.attempted = @ \cup {t}]
  <2>1. proc[p].active \in Token
    BY <1>1, ProcGood DEF UserInfoArrives, At
  <2>2. t \in Token
    BY <2>1, ResolveType
  <2>3. PoolTypeOK'
    <3>1. info.status \in Status /\ info.quota \in Quota
      BY DEF RemoteInfo, Status
    <3> QED BY <1>0, <1>1, <3>1, UpdateAccountType DEF UserInfoArrives
  <2> HIDE DEF t
  <2>4. proc[p].attempted \cup {t} \in SUBSET Token
    BY <1>0, <2>2, SMT DEF ProcState
  <2>5. GoodState(gen)
    <3>1. [proc[p] EXCEPT !.pc = "generate"] \in ProcState
      BY <1>0, FieldType DEF PC
    <3>2. [proc[p] EXCEPT !.pc = "generate", !.why = "none"] \in ProcState
      BY <3>1, FieldType DEF Why
    <3>3. [proc[p] EXCEPT !.pc = "generate", !.why = "none", !.held = t] \in ProcState
      BY <2>2, <3>2, FieldType DEF MaybeToken
    <3>4. [proc[p] EXCEPT !.pc = "generate", !.why = "none", !.held = t, !.active = t] \in ProcState
      BY <2>2, <3>3, FieldType DEF MaybeToken
    <3>5. gen \in ProcState
      BY <2>4, <3>4, FieldType
    <3>6. LocalOK(gen)
      BY <1>0, <2>2, SMT DEF LocalOK, ProcState
    <3> QED BY <3>5, <3>6 DEF GoodState
  <2>6. GoodState(rel)
    <3>1. [proc[p] EXCEPT !.pc = "release"] \in ProcState
      BY <1>0, FieldType DEF PC
    <3>2. rel \in ProcState
      BY <2>4, <3>1, FieldType
    <3>3. LocalOK(rel)
      BY <1>0, SMT DEF LocalOK, ProcState
    <3> QED BY <3>2, <3>3 DEF GoodState
  <2>7. GoodState([proc[p] EXCEPT !.pc = "release"])
    BY GoGood
  <2>8. Set(p, Idle) \/ Set(p, [proc[p] EXCEPT !.pc = "release"]) \/ Set(p, gen) \/ Set(p, rel)
    BY <1>1 DEF UserInfoArrives, Go, t
  <2>9. refreshLock' \in Proc \cup {NoProc}
    BY <1>1 DEF UserInfoArrives
  <2> HIDE DEF gen, rel, TypeInv, Typed
  <2> QED BY <2>3, <2>5, <2>6, <2>7, <2>8, <2>9, IdleGood, TypeInvStep
<1>2. CASE UserInfoInvalid(p)
  <2>1. proc[p].active \in Token
    BY <1>2, ProcGood DEF UserInfoInvalid, At
  <2>2. GoodState([proc[p] EXCEPT !.pc = "refresh", !.why = "invalid"])
    <3>1. [proc[p] EXCEPT !.pc = "refresh"] \in ProcState
      BY <1>0, FieldType DEF PC
    <3>2. [proc[p] EXCEPT !.pc = "refresh", !.why = "invalid"] \in ProcState
      BY <3>1, FieldType DEF Why
    <3>3. LocalOK([proc[p] EXCEPT !.pc = "refresh", !.why = "invalid"])
      BY <1>0, <2>1, SMT DEF LocalOK, ProcState
    <3> QED BY <3>2, <3>3 DEF GoodState
  <2> QED BY <1>0, <1>2, <2>1, <2>2, GoGood, TypeInvStep, PoolUnchangedType
          DEF UserInfoInvalid, Go
<1>3. CASE UserInfoFails(p)
  BY <1>0, <1>3, FailedFetchGood, TypeInvStep, PoolUnchangedType DEF UserInfoFails
<1>4. CASE RecordInvalidTokenSeen(p)
  <2>1. proc[p].active \in Token
    BY <1>4, ProcGood DEF RecordInvalidTokenSeen, At
  <2> QED BY <1>0, <1>4, <2>1, GoGood, FailedFetchGood, TypeInvStep, PoolUnchangedType
          DEF RecordInvalidTokenSeen, Go
<1>5. CASE Condemn(p)
  <2>1. PoolTypeOK'
    BY <1>0, <1>5, RemoveInvalidTokenType DEF Condemn
  <2>2. \/ Set(p, NewCall) \/ Set(p, [proc[p] EXCEPT !.pc = "pick"])
        \/ Set(p, AfterFailedFetch(p))
    BY <1>5 DEF Condemn, Go
  <2> QED BY <1>5, <2>1, <2>2, IdleGood, GoGood, FailedFetchGood, TypeInvStep DEF Condemn
<1> QED BY <1>1, <1>2, <1>3, <1>4, <1>5

LEMMA ImageStepType ==
  ASSUME TypeInv, NEW r \in Request, StartRequest(r) \/ ImageStep(r)
  PROVE  TypeInv'
<1> USE DEF TypeInv, Typed
<1>0. r \in Proc /\ proc[r] \in ProcState /\ LocalOK(proc[r]) /\ PoolTypeOK
  BY ProcGood DEF GoodState, Proc
<1>1. CASE StartRequest(r)
  BY <1>0, <1>1, IdleGood, TypeInvStep, PoolUnchangedType DEF StartRequest
<1>2. CASE NoAccountReady(r)
  BY <1>0, <1>2, IdleGood, TypeInvStep, PoolUnchangedType DEF NoAccountReady
<1>3. CASE AcquireNextCandidateToken(r)
  <2>1. PICK t \in AvailableCandidates(proc[r].attempted) :
          /\ TakeSlot(t)
          /\ Set(r, [proc[r] EXCEPT !.pc = "refresh", !.why = "preflight",
                                    !.held = t, !.active = t,
                                    !.attempted = @ \cup {t}, !.tries = @ + 1])
    BY <1>3 DEF AcquireNextCandidateToken
  <2>2. t \in Token
    BY <1>0 DEF AvailableCandidates, ReadyCandidates, PoolTypeOK
  <2>3. proc[r].attempted \cup {t} \in SUBSET Token /\ proc[r].tries + 1 \in 0..MaxAttempts
    BY <1>0, <1>3, <2>2, AttemptsAssumption, SMT DEF ProcState, LocalOK, AcquireNextCandidateToken, At
  <2> DEFINE s == [proc[r] EXCEPT !.pc = "refresh", !.why = "preflight",
                                  !.held = t, !.active = t,
                                  !.attempted = @ \cup {t}, !.tries = @ + 1]
  <2>4. s \in ProcState
    <3>1. [proc[r] EXCEPT !.pc = "refresh"] \in ProcState
      BY <1>0, FieldType DEF PC
    <3>2. [proc[r] EXCEPT !.pc = "refresh", !.why = "preflight"] \in ProcState
      BY <3>1, FieldType DEF Why
    <3>3. [proc[r] EXCEPT !.pc = "refresh", !.why = "preflight", !.held = t] \in ProcState
      BY <2>2, <3>2, FieldType DEF MaybeToken
    <3>4. [proc[r] EXCEPT !.pc = "refresh", !.why = "preflight", !.held = t, !.active = t]
            \in ProcState
      BY <2>2, <3>3, FieldType DEF MaybeToken
    <3>5. [proc[r] EXCEPT !.pc = "refresh", !.why = "preflight", !.held = t, !.active = t,
                          !.attempted = @ \cup {t}] \in ProcState
      BY <2>3, <3>4, FieldType
    <3> QED BY <2>3, <3>5, FieldType
  <2>5. LocalOK(s)
    BY <1>0, <2>2, SMT DEF LocalOK, ProcState
  <2>6. PoolTypeOK'
    BY <1>0, <2>1, SlotType
  <2>7. Set(r, s)
    BY <2>1
  <2> HIDE DEF s, TypeInv, Typed
  <2> QED BY <1>0, <1>3, <2>4, <2>5, <2>6, <2>7, TypeInvStep
          DEF AcquireNextCandidateToken, GoodState, TypeInv, Typed
<1>4. CASE ReleaseAfterCheck(r)
  <2> DEFINE s == [NewCall EXCEPT !.attempted = proc[r].attempted, !.tries = proc[r].tries]
  <2>1. s \in ProcState
    <3>1. proc[r].attempted \in SUBSET Token /\ proc[r].tries \in 0..MaxAttempts
      BY <1>0, SMT DEF ProcState
    <3>2. [NewCall EXCEPT !.attempted = proc[r].attempted] \in ProcState
      BY <3>1, IdleGood, FieldType DEF GoodState
    <3> QED BY <3>1, <3>2, FieldType
  <2>2. proc[r].tries # MaxAttempts => LocalOK(s)
    BY <1>0, IdleGood, AttemptsAssumption, SMT DEF LocalOK, ProcState, NewCall, Idle, GoodState
  <2>3. PoolTypeOK'
    BY <1>0, <1>4, SlotType DEF ReleaseAfterCheck
  <2>4. \/ Set(r, Idle)
        \/ proc[r].tries # MaxAttempts /\ Set(r, s)
    BY <1>4 DEF ReleaseAfterCheck
  <2> HIDE DEF s
  <2> QED BY <1>0, <1>4, <2>1, <2>2, <2>3, <2>4, IdleGood, TypeInvStep
          DEF ReleaseAfterCheck, GoodState
<1>5. ASSUME NEW outcome \in {"success", "failure", "retry", "invalid"}, GenerationEnds(r, outcome)
      PROVE  TypeInv'
  <2> DEFINE s == [Idle EXCEPT !.pc = "mark", !.why = outcome, !.active = proc[r].held]
  <2>1. proc[r].held \in Token
    BY <1>0, <1>5 DEF GenerationEnds, At, LocalOK
  <2>2. s \in ProcState
    <3>1. [Idle EXCEPT !.pc = "mark"] \in ProcState
      BY IdleGood, FieldType DEF GoodState, PC
    <3>2. [Idle EXCEPT !.pc = "mark", !.why = outcome] \in ProcState
      BY <3>1, FieldType DEF Why
    <3> QED BY <2>1, <3>2, FieldType DEF MaybeToken
  <2>3. LocalOK(s)
    BY <2>1, SMT DEF LocalOK, Idle
  <2>4. PoolTypeOK'
    BY <1>0, <1>5, SlotType DEF GenerationEnds
  <2>5. Set(r, s)
    BY <1>5 DEF GenerationEnds
  <2> HIDE DEF s
  <2> QED BY <1>0, <1>5, <2>2, <2>3, <2>4, <2>5, TypeInvStep DEF GenerationEnds, GoodState
<1>6. CASE MarkImageResult(r)
  <2> DEFINE s == [proc[r] EXCEPT !.pc = "refresh", !.why = "stream"]
  <2>1. proc[r].active \in Token
    BY <1>0, <1>6, ProcGood DEF MarkImageResult, At
  <2>2. s \in ProcState
    <3>1. [proc[r] EXCEPT !.pc = "refresh"] \in ProcState
      BY <1>0, FieldType DEF PC
    <3> QED BY <3>1, FieldType DEF Why
  <2>3. LocalOK(s)
    BY <1>0, <2>1, SMT DEF LocalOK, ProcState
  <2>4. PoolTypeOK'
    BY <1>0, <1>6, RecordImageResultType DEF MarkImageResult
  <2>5. Set(r, NewCall) \/ Set(r, s) \/ Set(r, Idle)
    BY <1>6 DEF MarkImageResult
  <2> HIDE DEF s
  <2> QED BY <1>0, <1>6, <2>2, <2>3, <2>4, <2>5, IdleGood, TypeInvStep
          DEF MarkImageResult, GoodState
<1> QED BY <1>1, <1>2, <1>3, <1>4, <1>5, <1>6 DEF ImageStep

\* A process that starts at, or goes back to, a step that only needs its token.
LEMMA StartGood ==
  ASSUME NEW c \in {"refresh", "text"}, NEW w \in Why, NEW s \in ProcState, NEW t \in Token
  PROVE  GoodState([s EXCEPT !.pc = c, !.why = w, !.active = t])
<1>1. [s EXCEPT !.pc = c] \in ProcState
  BY FieldType DEF PC
<1>2. [s EXCEPT !.pc = c, !.why = w] \in ProcState
  BY <1>1, FieldType
<1>3. [s EXCEPT !.pc = c, !.why = w, !.active = t] \in ProcState
  BY <1>2, FieldType DEF MaybeToken
<1>4. LocalOK([s EXCEPT !.pc = c, !.why = w, !.active = t])
  BY SMT DEF LocalOK, ProcState
<1> QED BY <1>3, <1>4 DEF GoodState

LEMMA TextStepType ==
  ASSUME TypeInv, NEW x \in TextRequest, StartText(x) \/ TextStep(x)
  PROVE  TypeInv'
<1> USE DEF TypeInv, Typed
<1>0. x \in Proc /\ proc[x] \in ProcState /\ PoolTypeOK
  BY ProcGood DEF GoodState, Proc
<1>1. CASE StartText(x)
  <2>1. [Idle EXCEPT !.pc = "pick"] \in ProcState
    BY IdleGood, FieldType DEF GoodState, PC
  <2>2. LocalOK([Idle EXCEPT !.pc = "pick"])
    BY SMT DEF LocalOK, Idle
  <2> QED BY <1>0, <1>1, <2>1, <2>2, TypeInvStep, PoolUnchangedType DEF StartText, GoodState
<1>2. CASE GetTextAccessToken(x)
  <2>1. CASE Set(x, Idle)
    BY <1>0, <1>2, <2>1, IdleGood, TypeInvStep, PoolUnchangedType DEF GetTextAccessToken
  <2>2. ASSUME NEW t \in TextCandidates(proc[x].attempted),
               Set(x, [proc[x] EXCEPT !.pc = "refresh", !.why = "text", !.active = t])
        PROVE  TypeInv'
    <3>1. t \in Token
      BY <1>0 DEF TextCandidates, PoolTypeOK
    <3>2. GoodState([proc[x] EXCEPT !.pc = "refresh", !.why = "text", !.active = t])
      BY <1>0, <3>1, StartGood DEF Why
    <3> QED BY <1>0, <1>2, <2>2, <3>2, TypeInvStep, PoolUnchangedType DEF GetTextAccessToken
  <2> QED BY <1>2, <2>1, <2>2 DEF GetTextAccessToken
<1>3. CASE TextEnds(x)
  BY <1>0, <1>3, IdleGood, TypeInvStep, PoolUnchangedType DEF TextEnds
<1>4. CASE TextTokenInvalid(x)
  <2>1. proc[x].active \in Token
    BY <1>0, <1>4, ProcGood DEF TextTokenInvalid, At
  <2>2. [proc[x] EXCEPT !.pc = "refresh"] \in ProcState
    BY <1>0, FieldType DEF PC
  <2>3. [proc[x] EXCEPT !.pc = "refresh", !.why = "textInvalid"] \in ProcState
    BY <2>2, FieldType DEF Why
  <2>4. LocalOK([proc[x] EXCEPT !.pc = "refresh", !.why = "textInvalid"])
    BY <1>0, <2>1, SMT DEF LocalOK, ProcState
  <2> QED BY <1>0, <1>4, <2>3, <2>4, TypeInvStep, PoolUnchangedType DEF TextTokenInvalid, GoodState
<1> QED BY <1>1, <1>2, <1>3, <1>4 DEF TextStep

LEMMA JobStepType ==
  ASSUME TypeInv, NEW j \in Job, StartRefreshJob(j) \/ StartKeepalive(j)
  PROVE  TypeInv'
<1> USE DEF TypeInv, Typed
<1>0. j \in Proc /\ PoolTypeOK /\ Idle \in ProcState
  BY IdleGood DEF GoodState, Proc
<1>1. PICK t \in Token, w \in Why :
        Set(j, [Idle EXCEPT !.pc = "refresh", !.why = w, !.active = t])
  <2>1. \A t \in issued : t \in Token /\ Resolve(t) \in Token
    BY <1>0, ResolveType DEF PoolTypeOK
  <2>2. "preflight" \in Why /\ "keepalive" \in Why
    BY DEF Why
  <2> QED BY <2>1, <2>2 DEF StartRefreshJob, StartKeepalive
<1>2. GoodState([Idle EXCEPT !.pc = "refresh", !.why = w, !.active = t])
  BY <1>0, StartGood
<1> QED BY <1>0, <1>1, <1>2, TypeInvStep, PoolUnchangedType DEF StartRefreshJob, StartKeepalive

LEMMA AdminStepType ==
  ASSUME TypeInv, AdminAdds \/ AdminDeletes \/ AdminEdits
  PROVE  TypeInv'
<1>0. PoolTypeOK
  BY DEF TypeInv, Typed
<1>1. ASSUME AdminAdds PROVE PoolTypeOK'
  <2>1. PICK t \in Token, a \in Account : AddAccount(t, a)
    BY <1>0, <1>1 DEF AdminAdds, Fresh, PoolTypeOK
  <2> QED BY <1>0, <2>1, AddAccountType
<1>2. ASSUME AdminDeletes PROVE PoolTypeOK'
  BY <1>0, <1>2, DeleteAccountsType DEF AdminDeletes
<1>3. ASSUME AdminEdits PROVE PoolTypeOK'
  <2>1. PICK t \in Live, status \in Status, quota \in 0..MaxQuota :
          UpdateAccount(t, status, IF accounts[t].quota = Unknown THEN Unknown ELSE quota)
    BY <1>3 DEF AdminEdits
  <2>2. (IF accounts[t].quota = Unknown THEN Unknown ELSE quota) \in Quota
    BY DEF Quota
  <2>3. t \in Token
    BY <1>0 DEF PoolTypeOK
  <2> QED BY <1>0, <2>1, <2>2, <2>3, UpdateAccountType
<1>4. UNCHANGED <<proc, refreshLock>>
  BY DEF AdminAdds, AdminDeletes, AdminEdits
<1> QED BY <1>1, <1>2, <1>3, <1>4 DEF TypeInv, Typed, LocalOK, ProcState, PC, Why, MaybeToken

LEMMA RestartType == ASSUME TypeInv, Restart PROVE TypeInv'
<1>1. PoolTypeOK'
  BY DEF TypeInv, Typed, PoolTypeOK, Restart, Live
<1>2. proc' = [p \in Proc |-> Idle] /\ refreshLock' = NoProc
  BY DEF Restart
<1> QED BY <1>1, <1>2, IdleGood
        DEF TypeInv, Typed, GoodState, LocalOK, ProcState, PC, Why, MaybeToken

LEMMA TypeInvInit == ASSUME Init PROVE TypeInv
<1>1. PoolTypeOK
  BY ImportedAssumption DEF Init, PoolInit, PoolTypeOK, Live
<1> QED BY <1>1, IdleGood DEF Init, TypeInv, Typed, GoodState

LEMMA TypeInvNext == ASSUME TypeInv, [Next]_vars PROVE TypeInv'
<1>1. CASE UNCHANGED vars
  BY <1>1 DEF vars, TypeInv, Typed, PoolTypeOK, Live, LocalOK, ProcState, PC, Why, MaybeToken
<1>2. CASE Next
  <2>1. ASSUME NEW p \in Proc, Refreshing(p) \/ Working(p) PROVE TypeInv'
    <3>1. CASE RefreshNotNeeded(p) \/ RequestAccessTokenRefresh(p)
               \/ RefreshSucceeds(p) \/ RefreshFails(p)
      BY <3>1, RefreshStepType
    <3>2. CASE \/ \E info \in RemoteInfo, matches \in BOOLEAN : UserInfoArrives(p, info, matches)
               \/ UserInfoInvalid(p) \/ UserInfoFails(p)
               \/ RecordInvalidTokenSeen(p) \/ Condemn(p)
      BY <3>2, InfoStepType
    <3> QED BY <2>1, <3>1, <3>2 DEF Refreshing, Working
  <2> QED BY <1>2, <2>1, ImageStepType, TextStepType, JobStepType, AdminStepType, RestartType
          DEF Next
<1> QED BY <1>1, <1>2

LEMMA TypeInvAlways == Spec => []TypeInv
<1>1. Init => TypeInv
  BY TypeInvInit
<1>2. TypeInv /\ [Next]_vars => TypeInv'
  BY TypeInvNext
<1> QED BY <1>1, <1>2, PTL DEF Spec

---------------------------------------------------------------------------
(* The limit on slots and the lock on refreshes, as long as nobody imports *)
(* a token the pool has already seen.                                      *)

\* No counter is over the limit, a token that was never issued has no slots
\* (so a rotation starts its new name from zero), and a token that has been
\* replaced is not in the pool.
PoolSlots ==
  /\ SlotLimit
  /\ \A t \in Fresh : inflight[t] = 0
  /\ DOMAIN aliases \subseteq issued \ Live

\* One request to the token endpoint at a time, and the token it was made for
\* is not replaced while it is out.
LockInv ==
  \A p \in Proc : At(p, {"oauth"}) => refreshLock = p /\ proc[p].called \notin DOMAIN aliases

SlotInv == PoolSlots /\ LockInv

\* What most critical sections do: no account, alias or slot is added.
Shrinks ==
  /\ Live' \subseteq Live
  /\ issued' = issued
  /\ DOMAIN aliases' \subseteq DOMAIN aliases
  /\ \A t \in DOMAIN aliases' : aliases'[t] = aliases[t]
  /\ \A t \in Token : inflight'[t] \in Nat /\ inflight'[t] <= inflight[t]

LEMMA ShrinksSlots ==
  ASSUME PoolTypeOK, PoolSlots, Shrinks PROVE PoolSlots'
<1>1. SlotLimit'
  BY ConcurrencyAssumption, SMT DEF PoolSlots, SlotLimit, Shrinks, PoolTypeOK
<1>2. \A t \in Fresh' : inflight'[t] = 0
  <2> SUFFICES ASSUME NEW t \in Fresh' PROVE inflight'[t] = 0
    OBVIOUS
  <2>1. t \in Token /\ t \in Fresh
    BY DEF Shrinks, Fresh
  <2> QED BY <2>1, SMT DEF PoolSlots, Shrinks
<1>3. (DOMAIN aliases)' \subseteq issued' \ Live'
  BY DEF PoolSlots, Shrinks
<1> QED BY <1>1, <1>2, <1>3 DEF PoolSlots

LEMMA UnchangedShrinks == ASSUME PoolTypeOK, UNCHANGED poolVars PROVE Shrinks
BY SMT DEF PoolTypeOK, poolVars, Shrinks, Live

LEMMA ReleaseShrinks == ASSUME PoolTypeOK, NEW t, ReleaseImageSlot(t) PROVE Shrinks
BY SMT DEF PoolTypeOK, ReleaseImageSlot, Shrinks, Live

LEMMA StoreShrinks ==
  ASSUME PoolTypeOK, NEW t \in Live, NEW a, StoreAccount(t, a) PROVE Shrinks
<1>1. DOMAIN accounts' \subseteq DOMAIN accounts
  BY DEF StoreAccount, Put, Drop, Restrict, Live
<1> QED BY <1>1, SMT DEF PoolTypeOK, StoreAccount, Shrinks, Live

LEMMA UpdateShrinks ==
  ASSUME PoolTypeOK, NEW t, NEW status, NEW quota, UpdateAccount(t, status, quota)
  PROVE  Shrinks
BY StoreShrinks, UnchangedShrinks DEF UpdateAccount

LEMMA DeleteShrinks == ASSUME PoolTypeOK, NEW S, DeleteAccounts(S) PROVE Shrinks
<1>1. /\ DOMAIN accounts' \subseteq DOMAIN accounts
      /\ DOMAIN aliases' \subseteq DOMAIN aliases
      /\ \A t \in DOMAIN aliases' : aliases'[t] = aliases[t]
  BY DEF DeleteAccounts, Drop, Restrict
<1>2. \A t \in Token : inflight'[t] \in Nat /\ inflight'[t] <= inflight[t]
  BY SMT DEF DeleteAccounts, PoolTypeOK
<1> QED BY <1>1, <1>2 DEF DeleteAccounts, Shrinks, Live

LEMMA RemoveInvalidTokenShrinks ==
  ASSUME PoolTypeOK, NEW t, RemoveInvalidToken(t) PROVE Shrinks
BY DeleteShrinks, UpdateShrinks, UnchangedShrinks DEF RemoveInvalidToken, MarkAbnormal

LEMMA RecordShrinks ==
  ASSUME PoolTypeOK, NEW t, NEW success, RecordImageResult(t, success) PROVE Shrinks
BY StoreShrinks, UnchangedShrinks DEF RecordImageResult

---------------------------------------------------------------------------
(* Every token that is mentioned has been issued.                          *)

PoolNames ==
  /\ \A t \in DOMAIN aliases : t \in issued /\ aliases[t] \in issued
  /\ \A t \in Fresh : inflight[t] = 0

IssuedInv == PoolNames /\ \A p \in Proc : Known(proc[p]) \subseteq issued

\* Resolving an issued token gives an issued token: no alias leads elsewhere.
LEMMA ResolveIssued ==
  ASSUME PoolTypeOK, PoolNames, NEW t \in issued PROVE Resolve(t) \in issued
<1>1. CASE ~Forwarded(t) \/ ChainEnds(t) = {}
  BY <1>1 DEF Resolve
<1>2. CASE ~(~Forwarded(t) \/ ChainEnds(t) = {})
  <2>1. Resolve(t) = CHOOSE u \in ChainEnds(t) : TRUE
    BY <1>2, Zenon DEF Resolve
  <2>2. Resolve(t) \in Chain(t)
    BY <1>2, <2>1 DEF ChainEnds
  <2>3. issued \in SUBSET Token /\ \A x \in issued : Forwarded(x) => aliases[x] \in issued
    BY DEF PoolTypeOK, PoolNames, Forwarded
  <2> QED BY <2>2, <2>3 DEF Chain
<1> QED BY <1>1, <1>2

LEMMA ShrinksNames == ASSUME PoolTypeOK, PoolNames, Shrinks PROVE PoolNames'
<1>1. \A t \in DOMAIN aliases' : t \in issued' /\ aliases'[t] \in issued'
  BY DEF PoolNames, Shrinks
<1>2. ASSUME NEW t \in Fresh' PROVE inflight'[t] = 0
  <2>1. t \in Token /\ t \in Fresh
    BY <1>2 DEF Shrinks, Fresh
  <2>2. inflight[t] = 0 /\ inflight'[t] \in Nat /\ inflight'[t] <= inflight[t]
    BY <2>1 DEF PoolNames, Shrinks
  <2> QED BY <2>2, SMT
<1> QED BY <1>1, <1>2 DEF PoolNames

\* What a process knows of after a field of it is replaced.
LEMMA FieldKnown ==
  ASSUME NEW s \in ProcState, NEW K, Known(s) \subseteq K
  PROVE  /\ \A c : Known([s EXCEPT !.pc = c]) \subseteq K
         /\ \A w : Known([s EXCEPT !.why = w]) \subseteq K
         /\ \A n : Known([s EXCEPT !.tries = n]) \subseteq K
         /\ \A t \in K \cup {NoToken} : /\ Known([s EXCEPT !.held = t]) \subseteq K
                                        /\ Known([s EXCEPT !.active = t]) \subseteq K
                                        /\ Known([s EXCEPT !.called = t]) \subseteq K
         /\ \A S \in SUBSET K : Known([s EXCEPT !.attempted = S]) \subseteq K
<1>1. \A c : Known([s EXCEPT !.pc = c]) \subseteq K
  BY SMT DEF ProcState, Known
<1>2. \A w : Known([s EXCEPT !.why = w]) \subseteq K
  BY SMT DEF ProcState, Known
<1>3. \A n : Known([s EXCEPT !.tries = n]) \subseteq K
  BY SMT DEF ProcState, Known
<1>4. \A t \in K \cup {NoToken} : Known([s EXCEPT !.held = t]) \subseteq K
  BY SMT DEF ProcState, Known
<1>5. \A t \in K \cup {NoToken} : Known([s EXCEPT !.active = t]) \subseteq K
  BY SMT DEF ProcState, Known
<1>6. \A t \in K \cup {NoToken} : Known([s EXCEPT !.called = t]) \subseteq K
  BY SMT DEF ProcState, Known
<1>7. \A S \in SUBSET K : Known([s EXCEPT !.attempted = S]) \subseteq K
  BY SMT DEF ProcState, Known
<1> QED BY <1>1, <1>2, <1>3, <1>4, <1>5, <1>6, <1>7

\* A process that starts over knows of no token.
LEMMA IdleKnown ==
  Known(Idle) = {} /\ Known(NewCall) = {} /\ Known([Idle EXCEPT !.pc = "pick"]) = {}
BY SMT DEF Known, Idle, NewCall

\* The token of the current step has been issued.
LEMMA ActiveIssued ==
  ASSUME TypeInv, IssuedInv, NEW p \in Proc
  PROVE  /\ proc[p] \in ProcState /\ PoolTypeOK /\ Known(proc[p]) \subseteq issued
         /\ proc[p].attempted \subseteq issued
         /\ proc[p].held \in issued \cup {NoToken}
         /\ proc[p].active \in issued \cup {NoToken}
         /\ \A pcs : At(p, pcs) /\ pcs \subseteq {"refresh", "oauth", "info", "info2", "suspect",
                                               "condemn", "mark", "text"}
              => proc[p].active \in issued
         /\ At(p, {"oauth"}) => proc[p].called \in issued
<1>1. proc[p] \in ProcState /\ PoolTypeOK /\ Known(proc[p]) \subseteq issued
  BY ProcGood DEF TypeInv, Typed, IssuedInv, GoodState
<1>2. /\ proc[p].attempted \subseteq issued
      /\ proc[p].held \in issued \cup {NoToken}
      /\ proc[p].active \in issued \cup {NoToken}
      /\ proc[p].called \in issued \cup {NoToken}
  BY <1>1 DEF Known
<1>3. At(p, {"oauth"}) => proc[p].called \in Token
  BY DEF TypeInv, LocalOK, At
<1> QED BY <1>1, <1>2, <1>3, ProcGood, NoTokenAssumption

\* One process moves, knowing of issued tokens only, and the pool is in order.
LEMMA NamesStep ==
  ASSUME TypeInv, IssuedInv, PoolNames', issued \subseteq issued',
         NEW p \in Proc, NEW s, Set(p, s), Known(s) \subseteq issued'
  PROVE  IssuedInv'
<1>1. \A q \in Proc : Known(proc'[q]) \subseteq issued'
  <2> TAKE q \in Proc
  <2>1. CASE q = p
    BY <2>1 DEF TypeInv, Typed, Set
  <2>2. CASE q # p
    <3>1. proc'[q] = proc[q]
      BY <2>2 DEF TypeInv, Typed, Set
    <3> QED BY <3>1 DEF IssuedInv
  <2> QED BY <2>1, <2>2
<1> QED BY <1>1 DEF IssuedInv, Known

\* The same, for a step that adds no slot, account or alias.
LEMMA QuietNames ==
  ASSUME TypeInv, IssuedInv, Shrinks,
         NEW p \in Proc, NEW s, Set(p, s), Known(s) \subseteq issued
  PROVE  IssuedInv'
BY NamesStep, ShrinksNames DEF IssuedInv, Shrinks, TypeInv, Typed

\* refresh_access_token gives its callers the token it returns and no other.
LEMMA ContinueKnown ==
  ASSUME TypeInv, NEW p \in Proc, NEW K, Known(proc[p]) \subseteq K, NEW t \in Token, t \in K
  PROVE  Known(Continue(p, t)) \subseteq K
<1> DEFINE s == [proc[p] EXCEPT !.called = NoToken]
<1>1. proc[p] \in ProcState
  BY ProcGood DEF GoodState
<1>2. s \in ProcState /\ Known(s) \subseteq K
  BY <1>1, FieldType, FieldKnown DEF MaybeToken
<1>3. s.attempted \cup {t} \in SUBSET K /\ t \in K \cup {NoToken}
  BY <1>2 DEF Known
<1> HIDE DEF s
<1> DEFINE moved(c) == [s EXCEPT !.pc = c, !.active = t]
           tried == [s EXCEPT !.pc = "text", !.active = t, !.attempted = @ \cup {t}]
<1>4. \A c \in PC : Known([s EXCEPT !.pc = c]) \subseteq K /\ Known(moved(c)) \subseteq K
  <2> TAKE c \in PC
  <2>1. [s EXCEPT !.pc = c] \in ProcState /\ Known([s EXCEPT !.pc = c]) \subseteq K
    BY <1>2, FieldType, FieldKnown
  <2> QED BY <1>3, <2>1, FieldKnown
<1>5. Known(tried) \subseteq K
  <2>1. [s EXCEPT !.pc = "text"] \in ProcState /\ Known([s EXCEPT !.pc = "text"]) \subseteq K
    BY <1>2, FieldType, FieldKnown DEF PC
  <2>2. moved("text") \in ProcState /\ Known(moved("text")) \subseteq K
    BY <1>3, <2>1, FieldType, FieldKnown DEF MaybeToken
  <2>3. tried = [moved("text") EXCEPT !.attempted = s.attempted \cup {t}]
    OBVIOUS
  <2> HIDE DEF moved
  <2> QED BY <1>3, <2>2, <2>3, FieldKnown
<1>6. {"info", "info2", "suspect", "condemn"} \subseteq PC
  BY DEF PC
<1> HIDE DEF moved, tried
<1>7. CASE s.why = "preflight"
  BY <1>4, <1>6, <1>7 DEF Continue, s, moved
<1>8. CASE s.why = "invalid"
  BY <1>4, <1>6, <1>8 DEF Continue, s, moved
<1>9. CASE s.why = "stream"
  BY <1>4, <1>6, <1>9, IdleKnown DEF Continue, s
<1>10. CASE s.why = "text"
  BY <1>5, <1>10, IdleKnown DEF Continue, s, tried
<1>11. CASE s.why = "textInvalid"
  BY <1>4, <1>5, <1>6, <1>11 DEF Continue, s, tried
<1>12. CASE s.why \notin {"preflight", "invalid", "stream", "text", "textInvalid"}
  BY <1>12, IdleKnown DEF Continue, s
<1> QED BY <1>7, <1>8, <1>9, <1>10, <1>11, <1>12

LEMMA RefreshStepNames ==
  ASSUME TypeInv, IssuedInv, NEW p \in Proc,
         \/ RefreshNotNeeded(p) \/ RequestAccessTokenRefresh(p)
         \/ RefreshSucceeds(p) \/ RefreshFails(p)
  PROVE  IssuedInv'
<1>0. /\ proc[p] \in ProcState /\ PoolTypeOK /\ PoolNames /\ Known(proc[p]) \subseteq issued
      /\ Live \subseteq issued /\ issued \subseteq Token
  BY ActiveIssued DEF IssuedInv, PoolTypeOK
<1>1. CASE RefreshNotNeeded(p)
  <2>1. PICK t \in issued : Set(p, Continue(p, t))
    BY <1>0, <1>1, ActiveIssued DEF RefreshNotNeeded
  <2> QED BY <1>0, <1>1, <2>1, ContinueKnown, QuietNames, UnchangedShrinks DEF RefreshNotNeeded
<1>2. CASE RequestAccessTokenRefresh(p)
  <2>1. PICK t \in issued : Set(p, [proc[p] EXCEPT !.pc = "oauth", !.called = t])
    BY <1>0, <1>2 DEF RequestAccessTokenRefresh
  <2>2. [proc[p] EXCEPT !.pc = "oauth"] \in ProcState
        /\ Known([proc[p] EXCEPT !.pc = "oauth"]) \subseteq issued
    BY <1>0, FieldType, FieldKnown DEF PC
  <2>3. Known([proc[p] EXCEPT !.pc = "oauth", !.called = t]) \subseteq issued
    BY <2>2, FieldKnown
  <2> QED BY <1>0, <1>2, <2>1, <2>3, QuietNames, UnchangedShrinks DEF RequestAccessTokenRefresh
<1>3. CASE RefreshSucceeds(p)
  <2> DEFINE c == proc[p].called
             old == Resolve(c)
  <2>1. PICK new \in Fresh \cup {c} :
          ApplyRefreshedTokens(c, new) /\ Set(p, Continue(p, IF old \in Live THEN new ELSE old))
    BY <1>3 DEF RefreshSucceeds
  <2>2. c \in issued /\ old \in issued
    BY <1>0, <1>3, ActiveIssued, ResolveIssued DEF RefreshSucceeds
  <2> HIDE DEF c, old
  <2>3. issued' = issued \cup {new} /\ new \in Token
    BY <1>0, <2>1, <2>2 DEF ApplyRefreshedTokens, Fresh
  <2>4. PoolNames'
    <3>1. CASE UNCHANGED <<inflight, aliases>>
      BY <1>0, <2>3, <3>1 DEF PoolNames, Fresh
    <3>2. CASE /\ aliases' = Put(aliases, old, new)
               /\ inflight' = [inflight EXCEPT ![old] = 0, ![new] = @ + inflight[old]]
      <4>1. \A t \in DOMAIN aliases' : t \in issued' /\ aliases'[t] \in issued'
        BY <1>0, <2>2, <2>3, <3>2 DEF PoolNames, Put
      <4>2. \A t \in Token : t # old /\ t # new => inflight'[t] = inflight[t]
        BY <1>0, <3>2 DEF PoolTypeOK
      <4> QED BY <1>0, <2>2, <2>3, <4>1, <4>2 DEF PoolNames, Fresh
    <3> QED BY <2>1, <3>1, <3>2 DEF ApplyRefreshedTokens, old
  <2>5. PICK t \in Token : t \in issued' /\ Set(p, Continue(p, t))
    BY <1>0, <2>1, <2>2, <2>3
  <2>6. Known(Continue(p, t)) \subseteq issued'
    BY <1>0, <2>3, <2>5, ContinueKnown
  <2> QED BY <2>3, <2>4, <2>5, <2>6, NamesStep
<1>4. CASE RefreshFails(p)
  <2>1. proc[p].called \in issued
    BY <1>4, ActiveIssued DEF RefreshFails
  <2> QED BY <1>0, <1>4, <2>1, ContinueKnown, QuietNames, UnchangedShrinks DEF RefreshFails
<1> QED BY <1>1, <1>2, <1>3, <1>4

\* The plain moves of a process add nothing to what it knows of.
LEMMA PlainKnown ==
  ASSUME TypeInv, IssuedInv, NEW p \in Proc
  PROVE  /\ Known(Idle) \subseteq issued /\ Known(NewCall) \subseteq issued
         /\ Known(AfterFailedFetch(p)) \subseteq issued
         /\ \A c : Known([proc[p] EXCEPT !.pc = c]) \subseteq issued
         /\ \A c \in PC : \A w : Known([proc[p] EXCEPT !.pc = c, !.why = w]) \subseteq issued
<1>1. \A c : Known([proc[p] EXCEPT !.pc = c]) \subseteq issued
  BY ActiveIssued, FieldKnown
<1>2. ASSUME NEW c \in PC, NEW w PROVE Known([proc[p] EXCEPT !.pc = c, !.why = w]) \subseteq issued
  <2>1. [proc[p] EXCEPT !.pc = c] \in ProcState
    BY ActiveIssued, FieldType
  <2> QED BY <1>1, <2>1, FieldKnown
<1> QED BY <1>1, <1>2, IdleKnown DEF AfterFailedFetch

LEMMA InfoStepNames ==
  ASSUME TypeInv, IssuedInv, NEW p \in Proc,
         \/ \E info \in RemoteInfo, matches \in BOOLEAN : UserInfoArrives(p, info, matches)
         \/ UserInfoInvalid(p) \/ UserInfoFails(p)
         \/ RecordInvalidTokenSeen(p) \/ Condemn(p)
  PROVE  IssuedInv'
<1>0. proc[p] \in ProcState /\ PoolTypeOK /\ PoolNames /\ Known(proc[p]) \subseteq issued
      /\ proc[p].attempted \subseteq issued /\ issued \subseteq Token
  BY ActiveIssued DEF IssuedInv, PoolTypeOK
<1>1. ASSUME NEW info \in RemoteInfo, NEW matches \in BOOLEAN, UserInfoArrives(p, info, matches)
      PROVE  IssuedInv'
  <2> DEFINE t == Resolve(proc[p].active)
             gen == [proc[p] EXCEPT !.pc = "generate", !.why = "none", !.held = t,
                                    !.active = t, !.attempted = @ \cup {t}]
             rel == [proc[p] EXCEPT !.pc = "release", !.attempted = @ \cup {t}]
  <2>1. t \in issued
    BY <1>0, <1>1, ActiveIssued, ResolveIssued DEF UserInfoArrives
  <2>2. Shrinks
    BY <1>0, <1>1, UpdateShrinks DEF UserInfoArrives
  <2>3. Set(p, Idle) \/ Set(p, [proc[p] EXCEPT !.pc = "release"]) \/ Set(p, gen) \/ Set(p, rel)
    BY <1>1 DEF UserInfoArrives, Go
  <2> HIDE DEF t
  <2>4. Known(gen) \subseteq issued /\ Known(rel) \subseteq issued
    <3>1. /\ gen.held = t /\ gen.active = t /\ gen.called = proc[p].called
          /\ gen.attempted = proc[p].attempted \cup {t}
          /\ rel.held = proc[p].held /\ rel.active = proc[p].active
          /\ rel.called = proc[p].called /\ rel.attempted = proc[p].attempted \cup {t}
      BY <1>0, SMT DEF ProcState
    <3> HIDE DEF gen, rel
    <3> QED BY <1>0, <2>1, <3>1 DEF Known
  <2> HIDE DEF gen, rel
  <2> QED BY <2>2, <2>3, <2>4, PlainKnown, QuietNames
<1>2. CASE UserInfoInvalid(p)
  BY <1>0, <1>2, PlainKnown, QuietNames, UnchangedShrinks DEF UserInfoInvalid, Go, PC
<1>3. CASE UserInfoFails(p)
  BY <1>0, <1>3, PlainKnown, QuietNames, UnchangedShrinks DEF UserInfoFails
<1>4. CASE RecordInvalidTokenSeen(p)
  BY <1>0, <1>4, PlainKnown, QuietNames, UnchangedShrinks DEF RecordInvalidTokenSeen, Go
<1>5. CASE Condemn(p)
  <2>1. Shrinks
    BY <1>0, <1>5, RemoveInvalidTokenShrinks DEF Condemn
  <2> QED BY <1>5, <2>1, PlainKnown, QuietNames DEF Condemn, Go
<1> QED BY <1>1, <1>2, <1>3, <1>4, <1>5

LEMMA ImageStepNames ==
  ASSUME TypeInv, IssuedInv, NEW r \in Request, StartRequest(r) \/ ImageStep(r)
  PROVE  IssuedInv'
<1>0. /\ r \in Proc /\ proc[r] \in ProcState /\ PoolTypeOK /\ PoolNames
      /\ Known(proc[r]) \subseteq issued /\ proc[r].attempted \subseteq issued
      /\ Live \subseteq issued /\ issued \subseteq Token
  BY ActiveIssued DEF IssuedInv, PoolTypeOK, Proc
<1>1. CASE StartRequest(r)
  BY <1>0, <1>1, PlainKnown, QuietNames, UnchangedShrinks DEF StartRequest
<1>2. CASE NoAccountReady(r)
  BY <1>0, <1>2, PlainKnown, QuietNames, UnchangedShrinks DEF NoAccountReady
<1>3. CASE AcquireNextCandidateToken(r)
  <2>1. PICK t \in AvailableCandidates(proc[r].attempted) :
          /\ TakeSlot(t)
          /\ Set(r, [proc[r] EXCEPT !.pc = "refresh", !.why = "preflight",
                                    !.held = t, !.active = t,
                                    !.attempted = @ \cup {t}, !.tries = @ + 1])
    BY <1>3 DEF AcquireNextCandidateToken
  <2> DEFINE s == [proc[r] EXCEPT !.pc = "refresh", !.why = "preflight",
                                  !.held = t, !.active = t,
                                  !.attempted = @ \cup {t}, !.tries = @ + 1]
  <2>2. t \in issued
    BY <1>0 DEF AvailableCandidates, ReadyCandidates
  <2>3. Known(s) \subseteq issued
    <3>1. /\ s.held = t /\ s.active = t /\ s.called = proc[r].called
          /\ s.attempted = proc[r].attempted \cup {t}
      BY <1>0, SMT DEF ProcState
    <3> HIDE DEF s
    <3> QED BY <1>0, <2>2, <3>1 DEF Known
  <2>4. Set(r, s)
    BY <2>1
  <2> HIDE DEF s
  <2>5. PoolNames' /\ issued' = issued
    <3>1. \A u \in Token : u # t => inflight'[u] = inflight[u]
      BY <1>0, <2>1 DEF TakeSlot, PoolTypeOK
    <3> QED BY <1>0, <2>1, <2>2, <3>1 DEF TakeSlot, PoolNames, Fresh
  <2> QED BY <1>0, <2>3, <2>4, <2>5, NamesStep
<1>4. CASE ReleaseAfterCheck(r)
  <2> DEFINE s == [NewCall EXCEPT !.attempted = proc[r].attempted, !.tries = proc[r].tries]
  <2>1. Known(s) \subseteq issued
    <3>1. /\ s.held = NoToken /\ s.active = NoToken /\ s.called = NoToken
          /\ s.attempted = proc[r].attempted
      BY SMT DEF NewCall, Idle
    <3> HIDE DEF s
    <3> QED BY <1>0, <3>1 DEF Known
  <2>2. Set(r, Idle) \/ Set(r, s)
    BY <1>4 DEF ReleaseAfterCheck
  <2>3. Shrinks
    BY <1>0, <1>4, ReleaseShrinks DEF ReleaseAfterCheck
  <2> HIDE DEF s
  <2> QED BY <1>0, <2>1, <2>2, <2>3, PlainKnown, QuietNames
<1>5. ASSUME NEW outcome \in {"success", "failure", "retry", "invalid"}, GenerationEnds(r, outcome)
      PROVE  IssuedInv'
  <2> DEFINE s == [Idle EXCEPT !.pc = "mark", !.why = outcome, !.active = proc[r].held]
  <2>1. Set(r, s) /\ Shrinks
    BY <1>0, <1>5, ReleaseShrinks DEF GenerationEnds
  <2>2. proc[r].held \in issued
    BY <1>0, <1>5, ActiveIssued, NoTokenAssumption
       DEF GenerationEnds, At, TypeInv, LocalOK
  <2>3. Known(s) \subseteq issued
    <3>1. /\ s.held = NoToken /\ s.active = proc[r].held /\ s.called = NoToken
          /\ s.attempted = {}
      BY SMT DEF Idle
    <3> HIDE DEF s
    <3> QED BY <2>2, <3>1 DEF Known
  <2> HIDE DEF s
  <2> QED BY <1>0, <2>1, <2>3, QuietNames
<1>6. CASE MarkImageResult(r)
  <2>1. Shrinks
    BY <1>0, <1>6, RecordShrinks DEF MarkImageResult
  <2> QED BY <1>0, <1>6, <2>1, PlainKnown, QuietNames DEF MarkImageResult, PC
<1> QED BY <1>1, <1>2, <1>3, <1>4, <1>5, <1>6 DEF ImageStep

LEMMA TextStepNames ==
  ASSUME TypeInv, IssuedInv, NEW x \in TextRequest, StartText(x) \/ TextStep(x)
  PROVE  IssuedInv'
<1>0. /\ x \in Proc /\ proc[x] \in ProcState /\ PoolTypeOK /\ Known(proc[x]) \subseteq issued
      /\ Live \subseteq issued
  BY ActiveIssued DEF PoolTypeOK, Proc
<1>1. Shrinks
  BY <1>0, UnchangedShrinks DEF StartText, TextStep, GetTextAccessToken, TextEnds, TextTokenInvalid
<1>2. ASSUME NEW t \in Live
      PROVE  Known([proc[x] EXCEPT !.pc = "refresh", !.why = "text", !.active = t]) \subseteq issued
  <2>1. [proc[x] EXCEPT !.pc = "refresh", !.why = "text"] \in ProcState
    <3>1. [proc[x] EXCEPT !.pc = "refresh"] \in ProcState
      BY <1>0, FieldType DEF PC
    <3> QED BY <3>1, FieldType DEF Why
  <2>2. Known([proc[x] EXCEPT !.pc = "refresh", !.why = "text"]) \subseteq issued
    BY <1>0, PlainKnown DEF PC
  <2> QED BY <1>0, <2>1, <2>2, FieldKnown
<1>3. \E s : Set(x, s) /\ Known(s) \subseteq issued
  <2>1. CASE StartText(x)
    BY <2>1, IdleKnown DEF StartText
  <2>2. CASE GetTextAccessToken(x)
    BY <1>0, <1>2, <2>2, PlainKnown DEF GetTextAccessToken, TextCandidates
  <2>3. CASE TextEnds(x) \/ TextTokenInvalid(x)
    BY <1>0, <2>3, PlainKnown DEF TextEnds, TextTokenInvalid, PC
  <2> QED BY <2>1, <2>2, <2>3 DEF TextStep
<1> QED BY <1>0, <1>1, <1>3, QuietNames

LEMMA JobStepNames ==
  ASSUME TypeInv, IssuedInv, NEW j \in Job, StartRefreshJob(j) \/ StartKeepalive(j)
  PROVE  IssuedInv'
<1>0. j \in Proc /\ PoolTypeOK /\ PoolNames
  BY DEF TypeInv, Typed, IssuedInv, Proc
<1>1. Shrinks
  BY <1>0, UnchangedShrinks DEF StartRefreshJob, StartKeepalive
<1>2. PICK t \in issued, w \in {"preflight", "keepalive"} :
        Set(j, [Idle EXCEPT !.pc = "refresh", !.why = w, !.active = t])
  BY <1>0, ResolveIssued DEF StartRefreshJob, StartKeepalive
<1> DEFINE s == [Idle EXCEPT !.pc = "refresh", !.why = w, !.active = t]
<1>3. /\ s.held = NoToken /\ s.active = t /\ s.called = NoToken /\ s.attempted = {}
  BY SMT DEF Idle
<1>4. Set(j, s)
  BY <1>2
<1> HIDE DEF s
<1>5. Known(s) \subseteq issued
  BY <1>2, <1>3 DEF Known
<1> QED BY <1>0, <1>1, <1>4, <1>5, QuietNames

LEMMA AdminStepNames ==
  ASSUME TypeInv, IssuedInv, AdminAdds \/ AdminDeletes \/ AdminEdits
  PROVE  IssuedInv'
<1>0. PoolTypeOK /\ PoolNames /\ \A p \in Proc : Known(proc[p]) \subseteq issued
  BY DEF TypeInv, Typed, IssuedInv
<1>1. proc' = proc
  BY DEF AdminAdds, AdminDeletes, AdminEdits
<1>2. PoolNames' /\ issued \subseteq issued'
  <2>1. CASE AdminAdds
    BY <1>0, <2>1 DEF AdminAdds, AddAccount, PoolNames, Fresh
  <2>2. CASE AdminDeletes \/ AdminEdits
    <3>1. Shrinks
      BY <1>0, <2>2, DeleteShrinks, UpdateShrinks DEF AdminDeletes, AdminEdits
    <3> QED BY <1>0, <3>1, ShrinksNames DEF Shrinks
  <2> QED BY <2>1, <2>2
<1> QED BY <1>0, <1>1, <1>2 DEF IssuedInv, Known

LEMMA IssuedInvNext == ASSUME TypeInv, IssuedInv, [Next]_vars PROVE IssuedInv'
<1>1. CASE UNCHANGED vars
  BY <1>1 DEF vars, IssuedInv, PoolNames, Fresh, Known
<1>2. CASE Restart
  BY <1>2, IdleKnown DEF Restart, IssuedInv, PoolNames, Fresh, Known
<1>3. CASE Next
  <2>1. ASSUME NEW p \in Proc, Refreshing(p) \/ Working(p) PROVE IssuedInv'
    <3>1. CASE RefreshNotNeeded(p) \/ RequestAccessTokenRefresh(p)
               \/ RefreshSucceeds(p) \/ RefreshFails(p)
      BY <3>1, RefreshStepNames
    <3>2. CASE \/ \E info \in RemoteInfo, matches \in BOOLEAN : UserInfoArrives(p, info, matches)
               \/ UserInfoInvalid(p) \/ UserInfoFails(p)
               \/ RecordInvalidTokenSeen(p) \/ Condemn(p)
      BY <3>2, InfoStepNames
    <3> QED BY <2>1, <3>1, <3>2 DEF Refreshing, Working
  <2> QED BY <1>2, <1>3, <2>1, ImageStepNames, TextStepNames, JobStepNames, AdminStepNames DEF Next
<1> QED BY <1>1, <1>3

\* In every state the clients of the pool reach, the pool's maps and the local
\* states are of their types, and every token with an account, a slot count or
\* an alias, and every token a process holds, is about, has sent for a refresh
\* or has tried, is one that was imported or issued.
THEOREM TypeCorrect == Spec => []TypeOK
<1>1. Init => IssuedInv
  BY IdleKnown DEF Init, PoolInit, IssuedInv, PoolNames, Fresh
<1>2. TypeInv /\ IssuedInv /\ [Next]_vars => IssuedInv'
  BY IssuedInvNext
<1>3. TypeInv /\ IssuedInv => TypeOK
  BY DEF TypeInv, TypeOK, IssuedInv, PoolNames
<1> QED BY <1>1, <1>2, <1>3, TypeInvAlways, PTL DEF Spec

---------------------------------------------------------------------------
(* Slots and the lock, step by step.                                       *)

\* A slot is taken only of an account with one free.
LEMMA TakeSlots ==
  ASSUME PoolTypeOK, PoolSlots, NEW X, NEW t \in AvailableCandidates(X), TakeSlot(t)
  PROVE  PoolSlots' /\ aliases' = aliases
<1>1. t \in Live /\ t \in Token /\ inflight[t] < MaxConcurrency /\ t \notin Fresh
  BY DEF AvailableCandidates, ReadyCandidates, PoolTypeOK, Fresh
<1>2. \A u \in Token : inflight'[u] = IF u = t THEN inflight[t] + 1 ELSE inflight[u]
  BY DEF TakeSlot, PoolTypeOK
<1>3. SlotLimit'
  BY <1>1, <1>2, ConcurrencyAssumption, SMT DEF PoolSlots, SlotLimit, PoolTypeOK
<1>4. \A u \in Fresh' : inflight'[u] = 0
  BY <1>1, <1>2 DEF PoolSlots, Fresh, TakeSlot
<1> QED BY <1>3, <1>4 DEF PoolSlots, TakeSlot, Live, Fresh

\* A rotation gives the slots to a token that had none, and only replaces the
\* token the request was made for, which resolves to itself.
LEMMA ApplySlots ==
  ASSUME PoolTypeOK, PoolSlots, NEW t \in Token, t \notin DOMAIN aliases,
         NEW new \in Fresh \cup {t}, ApplyRefreshedTokens(t, new)
  PROVE  /\ PoolSlots'
         /\ aliases' = aliases \/ DOMAIN aliases' = DOMAIN aliases \cup {t}
         /\ \A u \in DOMAIN aliases : u # t => aliases'[u] = aliases[u]
<1>1. Resolve(t) = t
  BY DEF Resolve, Forwarded
<1>2. CASE t \notin Live
  <2>1. UNCHANGED <<accounts, inflight, aliases>> /\ issued' = issued \cup {new}
    BY <1>1, <1>2 DEF ApplyRefreshedTokens
  <2> QED BY <2>1 DEF PoolSlots, SlotLimit, Fresh, Live
<1>3. CASE t \in Live /\ new = t
  <2>1. UNCHANGED <<inflight, aliases>> /\ issued' = issued \cup {t}
    BY <1>1, <1>3 DEF ApplyRefreshedTokens
  <2>2. DOMAIN accounts' = Live
    BY <1>1, <1>3 DEF ApplyRefreshedTokens, Put, Drop, Restrict, Live
  <2> QED BY <2>1, <2>2 DEF PoolSlots, SlotLimit, Fresh, Live
<1>4. CASE t \in Live /\ new # t
  <2>1. /\ accounts' = Put(Drop(accounts, {t}), new, accounts[t])
        /\ issued' = issued \cup {new}
        /\ aliases' = Put(aliases, t, new)
        /\ inflight' = [inflight EXCEPT ![t] = 0, ![new] = @ + inflight[t]]
    BY <1>1, <1>4 DEF ApplyRefreshedTokens
  <2>2. new \in Fresh /\ new \in Token /\ inflight[new] = 0 /\ t \in issued
    BY <1>4 DEF PoolSlots, Fresh, PoolTypeOK
  <2>3. Live' = (Live \ {t}) \cup {new}
    BY <2>1 DEF Put, Drop, Restrict, Live
  <2>4. DOMAIN aliases' = DOMAIN aliases \cup {t}
        /\ \A u \in DOMAIN aliases : u # t => aliases'[u] = aliases[u]
    BY <2>1 DEF Put
  <2>5. \A u \in Token : inflight'[u] = IF u = new THEN inflight[t]
                                       ELSE IF u = t THEN 0 ELSE inflight[u]
    BY <1>4, <2>1, <2>2, SMT DEF PoolTypeOK
  <2>6. SlotLimit'
    BY <2>5, ConcurrencyAssumption, SMT DEF PoolSlots, SlotLimit, PoolTypeOK
  <2>7. \A u \in Fresh' : inflight'[u] = 0
    BY <2>1, <2>5 DEF PoolSlots, Fresh
  <2>8. DOMAIN aliases' \subseteq issued' \ Live'
    BY <2>1, <2>2, <2>3, <2>4, <1>4 DEF PoolSlots, Fresh
  <2> QED BY <2>4, <2>6, <2>7, <2>8 DEF PoolSlots
<1> QED BY <1>2, <1>3, <1>4

\* Whoever calls refresh_access_token, its return is not a request.
LEMMA ContinueLeaves ==
  ASSUME TypeInv, NEW p \in Proc, At(p, {"refresh", "oauth"}), NEW t
  PROVE  Continue(p, t).pc # "oauth"
<1> DEFINE s == [proc[p] EXCEPT !.called = NoToken]
<1>1. s \in ProcState
  BY ProcGood, FieldType DEF GoodState, MaybeToken
<1> HIDE DEF s
<1>2. \A c \in {"info", "info2"} : [s EXCEPT !.pc = c, !.active = t].pc # "oauth"
  BY <1>1, SMT DEF ProcState
<1>3. \A c \in {"suspect", "condemn"} : [s EXCEPT !.pc = c].pc # "oauth"
  BY <1>1, SMT DEF ProcState
<1>4. [s EXCEPT !.pc = "text", !.active = t, !.attempted = @ \cup {t}].pc # "oauth"
  BY <1>1, SMT DEF ProcState
<1>5. Idle.pc # "oauth" /\ NewCall.pc # "oauth"
  BY SMT DEF Idle, NewCall
<1> QED BY <1>2, <1>3, <1>4, <1>5 DEF Continue, s

\* Whether or not it had the lock: a process that is not at a request leaves
\* the others' lock alone.
LEMMA LockKept ==
  ASSUME TypeInv, LockInv, NEW p \in Proc, NEW s, Set(p, s), s.pc # "oauth",
         DOMAIN aliases' \subseteq DOMAIN aliases,
         refreshLock' = refreshLock \/ At(p, {"oauth"})
  PROVE  LockInv'
<1> SUFFICES ASSUME NEW q \in Proc, At(q, {"oauth"})'
             PROVE  refreshLock' = q /\ proc'[q].called \notin DOMAIN aliases'
  BY DEF LockInv
<1>1. q # p /\ proc'[q] = proc[q]
  BY DEF Set, At, TypeInv, Typed
<1>2. At(q, {"oauth"})
  BY <1>1 DEF At
<1> QED BY <1>1, <1>2 DEF LockInv

LEMMA RefreshStepSlots ==
  ASSUME TypeInv, SlotInv, NEW p \in Proc,
         \/ RefreshNotNeeded(p) \/ RequestAccessTokenRefresh(p)
         \/ RefreshSucceeds(p) \/ RefreshFails(p)
  PROVE  SlotInv'
<1>0. PoolTypeOK /\ PoolSlots /\ LockInv /\ proc[p] \in ProcState /\ LocalOK(proc[p])
  BY ProcGood DEF TypeInv, Typed, SlotInv, GoodState
<1>1. CASE RefreshNotNeeded(p)
  <2>1. PoolSlots' /\ aliases' = aliases
    BY <1>0, <1>1, UnchangedShrinks, ShrinksSlots DEF RefreshNotNeeded, poolVars
  <2>2. PICK t : Set(p, Continue(p, t))
    BY <1>1 DEF RefreshNotNeeded
  <2>3. Continue(p, t).pc # "oauth"
    BY <1>1, ContinueLeaves DEF RefreshNotNeeded, At
  <2> QED BY <1>0, <1>1, <2>1, <2>2, <2>3, LockKept DEF RefreshNotNeeded, SlotInv
<1>2. CASE RequestAccessTokenRefresh(p)
  <2> DEFINE t == Resolve(proc[p].active)
             s == [proc[p] EXCEPT !.pc = "oauth", !.called = t]
  <2>1. PoolSlots' /\ aliases' = aliases /\ refreshLock = NoProc /\ refreshLock' = p
    BY <1>0, <1>2, UnchangedShrinks, ShrinksSlots DEF RequestAccessTokenRefresh, poolVars
  <2>2. t \notin DOMAIN aliases
    BY <1>0, <1>2 DEF RequestAccessTokenRefresh, PoolSlots
  <2>3. Set(p, s)
    BY <1>2 DEF RequestAccessTokenRefresh
  <2> HIDE DEF t
  <2>4. s.called = t
    BY <1>0, SMT DEF ProcState
  <2> HIDE DEF s
  <2>5. \A q \in Proc : ~At(q, {"oauth"})
    BY <1>0, <2>1, ProcAssumption DEF LockInv
  <2>6. LockInv'
    <3> SUFFICES ASSUME NEW q \in Proc, At(q, {"oauth"})'
                 PROVE  refreshLock' = q /\ proc'[q].called \notin DOMAIN aliases'
      BY DEF LockInv
    <3>1. q = p
      BY <2>3, <2>5 DEF Set, At, TypeInv, Typed
    <3>2. proc'[p] = s
      BY <2>3 DEF Set, TypeInv, Typed
    <3> QED BY <2>1, <2>2, <2>4, <3>1, <3>2
  <2> QED BY <2>1, <2>6 DEF SlotInv
<1>3. CASE RefreshSucceeds(p)
  <2>0. PICK new \in Fresh \cup {proc[p].called} :
          ApplyRefreshedTokens(proc[p].called, new) /\ \E t : Set(p, Continue(p, t))
    BY <1>3 DEF RefreshSucceeds
  <2>1. PICK t : ApplyRefreshedTokens(proc[p].called, new) /\ Set(p, Continue(p, t))
    BY <2>0
  <2>2. /\ proc[p].called \in Token
        /\ proc[p].called \notin DOMAIN aliases
        /\ refreshLock = p
    BY <1>0, <1>3 DEF RefreshSucceeds, At, LocalOK, LockInv
  <2>3. PoolSlots'
    BY <1>0, <2>1, <2>2, ApplySlots
  <2>4. Continue(p, t).pc # "oauth"
    BY <1>3, ContinueLeaves DEF RefreshSucceeds, At
  <2>5. LockInv'
    <3> SUFFICES ASSUME NEW q \in Proc, At(q, {"oauth"})' PROVE FALSE
      BY DEF LockInv
    <3>1. q # p /\ proc'[q] = proc[q]
      BY <2>1, <2>4 DEF Set, At, TypeInv, Typed
    <3> QED BY <1>0, <2>2, <3>1 DEF LockInv, At
  <2> QED BY <2>3, <2>5 DEF SlotInv
<1>4. CASE RefreshFails(p)
  <2>1. PoolSlots' /\ aliases' = aliases
    BY <1>0, <1>4, UnchangedShrinks, ShrinksSlots DEF RefreshFails, poolVars
  <2>2. Set(p, Continue(p, proc[p].called)) /\ At(p, {"oauth"}) /\ At(p, {"refresh", "oauth"})
    BY <1>4 DEF RefreshFails, At
  <2>3. Continue(p, proc[p].called).pc # "oauth"
    BY <2>2, ContinueLeaves
  <2> QED BY <1>0, <2>1, <2>2, <2>3, LockKept DEF SlotInv
<1> QED BY <1>1, <1>2, <1>3, <1>4

\* A step of a process that adds no slot, alias or account and does not start
\* a request.
LEMMA QuietStep ==
  ASSUME TypeInv, SlotInv, NEW p \in Proc, NEW s, Set(p, s), s.pc # "oauth",
         UNCHANGED refreshLock, Shrinks
  PROVE  SlotInv'
BY ShrinksSlots, LockKept DEF SlotInv, TypeInv, Typed, Shrinks

\* Where the plain moves of a process lead.
LEMMA PlainStates ==
  ASSUME TypeInv, NEW p \in Proc
  PROVE  /\ Idle.pc # "oauth" /\ NewCall.pc # "oauth"
         /\ AfterFailedFetch(p).pc # "oauth"
         /\ \A c \in PC \ {"oauth"} : [proc[p] EXCEPT !.pc = c].pc # "oauth"
<1>1. proc[p] \in ProcState
  BY ProcGood DEF GoodState
<1>2. Idle.pc # "oauth" /\ NewCall.pc # "oauth"
  BY SMT DEF Idle, NewCall
<1>3. \A c \in PC \ {"oauth"} : [proc[p] EXCEPT !.pc = c].pc # "oauth"
  BY <1>1, SMT DEF ProcState
<1> QED BY <1>2, <1>3 DEF AfterFailedFetch, PC

LEMMA InfoStepSlots ==
  ASSUME TypeInv, SlotInv, NEW p \in Proc,
         \/ \E info \in RemoteInfo, matches \in BOOLEAN : UserInfoArrives(p, info, matches)
         \/ UserInfoInvalid(p) \/ UserInfoFails(p)
         \/ RecordInvalidTokenSeen(p) \/ Condemn(p)
  PROVE  SlotInv'
<1>0. PoolTypeOK /\ proc[p] \in ProcState
  BY ProcGood DEF TypeInv, Typed, GoodState
<1>a. "release" \in PC \ {"oauth"} /\ "suspect" \in PC \ {"oauth"}
      /\ "condemn" \in PC \ {"oauth"} /\ "pick" \in PC \ {"oauth"}
  BY DEF PC
<1>1. ASSUME NEW info \in RemoteInfo, NEW matches \in BOOLEAN, UserInfoArrives(p, info, matches)
      PROVE  SlotInv'
  <2> DEFINE t == Resolve(proc[p].active)
             gen == [proc[p] EXCEPT !.pc = "generate", !.why = "none", !.held = t,
                                    !.active = t, !.attempted = @ \cup {t}]
             rel == [proc[p] EXCEPT !.pc = "release", !.attempted = @ \cup {t}]
  <2>1. Shrinks /\ UNCHANGED refreshLock
    BY <1>0, <1>1, UpdateShrinks DEF UserInfoArrives
  <2>2. Set(p, Idle) \/ Set(p, [proc[p] EXCEPT !.pc = "release"]) \/ Set(p, gen) \/ Set(p, rel)
    BY <1>1 DEF UserInfoArrives, Go
  <2> HIDE DEF t
  <2>3. gen.pc # "oauth" /\ rel.pc # "oauth"
    BY <1>0, SMT DEF ProcState
  <2> HIDE DEF gen, rel
  <2> QED BY <1>a, <2>1, <2>2, <2>3, PlainStates, QuietStep
<1>2. CASE UserInfoInvalid(p)
  <2>1. [proc[p] EXCEPT !.pc = "refresh", !.why = "invalid"].pc # "oauth"
    BY <1>0, SMT DEF ProcState
  <2> QED BY <1>0, <1>a, <1>2, <2>1, PlainStates, QuietStep, UnchangedShrinks
          DEF UserInfoInvalid, Go
<1>3. CASE UserInfoFails(p)
  BY <1>0, <1>3, PlainStates, QuietStep, UnchangedShrinks DEF UserInfoFails
<1>4. CASE RecordInvalidTokenSeen(p)
  BY <1>0, <1>a, <1>4, PlainStates, QuietStep, UnchangedShrinks DEF RecordInvalidTokenSeen, Go
<1>5. CASE Condemn(p)
  <2>1. Shrinks /\ UNCHANGED refreshLock
    BY <1>0, <1>5, RemoveInvalidTokenShrinks DEF Condemn
  <2>2. \/ Set(p, NewCall) \/ Set(p, [proc[p] EXCEPT !.pc = "pick"])
        \/ Set(p, AfterFailedFetch(p))
    BY <1>5 DEF Condemn, Go
  <2> QED BY <1>a, <2>1, <2>2, PlainStates, QuietStep
<1> QED BY <1>1, <1>2, <1>3, <1>4, <1>5

LEMMA ImageStepSlots ==
  ASSUME TypeInv, SlotInv, NEW r \in Request, StartRequest(r) \/ ImageStep(r)
  PROVE  SlotInv'
<1>0. r \in Proc /\ proc[r] \in ProcState /\ PoolTypeOK /\ PoolSlots /\ LockInv
  BY ProcGood DEF TypeInv, Typed, SlotInv, GoodState, Proc
<1>1. CASE StartRequest(r)
  BY <1>0, <1>1, PlainStates, QuietStep, UnchangedShrinks DEF StartRequest
<1>2. CASE NoAccountReady(r)
  BY <1>0, <1>2, PlainStates, QuietStep, UnchangedShrinks DEF NoAccountReady
<1>3. CASE AcquireNextCandidateToken(r)
  <2>1. PICK t \in AvailableCandidates(proc[r].attempted) :
          /\ TakeSlot(t)
          /\ Set(r, [proc[r] EXCEPT !.pc = "refresh", !.why = "preflight",
                                    !.held = t, !.active = t,
                                    !.attempted = @ \cup {t}, !.tries = @ + 1])
    BY <1>3 DEF AcquireNextCandidateToken
  <2>2. PoolSlots' /\ aliases' = aliases
    BY <1>0, <2>1, TakeSlots
  <2> DEFINE s == [proc[r] EXCEPT !.pc = "refresh", !.why = "preflight",
                                  !.held = t, !.active = t,
                                  !.attempted = @ \cup {t}, !.tries = @ + 1]
  <2>3. s.pc # "oauth"
    BY <1>0, SMT DEF ProcState
  <2>4. Set(r, s)
    BY <2>1
  <2> HIDE DEF s
  <2> QED BY <1>0, <1>3, <2>2, <2>3, <2>4, LockKept DEF AcquireNextCandidateToken, SlotInv
<1>4. CASE ReleaseAfterCheck(r)
  <2> DEFINE s == [NewCall EXCEPT !.attempted = proc[r].attempted, !.tries = proc[r].tries]
  <2>1. s.pc # "oauth"
    BY SMT DEF NewCall, Idle
  <2>2. Set(r, Idle) \/ Set(r, s)
    BY <1>4 DEF ReleaseAfterCheck
  <2>3. Shrinks /\ UNCHANGED refreshLock
    BY <1>0, <1>4, ReleaseShrinks DEF ReleaseAfterCheck
  <2> HIDE DEF s
  <2> QED BY <1>0, <2>1, <2>2, <2>3, PlainStates, QuietStep
<1>5. ASSUME NEW outcome \in {"success", "failure", "retry", "invalid"}, GenerationEnds(r, outcome)
      PROVE  SlotInv'
  <2> DEFINE s == [Idle EXCEPT !.pc = "mark", !.why = outcome, !.active = proc[r].held]
  <2>1. s.pc # "oauth"
    BY SMT DEF Idle
  <2>2. Set(r, s)
    BY <1>5 DEF GenerationEnds
  <2>3. Shrinks /\ UNCHANGED refreshLock
    BY <1>0, <1>5, ReleaseShrinks DEF GenerationEnds
  <2> HIDE DEF s
  <2> QED BY <1>0, <2>1, <2>2, <2>3, QuietStep
<1>6. CASE MarkImageResult(r)
  <2> DEFINE s == [proc[r] EXCEPT !.pc = "refresh", !.why = "stream"]
  <2>1. s.pc # "oauth"
    BY <1>0, SMT DEF ProcState
  <2>2. Set(r, NewCall) \/ Set(r, s) \/ Set(r, Idle)
    BY <1>6 DEF MarkImageResult
  <2>3. Shrinks /\ UNCHANGED refreshLock
    BY <1>0, <1>6, RecordShrinks DEF MarkImageResult
  <2> HIDE DEF s
  <2> QED BY <1>0, <2>1, <2>2, <2>3, PlainStates, QuietStep
<1> QED BY <1>1, <1>2, <1>3, <1>4, <1>5, <1>6 DEF ImageStep

LEMMA TextStepSlots ==
  ASSUME TypeInv, SlotInv, NEW x \in TextRequest, StartText(x) \/ TextStep(x)
  PROVE  SlotInv'
<1>0. x \in Proc /\ proc[x] \in ProcState /\ PoolTypeOK
  BY ProcGood DEF TypeInv, Typed, GoodState, Proc
<1>1. UNCHANGED refreshLock /\ Shrinks
  BY <1>0, UnchangedShrinks DEF StartText, TextStep, GetTextAccessToken, TextEnds, TextTokenInvalid
<1>2. /\ [Idle EXCEPT !.pc = "pick"].pc # "oauth"
      /\ [proc[x] EXCEPT !.pc = "refresh", !.why = "textInvalid"].pc # "oauth"
      /\ \A t : [proc[x] EXCEPT !.pc = "refresh", !.why = "text", !.active = t].pc # "oauth"
  BY <1>0, SMT DEF ProcState, Idle
<1>3. \E s : Set(x, s) /\ s.pc # "oauth"
  BY <1>0, <1>2, PlainStates DEF StartText, TextStep, GetTextAccessToken, TextEnds, TextTokenInvalid
<1> QED BY <1>0, <1>1, <1>3, QuietStep

LEMMA JobStepSlots ==
  ASSUME TypeInv, SlotInv, NEW j \in Job, StartRefreshJob(j) \/ StartKeepalive(j)
  PROVE  SlotInv'
<1>0. j \in Proc /\ PoolTypeOK
  BY DEF TypeInv, Typed, Proc
<1>1. UNCHANGED refreshLock /\ Shrinks
  BY <1>0, UnchangedShrinks DEF StartRefreshJob, StartKeepalive
<1>2. \A w, t : [Idle EXCEPT !.pc = "refresh", !.why = w, !.active = t].pc # "oauth"
  BY SMT DEF Idle
<1>3. \E s : Set(j, s) /\ s.pc # "oauth"
  BY <1>2 DEF StartRefreshJob, StartKeepalive
<1> QED BY <1>0, <1>1, <1>3, QuietStep

LEMMA AdminStepSlots ==
  ASSUME ~Reimport, TypeInv, SlotInv, AdminAdds \/ AdminDeletes \/ AdminEdits
  PROVE  SlotInv' /\ \A t \in DOMAIN aliases' : t \in DOMAIN aliases /\ aliases'[t] = aliases[t]
<1>0. PoolTypeOK /\ PoolSlots /\ LockInv
  BY DEF TypeInv, Typed, SlotInv
<1>1. UNCHANGED <<proc, refreshLock>>
  BY DEF AdminAdds, AdminDeletes, AdminEdits
<1>2. CASE AdminAdds
  <2>1. PICK t \in Fresh, a \in Account : AddAccount(t, a)
    BY <1>0, <1>2 DEF AdminAdds
  <2>2. Live' = Live \cup {t} /\ issued' = issued \cup {t} /\ UNCHANGED <<inflight, aliases>>
    BY <2>1 DEF AddAccount, Put, Live
  <2>3. PoolSlots'
    BY <1>0, <2>1, <2>2 DEF PoolSlots, SlotLimit, Fresh
  <2> QED BY <1>0, <1>1, <2>2, <2>3 DEF SlotInv, LockInv, At
<1>3. CASE AdminDeletes \/ AdminEdits
  <2>1. Shrinks
    BY <1>0, <1>3, DeleteShrinks, UpdateShrinks DEF AdminDeletes, AdminEdits
  <2>2. PoolSlots'
    BY <1>0, <2>1, ShrinksSlots
  <2>3. LockInv'
    BY <1>0, <1>1, <2>1 DEF LockInv, At, Shrinks
  <2> QED BY <2>1, <2>2, <2>3 DEF SlotInv, Shrinks
<1> QED BY <1>2, <1>3

LEMMA RestartSlots == ASSUME TypeInv, SlotInv, Restart PROVE SlotInv'
<1>1. PoolSlots'
  BY ConcurrencyAssumption, SMT
     DEF SlotInv, TypeInv, Typed, PoolTypeOK, PoolSlots, Restart, SlotLimit, Live, Fresh
<1>2. LockInv'
  <2> SUFFICES ASSUME NEW p \in Proc, At(p, {"oauth"})' PROVE FALSE
    BY DEF LockInv
  <2>1. proc'[p] = Idle
    BY DEF Restart
  <2> QED BY <2>1 DEF At, Idle
<1> QED BY <1>1, <1>2 DEF SlotInv

LEMMA SlotInvInit == ASSUME Init PROVE SlotInv
<1>1. PoolSlots
  BY ConcurrencyAssumption, ImportedAssumption, SMT
     DEF Init, PoolInit, PoolSlots, SlotLimit, Live, Fresh
<1>2. \A p \in Proc : ~At(p, {"oauth"})
  BY DEF Init, At, Idle
<1> QED BY <1>1, <1>2 DEF SlotInv, LockInv

LEMMA SlotInvNext == ASSUME ~Reimport, TypeInv, SlotInv, [Next]_vars PROVE SlotInv'
<1>1. CASE UNCHANGED vars
  BY <1>1 DEF vars, SlotInv, PoolSlots, LockInv, SlotLimit, Fresh, Live, At
<1>2. CASE Next
  <2>1. ASSUME NEW p \in Proc, Refreshing(p) \/ Working(p) PROVE SlotInv'
    <3>1. CASE RefreshNotNeeded(p) \/ RequestAccessTokenRefresh(p)
               \/ RefreshSucceeds(p) \/ RefreshFails(p)
      BY <3>1, RefreshStepSlots
    <3>2. CASE \/ \E info \in RemoteInfo, matches \in BOOLEAN : UserInfoArrives(p, info, matches)
               \/ UserInfoInvalid(p) \/ UserInfoFails(p)
               \/ RecordInvalidTokenSeen(p) \/ Condemn(p)
      BY <3>2, InfoStepSlots
    <3> QED BY <2>1, <3>1, <3>2 DEF Refreshing, Working
  <2> QED BY <1>2, <2>1, ImageStepSlots, TextStepSlots, JobStepSlots, AdminStepSlots,
             RestartSlots DEF Next
<1> QED BY <1>1, <1>2

LEMMA SlotInvAlways == ASSUME ~Reimport PROVE Spec => []SlotInv
<1>1. Init => SlotInv
  BY SlotInvInit
<1>2. TypeInv /\ SlotInv /\ [Next]_vars => SlotInv'
  BY SlotInvNext
<1> QED BY <1>1, <1>2, TypeInvAlways, PTL DEF Spec

\* Whatever the requests, jobs, admin and upstream do, no account has more
\* slots taken than image_account_concurrency: a check and the count it checks
\* are one critical section, and a rotation moves a count to an unused name.
THEOREM SlotLimitHolds == ASSUME ~Reimport PROVE Spec => []SlotLimit
<1>1. SlotInv => SlotLimit
  BY DEF SlotInv, PoolSlots
<1> QED BY <1>1, SlotInvAlways, PTL

\* Steps other than an answer of the token endpoint add and change no alias.
LEMMA OthersLeaveAliases ==
  ASSUME ~Reimport, TypeInv, SlotInv, [Next]_vars, \A p \in Proc : ~RefreshSucceeds(p)
  PROVE  \A t \in DOMAIN aliases' : t \in DOMAIN aliases /\ aliases'[t] = aliases[t]
<1>0. PoolTypeOK
  BY DEF TypeInv, Typed
<1>1. CASE UNCHANGED poolVars
  BY <1>1 DEF poolVars
<1>2. CASE Shrinks
  BY <1>2 DEF Shrinks
<1>3. CASE \E t : TakeSlot(t)
  BY <1>3 DEF TakeSlot
<1>4. CASE Restart
  BY <1>4 DEF Restart
<1>5. CASE AdminAdds \/ AdminDeletes \/ AdminEdits
  BY <1>5, AdminStepSlots
<1>6. ASSUME NEW p \in Proc, Refreshing(p) \/ Working(p) PROVE UNCHANGED poolVars \/ Shrinks
  BY <1>0, <1>6, UpdateShrinks, RemoveInvalidTokenShrinks
     DEF Refreshing, Working, RefreshNotNeeded, RequestAccessTokenRefresh, RefreshFails,
         UserInfoArrives, UserInfoInvalid, UserInfoFails, RecordInvalidTokenSeen, Condemn
<1>7. ASSUME NEW r \in Request, StartRequest(r) \/ ImageStep(r)
      PROVE  UNCHANGED poolVars \/ Shrinks \/ \E t : TakeSlot(t)
  BY <1>0, <1>7, ReleaseShrinks, RecordShrinks
     DEF StartRequest, ImageStep, NoAccountReady, AcquireNextCandidateToken,
         ReleaseAfterCheck, GenerationEnds, MarkImageResult
<1>8. ASSUME NEW x \in TextRequest, StartText(x) \/ TextStep(x) PROVE UNCHANGED poolVars
  BY <1>8 DEF StartText, TextStep, GetTextAccessToken, TextEnds, TextTokenInvalid
<1>9. ASSUME NEW j \in Job, StartRefreshJob(j) \/ StartKeepalive(j) PROVE UNCHANGED poolVars
  BY <1>9 DEF StartRefreshJob, StartKeepalive
<1>10. CASE UNCHANGED vars
  BY <1>1, <1>10 DEF vars, poolVars
<1> QED BY <1>1, <1>2, <1>3, <1>4, <1>5, <1>6, <1>7, <1>8, <1>9, <1>10 DEF Next

\* token_refresh_lock keeps concurrent refreshes apart: an answer of the token
\* endpoint replaces only the token whose refresh token was sent for it.
THEOREM RotationLocked == ASSUME ~Reimport PROVE Spec => RotationOfRequestedTokenOnly
<1> DEFINE Replaced(t) == t \notin DOMAIN aliases \/ aliases'[t] # aliases[t]
           Requested(t) == \E p \in Proc : At(p, {"oauth"}) /\ proc[p].called = t
<1>1. ASSUME TypeInv, SlotInv, [Next]_vars
      PROVE  \A t \in DOMAIN aliases' : Replaced(t) => Requested(t)
  <2>1. CASE \A p \in Proc : ~RefreshSucceeds(p)
    BY <1>1, <2>1, OthersLeaveAliases
  <2>2. ASSUME NEW p \in Proc, RefreshSucceeds(p)
        PROVE  \A t \in DOMAIN aliases' : Replaced(t) => Requested(t)
    <3>1. PICK new \in Fresh \cup {proc[p].called} : ApplyRefreshedTokens(proc[p].called, new)
      BY <2>2 DEF RefreshSucceeds
    <3>2. proc[p].called \in Token /\ proc[p].called \notin DOMAIN aliases /\ At(p, {"oauth"})
      BY <1>1, <2>2 DEF RefreshSucceeds, At, TypeInv, LocalOK, SlotInv, LockInv
    <3>3. /\ aliases' = aliases \/ DOMAIN aliases' = DOMAIN aliases \cup {proc[p].called}
          /\ \A u \in DOMAIN aliases : u # proc[p].called => aliases'[u] = aliases[u]
      BY <1>1, <3>1, <3>2, ApplySlots DEF TypeInv, Typed, SlotInv
    <3> QED BY <3>2, <3>3
  <2> QED BY <2>1, <2>2
<1>2. TypeInv /\ SlotInv /\ [Next]_vars
        => [\A t \in DOMAIN aliases' : Replaced(t) => Requested(t)]_vars
  BY <1>1
<1> QED BY <1>2, TypeInvAlways, SlotInvAlways, PTL DEF Spec, RotationOfRequestedTokenOnly
=============================================================================
