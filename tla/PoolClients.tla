---------------------------- MODULE PoolClients ----------------------------
(***************************************************************************)
(* The clients of the account pool and the awaits between their critical   *)
(* sections: image requests (generate_single_image over                    *)
(* get_available_access_token), text requests (stream_text_deltas),        *)
(* refresh jobs (the account watcher, the admin's refresh, an import), and *)
(* the admin's edits.  A process holds `held` while it owns a slot of that *)
(* token; `active` is the token its current step is about.                 *)
(***************************************************************************)
EXTENDS AccountPool

CONSTANTS
  Request,          \* image requests
  TextRequest,      \* text requests
  Job,              \* refresh and keepalive jobs
  NoToken,
  NoProc,
  MaxAttempts,      \* max_attempts of get_available_access_token (20 in the code)
  Reimport          \* may the admin import a token the pool has seen before?

Proc == Request \cup TextRequest \cup Job

ASSUME NoTokenAssumption == NoToken \notin Token
ASSUME ProcAssumption ==
  /\ NoProc \notin Proc
  /\ Request \cap TextRequest = {} /\ Request \cap Job = {} /\ TextRequest \cap Job = {}
ASSUME AttemptsAssumption == MaxAttempts \in Nat \ {0}
ASSUME ReimportAssumption == Reimport \in BOOLEAN

VARIABLES
  proc,         \* the local state of each process
  refreshLock   \* token_refresh_lock: its owner, or NoProc

vars == <<accounts, inflight, aliases, issued, proc, refreshLock>>

\* Where a process is: in the slot loop, in refresh_access_token ("refresh",
\* and "oauth" while the response is awaited), in get_user_info ("info", and
\* "info2" after a forced refresh), after an invalid token ("suspect",
\* "condemn"), giving the slot back ("release"), generating an image, marking
\* its result, choosing a text token, streaming text.
PC == {"idle", "acquire", "refresh", "oauth", "info", "info2", "suspect",
       "condemn", "release", "generate", "mark", "pick", "text"}

\* Why refresh_access_token was called, or how a generation ended.
Why == {"none", "preflight", "invalid", "stream", "keepalive", "text", "textInvalid",
        "success", "failure", "retry"}

MaybeToken == Token \cup {NoToken}

ProcState ==
  [pc : PC, why : Why, held : MaybeToken, active : MaybeToken, called : MaybeToken,
   attempted : SUBSET Token, tries : 0..MaxAttempts]

Idle == [pc |-> "idle", why |-> "none", held |-> NoToken, active |-> NoToken,
         called |-> NoToken, attempted |-> {}, tries |-> 0]

Holding(p) == proc[p].held # NoToken

Set(p, s) == proc' = [proc EXCEPT ![p] = s]
Go(p, pc) == Set(p, [proc[p] EXCEPT !.pc = pc])
At(p, pcs) == proc[p].pc \in pcs

---------------------------------------------------------------------------
(* get_available_access_token *)

NewCall == [Idle EXCEPT !.pc = "acquire"]

StartRequest(r) ==
  /\ At(r, {"idle"})
  /\ Set(r, NewCall)
  /\ UNCHANGED <<poolVars, refreshLock>>

\* The slot loop: it fails when no account is ready, takes a slot when one is
\* free, and otherwise sleeps until a notification or for a second.
NoAccountReady(r) ==
  /\ At(r, {"acquire"})
  /\ ReadyCandidates(proc[r].attempted) = {}
  /\ Set(r, Idle)
  /\ UNCHANGED <<poolVars, refreshLock>>

AcquireNextCandidateToken(r) ==
  /\ At(r, {"acquire"})
  /\ \E t \in AvailableCandidates(proc[r].attempted) :
       /\ TakeSlot(t)
       /\ Set(r, [proc[r] EXCEPT !.pc = "refresh", !.why = "preflight",
                                 !.held = t, !.active = t,
                                 !.attempted = @ \cup {t}, !.tries = @ + 1])
  /\ UNCHANGED refreshLock

\* An account that failed its check is released and the next one is tried.
ReleaseAfterCheck(r) ==
  /\ At(r, {"release"})
  /\ ReleaseImageSlot(proc[r].held)
  /\ Set(r, IF proc[r].tries = MaxAttempts
              THEN Idle
              ELSE [NewCall EXCEPT !.attempted = proc[r].attempted, !.tries = proc[r].tries])
  /\ UNCHANGED refreshLock

\* Mutant: the error path forgets the slot.
AfterFailedFetchKeepingSlot(p) ==
  IF p \in Request THEN [proc[p] EXCEPT !.pc = "idle"] ELSE Idle

\* fetch_remote_info returned an error.
AfterFailedFetch(p) == IF p \in Request THEN [proc[p] EXCEPT !.pc = "release"] ELSE Idle

---------------------------------------------------------------------------
(* refresh_access_token.  The caller passes `active`, and continues with   *)
(* the token it is given back.                                             *)

Continue(p, t) ==
  LET s == [proc[p] EXCEPT !.called = NoToken] IN
  CASE s.why = "preflight" -> [s EXCEPT !.pc = "info", !.active = t]
    [] s.why = "invalid" -> IF t # s.active
                              THEN [s EXCEPT !.pc = "info2", !.active = t]
                              ELSE [s EXCEPT !.pc = "suspect"]
    [] s.why = "stream" -> IF t # s.active THEN NewCall ELSE [s EXCEPT !.pc = "condemn"]
    [] s.why = "text" -> IF t \in s.attempted
                           THEN Idle
                           ELSE [s EXCEPT !.pc = "text", !.active = t,
                                          !.attempted = @ \cup {t}]
    [] s.why = "textInvalid" -> IF t # s.active /\ t \notin s.attempted
                                  THEN [s EXCEPT !.pc = "text", !.active = t,
                                                 !.attempted = @ \cup {t}]
                                  ELSE [s EXCEPT !.pc = "condemn"]
    [] OTHER -> Idle

\* The lock is free and no request is needed: the account is gone, has no
\* refresh token, or (unless forced) is not due or failed recently. Which
\* accounts have a refresh token is not kept, so every one may skip.
RefreshNotNeeded(p) ==
  /\ At(p, {"refresh"}) /\ refreshLock = NoProc
  /\ LET t == Resolve(proc[p].active) IN
       Set(p, Continue(p, IF t \in Live THEN t ELSE proc[p].active))
  /\ UNCHANGED <<poolVars, refreshLock>>

\* Mutant: no lock around the request.
RequestAccessTokenRefreshUnlocked(p) ==
  /\ At(p, {"refresh"})
  /\ LET t == Resolve(proc[p].active) IN
       /\ t \in Live
       /\ Set(p, [proc[p] EXCEPT !.pc = "oauth", !.called = t])
  /\ UNCHANGED <<poolVars, refreshLock>>

RequestAccessTokenRefresh(p) ==
  /\ At(p, {"refresh"}) /\ refreshLock = NoProc
  /\ LET t == Resolve(proc[p].active) IN
       /\ t \in Live
       /\ Set(p, [proc[p] EXCEPT !.pc = "oauth", !.called = t])
  /\ refreshLock' = p
  /\ UNCHANGED poolVars

\* The token endpoint answered with a new token, or with the same one.
RefreshSucceeds(p) ==
  /\ At(p, {"oauth"})
  /\ \E new \in Fresh \cup {proc[p].called} :
       LET old == Resolve(proc[p].called) IN
       /\ ApplyRefreshedTokens(proc[p].called, new)
       /\ Set(p, Continue(p, IF old \in Live THEN new ELSE old))
  /\ refreshLock' = NoProc

RefreshFails(p) ==
  /\ At(p, {"oauth"})
  /\ Set(p, Continue(p, proc[p].called))
  /\ refreshLock' = NoProc
  /\ UNCHANGED poolVars

---------------------------------------------------------------------------
(* fetch_remote_info *)

\* Upstream reports a quota and the status it implies, overwriting both.
RemoteInfo == {i \in [status : {"normal", "limited"}, quota : Quota] :
                 IF i.quota = 0 THEN i.status = "limited" ELSE i.quota = Unknown \/ i.status = "normal"}

\* The account is stored; a request goes on with it if it is still there,
\* available and of the plan it wants (`matches`), under its current token.
UserInfoArrives(p, info, matches) ==
  LET t == Resolve(proc[p].active) IN
  /\ At(p, {"info", "info2"})
  /\ UpdateAccount(proc[p].active, info.status, info.quota)
  /\ IF p \notin Request
       THEN Set(p, Idle)
       ELSE IF t \notin DOMAIN accounts'
       THEN Go(p, "release")
       ELSE IF IsImageAccountAvailable(accounts'[t]) /\ matches
       THEN Set(p, [proc[p] EXCEPT !.pc = "generate", !.why = "none", !.held = t,
                                   !.active = t, !.attempted = @ \cup {t}])
       ELSE Set(p, [proc[p] EXCEPT !.pc = "release", !.attempted = @ \cup {t}])
  /\ UNCHANGED refreshLock

UserInfoInvalid(p) ==
  /\ At(p, {"info", "info2"})
  /\ IF At(p, {"info"})
       THEN Set(p, [proc[p] EXCEPT !.pc = "refresh", !.why = "invalid"])
       ELSE Go(p, "suspect")
  /\ UNCHANGED <<poolVars, refreshLock>>

UserInfoFails(p) ==
  /\ At(p, {"info", "info2"})
  /\ Set(p, AfterFailedFetch(p))
  /\ UNCHANGED <<poolVars, refreshLock>>

\* record_invalid_token_seen defers the removal of a recent or rarely invalid
\* account; one that is gone is never deferred.
RecordInvalidTokenSeen(p) ==
  /\ At(p, {"suspect"})
  /\ \/ Go(p, "condemn")
     \/ Resolve(proc[p].active) \in Live /\ Set(p, AfterFailedFetch(p))
  /\ UNCHANGED <<poolVars, refreshLock>>

Condemn(p) ==
  /\ At(p, {"condemn"})
  /\ RemoveInvalidToken(proc[p].active)
  /\ CASE proc[p].why = "stream" -> Set(p, NewCall)
       [] proc[p].why = "textInvalid" -> Go(p, "pick")
       [] OTHER -> Set(p, AfterFailedFetch(p))
  /\ UNCHANGED refreshLock

---------------------------------------------------------------------------
(* generate_single_image: mark_image_result first releases the slot and    *)
(* then, in another critical section, updates the account.                 *)

GenerationEnds(r, outcome) ==
  /\ At(r, {"generate"})
  /\ ReleaseImageSlot(proc[r].held)
  /\ Set(r, [Idle EXCEPT !.pc = "mark", !.why = outcome, !.active = proc[r].held])
  /\ UNCHANGED refreshLock

MarkImageResult(r) ==
  /\ At(r, {"mark"})
  /\ RecordImageResult(proc[r].active, proc[r].why = "success")
  /\ CASE proc[r].why = "retry" -> Set(r, NewCall)
       [] proc[r].why = "invalid" -> Set(r, [proc[r] EXCEPT !.pc = "refresh", !.why = "stream"])
       [] OTHER -> Set(r, Idle)
  /\ UNCHANGED refreshLock

---------------------------------------------------------------------------
(* stream_text_deltas *)

StartText(x) ==
  /\ At(x, {"idle"})
  /\ Set(x, [Idle EXCEPT !.pc = "pick"])
  /\ UNCHANGED <<poolVars, refreshLock>>

\* Mutant: each choice starts from an empty attempted set.
GetTextAccessTokenAfresh(x) ==
  /\ At(x, {"pick"})
  /\ \/ TextCandidates({}) = {} /\ Set(x, Idle)
     \/ \E t \in TextCandidates({}) :
          Set(x, [Idle EXCEPT !.pc = "refresh", !.why = "text", !.active = t])
  /\ UNCHANGED <<poolVars, refreshLock>>

GetTextAccessToken(x) ==
  /\ At(x, {"pick"})
  /\ \/ TextCandidates(proc[x].attempted) = {} /\ Set(x, Idle)
     \/ \E t \in TextCandidates(proc[x].attempted) :
          Set(x, [proc[x] EXCEPT !.pc = "refresh", !.why = "text", !.active = t])
  /\ UNCHANGED <<poolVars, refreshLock>>

\* The stream completes, or fails other than by an invalid token.
TextEnds(x) ==
  /\ At(x, {"text"})
  /\ Set(x, Idle)
  /\ UNCHANGED <<poolVars, refreshLock>>

TextTokenInvalid(x) ==
  /\ At(x, {"text"})
  /\ Set(x, [proc[x] EXCEPT !.pc = "refresh", !.why = "textInvalid"])
  /\ UNCHANGED <<poolVars, refreshLock>>

---------------------------------------------------------------------------
(* Jobs and the admin *)

\* The tokens come from a list read earlier, so they may be rotated or gone.
StartRefreshJob(j) ==
  /\ At(j, {"idle"})
  /\ \E t \in issued :
       Set(j, [Idle EXCEPT !.pc = "refresh", !.why = "preflight", !.active = t])
  /\ UNCHANGED <<poolVars, refreshLock>>

StartKeepalive(j) ==
  /\ At(j, {"idle"})
  /\ \E t \in issued :
       Set(j, [Idle EXCEPT !.pc = "refresh", !.why = "keepalive", !.active = Resolve(t)])
  /\ UNCHANGED <<poolVars, refreshLock>>

AdminAdds ==
  /\ \E t \in Fresh \cup (IF Reimport THEN issued ELSE {}), a \in Account : AddAccount(t, a)
  /\ UNCHANGED <<proc, refreshLock>>

AdminDeletes ==
  /\ \E S \in SUBSET issued \ {{}} : DeleteAccounts(S)
  /\ UNCHANGED <<proc, refreshLock>>

\* An earlier name of an account would resolve to it; the flag of an unknown
\* quota cannot be edited.
AdminEdits ==
  /\ \E t \in Live, status \in Status, quota \in 0..MaxQuota :
       UpdateAccount(t, status, IF accounts[t].quota = Unknown THEN Unknown ELSE quota)
  /\ UNCHANGED <<proc, refreshLock>>

\* The process stops and is started again: storage gives back the accounts,
\* everything else was in memory.
Restart ==
  /\ inflight' = [t \in Token |-> 0]
  /\ aliases' = [t \in {} |-> t]
  /\ proc' = [p \in Proc |-> Idle]
  /\ refreshLock' = NoProc
  /\ UNCHANGED <<accounts, issued>>

---------------------------------------------------------------------------

Init ==
  /\ PoolInit
  /\ proc = [p \in Proc |-> Idle]
  /\ refreshLock = NoProc

\* What a process does by itself once started; each network wait ends, since
\* every upstream call has a timeout.
Refreshing(p) ==
  \/ RefreshNotNeeded(p) \/ RequestAccessTokenRefresh(p)

Working(p) ==
  \/ RefreshSucceeds(p) \/ RefreshFails(p)
  \/ \E info \in RemoteInfo, matches \in BOOLEAN : UserInfoArrives(p, info, matches)
  \/ UserInfoInvalid(p) \/ UserInfoFails(p)
  \/ RecordInvalidTokenSeen(p) \/ Condemn(p)

ImageStep(r) ==
  \/ NoAccountReady(r) \/ AcquireNextCandidateToken(r) \/ ReleaseAfterCheck(r)
  \/ \E outcome \in {"success", "failure", "retry", "invalid"} : GenerationEnds(r, outcome)
  \/ MarkImageResult(r)

TextStep(x) == GetTextAccessToken(x) \/ TextEnds(x) \/ TextTokenInvalid(x)

Next ==
  \/ \E p \in Proc : Refreshing(p) \/ Working(p)
  \/ \E r \in Request : StartRequest(r) \/ ImageStep(r)
  \/ \E x \in TextRequest : StartText(x) \/ TextStep(x)
  \/ \E j \in Job : StartRefreshJob(j) \/ StartKeepalive(j)
  \/ AdminAdds \/ AdminDeletes \/ AdminEdits
  \/ Restart

Spec == Init /\ [][Next]_vars

\* Tasks are scheduled and the refresh lock is a fair queue (tokio Mutex).
Fairness ==
  /\ \A p \in Proc : WF_vars(Working(p)) /\ SF_vars(Refreshing(p))
  /\ \A r \in Request : WF_vars(ImageStep(r))
  /\ \A x \in TextRequest : WF_vars(TextStep(x))

FairSpec == Spec /\ Fairness

---------------------------------------------------------------------------
(* Properties *)

Typed ==
  /\ PoolTypeOK
  /\ proc \in [Proc -> ProcState]
  /\ refreshLock \in Proc \cup {NoProc}

\* The tokens a process knows of.
Known(s) == ({s.held, s.active, s.called} \ {NoToken}) \cup s.attempted

\* The type of every variable, and: every token the pool holds, has a slot
\* count or an alias for, or a process knows of has been imported by the admin
\* or issued by the token endpoint; no walk along aliases leaves these tokens.
TypeOK ==
  /\ Typed
  /\ \A t \in DOMAIN aliases : t \in issued /\ aliases[t] \in issued
  /\ \A t \in Fresh : inflight[t] = 0
  /\ \A p \in Proc : Known(proc[p]) \subseteq issued

\* No account's slot counter exceeds image_account_concurrency, whatever is
\* rotated, deleted or imported between the check in
\* acquire_next_candidate_token and the release in mark_image_result.
SlotLimit == \A t \in Token : inflight[t] <= MaxConcurrency

Holders(t) == {r \in Request : Holding(r) /\ Resolve(proc[r].held) = t}

\* The slot counter of a live account is the number of requests that hold
\* one of its slots, under its current or an earlier token: rotation, early
\* release before mark_image_result's update, deletion and automatic removal
\* neither leak a slot nor free one that is in use.
SlotAccounting == \A t \in Live : inflight[t] = Cardinality(Holders(t))

\* The settings page promises "limits the number of image requests each
\* account processes at the same time"; here, of the requests that passed
\* the account check and are generating.
AccountConcurrency ==
  \A t \in Live :
    Cardinality({r \in Request : At(r, {"generate"}) /\ Resolve(proc[r].held) = t})
      <= MaxConcurrency

\* token_refresh_lock: the response of the token endpoint is applied to the
\* very token whose refresh token was sent, or dropped; it never replaces a
\* token that another refresh produced while the request was out.
RotationOfRequestedTokenOnly ==
  [][\A t \in DOMAIN aliases' :
       (t \notin DOMAIN aliases \/ aliases'[t] # aliases[t])
         => \E p \in Proc : At(p, {"oauth"}) /\ proc[p].called = t]_vars

\* apply_refreshed_tokens keeps every former token of an account usable: what
\* resolved to the account before a rotation resolves to it afterwards.
RotationKeepsOldNames ==
  [][\A old \in Live \ DOMAIN accounts', new \in DOMAIN accounts' \ Live :
       \A t \in Token : Resolve(t) = old => Resolve(t)' = new]_vars

\* A slot is never held for ever: every request that takes one gives it back,
\* although it may have to wait for the refresh lock while it holds the slot.
SlotEventuallyReleased == \A r \in Request : Holding(r) ~> ~Holding(r)

\* stream_text_deltas has no bound of its own: it goes on with each token a
\* refresh gives it, and a new one is never in the attempted set.  Only new
\* tokens feed the loop: a text request ends unless tokens it has not tried go
\* on being issued or imported for ever, since the attempted set keeps it from
\* going round through the known accounts, whoever rotates, removes and
\* imports them meanwhile.
TextEventuallyEnds ==
  \A x \in TextRequest :
    []<><<issued' \ issued # {}>>_vars \/ (~At(x, {"idle"}) ~> At(x, {"idle"}))

\* The semaphore the slots implement.
Slots == INSTANCE SlotSemaphore WITH
  using <- [r \in Request |->
              IF Holding(r) /\ Resolve(proc[r].held) \in Live
                THEN Resolve(proc[r].held) ELSE NoToken]

\* The slots of the pool are a semaphore per account: an account that is
\* rotated keeps its users, one that is removed loses them, and nobody enters
\* a full one.
ImplementsSemaphore == Slots!Spec
=============================================================================
