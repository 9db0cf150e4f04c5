----------------------------- MODULE SlotProofs -----------------------------
(***************************************************************************)
(* That the slots of the account pool are accounted for, and that they      *)
(* implement SlotSemaphore, for every set of tokens and requests.  First    *)
(* what aliases resolve to and how the critical sections change it, then    *)
(* AccountingInv, which says where a request holds a slot and that its      *)
(* token names the account it checks.  Every step is of one of five kinds   *)
(* (Kinds), and each kind keeps the invariant and is a step of the          *)
(* semaphore.                                                               *)
(***************************************************************************)
EXTENDS PoolProofs, FiniteSetTheorems

---------------------------------------------------------------------------
(* Resolution along the aliases.                                           *)

\* Where aliases lead only from tokens that are not in the pool, to tokens that
\* have been issued, and every walk along them has an end.
Orderly ==
  /\ PoolTypeOK
  /\ DOMAIN aliases \subseteq issued \ Live
  /\ \A t \in DOMAIN aliases : aliases[t] \in issued
  /\ \A t \in Token : ChainEnds(t) # {}

\* A chain begins with its token, contains what its members are forwarded to,
\* and is within every set that does.
LEMMA ChainFacts ==
  PoolTypeOK =>
    \A t \in Token :
      /\ t \in Chain(t) /\ Chain(t) \subseteq Token
      /\ \A x \in Chain(t) : Forwarded(x) => aliases[x] \in Chain(t)
      /\ \A S \in SUBSET Token :
           t \in S /\ (\A x \in S : Forwarded(x) => aliases[x] \in S) => Chain(t) \subseteq S
<1> SUFFICES ASSUME PoolTypeOK, NEW t \in Token
             PROVE  /\ t \in Chain(t) /\ Chain(t) \subseteq Token
                    /\ \A x \in Chain(t) : Forwarded(x) => aliases[x] \in Chain(t)
                    /\ \A S \in SUBSET Token :
                         t \in S /\ (\A x \in S : Forwarded(x) => aliases[x] \in S)
                           => Chain(t) \subseteq S
  OBVIOUS
<1>1. t \in Chain(t) /\ Chain(t) \subseteq Token
  BY DEF Chain
<1>2. \A x \in Chain(t) : Forwarded(x) => aliases[x] \in Chain(t)
  <2> SUFFICES ASSUME NEW x \in Chain(t), Forwarded(x) PROVE aliases[x] \in Chain(t)
    OBVIOUS
  <2>1. aliases[x] \in Token
    BY DEF Forwarded, PoolTypeOK
  <2> QED BY <2>1 DEF Chain
<1>3. \A S \in SUBSET Token :
        t \in S /\ (\A x \in S : Forwarded(x) => aliases[x] \in S) => Chain(t) \subseteq S
  BY DEF Chain
<1> QED BY <1>1, <1>2, <1>3

LEMMA ChainFactsNext ==
  (PoolTypeOK =>
    \A t \in Token :
      /\ t \in Chain(t) /\ Chain(t) \subseteq Token
      /\ \A x \in Chain(t) : Forwarded(x) => aliases[x] \in Chain(t)
      /\ \A S \in SUBSET Token :
           t \in S /\ (\A x \in S : Forwarded(x) => aliases[x] \in S) => Chain(t) \subseteq S)'
BY ChainFacts, PTL

\* The chain of a token that is forwarded is that token before the chain of its
\* replacement.
LEMMA ChainFollows ==
  PoolTypeOK => \A t \in Token : Forwarded(t) => Chain(t) = {t} \cup Chain(aliases[t])
<1> SUFFICES ASSUME PoolTypeOK, NEW t \in Token, Forwarded(t)
             PROVE  Chain(t) = {t} \cup Chain(aliases[t])
  OBVIOUS
<1>0. aliases[t] \in Token
  BY DEF Forwarded, PoolTypeOK
<1>1. Chain(t) \subseteq {t} \cup Chain(aliases[t])
  <2> DEFINE S == {t} \cup Chain(aliases[t])
  <2>1. S \in SUBSET Token /\ t \in S /\ \A x \in S : Forwarded(x) => aliases[x] \in S
    BY <1>0, ChainFacts
  <2> HIDE DEF S
  <2>2. Chain(t) \subseteq S
    BY <2>1, ChainFacts
  <2> QED BY <2>2 DEF S
<1>2. Chain(aliases[t]) \subseteq Chain(t)
  BY <1>0, ChainFacts
<1> QED BY <1>1, <1>2, ChainFacts

LEMMA ChainFollowsNext ==
  (PoolTypeOK => \A t \in Token : Forwarded(t) => Chain(t) = {t} \cup Chain(aliases[t]))'
BY ChainFollows, PTL

\* A chain has at most one end.
LEMMA OneEnd ==
  PoolTypeOK => \A t \in Token : \A d, e \in ChainEnds(t) : d = e
<1> SUFFICES ASSUME PoolTypeOK, NEW t \in Token, NEW d \in ChainEnds(t), NEW e \in ChainEnds(t)
             PROVE  d = e
  OBVIOUS
<1> DEFINE S == {x \in Token : e \in Chain(x)}
<1>0. d \in Token /\ e \in Token /\ e \in Chain(t) /\ d \in Chain(t) /\ ~Forwarded(e) /\ ~Forwarded(d)
  BY ChainFacts DEF ChainEnds
<1>1. \A x \in S : Forwarded(x) => aliases[x] \in S
  <2> SUFFICES ASSUME NEW x \in S, Forwarded(x) PROVE e \in Chain(aliases[x])
    BY DEF Forwarded, PoolTypeOK
  <2>1. x # e /\ e \in {x} \cup Chain(aliases[x])
    BY <1>0, ChainFollows
  <2> QED BY <2>1
<1>2. t \in S /\ S \in SUBSET Token
  BY <1>0
<1> HIDE DEF S
<1>3. d \in S
  BY <1>0, <1>1, <1>2, ChainFacts
<1>4. e \in Chain(d)
  BY <1>3 DEF S
<1>5. {d} \in SUBSET Token /\ d \in {d} /\ \A x \in {d} : Forwarded(x) => aliases[x] \in {d}
  BY <1>0
<1>6. Chain(d) \subseteq {d}
  BY <1>0, <1>5, ChainFacts
<1> QED BY <1>4, <1>6

\* What holds of the tokens that are not forwarded, and of a token whenever it
\* holds of its replacement, holds of all.
LEMMA ChainInduction ==
  ASSUME Orderly, NEW S \in SUBSET Token,
         \A t \in Token : (t \in DOMAIN aliases => aliases[t] \in S) => t \in S
  PROVE  S = Token
<1> SUFFICES ASSUME NEW t \in Token, t \notin S PROVE FALSE
  OBVIOUS
<1> DEFINE N == Token \ S
<1>1. t \in N /\ N \in SUBSET Token /\ \A x \in N : Forwarded(x) => aliases[x] \in N
  BY DEF Orderly, PoolTypeOK, Forwarded
<1> HIDE DEF N
<1>2. Chain(t) \subseteq N
  BY <1>1, ChainFacts DEF Orderly
<1>3. PICK e : e \in ChainEnds(t)
  BY DEF Orderly
<1>4. e \in N /\ (e \notin DOMAIN aliases \/ e \in Live)
  BY <1>2, <1>3 DEF ChainEnds, Forwarded
<1>5. e \in N /\ e \notin DOMAIN aliases
  BY <1>2, <1>3, <1>4 DEF Orderly, ChainEnds
<1> QED BY <1>5 DEF N

\* Resolving a token gives the end of its chain, which its replacement resolves
\* to as well.
Resolving(t) ==
  /\ Resolve(t) \in Token \ DOMAIN aliases
  /\ t \notin DOMAIN aliases => Resolve(t) = t
  /\ t \in DOMAIN aliases => Resolve(t) = Resolve(aliases[t])
  /\ t \in issued => Resolve(t) \in issued

LEMMA ResolvesToEnd ==
  Orderly => \A t \in Token : Resolve(t) \in ChainEnds(t)
<1> SUFFICES ASSUME Orderly, NEW t \in Token PROVE Resolve(t) \in ChainEnds(t)
  OBVIOUS
<1>1. PICK e \in ChainEnds(t) : TRUE
  BY DEF Orderly
<1>2. CASE ~Forwarded(t)
  BY <1>2, ChainFacts DEF Orderly, Resolve, ChainEnds
<1>3. CASE Forwarded(t)
  <2>1. Resolve(t) = CHOOSE u \in ChainEnds(t) : TRUE
    BY <1>1, <1>3, Zenon DEF Resolve
  <2> QED BY <1>1, <2>1, Zenon
<1> QED BY <1>2, <1>3

LEMMA Resolves == Orderly => \A t \in Token : Resolving(t)
<1> SUFFICES ASSUME Orderly PROVE \A t \in Token : Resolving(t)
  OBVIOUS
<1>0. PoolTypeOK
  BY DEF Orderly
<1>1. \A t \in Token : Resolve(t) \in Token \ DOMAIN aliases
  <2> SUFFICES ASSUME NEW t \in Token PROVE Resolve(t) \in Token \ DOMAIN aliases
    OBVIOUS
  <2>1. Resolve(t) \in ChainEnds(t)
    BY ResolvesToEnd
  <2> QED BY <1>0, <2>1, ChainFacts DEF ChainEnds, Forwarded, Orderly
<1>2. \A t \in Token : t \notin DOMAIN aliases => Resolve(t) = t
  BY DEF Resolve, Forwarded
<1>3. \A t \in DOMAIN aliases : Resolve(t) = Resolve(aliases[t])
  <2> SUFFICES ASSUME NEW t \in DOMAIN aliases PROVE Resolve(t) = Resolve(aliases[t])
    OBVIOUS
  <2>1. t \in Token /\ aliases[t] \in Token /\ Forwarded(t)
    BY DEF Orderly, PoolTypeOK, Forwarded
  <2>2. Resolve(t) \in ChainEnds(t) /\ Resolve(aliases[t]) \in ChainEnds(aliases[t])
    BY <2>1, ResolvesToEnd
  <2>3. Resolve(aliases[t]) \in ChainEnds(t)
    BY <1>0, <2>1, <2>2, ChainFollows DEF ChainEnds
  <2> QED BY <1>0, <2>1, <2>2, <2>3, OneEnd
<1>4. \A t \in issued : Resolve(t) \in issued
  <2> DEFINE S == {t \in Token : t \in issued => Resolve(t) \in issued}
  <2>1. \A t \in Token : (t \in DOMAIN aliases => aliases[t] \in S) => t \in S
    BY <1>2, <1>3 DEF Orderly
  <2>2. S = Token
    <3> HIDE DEF S
    <3> QED BY <2>1, ChainInduction DEF S
  <2> QED BY <1>0, <2>2 DEF PoolTypeOK
<1> QED BY <1>1, <1>2, <1>3, <1>4 DEF Resolving

LEMMA ResolvesNext == (Orderly => \A t \in Token : Resolving(t))'
BY Resolves, PTL

---------------------------------------------------------------------------
(* What the critical sections do to resolution.                            *)

\* Dropping aliases leaves the rest in order.
LEMMA OrderlyShrinks ==
  ASSUME Orderly, PoolTypeOK', DOMAIN aliases' \subseteq issued' \ Live', issued \subseteq issued',
         DOMAIN aliases' \subseteq DOMAIN aliases,
         \A t \in DOMAIN aliases' : aliases'[t] = aliases[t]
  PROVE  Orderly'
<1>1. \A t \in DOMAIN aliases' : aliases'[t] \in issued'
  BY DEF Orderly
<1>2. ASSUME NEW t \in Token, ChainEnds(t)' = {} PROVE FALSE
  <2> DEFINE C == Chain(t)'
  <2>1. C \in SUBSET Token /\ t \in C
    BY ChainFactsNext
  <2>2. \A x \in C : Forwarded(x)'
    BY <1>2 DEF ChainEnds
  <2>3. \A x \in C : aliases'[x] \in C
    BY <2>2, ChainFactsNext
  <2>4. \A x \in C : x \in DOMAIN aliases' /\ aliases[x] \in C
    BY <2>2, <2>3 DEF Forwarded
  <2> HIDE DEF C
  <2>5. Chain(t) \subseteq C
    BY <2>1, <2>4, ChainFacts DEF Orderly
  <2>6. PICK e : e \in ChainEnds(t)
    BY DEF Orderly
  <2>7. e \in C /\ ~Forwarded(e)
    BY <2>5, <2>6 DEF ChainEnds
  <2>8. e \in DOMAIN aliases /\ e \notin Live
    BY <2>4, <2>7 DEF Orderly
  <2> QED BY <2>7, <2>8 DEF Forwarded
<1> QED BY <1>1, <1>2 DEF Orderly

\* The same aliases resolve the same.
LEMMA ResolvesSame ==
  ASSUME Orderly, Orderly', aliases' = aliases
  PROVE  \A t \in Token : Resolve(t)' = Resolve(t)
<1> DEFINE S == {t \in Token : Resolve(t)' = Resolve(t)}
<1>1. \A t \in Token : Resolving(t) /\ Resolving(t)'
  BY Resolves, ResolvesNext
<1>2. \A t \in Token : (t \in DOMAIN aliases => aliases[t] \in S) => t \in S
  BY <1>1 DEF Resolving
<1>3. S \in SUBSET Token
  OBVIOUS
<1> HIDE DEF S
<1>4. S = Token
  BY <1>2, <1>3, ChainInduction
<1> QED BY <1>4 DEF S

\* What a change of the pool leaves alone: a token seen so far resolves to an
\* account that is there afterwards if and only if it did before, and that account
\* keeps its slots.
Tracks ==
  /\ Orderly'
  /\ issued \subseteq issued'
  /\ Live' \subseteq Live \cup Fresh
  /\ Live' \subseteq Live \/ Live \subseteq Live'
  /\ \A t \in issued, u \in Live' : Resolve(t)' = u <=> Resolve(t) = u
  /\ \A t \in Live' : inflight'[t] = IF t \in Live THEN inflight[t] ELSE 0

LEMMA SameAliasesTrack ==
  ASSUME Orderly, PoolTypeOK', DOMAIN aliases' \subseteq issued' \ Live', issued \subseteq issued',
         Live' \subseteq Live \cup Fresh, Live' \subseteq Live \/ Live \subseteq Live',
         aliases' = aliases,
         \A t \in Live' : inflight'[t] = IF t \in Live THEN inflight[t] ELSE 0
  PROVE  Tracks
<1>1. Orderly'
  BY OrderlyShrinks
<1>2. \A t \in Token : Resolve(t)' = Resolve(t)
  BY <1>1, ResolvesSame
<1> QED BY <1>1, <1>2 DEF Tracks, Orderly, PoolTypeOK

LEMMA DeleteTracks ==
  ASSUME Orderly, PoolTypeOK', NEW X \in SUBSET Token, DeleteAccounts(X)
  PROVE  Tracks
<1> DEFINE gone == {Resolve(t) : t \in X}
<1>0. \A t \in Token : Resolving(t)
  BY Resolves
<1>1. gone \subseteq Token /\ gone \cap DOMAIN aliases = {}
  BY <1>0 DEF Resolving
<1>2. Live' = Live \ gone /\ issued' = issued
  BY DEF DeleteAccounts, Drop, Restrict, Live
<1>3. /\ DOMAIN aliases' = {t \in DOMAIN aliases \ gone : aliases[t] \notin gone}
      /\ \A t \in DOMAIN aliases' : aliases'[t] = aliases[t]
  BY DEF DeleteAccounts, Restrict
<1> HIDE DEF gone
<1>4. Orderly'
  BY <1>2, <1>3, OrderlyShrinks DEF Orderly
<1>5. \A t \in Token : Resolving(t)'
  BY <1>4, ResolvesNext
<1>6. \A t \in Token : IF Resolve(t) \in gone THEN Resolve(t)' \notin Live' ELSE Resolve(t)' = Resolve(t)
  <2> DEFINE S == {t \in Token : IF Resolve(t) \in gone THEN Resolve(t)' \notin Live'
                                                        ELSE Resolve(t)' = Resolve(t)}
  <2>1. ASSUME NEW t \in Token, t \notin DOMAIN aliases PROVE t \in S
    BY <1>0, <1>2, <1>3, <1>5, <2>1 DEF Resolving
  <2>2. ASSUME NEW t \in DOMAIN aliases, aliases[t] \in S PROVE t \in S
    <3>1. t \in Token /\ t \notin Live /\ aliases[t] \in Token /\ Resolve(t) = Resolve(aliases[t])
      BY <1>0 DEF Orderly, PoolTypeOK, Resolving
    <3>2. CASE t \in DOMAIN aliases'
      <4>1. Resolve(t)' = Resolve(aliases[t])'
        BY <1>3, <1>5, <3>1, <3>2 DEF Resolving
      <4> QED BY <1>3, <2>2, <3>1, <3>2, <4>1
    <3>3. CASE t \notin DOMAIN aliases'
      <4>1. Resolve(t)' = t /\ t \notin Live'
        BY <1>2, <1>5, <3>1, <3>3 DEF Resolving
      <4>2. aliases[t] \in gone
        BY <1>1, <1>3, <3>3
      <4>3. Resolve(t) \in gone
        BY <1>0, <1>1, <3>1, <4>2 DEF Resolving
      <4> QED BY <3>1, <4>1, <4>3
    <3> QED BY <3>2, <3>3
  <2>3. \A t \in Token : (t \in DOMAIN aliases => aliases[t] \in S) => t \in S
    BY <2>1, <2>2
  <2>4. S \in SUBSET Token
    OBVIOUS
  <2> HIDE DEF S
  <2>5. S = Token
    BY <2>3, <2>4, ChainInduction
  <2> QED BY <2>5 DEF S
<1>7. \A t \in issued, u \in Live' : Resolve(t)' = u <=> Resolve(t) = u
  BY <1>2, <1>6 DEF Orderly, PoolTypeOK
<1>8. \A t \in Live' : t \in Live /\ inflight'[t] = inflight[t]
  BY <1>2 DEF DeleteAccounts, gone, PoolTypeOK
<1> QED BY <1>2, <1>4, <1>7, <1>8 DEF Tracks

\* A rotation renames what tokens resolve to.
LEMMA RotationMoves ==
  ASSUME Orderly, PoolTypeOK', NEW old \in Live, NEW new \in Fresh,
         aliases' = Put(aliases, old, new), Live' = (Live \ {old}) \cup {new},
         issued' = issued \cup {new}
  PROVE  /\ Orderly'
         /\ \A t \in Token : Resolve(t)' = IF Resolve(t) = old THEN new ELSE Resolve(t)
<1>0. /\ new \in Token /\ old \in Token /\ old # new /\ new \notin DOMAIN aliases'
      /\ old \notin DOMAIN aliases
  BY DEF Orderly, PoolTypeOK, Fresh, Put
<1>1. /\ DOMAIN aliases' = DOMAIN aliases \cup {old} /\ aliases'[old] = new
      /\ \A t \in DOMAIN aliases : aliases'[t] = aliases[t]
  BY DEF Put, Orderly
<1>2. DOMAIN aliases' \subseteq issued' \ Live' /\ \A t \in DOMAIN aliases' : aliases'[t] \in issued'
  BY <1>0, <1>1 DEF Orderly, PoolTypeOK, Fresh
<1>3. \A t \in Token : ChainEnds(t)' # {}
  <2> DEFINE S == {t \in Token : ChainEnds(t)' # {}}
  <2>1. \A t \in Token : t \notin DOMAIN aliases' => t \in S
    BY ChainFactsNext DEF ChainEnds, Forwarded
  <2>2. ASSUME NEW t \in DOMAIN aliases', aliases'[t] \in S PROVE t \in S
    <3>1. t \in Token /\ Forwarded(t)'
      BY <1>2 DEF Forwarded, PoolTypeOK
    <3>2. Chain(t)' = {t} \cup Chain(aliases[t])'
      BY <3>1, ChainFollowsNext
    <3> QED BY <2>2, <3>1, <3>2 DEF ChainEnds
  <2>3. new \in S /\ old \in S
    BY <1>0, <1>1, <2>1, <2>2
  <2>4. \A t \in Token : (t \in DOMAIN aliases => aliases[t] \in S) => t \in S
    BY <1>1, <2>1, <2>2, <2>3
  <2>5. S \in SUBSET Token
    OBVIOUS
  <2> HIDE DEF S
  <2>6. S = Token
    BY <2>4, <2>5, ChainInduction
  <2> QED BY <2>6 DEF S
<1>4. Orderly'
  BY <1>2, <1>3 DEF Orderly
<1>5. \A t \in Token : Resolving(t) /\ Resolving(t)'
  BY <1>4, Resolves, ResolvesNext
<1>6. \A t \in Token : Resolve(t)' = IF Resolve(t) = old THEN new ELSE Resolve(t)
  <2> DEFINE S == {t \in Token : Resolve(t)' = IF Resolve(t) = old THEN new ELSE Resolve(t)}
  <2>1. old \in S
    BY <1>0, <1>1, <1>5 DEF Resolving
  <2>2. \A t \in Token : t \notin DOMAIN aliases => t \in S
    BY <1>0, <1>1, <1>5, <2>1 DEF Resolving
  <2>3. ASSUME NEW t \in DOMAIN aliases, aliases[t] \in S PROVE t \in S
    <3>1. t \in Token /\ t \in DOMAIN aliases' /\ aliases'[t] = aliases[t]
      BY <1>1 DEF Orderly, PoolTypeOK
    <3>2. Resolve(t)' = Resolve(aliases[t])' /\ Resolve(t) = Resolve(aliases[t])
      BY <1>5, <3>1 DEF Resolving
    <3> QED BY <2>3, <3>1, <3>2
  <2>4. \A t \in Token : (t \in DOMAIN aliases => aliases[t] \in S) => t \in S
    BY <2>2, <2>3
  <2>5. S \in SUBSET Token
    OBVIOUS
  <2> HIDE DEF S
  <2>6. S = Token
    BY <2>4, <2>5, ChainInduction
  <2> QED BY <2>6 DEF S
<1> QED BY <1>4, <1>6

---------------------------------------------------------------------------
(* Who holds a slot.                                                       *)

\* Two tokens that name the same account, as long as one is there.
Same(a, b) == Resolve(a) \in Live \/ Resolve(b) \in Live => Resolve(a) = Resolve(b)

\* When a request is in its account check and needs its token.
Checking(s) == s.pc \in {"refresh", "oauth", "info", "info2"}

\* A request holds a slot from its choice of an account to the end of its
\* generation, and not while it deals with a token that a stream found invalid.
HeldWhere(s) ==
  /\ s.pc \notin {"pick", "text"}
  /\ s.pc \in {"info", "info2", "suspect"} => s.why \in {"preflight", "invalid"}
  /\ s.pc \in {"refresh", "oauth", "condemn"} => s.why \in {"preflight", "invalid", "stream"}
  /\ s.held # NoToken <=>
       \/ s.pc \in {"info", "info2", "suspect", "release", "generate"}
       \/ s.pc \in {"refresh", "oauth", "condemn"} /\ s.why # "stream"

\* The token it holds a slot of names the account it is checking.
HeldToken(s) ==
  s.held # NoToken =>
    /\ s.held \in issued
    /\ Checking(s) => s.active \in issued /\ Same(s.held, s.active)
    /\ s.pc = "oauth" => s.called \in issued /\ Same(s.held, s.called)

HoldingRequests == {r \in Request : Holding(r)}

AccountingInv ==
  /\ Orderly
  /\ \A r \in Request : HeldWhere(proc[r]) /\ HeldToken(proc[r])
  /\ IsFiniteSet(HoldingRequests)
  /\ SlotAccounting

---------------------------------------------------------------------------
(* The kinds of steps.                                                     *)

\* The slots stay where they are: each request goes on with what it holds.
Keeps(r) ==
  /\ proc'[r].held # NoToken <=> Holding(r)
  /\ HeldToken(proc'[r])
  /\ Holding(r) => Same(proc[r].held, proc'[r].held)

Quiet == Tracks /\ \A r \in Request : Keeps(r)

\* An account goes from one token to another, with its slots.
Goes(r, old, new) ==
  /\ proc'[r].held = proc[r].held
  /\ Holding(r) =>
       /\ Resolve(proc[r].held) = old
       /\ proc'[r].pc # "oauth"
       /\ Checking(proc'[r]) => proc'[r].active = new

Rotates(old, new) ==
  /\ old \in Live /\ new \in Fresh
  /\ Live' = (Live \ {old}) \cup {new}
  /\ aliases' = Put(aliases, old, new)
  /\ issued' = issued \cup {new}
  /\ inflight' = [inflight EXCEPT ![old] = 0, ![new] = @ + inflight[old]]
  /\ \A r \in Request : proc'[r] = proc[r] \/ Goes(r, old, new)

\* A request takes a slot, or gives one back.
Others(r) == \A q \in Request \ {r} : proc'[q] = proc[q]

Takes(r, t) ==
  /\ ~Holding(r) /\ t \in Live /\ inflight[t] < MaxConcurrency
  /\ TakeSlot(t)
  /\ proc'[r].held = t /\ proc'[r].active = t /\ proc'[r].pc # "oauth"
  /\ Others(r)

Releases(r) ==
  /\ Holding(r)
  /\ ReleaseImageSlot(proc[r].held)
  /\ proc'[r].held = NoToken
  /\ Others(r)

Kinds ==
  \/ Quiet
  \/ \E old, new : Rotates(old, new)
  \/ \E r \in Request : \E t : Takes(r, t)
  \/ \E r \in Request : Releases(r)
  \/ Restart

---------------------------------------------------------------------------
(* Each kind keeps the accounts of slots.                                  *)

LEMMA SameKept ==
  ASSUME Orderly, Tracks, NEW a \in issued, NEW b \in issued, Same(a, b)
  PROVE  Same(a, b)'
<1> SUFFICES ASSUME NEW c \in issued, NEW d \in issued, Same(c, d), Resolve(c)' \in Live'
             PROVE  Resolve(c)' = Resolve(d)'
  BY DEF Same
<1>1. PICK u \in Live' : Resolve(c)' = u
  OBVIOUS
<1>2. Resolve(c) = u /\ Resolve(c) \in issued
  BY <1>1, Resolves DEF Tracks, Resolving, Orderly, PoolTypeOK
<1>3. u \in Live
  BY <1>2 DEF Tracks, Fresh
<1>4. Resolve(d) = u
  BY <1>2, <1>3 DEF Same
<1> QED BY <1>1, <1>4 DEF Tracks

LEMMA HeldTokenKept ==
  ASSUME Orderly, Tracks, NEW s, HeldToken(s)
  PROVE  HeldToken(s)'
BY SameKept DEF HeldToken, Tracks

\* Requests whose slots stay where they are are counted as before.
LEMMA QuietAccounting ==
  ASSUME AccountingInv, Quiet, \A r \in Request : HeldWhere(proc'[r])
  PROVE  AccountingInv'
<1>0. Orderly /\ Orderly' /\ Tracks
  BY DEF AccountingInv, Quiet, Tracks
<1>1. \A r \in Request : Holding(r)' <=> Holding(r)
  BY DEF Quiet, Keeps, Holding
<1>2. ASSUME NEW r \in Request PROVE HeldToken(proc[r])'
  <2>1. PICK s : s = proc'[r]
    OBVIOUS
  <2>2. HeldToken(s)
    BY <2>1 DEF Quiet, Keeps
  <2>3. HeldToken(s)'
    BY <1>0, <2>2, HeldTokenKept
  <2> QED BY <2>1, <2>3
<1>3. HoldingRequests' = HoldingRequests
  BY <1>1 DEF HoldingRequests
<1>4. ASSUME NEW t \in Live' PROVE inflight'[t] = Cardinality(Holders(t)')
  <2>1. ASSUME NEW r \in Request, Holding(r)
        PROVE  Resolve(proc[r].held)' = t <=> Resolve(proc[r].held) = t
    <3>1. PICK a, b : a = proc[r].held /\ b = proc'[r].held
      OBVIOUS
    <3>2. a \in issued /\ b \in issued /\ Same(a, b)
      BY <2>1, <3>1 DEF AccountingInv, HeldToken, Quiet, Keeps, Holding
    <3>3. Resolve(b)' = t <=> Resolve(b) = t
      BY <3>2 DEF Quiet, Tracks
    <3>4. Resolve(a) \in issued /\ Resolve(b) \in issued
      BY <1>0, <3>2, Resolves DEF Resolving, Orderly, PoolTypeOK
    <3>5. Resolve(a) = t <=> Resolve(b) = t
      BY <1>0, <3>2, <3>4 DEF Same, Tracks, Fresh
    <3> QED BY <3>1, <3>3, <3>5
  <2>2. Holders(t)' = Holders(t)
    BY <1>1, <2>1 DEF Holders
  <2>3. CASE t \in Live
    BY <2>2, <2>3 DEF AccountingInv, SlotAccounting, Quiet, Tracks
  <2>4. CASE t \notin Live
    <3>1. t \in Fresh
      BY <1>0, <2>4 DEF Tracks
    <3>2. ASSUME NEW r \in Holders(t) PROVE FALSE
      <4>1. r \in Request /\ Holding(r) /\ Resolve(proc[r].held) = t
        BY DEF Holders
      <4>2. Resolve(proc[r].held) \in issued
        BY <1>0, <4>1, Resolves DEF AccountingInv, HeldToken, Holding, Resolving, Orderly, PoolTypeOK
      <4> QED BY <3>1, <4>1, <4>2 DEF Fresh
    <3>3. Holders(t)' = {}
      BY <2>2, <3>2
    <3> QED BY <2>4, <3>3, FS_EmptySet DEF Quiet, Tracks
  <2> QED BY <2>3, <2>4
<1> QED BY <1>0, <1>2, <1>3, <1>4 DEF AccountingInv, SlotAccounting

\* The counter goes to the new token with those it counts.
LEMMA RotateAccounting ==
  ASSUME AccountingInv, PoolTypeOK', PoolSlots, NEW old, NEW new, Rotates(old, new),
         \A r \in Request : HeldWhere(proc'[r])
  PROVE  AccountingInv'
<1>0. /\ Orderly /\ old \in Live /\ new \in Fresh /\ PoolTypeOK
      /\ new \notin Live /\ old \in Token /\ new \in Token /\ old # new
  BY DEF AccountingInv, Rotates, Orderly, PoolTypeOK, Fresh
<1>1. Orderly' /\ \A t \in Token : Resolve(t)' = IF Resolve(t) = old THEN new ELSE Resolve(t)
  BY <1>0, RotationMoves DEF Rotates
<1>2. \A r \in Request : proc'[r].held = proc[r].held /\ (Holding(r)' <=> Holding(r))
  BY DEF Rotates, Goes, Holding
<1>3. \A t \in issued : t \in Token /\ Resolve(t) # new /\ Resolve(t) \in issued
  BY <1>0, Resolves DEF Resolving, Orderly, PoolTypeOK, Fresh
<1>4. ASSUME NEW a \in issued, NEW b \in issued, Same(a, b) PROVE Same(a, b)'
  BY <1>0, <1>1, <1>3, <1>4 DEF Same, Rotates
<1>5. ASSUME NEW s, HeldToken(s) PROVE HeldToken(s)'
  BY <1>4, <1>5 DEF HeldToken, Rotates
<1>6. ASSUME NEW r \in Request PROVE HeldToken(proc[r])'
  <2>1. PICK s : s = proc'[r]
    OBVIOUS
  <2>2. HeldToken(proc[r])
    BY DEF AccountingInv
  <2>3. CASE s = proc[r]
    BY <1>5, <2>1, <2>2, <2>3
  <2>4. CASE Goes(r, old, new)
    <3>1. PICK h : h = proc[r].held
      OBVIOUS
    <3>2. s.held = h /\ (h # NoToken => h \in issued)
      BY <2>1, <2>2, <2>4, <3>1 DEF Goes, HeldToken
    <3>3. ASSUME h # NoToken
          PROVE  Resolve(h) = old /\ s.pc # "oauth" /\ (Checking(s) => s.active = new)
      BY <2>1, <2>4, <3>1, <3>3 DEF Goes, Holding, Checking
    <3>4. Resolve(new) = new
      BY <1>0, Resolves DEF Resolving, Orderly, Fresh
    <3>5. Resolve(new)' = new
      BY <1>0, <1>1, <3>4
    <3>6. h # NoToken => Same(h, new)'
      BY <1>1, <1>3, <3>2, <3>3, <3>5 DEF Same
    <3>7. h # NoToken => h \in issued' /\ new \in issued'
      BY <3>2 DEF Rotates
    <3>8. HeldToken(s)'
      BY <3>2, <3>3, <3>6, <3>7 DEF HeldToken, Checking
    <3> QED BY <2>1, <3>8
  <2> QED BY <2>1, <2>3, <2>4 DEF Rotates
<1>7. HoldingRequests' = HoldingRequests
  BY <1>2 DEF HoldingRequests
<1>8. \A t \in Token : inflight'[t] = IF t = new THEN inflight[old]
                                     ELSE IF t = old THEN 0 ELSE inflight[t]
  <2>1. inflight[new] = 0
    BY <1>0 DEF PoolSlots
  <2> QED BY <1>0, <2>1, SMT DEF Rotates, PoolTypeOK
<1>9. ASSUME NEW t \in Live' PROVE inflight'[t] = Cardinality(Holders(t)')
  <2>1. \A r \in Request : Holding(r) => proc[r].held \in issued
    BY DEF AccountingInv, HeldToken, Holding
  <2>2. CASE t = new
    <3>1. \A r \in Request : Holding(r) => (Resolve(proc[r].held)' = new <=> Resolve(proc[r].held) = old)
      BY <1>1, <1>2, <1>3, <2>1
    <3>2. Holders(new)' = Holders(old)
      BY <1>2, <3>1 DEF Holders
    <3> QED BY <1>0, <1>8, <2>2, <3>2 DEF AccountingInv, SlotAccounting
  <2>3. CASE t # new
    <3>1. t \in Live /\ t # old /\ t \in Token
      BY <1>0, <2>3 DEF Rotates, PoolTypeOK
    <3>2. \A r \in Request : Holding(r) => (Resolve(proc[r].held)' = t <=> Resolve(proc[r].held) = t)
      BY <1>1, <1>2, <1>3, <2>1, <2>3, <3>1
    <3>3. Holders(t)' = Holders(t)
      BY <1>2, <3>2 DEF Holders
    <3> QED BY <1>8, <2>3, <3>1, <3>3 DEF AccountingInv, SlotAccounting
  <2> QED BY <2>2, <2>3
<1> QED BY <1>1, <1>6, <1>7, <1>9 DEF AccountingInv, SlotAccounting

\* Where only counters change, resolution and the tokens of requests stay.
LEMMA CountersOnly ==
  ASSUME AccountingInv, PoolTypeOK', UNCHANGED <<accounts, aliases, issued>>
  PROVE  /\ Orderly' /\ Live' = Live
         /\ \A t \in Token : Resolve(t)' = Resolve(t)
         /\ \A s : HeldToken(s) => HeldToken(s)'
<1>0. Orderly /\ Live' = Live
  BY DEF AccountingInv, Live
<1>1. Orderly'
  BY <1>0, OrderlyShrinks DEF Orderly
<1>2. \A t \in Token : Resolve(t)' = Resolve(t)
  BY <1>0, <1>1, ResolvesSame
<1>3. \A a, b \in issued : Same(a, b) => Same(a, b)'
  BY <1>0, <1>2 DEF Same, Orderly, PoolTypeOK
<1>4. \A s : HeldToken(s) => HeldToken(s)'
  BY <1>3 DEF HeldToken
<1> QED BY <1>0, <1>1, <1>2, <1>4

\* One more holds a slot of the account, and the counter counts one more.
LEMMA TakeAccounting ==
  ASSUME AccountingInv, PoolTypeOK', NEW r \in Request, NEW t, Takes(r, t),
         \A q \in Request : HeldWhere(proc'[q])
  PROVE  AccountingInv'
<1>0. Orderly /\ t \in Live /\ t \in issued /\ t \in Token /\ ~Holding(r) /\ t # NoToken
  BY NoTokenAssumption DEF Takes, AccountingInv, Orderly, PoolTypeOK
<1>1. /\ Orderly' /\ Live' = Live /\ issued' = issued
      /\ \A u \in Token : Resolve(u)' = Resolve(u)
      /\ \A s : HeldToken(s) => HeldToken(s)'
  BY CountersOnly DEF Takes, TakeSlot
<1>2. Resolve(t) = t
  BY <1>0, Resolves DEF Resolving, Orderly
<1>3. proc'[r].held = t /\ Holding(r)' /\ \A q \in Request \ {r} : proc'[q] = proc[q] /\ (Holding(q)' <=> Holding(q))
  BY <1>0 DEF Takes, Others, Holding
<1>4. ASSUME NEW q \in Request PROVE HeldToken(proc[q])'
  <2>1. CASE q = r
    BY <1>0, <1>1, <1>3, <2>1 DEF HeldToken, Takes, Same
  <2>2. CASE q # r
    <3>1. PICK s : s = proc[q]
      OBVIOUS
    <3>2. HeldToken(s) /\ proc'[q] = s
      BY <1>3, <2>2, <3>1 DEF AccountingInv
    <3> QED BY <1>1, <3>2
  <2> QED BY <2>1, <2>2
<1>5. HoldingRequests' = HoldingRequests \cup {r}
  BY <1>3 DEF HoldingRequests
<1>6. IsFiniteSet(HoldingRequests')
  BY <1>5, FS_AddElement DEF AccountingInv
<1>7. ASSUME NEW u \in Live' PROVE inflight'[u] = Cardinality(Holders(u)')
  <2>1. \A q \in Request : Holding(q) => proc[q].held \in Token
    BY DEF AccountingInv, HeldToken, Holding, Orderly, PoolTypeOK
  <2>2. \A q \in Request \ {r} : Holding(q) => Resolve(proc[q].held)' = Resolve(proc[q].held)
    BY <1>1, <1>3, <2>1
  <2>3. Resolve(proc[r].held)' = t
    BY <1>0, <1>1, <1>2, <1>3
  <2>4. Holders(u)' = IF u = t THEN Holders(u) \cup {r} ELSE Holders(u)
    BY <1>0, <1>3, <2>2, <2>3 DEF Holders
  <2>5. r \notin Holders(u) /\ inflight[u] = Cardinality(Holders(u))
    BY <1>0, <1>1 DEF Holders, AccountingInv, SlotAccounting
  <2>6. IsFiniteSet(Holders(u))
    BY FS_Subset DEF Holders, HoldingRequests, AccountingInv
  <2>7. u = t => Cardinality(Holders(u)') = Cardinality(Holders(u)) + 1
    BY <2>4, <2>5, <2>6, FS_AddElement
  <2>8. inflight'[u] = IF u = t THEN inflight[u] + 1 ELSE inflight[u]
    BY <1>0, <1>1 DEF Takes, TakeSlot, Orderly, PoolTypeOK
  <2> QED BY <2>4, <2>5, <2>7, <2>8
<1> QED BY <1>1, <1>4, <1>6, <1>7 DEF AccountingInv, SlotAccounting

\* One less holds a slot of the account, if it is there, and the counter, which
\* counted it, is one less.
LEMMA ReleaseAccounting ==
  ASSUME AccountingInv, PoolTypeOK', NEW r \in Request, Releases(r),
         \A q \in Request : HeldWhere(proc'[q])
  PROVE  AccountingInv'
<1> DEFINE u == Resolve(proc[r].held)
<1>0. Orderly /\ Holding(r) /\ proc[r].held \in issued /\ proc[r].held \in Token
  BY DEF Releases, AccountingInv, HeldToken, Holding, Orderly, PoolTypeOK
<1>1. /\ Orderly' /\ Live' = Live /\ issued' = issued
      /\ \A x \in Token : Resolve(x)' = Resolve(x)
      /\ \A s : HeldToken(s) => HeldToken(s)'
  BY CountersOnly DEF Releases, ReleaseImageSlot
<1>3. proc'[r].held = NoToken /\ ~Holding(r)' /\ \A q \in Request \ {r} : proc'[q] = proc[q] /\ (Holding(q)' <=> Holding(q))
  BY DEF Releases, Others, Holding
<1>4. ASSUME NEW q \in Request PROVE HeldToken(proc[q])'
  <2>1. CASE q = r
    BY <1>3, <2>1 DEF HeldToken
  <2>2. CASE q # r
    <3>1. PICK s : s = proc[q]
      OBVIOUS
    <3>2. HeldToken(s) /\ proc'[q] = s
      BY <1>3, <2>2, <3>1 DEF AccountingInv
    <3> QED BY <1>1, <3>2
  <2> QED BY <2>1, <2>2
<1>5. HoldingRequests' \subseteq HoldingRequests
  BY <1>3 DEF HoldingRequests
<1>6. IsFiniteSet(HoldingRequests')
  BY <1>5, FS_Subset DEF AccountingInv
<1>7. ASSUME NEW t \in Live' PROVE inflight'[t] = Cardinality(Holders(t)')
  <2>1. \A q \in Request : Holding(q) => proc[q].held \in Token
    BY DEF AccountingInv, HeldToken, Holding, Orderly, PoolTypeOK
  <2>2. \A q \in Request \ {r} : Holding(q) => Resolve(proc[q].held)' = Resolve(proc[q].held)
    BY <1>1, <1>3, <2>1
  <2>3. Holders(t)' = Holders(t) \ {r} /\ (r \in Holders(t) <=> t = u)
    BY <1>0, <1>3, <2>2 DEF Holders
  <2>4. inflight[t] = Cardinality(Holders(t)) /\ t \in Token
    BY <1>0, <1>1 DEF AccountingInv, SlotAccounting, Orderly, PoolTypeOK
  <2>5. IsFiniteSet(Holders(t))
    BY FS_Subset DEF Holders, HoldingRequests, AccountingInv
  <2> HIDE DEF u
  <2>6. inflight'[t] = IF t = u THEN (IF inflight[t] <= 1 THEN 0 ELSE inflight[t] - 1) ELSE inflight[t]
    BY <2>4 DEF Releases, ReleaseImageSlot, Orderly, PoolTypeOK, AccountingInv, u
  <2>7. CASE t = u
    <3>1. Cardinality(Holders(t)') = Cardinality(Holders(t)) - 1 /\ Cardinality(Holders(t)) \in Nat \ {0}
      BY <2>3, <2>5, <2>7, FS_RemoveElement, FS_EmptySet, FS_CardinalityType
    <3> QED BY <2>4, <2>6, <2>7, <3>1
  <2>8. CASE t # u
    <3>1. Holders(t)' = Holders(t)
      BY <2>3, <2>8
    <3> QED BY <2>4, <2>6, <2>8, <3>1
  <2> QED BY <2>7, <2>8
<1> QED BY <1>1, <1>4, <1>6, <1>7 DEF AccountingInv, SlotAccounting

\* A new process has no slots taken and nobody to hold them.
LEMMA NobodyHolds ==
  ASSUME PoolTypeOK, aliases = [t \in {} |-> t], inflight = [t \in Token |-> 0],
         proc = [p \in Proc |-> Idle]
  PROVE  AccountingInv
<1>1. \A t \in Token : ChainEnds(t) # {}
  BY ChainFacts DEF ChainEnds, Forwarded
<1>2. \A r \in Request : proc[r] = Idle /\ ~Holding(r) /\ HeldWhere(Idle) /\ HeldToken(Idle)
  BY DEF Proc, Holding, Idle, HeldWhere, HeldToken
<1>3. HoldingRequests = {} /\ \A t \in Live : Holders(t) = {}
  BY <1>2 DEF HoldingRequests, Holders
<1>4. SlotAccounting
  BY <1>3, FS_EmptySet DEF SlotAccounting, PoolTypeOK
<1> QED BY <1>1, <1>2, <1>3, <1>4, FS_EmptySet DEF AccountingInv, Orderly

LEMMA NobodyHoldsNext ==
  (PoolTypeOK /\ aliases = [t \in {} |-> t] /\ inflight = [t \in Token |-> 0]
     /\ proc = [p \in Proc |-> Idle] => AccountingInv)'
<1>1. PoolTypeOK /\ aliases = [t \in {} |-> t] /\ inflight = [t \in Token |-> 0]
        /\ proc = [p \in Proc |-> Idle] => AccountingInv
  BY NobodyHolds
<1> QED BY <1>1, PTL

---------------------------------------------------------------------------
(* Every step is of one of the kinds.                                      *)

LEMMA UnchangedTracks ==
  ASSUME Orderly, PoolTypeOK', UNCHANGED poolVars PROVE Tracks
BY SameAliasesTrack DEF poolVars, Orderly, Live

LEMMA StoreTracks ==
  ASSUME Orderly, PoolTypeOK', NEW t \in Live, NEW a, StoreAccount(t, a) PROVE Tracks
<1>1. Live' \subseteq Live
  BY DEF StoreAccount, Put, Drop, Restrict, Live
<1>2. UNCHANGED <<inflight, aliases, issued>>
  BY DEF StoreAccount
<1> QED BY <1>1, <1>2, SameAliasesTrack DEF Orderly

LEMMA UpdateTracks ==
  ASSUME Orderly, PoolTypeOK', NEW t, NEW status, NEW quota, UpdateAccount(t, status, quota)
  PROVE  Tracks
BY StoreTracks, UnchangedTracks DEF UpdateAccount

LEMMA RemoveTracks ==
  ASSUME Orderly, PoolTypeOK', NEW t \in Token, RemoveInvalidToken(t) PROVE Tracks
BY DeleteTracks, UpdateTracks, UnchangedTracks DEF RemoveInvalidToken, MarkAbnormal

LEMMA RecordTracks ==
  ASSUME Orderly, PoolTypeOK', NEW t, NEW success, RecordImageResult(t, success) PROVE Tracks
BY StoreTracks, UnchangedTracks DEF RecordImageResult

LEMMA AddTracks ==
  ASSUME Orderly, PoolTypeOK', PoolSlots, NEW t \in Fresh, NEW a, AddAccount(t, a) PROVE Tracks
<1>1. Live' = Live \cup {t} /\ issued' = issued \cup {t} /\ UNCHANGED <<inflight, aliases>>
  BY DEF AddAccount, Put, Live
<1>2. \A u \in Live' : inflight'[u] = IF u \in Live THEN inflight[u] ELSE 0
  BY <1>1 DEF PoolSlots
<1>3. DOMAIN aliases' \subseteq issued' \ Live'
  BY <1>1 DEF Orderly, Fresh
<1> QED BY <1>1, <1>2, <1>3, SameAliasesTrack

\* What is to be shown of a step.
Accounted == Kinds /\ \A r \in Request : HeldWhere(proc'[r])

\* One process moves, and goes on with what it holds.
LEMMA OneMoves ==
  ASSUME AccountingInv, TypeInv, Tracks, NEW p \in Proc, NEW s, Set(p, s),
         p \in Request =>
           /\ HeldWhere(s) /\ HeldToken(s)
           /\ s.held # NoToken <=> Holding(p)
           /\ Holding(p) => Same(proc[p].held, s.held)
  PROVE  Accounted
<1>1. proc'[p] = s /\ \A q \in Proc \ {p} : proc'[q] = proc[q]
  BY DEF Set, TypeInv, Typed
<1>2. ASSUME NEW r \in Request PROVE HeldWhere(proc'[r]) /\ Keeps(r)
  <2>1. r \in Proc
    BY DEF Proc
  <2> QED BY <1>1, <2>1 DEF Keeps, AccountingInv, Holding, Same
<1> QED BY <1>2 DEF Accounted, Kinds, Quiet

\* The same when it leaves its check, or goes on in it with the same token.
LEMMA PlainMove ==
  ASSUME AccountingInv, TypeInv, Tracks, NEW p \in Proc, NEW s, Set(p, s),
         p \in Request =>
           /\ HeldWhere(s) /\ s.held = proc[p].held
           /\ Holding(p) /\ Checking(s) =>
                Checking(proc[p]) /\ s.active = proc[p].active /\ s.pc # "oauth"
  PROVE  Accounted
<1>1. p \in Request => HeldToken(proc[p])
  BY DEF AccountingInv
<1>2. p \in Request => HeldToken(s)
  BY <1>1 DEF HeldToken, Checking, Holding
<1> QED BY <1>2, OneMoves DEF Holding, Same

\* Texts, jobs and the admin hold nothing.
LEMMA OtherMoves ==
  ASSUME AccountingInv, TypeInv, Tracks, NEW p \in TextRequest \cup Job, NEW s, Set(p, s)
  PROVE  Accounted
BY ProcAssumption, OneMoves DEF Proc

LEMMA NobodyMoves ==
  ASSUME AccountingInv, TypeInv, Tracks, UNCHANGED proc
  PROVE  Accounted
BY DEF Accounted, Kinds, Quiet, Keeps, AccountingInv, Holding, Same

LEMMA StartStates == HeldWhere(Idle) /\ HeldWhere(NewCall) /\ Idle.held = NoToken
                     /\ NewCall.held = NoToken /\ ~Checking(Idle) /\ ~Checking(NewCall)
BY DEF HeldWhere, Idle, NewCall, Checking

\* refresh_access_token returns to a request with the slot it was called with.
LEMMA ContinueHeld ==
  ASSUME TypeInv, NEW p \in Request, At(p, {"refresh", "oauth"}), HeldWhere(proc[p]),
         NEW t \in Token
  PROVE  LET s == Continue(p, t)
         IN /\ HeldWhere(s) /\ s.held = proc[p].held /\ s.pc # "oauth"
            /\ Holding(p) /\ Checking(s) => s.active = t
<1> DEFINE s == [proc[p] EXCEPT !.called = NoToken]
           Fine(c) == /\ HeldWhere(c) /\ c.held = proc[p].held /\ c.pc # "oauth"
                      /\ Holding(p) /\ Checking(c) => c.active = t
<1>1. /\ s \in ProcState /\ s.why = proc[p].why /\ s.held = proc[p].held
      /\ s.pc = proc[p].pc /\ s.pc \in {"refresh", "oauth"}
  BY ProcGood, ProcAssumption, FieldType, SMT DEF Proc, GoodState, ProcState, At, MaybeToken
<1>2. /\ s.why \in {"preflight", "invalid", "stream"}
      /\ s.held # NoToken <=> s.why # "stream"
  BY <1>1 DEF HeldWhere
<1> HIDE DEF s
<1>3. CASE s.why = "preflight"
  <2>1. Fine([s EXCEPT !.pc = "info", !.active = t])
    BY <1>1, <1>2, <1>3, SMT DEF ProcState, HeldWhere, Checking
  <2> QED BY <1>3, <2>1 DEF Continue, s
<1>4. CASE s.why = "invalid"
  <2>1. Fine([s EXCEPT !.pc = "info2", !.active = t]) /\ Fine([s EXCEPT !.pc = "suspect"])
    BY <1>1, <1>2, <1>4, SMT DEF ProcState, HeldWhere, Checking
  <2> HIDE DEF Fine
  <2>2. Fine(Continue(p, t))
    BY <1>4, <2>1 DEF Continue, s
  <2> QED BY <2>2 DEF Fine
<1>5. CASE s.why = "stream"
  <2>1. Fine([s EXCEPT !.pc = "condemn"])
    BY <1>1, <1>2, <1>5, SMT DEF ProcState, HeldWhere, Checking
  <2>2. Fine(NewCall)
    BY <1>1, <1>2, <1>5, StartStates DEF NewCall, Idle
  <2> HIDE DEF Fine
  <2>3. Fine(Continue(p, t))
    BY <1>5, <2>1, <2>2 DEF Continue, s
  <2> QED BY <2>3 DEF Fine
<1> QED BY <1>2, <1>3, <1>4, <1>5

\* A refresh that is not needed or fails gives back a name of the account.
LEMMA ReturnAccounted ==
  ASSUME AccountingInv, TypeInv, Tracks, NEW p \in Proc, At(p, {"refresh", "oauth"}),
         NEW t \in Token, Set(p, Continue(p, t)),
         p \in Request /\ Holding(p) => t \in issued /\ Same(proc[p].held, t)
  PROVE  Accounted
<1> DEFINE s == Continue(p, t)
<1>1. p \in Request =>
        /\ HeldWhere(s) /\ s.held = proc[p].held /\ s.pc # "oauth"
        /\ Holding(p) /\ Checking(s) => s.active = t
  BY ContinueHeld DEF AccountingInv
<1> HIDE DEF s
<1>2. p \in Request => HeldToken(proc[p])
  BY DEF AccountingInv
<1>3. p \in Request => HeldToken(s)
  BY <1>1, <1>2 DEF HeldToken, Holding
<1>4. p \in Request => (s.held # NoToken <=> Holding(p)) /\ (Holding(p) => Same(proc[p].held, s.held))
  BY <1>1 DEF Same, Holding
<1>5. Set(p, s)
  BY DEF s
<1> QED BY <1>1, <1>3, <1>4, <1>5, OneMoves

LEMMA RefreshAccounted ==
  ASSUME AccountingInv, TypeInv, TypeInv', SlotInv, NEW p \in Proc,
         \/ RefreshNotNeeded(p) \/ RequestAccessTokenRefresh(p)
         \/ RefreshSucceeds(p) \/ RefreshFails(p)
  PROVE  Accounted
<1>0. /\ Orderly /\ PoolTypeOK /\ PoolTypeOK' /\ PoolSlots /\ LockInv
      /\ proc[p] \in ProcState /\ LocalOK(proc[p])
  BY ProcGood DEF TypeInv, Typed, SlotInv, GoodState, AccountingInv
<1>1. p \in Request => HeldWhere(proc[p]) /\ HeldToken(proc[p])
  BY DEF AccountingInv
<1>2. CASE RefreshNotNeeded(p)
  <2> DEFINE u == Resolve(proc[p].active)
             t == IF u \in Live THEN u ELSE proc[p].active
  <2>1. proc[p].active \in Token /\ proc[p].pc = "refresh" /\ At(p, {"refresh", "oauth"})
    BY <1>0, <1>2 DEF RefreshNotNeeded, At, LocalOK
  <2>2. t \in Token /\ Resolve(t) = u
    BY <1>0, <2>1, Resolves DEF Resolving
  <2>3. Set(p, Continue(p, t)) /\ Tracks
    BY <1>0, <1>2, UnchangedTracks DEF RefreshNotNeeded
  <2>4. p \in Request /\ Holding(p) => t \in issued /\ Same(proc[p].held, t)
    <3>1. p \in Request /\ Holding(p) => proc[p].active \in issued /\ Same(proc[p].held, proc[p].active)
      BY <1>1, <2>1 DEF HeldToken, Holding, Checking
    <3> QED BY <1>0, <2>2, <3>1 DEF Same, PoolTypeOK
  <2> HIDE DEF t
  <2> QED BY <2>1, <2>2, <2>3, <2>4, ReturnAccounted
<1>3. CASE RequestAccessTokenRefresh(p)
  <2> DEFINE t == Resolve(proc[p].active)
             s == [proc[p] EXCEPT !.pc = "oauth", !.called = t]
  <2>1. proc[p].active \in Token /\ proc[p].pc = "refresh"
    BY <1>0, <1>3 DEF RequestAccessTokenRefresh, At, LocalOK
  <2>2. t \in issued /\ Resolve(t) = t
    BY <1>0, <1>3, <2>1, Resolves DEF RequestAccessTokenRefresh, Resolving, PoolTypeOK
  <2>3. Set(p, s) /\ Tracks
    BY <1>0, <1>3, UnchangedTracks DEF RequestAccessTokenRefresh
  <2>4. p \in Request /\ Holding(p) => proc[p].active \in issued /\ Same(proc[p].held, proc[p].active)
    BY <1>1, <2>1 DEF HeldToken, Holding, Checking
  <2>5. p \in Request /\ Holding(p) => Same(proc[p].held, t)
    BY <2>2, <2>4 DEF Same
  <2> HIDE DEF t
  <2>6. /\ s.held = proc[p].held /\ s.active = proc[p].active /\ s.called = t
        /\ s.pc = "oauth" /\ s.why = proc[p].why
    BY <1>0, SMT DEF ProcState
  <2> HIDE DEF s
  <2>7. p \in Request => HeldWhere(s)
    BY <1>1, <2>1, <2>6 DEF HeldWhere
  <2>8. p \in Request => HeldToken(s)
    BY <1>1, <2>2, <2>4, <2>5, <2>6 DEF HeldToken, Holding
  <2>9. p \in Request => (s.held # NoToken <=> Holding(p)) /\ (Holding(p) => Same(proc[p].held, s.held))
    BY <2>6 DEF Same, Holding
  <2> QED BY <2>3, <2>7, <2>8, <2>9, OneMoves
<1>4. CASE RefreshFails(p)
  <2> DEFINE t == proc[p].called
  <2>1. t \in Token /\ proc[p].pc = "oauth" /\ At(p, {"refresh", "oauth"})
    BY <1>0, <1>4 DEF RefreshFails, At, LocalOK
  <2>2. p \in Request /\ Holding(p) => t \in issued /\ Same(proc[p].held, t)
    BY <1>1, <2>1 DEF HeldToken, Holding
  <2>3. Set(p, Continue(p, t)) /\ Tracks
    BY <1>0, <1>4, UnchangedTracks DEF RefreshFails
  <2> HIDE DEF t
  <2> QED BY <2>1, <2>2, <2>3, ReturnAccounted
<1>5. CASE RefreshSucceeds(p)
  <2> DEFINE old == proc[p].called
  <2>1. old \in Token /\ proc[p].pc = "oauth" /\ At(p, {"refresh", "oauth"}) /\ old \notin DOMAIN aliases
    BY <1>0, <1>5 DEF RefreshSucceeds, At, LocalOK, LockInv
  <2>2. Resolve(old) = old
    BY <1>0, <2>1, Resolves DEF Resolving
  <2>3. PICK new \in Fresh \cup {old} :
          /\ ApplyRefreshedTokens(old, new)
          /\ Set(p, Continue(p, IF old \in Live THEN new ELSE old))
    BY <1>5, <2>2 DEF RefreshSucceeds
  <2>4. p \in Request /\ Holding(p) => old \in issued /\ Same(proc[p].held, old)
    BY <1>1, <2>1 DEF HeldToken, Holding
  <2> HIDE DEF old
  <2>5. CASE old \notin Live
    <3>1. UNCHANGED <<accounts, inflight, aliases>> /\ issued' = issued \cup {new}
      BY <2>2, <2>3, <2>5 DEF ApplyRefreshedTokens
    <3>2. Tracks
      BY <1>0, <3>1, SameAliasesTrack DEF Orderly, Live
    <3> QED BY <2>1, <2>3, <2>4, <2>5, <3>2, ReturnAccounted
  <2>6. CASE old \in Live /\ new = old
    <3>1. UNCHANGED <<inflight, aliases>> /\ issued' = issued \cup {old} /\ DOMAIN accounts' = Live
      BY <2>2, <2>3, <2>6 DEF ApplyRefreshedTokens, Put, Drop, Restrict, Live
    <3>2. Tracks
      BY <1>0, <2>6, <3>1, SameAliasesTrack DEF Orderly, Live
    <3> QED BY <2>1, <2>3, <2>4, <2>6, <3>2, ReturnAccounted
  <2>7. CASE old \in Live /\ new # old
    <3> DEFINE s == Continue(p, new)
    <3>1. /\ accounts' = Put(Drop(accounts, {old}), new, accounts[old])
          /\ issued' = issued \cup {new}
          /\ aliases' = Put(aliases, old, new)
          /\ inflight' = [inflight EXCEPT ![old] = 0, ![new] = @ + inflight[old]]
          /\ new \in Fresh /\ Set(p, s)
      BY <2>2, <2>3, <2>7 DEF ApplyRefreshedTokens
    <3>2. Live' = (Live \ {old}) \cup {new}
      BY <3>1 DEF Put, Drop, Restrict, Live
    <3>3. p \in Request =>
            /\ HeldWhere(s) /\ s.held = proc[p].held /\ s.pc # "oauth"
            /\ Holding(p) /\ Checking(s) => s.active = new
      BY <1>1, <2>1, <3>1, ContinueHeld DEF Fresh
    <3> HIDE DEF s
    <3>4. proc'[p] = s /\ \A q \in Proc \ {p} : proc'[q] = proc[q]
      BY <3>1 DEF Set, TypeInv, Typed
    <3>5. p \in Request => Goes(p, old, new)
      BY <2>2, <2>4, <2>7, <3>3, <3>4 DEF Goes, Same
    <3>6. \A r \in Request : r \in Proc
      BY DEF Proc
    <3>7. Rotates(old, new)
      BY <2>7, <3>1, <3>2, <3>4, <3>5, <3>6 DEF Rotates
    <3>8. \A r \in Request : HeldWhere(proc'[r])
      BY <3>3, <3>4, <3>6 DEF AccountingInv
    <3> QED BY <3>7, <3>8 DEF Accounted, Kinds
  <2> QED BY <2>3, <2>5, <2>6, <2>7
<1> QED BY <1>2, <1>3, <1>4, <1>5

\* Where a check that failed leads.
LEMMA FailedCheck ==
  ASSUME TypeInv, NEW p \in Request, HeldWhere(proc[p]), Holding(p)
  PROVE  LET s == AfterFailedFetch(p)
         IN HeldWhere(s) /\ s.held = proc[p].held /\ ~Checking(s)
<1>1. proc[p] \in ProcState
  BY ProcGood DEF GoodState, Proc
<1> QED BY <1>1, SMT DEF AfterFailedFetch, HeldWhere, Holding, Checking, ProcState

LEMMA InfoAccounted ==
  ASSUME AccountingInv, TypeInv, TypeInv', NEW p \in Proc,
         \/ \E info \in RemoteInfo, matches \in BOOLEAN : UserInfoArrives(p, info, matches)
         \/ UserInfoInvalid(p) \/ UserInfoFails(p)
         \/ RecordInvalidTokenSeen(p) \/ Condemn(p)
  PROVE  Accounted
<1>0. Orderly /\ PoolTypeOK' /\ proc[p] \in ProcState /\ LocalOK(proc[p])
  BY ProcGood DEF TypeInv, Typed, GoodState, AccountingInv
<1>1. p \in Request => HeldWhere(proc[p]) /\ HeldToken(proc[p])
  BY DEF AccountingInv
<1>2. ASSUME NEW info \in RemoteInfo, NEW matches \in BOOLEAN, UserInfoArrives(p, info, matches)
      PROVE  Accounted
  <2> DEFINE t == Resolve(proc[p].active)
             gen == [proc[p] EXCEPT !.pc = "generate", !.why = "none", !.held = t,
                                    !.active = t, !.attempted = @ \cup {t}]
             rel == [proc[p] EXCEPT !.pc = "release", !.attempted = @ \cup {t}]
  <2>1. proc[p].active \in Token /\ proc[p].pc \in {"info", "info2"}
    BY <1>0, <1>2 DEF UserInfoArrives, At, LocalOK
  <2>2. Tracks
    BY <1>0, <1>2, UpdateTracks DEF UserInfoArrives
  <2>3. Resolve(t) = t /\ t \in Token
    BY <1>0, <2>1, Resolves DEF Resolving
  <2>4. CASE p \notin Request
    BY <1>2, <2>2, <2>4, OneMoves DEF UserInfoArrives
  <2>5. CASE p \in Request
    <3>1. Holding(p) /\ Same(proc[p].held, proc[p].active) /\ proc[p].active \in issued
      BY <1>1, <2>1, <2>5 DEF HeldWhere, HeldToken, Holding, Checking
    <3>2. CASE Set(p, [proc[p] EXCEPT !.pc = "release"])
      <4> DEFINE s == [proc[p] EXCEPT !.pc = "release"]
      <4>1. s.pc = "release" /\ s.held = proc[p].held /\ s.why = proc[p].why
        BY <1>0, SMT DEF ProcState
      <4> HIDE DEF s
      <4>2. HeldWhere(s) /\ ~Checking(s)
        BY <3>1, <4>1 DEF HeldWhere, Checking, Holding
      <4>3. Set(p, s)
        BY <3>2 DEF s
      <4> QED BY <2>2, <4>1, <4>2, <4>3, PlainMove
    <3>3. CASE Set(p, rel)
      <4>1. rel.pc = "release" /\ rel.held = proc[p].held /\ rel.why = proc[p].why
        BY <1>0, SMT DEF ProcState
      <4> HIDE DEF rel
      <4>2. HeldWhere(rel) /\ ~Checking(rel)
        BY <3>1, <4>1 DEF HeldWhere, Checking, Holding
      <4> QED BY <2>2, <3>3, <4>1, <4>2, PlainMove
    <3>4. CASE t \in DOMAIN accounts' /\ Set(p, gen)
      <4>1. t \in issued
        BY <1>0, <3>1, <2>1, Resolves DEF Resolving
      <4>2. t \in Live
        BY <2>2, <3>4, <4>1 DEF Tracks, Live, Fresh
      <4>3. Same(proc[p].held, t)
        BY <2>3, <3>1 DEF Same
      <4> HIDE DEF t
      <4>4. gen.pc = "generate" /\ gen.held = t /\ gen.why = "none"
        BY <1>0, SMT DEF ProcState
      <4> HIDE DEF gen
      <4>5. HeldWhere(gen) /\ ~Checking(gen) /\ gen.held # NoToken
        BY <2>3, <4>4, NoTokenAssumption DEF HeldWhere, Checking
      <4>6. HeldToken(gen)
        BY <4>1, <4>4, <4>5 DEF HeldToken, Checking
      <4> QED BY <2>2, <3>1, <3>4, <4>3, <4>4, <4>5, <4>6, OneMoves
    <3>5. \/ Set(p, [proc[p] EXCEPT !.pc = "release"])
          \/ t \in DOMAIN accounts' /\ Set(p, gen)
          \/ Set(p, rel)
      BY <1>2, <2>5 DEF UserInfoArrives, Go
    <3> QED BY <3>2, <3>3, <3>4, <3>5
  <2> QED BY <2>4, <2>5
<1>3. CASE UserInfoInvalid(p)
  <2> DEFINE again == [proc[p] EXCEPT !.pc = "refresh", !.why = "invalid"]
             given == [proc[p] EXCEPT !.pc = "suspect"]
  <2>1. Tracks /\ proc[p].pc \in {"info", "info2"}
    BY <1>0, <1>3, UnchangedTracks DEF UserInfoInvalid, At
  <2>2. Set(p, again) \/ Set(p, given)
    BY <1>3 DEF UserInfoInvalid, Go
  <2>3. /\ again.pc = "refresh" /\ again.why = "invalid"
        /\ again.held = proc[p].held /\ again.active = proc[p].active
        /\ given.pc = "suspect" /\ given.why = proc[p].why /\ given.held = proc[p].held
    BY <1>0, SMT DEF ProcState
  <2> HIDE DEF again, given
  <2>4. p \in Request => HeldWhere(again) /\ HeldWhere(given) /\ ~Checking(given) /\ Checking(proc[p])
    BY <1>1, <2>1, <2>3 DEF HeldWhere, Checking
  <2> QED BY <2>1, <2>2, <2>3, <2>4, PlainMove
<1>4. CASE UserInfoFails(p)
  <2>1. Tracks /\ proc[p].pc \in {"info", "info2"} /\ Set(p, AfterFailedFetch(p))
    BY <1>0, <1>4, UnchangedTracks DEF UserInfoFails, At
  <2>2. p \in Request => Holding(p)
    BY <1>1, <2>1 DEF HeldWhere, Holding
  <2> QED BY <1>1, <2>1, <2>2, FailedCheck, PlainMove
<1>5. CASE RecordInvalidTokenSeen(p)
  <2> DEFINE s == [proc[p] EXCEPT !.pc = "condemn"]
  <2>1. Tracks /\ proc[p].pc = "suspect" /\ (Set(p, s) \/ Set(p, AfterFailedFetch(p)))
    BY <1>0, <1>5, UnchangedTracks DEF RecordInvalidTokenSeen, At, Go
  <2>2. p \in Request => Holding(p)
    BY <1>1, <2>1 DEF HeldWhere, Holding
  <2>3. s.pc = "condemn" /\ s.why = proc[p].why /\ s.held = proc[p].held
    BY <1>0, SMT DEF ProcState
  <2> HIDE DEF s
  <2>4. p \in Request => HeldWhere(s) /\ ~Checking(s)
    BY <1>1, <2>1, <2>3 DEF HeldWhere, Checking
  <2> QED BY <1>1, <2>1, <2>2, <2>3, <2>4, FailedCheck, PlainMove
<1>6. CASE Condemn(p)
  <2>1. proc[p].pc = "condemn" /\ proc[p].active \in Token
    BY <1>0, <1>6 DEF Condemn, At, LocalOK
  <2>2. Tracks
    BY <1>0, <1>6, <2>1, RemoveTracks DEF Condemn
  <2>3. CASE p \notin Request
    <3>1. \E s : Set(p, s)
      BY <1>6 DEF Condemn, Go
    <3> QED BY <2>2, <2>3, <3>1, OneMoves
  <2>4. CASE p \in Request
    <3>1. proc[p].why = "stream" \/ (proc[p].why \in {"preflight", "invalid"} /\ Holding(p))
      BY <1>1, <2>1, <2>4 DEF HeldWhere, Holding
    <3>2. CASE proc[p].why = "stream"
      <4>1. Set(p, NewCall) /\ proc[p].held = NoToken
        BY <1>1, <1>6, <2>1, <2>4, <3>2 DEF Condemn, HeldWhere
      <4> QED BY <2>2, <4>1, StartStates, PlainMove
    <3>3. CASE proc[p].why \in {"preflight", "invalid"} /\ Holding(p)
      <4>1. Set(p, AfterFailedFetch(p))
        BY <1>6, <3>3 DEF Condemn
      <4> QED BY <1>1, <2>2, <2>4, <3>3, <4>1, FailedCheck, PlainMove
    <3> QED BY <3>1, <3>2, <3>3
  <2> QED BY <2>3, <2>4
<1> QED BY <1>2, <1>3, <1>4, <1>5, <1>6

LEMMA ImageAccounted ==
  ASSUME AccountingInv, TypeInv, TypeInv', NEW r \in Request, StartRequest(r) \/ ImageStep(r)
  PROVE  Accounted
<1>0. /\ Orderly /\ PoolTypeOK' /\ r \in Proc /\ proc[r] \in ProcState
      /\ HeldWhere(proc[r]) /\ HeldToken(proc[r])
  BY ProcGood DEF TypeInv, Typed, GoodState, AccountingInv, Proc
<1>a. ASSUME NEW s, Set(r, s) PROVE proc'[r] = s /\ Others(r)
  BY <1>0, <1>a DEF Set, TypeInv, Typed, Others, Proc
<1>b. ASSUME NEW s, Set(r, s), HeldWhere(s) PROVE \A q \in Request : HeldWhere(proc'[q])
  BY <1>a, <1>b DEF Others, AccountingInv
<1>1. CASE StartRequest(r)
  <2>1. Tracks /\ Set(r, NewCall) /\ proc[r].held = NoToken
    BY <1>0, <1>1, UnchangedTracks DEF StartRequest, At, HeldWhere
  <2> QED BY <1>0, <2>1, StartStates, PlainMove
<1>2. CASE NoAccountReady(r)
  <2>1. Tracks /\ Set(r, Idle) /\ proc[r].held = NoToken
    BY <1>0, <1>2, UnchangedTracks DEF NoAccountReady, At, HeldWhere
  <2> QED BY <1>0, <2>1, StartStates, PlainMove
<1>3. CASE AcquireNextCandidateToken(r)
  <2>1. PICK t \in AvailableCandidates(proc[r].attempted) :
          /\ TakeSlot(t)
          /\ Set(r, [proc[r] EXCEPT !.pc = "refresh", !.why = "preflight",
                                    !.held = t, !.active = t,
                                    !.attempted = @ \cup {t}, !.tries = @ + 1])
    BY <1>3 DEF AcquireNextCandidateToken
  <2> DEFINE s == [proc[r] EXCEPT !.pc = "refresh", !.why = "preflight",
                                  !.held = t, !.active = t,
                                  !.attempted = @ \cup {t}, !.tries = @ + 1]
  <2>2. t \in Live /\ t \in Token /\ inflight[t] < MaxConcurrency /\ t # NoToken
    BY <1>0, NoTokenAssumption DEF AvailableCandidates, ReadyCandidates, Orderly, PoolTypeOK
  <2>3. s.pc = "refresh" /\ s.why = "preflight" /\ s.held = t /\ s.active = t
    BY <1>0, SMT DEF ProcState
  <2>4. Set(r, s)
    BY <2>1
  <2> HIDE DEF s
  <2>5. HeldWhere(s)
    BY <2>2, <2>3 DEF HeldWhere
  <2>6. ~Holding(r)
    BY <1>0, <1>3 DEF AcquireNextCandidateToken, At, HeldWhere, Holding
  <2>7. Takes(r, t)
    BY <1>a, <2>1, <2>2, <2>3, <2>4, <2>6 DEF Takes
  <2> QED BY <1>b, <2>4, <2>5, <2>7 DEF Accounted, Kinds
<1>4. CASE ReleaseAfterCheck(r)
  <2> DEFINE s == [NewCall EXCEPT !.attempted = proc[r].attempted, !.tries = proc[r].tries]
  <2>1. HeldWhere(s) /\ s.held = NoToken
    BY SMT DEF NewCall, Idle, HeldWhere
  <2>2. Set(r, Idle) \/ Set(r, s)
    BY <1>4 DEF ReleaseAfterCheck
  <2>3. Holding(r) /\ ReleaseImageSlot(proc[r].held)
    BY <1>0, <1>4 DEF ReleaseAfterCheck, At, HeldWhere, Holding
  <2> HIDE DEF s
  <2>4. Releases(r) /\ \A q \in Request : HeldWhere(proc'[q])
    BY <1>a, <1>b, <2>1, <2>2, <2>3, StartStates DEF Releases
  <2> QED BY <2>4 DEF Accounted, Kinds
<1>5. ASSUME NEW outcome \in {"success", "failure", "retry", "invalid"}, GenerationEnds(r, outcome)
      PROVE  Accounted
  <2> DEFINE s == [Idle EXCEPT !.pc = "mark", !.why = outcome, !.active = proc[r].held]
  <2>1. HeldWhere(s) /\ s.held = NoToken
    BY SMT DEF Idle, HeldWhere
  <2>2. Set(r, s)
    BY <1>5 DEF GenerationEnds
  <2>3. Holding(r) /\ ReleaseImageSlot(proc[r].held)
    BY <1>0, <1>5 DEF GenerationEnds, At, HeldWhere, Holding
  <2> HIDE DEF s
  <2>4. Releases(r) /\ \A q \in Request : HeldWhere(proc'[q])
    BY <1>a, <1>b, <2>1, <2>2, <2>3 DEF Releases
  <2> QED BY <2>4 DEF Accounted, Kinds
<1>6. CASE MarkImageResult(r)
  <2> DEFINE s == [proc[r] EXCEPT !.pc = "refresh", !.why = "stream"]
  <2>1. proc[r].held = NoToken
    BY <1>0, <1>6 DEF MarkImageResult, At, HeldWhere
  <2>2. s.pc = "refresh" /\ s.why = "stream" /\ s.held = proc[r].held
    BY <1>0, SMT DEF ProcState
  <2>3. Set(r, NewCall) \/ Set(r, s) \/ Set(r, Idle)
    BY <1>6 DEF MarkImageResult
  <2>4. Tracks
    BY <1>0, <1>6, RecordTracks DEF MarkImageResult
  <2> HIDE DEF s
  <2>5. HeldWhere(s)
    BY <2>1, <2>2 DEF HeldWhere
  <2> QED BY <1>0, <2>1, <2>2, <2>3, <2>4, <2>5, StartStates, PlainMove DEF Holding
<1> QED BY <1>1, <1>2, <1>3, <1>4, <1>5, <1>6 DEF ImageStep

LEMMA OtherAccounted ==
  ASSUME ~Reimport, AccountingInv, TypeInv, TypeInv', PoolSlots,
         \/ \E x \in TextRequest : StartText(x) \/ TextStep(x)
         \/ \E j \in Job : StartRefreshJob(j) \/ StartKeepalive(j)
         \/ AdminAdds \/ AdminDeletes \/ AdminEdits
  PROVE  Accounted
<1>0. Orderly /\ PoolTypeOK /\ PoolTypeOK'
  BY DEF TypeInv, Typed, AccountingInv
<1>1. ASSUME NEW x \in TextRequest, StartText(x) \/ TextStep(x) PROVE Accounted
  <2>1. UNCHANGED poolVars /\ \E s : Set(x, s)
    BY <1>1 DEF StartText, TextStep, GetTextAccessToken, TextEnds, TextTokenInvalid
  <2> QED BY <1>0, <2>1, UnchangedTracks, OtherMoves
<1>2. ASSUME NEW j \in Job, StartRefreshJob(j) \/ StartKeepalive(j) PROVE Accounted
  <2>1. UNCHANGED poolVars /\ \E s : Set(j, s)
    BY <1>2 DEF StartRefreshJob, StartKeepalive
  <2> QED BY <1>0, <2>1, UnchangedTracks, OtherMoves
<1>3. CASE AdminAdds
  <2>1. UNCHANGED proc /\ \E t \in Fresh, a \in Account : AddAccount(t, a)
    BY <1>3 DEF AdminAdds
  <2> QED BY <1>0, <2>1, AddTracks, NobodyMoves
<1>4. CASE AdminDeletes
  <2>1. UNCHANGED proc /\ \E X \in SUBSET issued : DeleteAccounts(X)
    BY <1>4 DEF AdminDeletes
  <2> QED BY <1>0, <2>1, DeleteTracks, NobodyMoves DEF PoolTypeOK
<1>5. CASE AdminEdits
  <2>1. UNCHANGED proc
    BY <1>5 DEF AdminEdits
  <2>2. \E t, status, quota : UpdateAccount(t, status, quota)
    BY <1>5 DEF AdminEdits
  <2> QED BY <1>0, <2>1, <2>2, UpdateTracks, NobodyMoves
<1> QED BY <1>1, <1>2, <1>3, <1>4, <1>5

\* Every step is of one of the kinds.
LEMMA NextAccounted ==
  ASSUME ~Reimport, AccountingInv, TypeInv, TypeInv', SlotInv, [Next]_vars
  PROVE  Accounted
<1>0. Orderly /\ PoolTypeOK' /\ PoolSlots
  BY DEF TypeInv, Typed, AccountingInv, SlotInv
<1>1. CASE UNCHANGED vars
  <2>1. UNCHANGED poolVars /\ UNCHANGED proc
    BY <1>1 DEF vars, poolVars
  <2> QED BY <1>0, <2>1, UnchangedTracks, NobodyMoves
<1>2. CASE Restart
  BY <1>2, StartStates DEF Accounted, Kinds, Restart, Proc
<1>3. ASSUME NEW p \in Proc, Refreshing(p) \/ Working(p) PROVE Accounted
  <2>1. CASE RefreshNotNeeded(p) \/ RequestAccessTokenRefresh(p)
             \/ RefreshSucceeds(p) \/ RefreshFails(p)
    BY <2>1, RefreshAccounted
  <2>2. CASE \/ \E info \in RemoteInfo, matches \in BOOLEAN : UserInfoArrives(p, info, matches)
             \/ UserInfoInvalid(p) \/ UserInfoFails(p)
             \/ RecordInvalidTokenSeen(p) \/ Condemn(p)
    BY <2>2, InfoAccounted
  <2> QED BY <1>3, <2>1, <2>2 DEF Refreshing, Working
<1>4. CASE \E r \in Request : StartRequest(r) \/ ImageStep(r)
  BY <1>4, ImageAccounted
<1>5. CASE \/ \E x \in TextRequest : StartText(x) \/ TextStep(x)
           \/ \E j \in Job : StartRefreshJob(j) \/ StartKeepalive(j)
           \/ AdminAdds \/ AdminDeletes \/ AdminEdits
  BY <1>0, <1>5, OtherAccounted
<1> QED BY <1>1, <1>2, <1>3, <1>4, <1>5 DEF Next

LEMMA AccountingInit == ASSUME Init PROVE AccountingInv
BY TypeInvInit, NobodyHolds DEF Init, PoolInit, TypeInv, Typed

LEMMA AccountingNext ==
  ASSUME ~Reimport, AccountingInv, TypeInv, TypeInv', SlotInv, [Next]_vars
  PROVE  AccountingInv'
<1>0. PoolTypeOK' /\ PoolSlots
  BY DEF TypeInv, Typed, SlotInv
<1>1. Kinds /\ \A r \in Request : HeldWhere(proc'[r])
  BY NextAccounted DEF Accounted
<1>2. CASE Restart
  <2>1. aliases' = [t \in {} |-> t] /\ inflight' = [t \in Token |-> 0] /\ proc' = [p \in Proc |-> Idle]
    BY <1>2 DEF Restart
  <2> QED BY <1>0, <2>1, NobodyHoldsNext
<1> QED BY <1>0, <1>1, <1>2, QuietAccounting, RotateAccounting, TakeAccounting, ReleaseAccounting
        DEF Kinds

LEMMA AccountingAlways == ASSUME ~Reimport PROVE Spec => []AccountingInv
<1>1. Init => AccountingInv
  BY AccountingInit
<1>2. AccountingInv /\ TypeInv /\ TypeInv' /\ SlotInv /\ [Next]_vars => AccountingInv'
  BY AccountingNext
<1> QED BY <1>1, <1>2, TypeInvAlways, SlotInvAlways, PTL DEF Spec

\* Whatever is rotated, deleted, removed or imported while requests are at work,
\* the slot counter of an account is the number of requests that hold one of
\* its slots: none leaks and none is given to two.
THEOREM SlotAccountingHolds == ASSUME ~Reimport PROVE Spec => []SlotAccounting
<1>1. AccountingInv => SlotAccounting
  BY DEF AccountingInv
<1> QED BY <1>1, AccountingAlways, PTL

\* What the settings page promises: no more requests generate with an account
\* than image_account_concurrency allows, for each of them holds a slot.
THEOREM ConcurrencyHolds == ASSUME ~Reimport PROVE Spec => []AccountConcurrency
<1>1. ASSUME AccountingInv, TypeInv, SlotInv, NEW t \in Live
      PROVE  Cardinality({r \in Request : At(r, {"generate"}) /\ Resolve(proc[r].held) = t})
               <= MaxConcurrency
  <2> DEFINE G == {r \in Request : At(r, {"generate"}) /\ Resolve(proc[r].held) = t}
  <2>1. G \subseteq Holders(t)
    BY <1>1 DEF Holders, Holding, At, AccountingInv, HeldWhere
  <2>2. IsFiniteSet(Holders(t)) /\ Cardinality(Holders(t)) = inflight[t]
    BY <1>1, FS_Subset DEF Holders, HoldingRequests, AccountingInv, SlotAccounting
  <2> HIDE DEF G
  <2>3. Cardinality(G) \in Nat /\ Cardinality(G) <= Cardinality(Holders(t))
    BY <2>1, <2>2, FS_Subset, FS_CardinalityType
  <2>4. t \in Token /\ inflight[t] \in Nat /\ inflight[t] <= MaxConcurrency
    BY <1>1 DEF TypeInv, Typed, PoolTypeOK, SlotInv, PoolSlots, SlotLimit
  <2>5. Cardinality(G) <= MaxConcurrency
    BY <2>2, <2>3, <2>4, ConcurrencyAssumption
  <2> QED BY <2>5 DEF G
<1>2. AccountingInv /\ TypeInv /\ SlotInv => AccountConcurrency
  BY <1>1 DEF AccountConcurrency
<1> QED BY <1>2, AccountingAlways, TypeInvAlways, SlotInvAlways, PTL

\* A former name of an account never goes astray: whatever resolved to an account
\* before a rotation, over however many earlier ones, resolves to it afterwards.
THEOREM RotationKeepsNames == ASSUME ~Reimport PROVE Spec => RotationKeepsOldNames
<1> DEFINE Kept ==
      \A old \in Live \ DOMAIN accounts', new \in DOMAIN accounts' \ Live :
        \A t \in Token : Resolve(t) = old => Resolve(t)' = new
<1>1. ASSUME AccountingInv, TypeInv, TypeInv', SlotInv, [Next]_vars PROVE Kept
  <2> SUFFICES ASSUME NEW old \in Live \ Live', NEW new \in Live' \ Live, NEW t \in Token,
                      Resolve(t) = old
               PROVE  Resolve(t)' = new
    BY DEF Live
  <2>1. Kinds
    BY <1>1, NextAccounted DEF Accounted
  <2>2. ~Quiet
    BY DEF Quiet, Tracks
  <2>3. ~Restart /\ (\A r, u : ~Takes(r, u)) /\ (\A r : ~Releases(r))
    BY DEF Restart, Takes, Releases, TakeSlot, ReleaseImageSlot, Live
  <2>4. PICK o, n : Rotates(o, n)
    BY <2>1, <2>2, <2>3 DEF Kinds
  <2>5. o = old /\ n = new
    BY <2>4 DEF Rotates
  <2> QED BY <1>1, <2>4, <2>5, RotationMoves
          DEF Rotates, AccountingInv, TypeInv, Typed
<1>2. AccountingInv /\ TypeInv /\ TypeInv' /\ SlotInv /\ [Next]_vars => [Kept]_vars
  BY <1>1
<1> QED BY <1>2, AccountingAlways, TypeInvAlways, SlotInvAlways, PTL DEF Spec, RotationKeepsOldNames

---------------------------------------------------------------------------
(* The slots are a semaphore.                                              *)

\* What SlotSemaphore sees of a request.
Using(r) ==
  IF Holding(r) /\ Resolve(proc[r].held) \in Live THEN Resolve(proc[r].held) ELSE NoToken

UsingMap == [r \in Request |-> Using(r)]

\* The users of an account are those the pool counts.
LEMMA UsersAreHolders ==
  ASSUME AccountingInv, NEW t \in Live
  PROVE  Slots!Users(t) = Holders(t)
<1>1. t # NoToken
  BY NoTokenAssumption DEF AccountingInv, Orderly, PoolTypeOK
<1> QED BY <1>1 DEF Slots!Users, Holders

LEMMA QuietSemaphore ==
  ASSUME AccountingInv, Quiet
  PROVE  Slots!Next
<1> DEFINE gone == Token \ Live'
<1>1. ASSUME NEW r \in Request PROVE Using(r)' = IF Using(r) \in gone THEN NoToken ELSE Using(r)
  <2>0. Using(r) # NoToken => Using(r) \in Live
    BY DEF Using
  <2>1. CASE ~Holding(r)
    BY <2>1, NoTokenAssumption DEF Using, Quiet, Keeps, Holding
  <2>2. CASE Holding(r)
    <3>1. PICK a, b : a = proc[r].held /\ b = proc'[r].held
      OBVIOUS
    <3>2. a \in issued /\ b \in issued /\ Same(a, b) /\ Holding(r)'
      BY <2>2, <3>1 DEF AccountingInv, HeldToken, Quiet, Keeps, Holding
    <3>3. Using(r) = IF Resolve(a) \in Live THEN Resolve(a) ELSE NoToken
      BY <2>2, <3>1 DEF Using
    <3>4. Using(r)' = IF Resolve(b)' \in Live' THEN Resolve(b)' ELSE NoToken
      BY <3>1, <3>2 DEF Using
    <3>5. Resolve(a) \in Token /\ Resolve(b) \in issued
      BY <3>2, Resolves DEF AccountingInv, Orderly, Resolving, PoolTypeOK
    <3>6. \A u \in Live' : Resolve(b)' = u <=> Resolve(b) = u
      BY <3>2 DEF Quiet, Tracks
    <3>7. \A u \in Live' : Resolve(b) = u => u \in Live
      BY <3>5 DEF Quiet, Tracks, Fresh
    <3> QED BY <3>2, <3>3, <3>4, <3>5, <3>6, <3>7, NoTokenAssumption DEF Same
  <2> QED BY <2>1, <2>2
<1>2. UsingMap' = [r \in Request |-> IF UsingMap[r] \in gone THEN NoToken ELSE UsingMap[r]]
  BY <1>1 DEF UsingMap
<1>3. Slots!Remove(gone)
  BY <1>2 DEF Slots!Remove, UsingMap, Using
<1> QED BY <1>3 DEF Slots!Next

LEMMA RotateSemaphore ==
  ASSUME AccountingInv, PoolTypeOK', NEW old, NEW new, Rotates(old, new)
  PROVE  Slots!Next
<1>0. /\ Orderly /\ old \in Live /\ new \in Fresh /\ PoolTypeOK
      /\ new \notin Live /\ old \in Token /\ new \in Token /\ old # new
  BY DEF AccountingInv, Rotates, Orderly, PoolTypeOK, Fresh
<1>1. \A t \in Token : Resolve(t)' = IF Resolve(t) = old THEN new ELSE Resolve(t)
  BY <1>0, RotationMoves DEF Rotates
<1>2. ASSUME NEW r \in Request
      PROVE  Using(r)' = (IF Using(r) = old THEN new ELSE Using(r)) /\ Using(r) # new
  <2>1. proc'[r].held = proc[r].held /\ (Holding(r)' <=> Holding(r))
    BY DEF Rotates, Goes, Holding
  <2>2. CASE ~Holding(r)
    BY <1>0, <2>1, <2>2, NoTokenAssumption DEF Using
  <2>3. CASE Holding(r)
    <3>1. PICK a : a = proc[r].held /\ a = proc'[r].held
      BY <2>1
    <3>2. a \in issued /\ a \in Token
      BY <1>0, <2>3, <3>1 DEF AccountingInv, HeldToken, Holding, PoolTypeOK
    <3>3. Using(r) = IF Resolve(a) \in Live THEN Resolve(a) ELSE NoToken
      BY <2>3, <3>1 DEF Using
    <3>4. Using(r)' = IF Resolve(a)' \in Live' THEN Resolve(a)' ELSE NoToken
      BY <2>1, <2>3, <3>1 DEF Using
    <3>5. Resolve(a) # new
      BY <1>0, <3>2, Resolves DEF Resolving, Fresh
    <3>6. Resolve(a)' = IF Resolve(a) = old THEN new ELSE Resolve(a)
      BY <1>1, <3>2
    <3>7. Live' = (Live \ {old}) \cup {new}
      BY DEF Rotates
    <3> QED BY <1>0, <3>3, <3>4, <3>5, <3>6, <3>7, NoTokenAssumption
  <2> QED BY <2>2, <2>3
<1>3. UsingMap' = [r \in Request |-> IF UsingMap[r] = old THEN new ELSE UsingMap[r]]
  BY <1>2 DEF UsingMap
<1>4. {r \in Request : UsingMap[r] = new} = {}
  BY <1>2 DEF UsingMap
<1>5. Slots!Rename(old, new)
  BY <1>3, <1>4 DEF Slots!Rename, Slots!Users, UsingMap, Using
<1> QED BY <1>0, <1>5 DEF Slots!Next

LEMMA TakeSemaphore ==
  ASSUME AccountingInv, PoolTypeOK', NEW r \in Request, NEW t, Takes(r, t)
  PROVE  Slots!Next
<1>0. Orderly /\ t \in Live /\ t \in Token /\ ~Holding(r) /\ t # NoToken
  BY NoTokenAssumption DEF Takes, AccountingInv, Orderly, PoolTypeOK
<1>1. Live' = Live /\ \A u \in Token : Resolve(u)' = Resolve(u)
  BY CountersOnly DEF Takes, TakeSlot
<1>2. Resolve(t) = t
  BY <1>0, Resolves DEF Resolving, Orderly
<1>3. ASSUME NEW q \in Request PROVE Using(q)' = IF q = r THEN t ELSE Using(q)
  <2>1. CASE q = r
    BY <1>0, <1>1, <1>2, <2>1 DEF Takes, Using, Holding
  <2>2. CASE q # r
    <3>1. PICK a : a = proc[q].held /\ a = proc'[q].held
      BY <2>2 DEF Takes, Others
    <3>2. a # NoToken => a \in Token
      BY <1>0, <3>1 DEF AccountingInv, HeldToken, Orderly, PoolTypeOK
    <3>3. a # NoToken => Resolve(a)' = Resolve(a)
      BY <1>1, <3>2
    <3> QED BY <1>1, <2>2, <3>1, <3>3 DEF Using, Holding
  <2> QED BY <2>1, <2>2
<1>4. UsingMap' = [UsingMap EXCEPT ![r] = t] /\ UsingMap[r] = NoToken
  BY <1>0, <1>3 DEF UsingMap, Using
<1>5. Slots!Cardinality(Slots!Users(t)) < MaxConcurrency
  <2>1. Slots!Cardinality(Slots!Users(t)) = Cardinality(Slots!Users(t))
    BY Zenon DEF Slots!Cardinality, Cardinality
  <2> QED BY <1>0, <2>1, UsersAreHolders DEF Takes, AccountingInv, SlotAccounting
<1>6. Slots!Take(r, t)
  BY <1>4, <1>5 DEF Slots!Take, UsingMap, Using
<1> QED BY <1>0, <1>6 DEF Slots!Next

LEMMA ReleaseSemaphore ==
  ASSUME AccountingInv, PoolTypeOK', NEW r \in Request, Releases(r)
  PROVE  Slots!Next \/ UsingMap' = UsingMap
<1>0. Orderly
  BY DEF AccountingInv
<1>1. Live' = Live /\ \A u \in Token : Resolve(u)' = Resolve(u)
  BY CountersOnly DEF Releases, ReleaseImageSlot
<1>2. ASSUME NEW q \in Request PROVE Using(q)' = IF q = r THEN NoToken ELSE Using(q)
  <2>1. CASE q = r
    BY <2>1 DEF Releases, Using, Holding
  <2>2. CASE q # r
    <3>1. PICK a : a = proc[q].held /\ a = proc'[q].held
      BY <2>2 DEF Releases, Others
    <3>2. a # NoToken => a \in Token
      BY <1>0, <3>1 DEF AccountingInv, HeldToken, Orderly, PoolTypeOK
    <3>3. a # NoToken => Resolve(a)' = Resolve(a)
      BY <1>1, <3>2
    <3> QED BY <1>1, <2>2, <3>1, <3>3 DEF Using, Holding
  <2> QED BY <2>1, <2>2
<1>3. UsingMap' = [UsingMap EXCEPT ![r] = NoToken]
  BY <1>2 DEF UsingMap
<1>4. CASE UsingMap[r] = NoToken
  BY <1>2, <1>4 DEF UsingMap
<1>5. CASE UsingMap[r] # NoToken
  <2>1. Slots!GiveBack(r)
    BY <1>3, <1>5 DEF Slots!GiveBack, UsingMap, Using
  <2> QED BY <2>1 DEF Slots!Next
<1> QED BY <1>4, <1>5

LEMMA RestartSemaphore == ASSUME AccountingInv, Restart PROVE Slots!Next
<1>1. \A r \in Request : Using(r)' = NoToken /\ (Using(r) = NoToken \/ Using(r) \in Token)
  BY DEF Restart, Using, Holding, Idle, Proc, AccountingInv, Orderly, PoolTypeOK
<1>2. UsingMap' = [r \in Request |-> IF UsingMap[r] \in Token THEN NoToken ELSE UsingMap[r]]
  BY <1>1 DEF UsingMap
<1>3. Slots!Remove(Token)
  BY <1>2 DEF Slots!Remove, UsingMap, Using
<1> QED BY <1>3 DEF Slots!Next

\* The slots of the pool implement SlotSemaphore: whoever takes a slot finds the
\* account not full, a rotation takes all users of an account to its new name,
\* which had none, and a removal sends exactly them away.
THEOREM SlotsAreSemaphore == ASSUME ~Reimport PROVE Spec => ImplementsSemaphore
<1>1. Init => Slots!Init
  BY DEF Init, Slots!Init, Holding, Idle, Proc
<1>2. ASSUME AccountingInv, TypeInv, TypeInv', SlotInv, [Next]_vars
      PROVE  Slots!Next \/ UsingMap' = UsingMap
  <2>1. Kinds /\ PoolTypeOK'
    BY <1>2, NextAccounted DEF Accounted, TypeInv, Typed
  <2> QED BY <1>2, <2>1, QuietSemaphore, RotateSemaphore, TakeSemaphore, ReleaseSemaphore,
             RestartSemaphore DEF Kinds
<1>3. AccountingInv /\ TypeInv /\ TypeInv' /\ SlotInv /\ [Next]_vars
        => [Slots!Next]_UsingMap
  BY <1>2
<1>4. AccountingInv /\ TypeInv /\ TypeInv' /\ SlotInv /\ [Next]_vars
        => [Slots!Next]_([r \in Request |->
              IF Holding(r) /\ Resolve(proc[r].held) \in Live
                THEN Resolve(proc[r].held) ELSE NoToken])
  BY <1>3 DEF UsingMap, Using
<1> QED BY <1>1, <1>4, AccountingAlways, TypeInvAlways, SlotInvAlways, PTL
        DEF Spec, ImplementsSemaphore, Slots!Spec
=============================================================================
