--------------------------- MODULE OAuthSessions ---------------------------
(***************************************************************************)
(* The manual login (services/oauth_login_service.rs): start opens a        *)
(* session, whose authorize URL an administrator follows in a browser; what *)
(* the browser is sent back to, pasted as a whole or only its code, is      *)
(* given to finish, which exchanges the code with the verifier of a session *)
(* it picks.  Sessions expire, and beyond a limit the oldest go.  Sessions  *)
(* are numbered in the order they were opened, and a code is named after    *)
(* the session whose URL led to it.  A restart forgets every session.       *)
(***************************************************************************)
EXTENDS Integers, FiniteSets

CONSTANTS
  MaxSessions,    \* MAX_SESSIONS
  MaxStarts,      \* bound on the sessions opened
  FinishCalls

ASSUME SessionsAssumption == MaxSessions \in Nat \ {0} /\ MaxStarts \in Nat

VARIABLES
  sessions,       \* the open sessions
  outdated,       \* sessions opened more than SESSION_TTL_SECONDS ago
  starts,         \* number of sessions opened so far
  codes,          \* upstream: what became of the code of each session
  finishes        \* the calls of finish

sessionsVars == <<sessions, outdated, starts, codes, finishes>>

SessionIds == 1..MaxStarts
NoSession == 0
NoFinish == [pc |-> "none"]
Finish == [pc : {"exchange", "granted", "refused"}, code : SessionIds, picked : SessionIds]

SessionsTypeOK ==
  /\ sessions \subseteq SessionIds /\ Cardinality(sessions) =< MaxSessions + 1
  /\ outdated \subseteq SessionIds /\ starts \in 0..MaxStarts
  /\ codes \in [SessionIds -> {"none", "issued", "used"}]
  /\ finishes \in [FinishCalls -> Finish \cup {NoFinish}]

SessionsInit ==
  /\ sessions = {} /\ outdated = {} /\ starts = 0
  /\ codes = [s \in SessionIds |-> "none"]
  /\ finishes = [c \in FinishCalls |-> NoFinish]

Live == sessions \ outdated

\* Mutant: the newest sessions go.
PurgedNewest == {s \in Live : Cardinality({n \in Live : n < s}) < MaxSessions}

\* purge_expired: expired sessions go, then the oldest beyond the limit.
Purged == {s \in Live : Cardinality({n \in Live : n > s}) < MaxSessions}

\* start: the purge comes before the new session.
StartLogin ==
  /\ starts < MaxStarts
  /\ starts' = starts + 1
  /\ sessions' = Purged \cup {starts'}
  /\ UNCHANGED <<outdated, codes, finishes>>

\* What finish looks for: the session the pasted URL names, then the one the
\* page remembers; a bare code names none.  The first that is open is taken.
Picked(named, remembered, open) ==
  CASE named \in open -> named
    [] named \notin open /\ remembered \in open -> remembered
    [] OTHER -> NoSession

\* finish up to the exchange.  An open session that is not the URL's is an
\* error: its state differs.
BeginFinish ==
  \E c \in FinishCalls, code \in SessionIds :
    \E named \in {code, NoSession}, remembered \in SessionIds \cup {NoSession} :
      LET picked == Picked(named, remembered, Purged)
      IN /\ finishes[c] = NoFinish /\ codes[code] # "none"
         /\ remembered =< starts /\ {named, remembered} # {NoSession}
         /\ sessions' = Purged
         /\ finishes' = [finishes EXCEPT ![c] =
              IF picked # NoSession /\ named \in {NoSession, picked}
                THEN [pc |-> "exchange", code |-> code, picked |-> picked]
                ELSE NoFinish]
         /\ UNCHANGED <<outdated, starts, codes>>

\* exchange_code at the upstream: a code is good once, with the verifier of
\* its session.  Tokens without a refresh token are refused here.
ExchangeCode(c) ==
  LET call == finishes[c]
      good == codes[call.code] = "issued" /\ call.picked = call.code
  IN /\ call.pc = "exchange"
     /\ \/ /\ good
           /\ codes' = [codes EXCEPT ![call.code] = "used"]
           /\ \E pc \in {"granted", "refused"} : finishes' = [finishes EXCEPT ![c].pc = pc]
        \/ finishes' = [finishes EXCEPT ![c].pc = "refused"] /\ UNCHANGED codes
     /\ UNCHANGED <<sessions, outdated, starts>>

\* The answer arrives; only with tokens the session is closed.
FinishLogin(c) ==
  LET call == finishes[c]
  IN /\ call.pc \in {"granted", "refused"}
     /\ sessions' = IF call.pc = "granted"
                      THEN sessions \ {call.picked} ELSE sessions
     /\ finishes' = [finishes EXCEPT ![c] = NoFinish]
     /\ UNCHANGED <<outdated, starts, codes>>

\* The administrator authorizes in the browser.
AuthorizeInBrowser ==
  \E s \in 1..starts :
    /\ codes[s] = "none"
    /\ codes' = [codes EXCEPT ![s] = "issued"]
    /\ UNCHANGED <<sessions, outdated, starts, finishes>>

SessionExpires ==
  \E s \in 1..starts \ outdated :
    /\ 1..s - 1 \subseteq outdated
    /\ outdated' = outdated \cup {s}
    /\ UNCHANGED <<sessions, starts, codes, finishes>>

SessionsNext ==
  \/ StartLogin \/ BeginFinish \/ AuthorizeInBrowser \/ SessionExpires
  \/ \E c \in FinishCalls : finishes[c] # NoFinish /\ (ExchangeCode(c) \/ FinishLogin(c))

SessionsSpec == SessionsInit /\ [][SessionsNext]_sessionsVars

---------------------------------------------------------------------------

\* A login that was begun can be finished: its session goes only when it has
\* expired, when the code its URL led to was exchanged, or when as many newer
\* ones as the limit allows are open; failed exchanges, repeated finishes and
\* other logins leave it.
OpenSessionsStay ==
  [][\A s \in sessions \ sessions' :
       s \in outdated \/ codes[s] = "used"
         \/ Cardinality({n \in sessions : n > s}) >= MaxSessions]_sessionsVars
=============================================================================
