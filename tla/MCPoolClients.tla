--------------------------- MODULE MCPoolClients ---------------------------
(* Small instances of PoolClients for TLC. *)
EXTENDS PoolClients, TLC

FreshSymmetry == Permutations(Token \ Imported) \cup Permutations(Request)

(***************************************************************************)
(* New tokens without end from a finite set.  A token that is in no        *)
(* account, has no slot taken, is nobody's replacement and is in use by no *)
(* process can never be told from one that was not issued yet: it is       *)
(* forgotten, and may be issued again as a new one.                        *)
(***************************************************************************)

Using(p) == {proc[p].held, proc[p].active, proc[p].called}

Forget(t) ==
  /\ t \in issued \ Live /\ inflight[t] = 0
  /\ \A u \in DOMAIN aliases : aliases[u] # t
  /\ \A p \in Proc : t \notin Using(p)
  /\ issued' = issued \ {t}
  /\ aliases' = Drop(aliases, {t})
  /\ proc' = [p \in Proc |-> [proc[p] EXCEPT !.attempted = @ \ {t}]]
  /\ UNCHANGED <<accounts, inflight, refreshLock>>

EndlessSpec ==
  /\ Init /\ [][Next \/ \E t \in Token : Forget(t)]_vars
  /\ Fairness
=============================================================================
