--------------------------- MODULE SlotSemaphore ---------------------------
(***************************************************************************)
(* What the image slots of the account pool promise: a counting semaphore  *)
(* per account.  An account is named by its current token, so rotating it  *)
(* renames the semaphore with everyone in it, and removing it sends them   *)
(* away.                                                                   *)
(***************************************************************************)
EXTENDS Integers, FiniteSets

CONSTANTS Token, Request, NoToken, MaxConcurrency

VARIABLE using    \* the account whose slot each request occupies, or NoToken

Users(t) == {r \in Request : using[r] = t}

Take(r, t) ==
  /\ using[r] = NoToken
  /\ Cardinality(Users(t)) < MaxConcurrency
  /\ using' = [using EXCEPT ![r] = t]

GiveBack(r) ==
  /\ using[r] # NoToken
  /\ using' = [using EXCEPT ![r] = NoToken]

Rename(t, u) ==
  /\ Users(u) = {}
  /\ using' = [r \in Request |-> IF using[r] = t THEN u ELSE using[r]]

Remove(S) ==
  using' = [r \in Request |-> IF using[r] \in S THEN NoToken ELSE using[r]]

Init == using = [r \in Request |-> NoToken]

Next ==
  \/ \E r \in Request : GiveBack(r) \/ \E t \in Token : Take(r, t)
  \/ \E t, u \in Token : Rename(t, u)
  \/ \E S \in SUBSET Token : Remove(S)

Spec == Init /\ [][Next]_using
=============================================================================
