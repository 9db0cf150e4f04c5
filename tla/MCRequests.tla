----------------------------- MODULE MCRequests -----------------------------
(***************************************************************************)
(* Small instances of ImageAttempt, ImageRequest, TextReply and Gallery for   *)
(* TLC, in one run: `focus` names the one that moves, the others stay in an *)
(* initial state.                                                           *)
(***************************************************************************)
EXTENDS ImageAttempt, ImageRequest, TextReply, Gallery

VARIABLE focus

vars == <<focus, attemptVars, requestVars, replyVars, galleryVars>>

OneRetryButTls == [b \in Budgeted |-> IF b = "tls" THEN 0 ELSE 1]

\* The initial state of a component that does not move is one of its own.
StillConf == [codex |-> FALSE, images |-> FALSE, check |-> FALSE, settle |-> FALSE]
StillReq == [n |-> 1, parallel |-> FALSE, style |-> "buffered", messageAsError |-> FALSE]

Init ==
  /\ AttemptInit /\ RequestInit /\ ReplyInit /\ GalleryInit
  /\ focus \in {"attempt", "request", "reply", "gallery"}
  /\ focus # "attempt" => conf = StillConf
  /\ focus # "request" => req = StillReq
  /\ focus # "reply" => style = "buffered"

Attempt == focus = "attempt" /\ AttemptNext /\ UNCHANGED <<focus, requestVars, replyVars, galleryVars>>
Request == focus = "request" /\ RequestNext /\ UNCHANGED <<focus, attemptVars, replyVars, galleryVars>>
Reply == focus = "reply" /\ ReplyNext /\ UNCHANGED <<focus, attemptVars, requestVars, galleryVars>>
Pictures == focus = "gallery" /\ GalleryNext /\ UNCHANGED <<focus, attemptVars, requestVars, replyVars>>

Next == Attempt \/ Request \/ Reply \/ Pictures

\* Every await of the code comes back, by an answer or by a timeout; the tasks
\* of a request are scheduled; the cleanup worker wakes up every half hour.
Fairness ==
  /\ WF_attemptVars(focus = "attempt" /\ (PollOnce \/ PollTimesOut))
  /\ WF_requestVars(focus = "request" /\ Emit)
  /\ WF_requestVars(focus = "request" /\ TranslatorStep)
  /\ \A i \in 1..MaxImages : WF_requestVars(focus = "request" /\ i \in Image /\ ImageStep(i))
  /\ WF_galleryVars(focus = "gallery" /\ CleanUp)

Spec == Init /\ [][Next]_vars /\ Fairness

\* The variables of the component that moves keep their types, and an image is
\* retried within its budgets.
RequestsTypeOK ==
  CASE focus = "attempt" -> AttemptTypeOK
    [] focus = "request" -> RequestTypeOK
    [] focus = "reply" -> ReplyTypeOK
    [] focus = "gallery" -> GalleryTypeOK
=============================================================================
