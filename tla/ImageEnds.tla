----------------------------- MODULE ImageEnds -----------------------------
(***************************************************************************)
(* How one attempt at one image can end, as generate_single_image sees it:  *)
(* the interface between ImageAttempt, which shows that an attempt ends in  *)
(* no other way, and ImageRequest, which retries attempts.                  *)
(*   how      - Ok, or the error of the engine                              *)
(*   emitted  - whether the attempt left an output of any kind behind       *)
(*   terminal - the result or the message among these outputs               *)
(***************************************************************************)

EngineErrors == {"token_invalid", "tls", "conn_timeout", "other"}

\* A poll needs a conversation id; one that comes from a frame which is not
\* JSON leaves no output, every other frame does.
Ends ==
  {[how |-> "ok", emitted |-> TRUE, terminal |-> t] : t \in {"result", "message"}}
  \cup [how : {"ok"}, emitted : BOOLEAN, terminal : {"none"}]
  \cup [how : {"poll_timeout", "policy"} \cup EngineErrors,
        emitted : BOOLEAN, terminal : {"none"}]
  \cup {[how |-> "no_image", emitted |-> FALSE, terminal |-> "none"]}
=============================================================================
