---------------------------- MODULE ImageRequest ----------------------------
(***************************************************************************)
(* A request for n images: the handler and its content filter (api/ai.rs,   *)
(* services/content_filter.rs), one generate_single_image per image with    *)
(* its retries, the task that emits their outputs, and the translator that  *)
(* buffers or streams them (services/protocol/).  An attempt at an image is *)
(* a member of Ends, which ImageAttempt justifies; the slot bookkeeping of  *)
(* mark_image_result is in PoolClients.                                     *)
(***************************************************************************)
EXTENDS Integers, Sequences, ImageEnds

CONSTANTS
  MaxImages,   \* bound on n
  Budget,      \* retries of one image for each error that has a budget
  MaxRefused   \* bound on the attempts with a refused token, which have none

Budgeted == {"poll_timeout", "tls", "conn_timeout"}

ASSUME BudgetAssumption ==
  MaxImages \in Nat \ {0} /\ Budget \in [Budgeted -> Nat] /\ MaxRefused \in Nat

VARIABLES
  req,      \* the request and the settings it reads
  gate,     \* the handler: "filter", "open" once the translator runs, "refused"
  img,      \* per image: where generate_single_image is, and its counters
  pool,     \* the task of stream_image_outputs_with_pool
  next,     \* the image whose outputs it emits
  queue,    \* outputs of that image not yet sent
  any,      \* it has sent an output
  chan,     \* outputs between it and the translator
  relay,    \* the translator: "open" or "closed"
  sent,     \* frames the client got
  answer,   \* the buffered answer
  client    \* whether the client is still there

requestVars ==
  <<req, gate, img, pool, next, queue, any, chan, relay, sent, answer, client>>

Styles == {"buffered", "images", "responses"}
Requests ==
  [n : 1..MaxImages, parallel : BOOLEAN, style : Styles, messageAsError : BOOLEAN]

Image == 1..req.n
NoCharge == [b \in Budgeted |-> 0]
Fresh == [at |-> "new", got |-> "none", charged |-> NoCharge, refused |-> 0]

Output == [img : 1..MaxImages, kind : {"progress", "message", "result", "error"}]

NoAnswer == [error |-> FALSE, images |-> {}, ready |-> FALSE]

RequestTypeOK ==
  /\ req \in Requests
  /\ gate \in {"filter", "open", "refused"}
  /\ DOMAIN img = 1..MaxImages
  /\ \A i \in 1..MaxImages :
       /\ img[i].at \in {"new", "token", "attempt", "refresh", "pause", "ok", "failed"}
       /\ img[i].got \in {"none", "message", "result"}
       /\ \A b \in Budgeted : img[i].charged[b] \in 0..Budget[b]
       /\ img[i].refused \in 0..MaxRefused
  /\ pool \in {"running", "emitting", "closed"}
  /\ next \in 1..MaxImages + 1
  /\ \A k \in 1..Len(queue) : queue[k] \in Output
  /\ \A k \in 1..Len(chan) : chan[k] \in Output
  /\ relay \in {"open", "closed"} /\ any \in BOOLEAN
  /\ answer \in [error : BOOLEAN, images : SUBSET (1..MaxImages), ready : BOOLEAN]
  /\ client \in {"here", "gone"}

RequestInit ==
  /\ req \in {r \in Requests : r.style = "responses" => r.n = 1 /\ ~r.messageAsError}
  /\ gate = "filter"
  /\ img = [i \in 1..MaxImages |-> Fresh]
  /\ pool = "running" /\ next = 1 /\ queue = <<>> /\ any = FALSE
  /\ chan = <<>> /\ relay = "open" /\ sent = <<>>
  /\ answer = NoAnswer
  /\ client = "here"

---------------------------------------------------------------------------
(* check_request: a word of the list refuses at once; the AI review answers, *)
(* or fails in one of several ways, and then the setting fail_open decides.  *)

\* on_failure and the decision read from the review's answer; one that is
\* neither is a failure too.
Verdicts == {"off", "allow", "reject", "failed"}
ReviewPasses(verdict, failOpen) ==
  verdict \in {"off", "allow"} \/ (verdict = "failed" /\ failOpen)

CheckRequest ==
  /\ gate = "filter"
  /\ \E word, failOpen \in BOOLEAN, verdict \in Verdicts :
       gate' = IF ~word /\ ReviewPasses(verdict, failOpen) THEN "open" ELSE "refused"
  /\ UNCHANGED <<req, img, pool, next, queue, any, chan, relay, sent, answer, client>>

---------------------------------------------------------------------------
(* generate_single_image. *)

Finished(i) == img[i].at \in {"ok", "failed"}
RestUnchanged == UNCHANGED <<req, gate, pool, next, queue, any, chan, relay, sent, answer, client>>

\* All images start together, or each one after the outputs of the one before
\* were sent.
StartImage(i) ==
  /\ gate = "open" /\ pool = "running" /\ img[i].at = "new"
  /\ req.parallel \/ i = next
  /\ img' = [img EXCEPT ![i].at = "token"]
  /\ RestUnchanged

\* get_available_access_token gives an account, or ends the image.
GetToken(i) ==
  /\ img[i].at = "token"
  /\ img' \in {[img EXCEPT ![i].at = "attempt"], [img EXCEPT ![i] = [Fresh EXCEPT !.at = "failed"]]}
  /\ RestUnchanged

\* message_as_error turns the message of an attempt into an error; a message
\* is itself an output, so the retry of text replies never applies to it.
MessageIsError(e) == e.how = "ok" /\ e.terminal = "message" /\ req.messageAsError

\* Ok: with a message or a result, or nothing at all if no output was left.
Returns(e) ==
  /\ e.how = "ok"
  /\ ~MessageIsError(e)
  /\ e.terminal # "none" \/ ~e.emitted

Charges(e) == e.how \in Budgeted /\ ~e.emitted

\* Mutant: one retry more than the budget.
RetriesOnceMore(i, e) == Charges(e) /\ img[i].charged[e.how] =< Budget[e.how]

\* An attempt that left an output behind is never repeated.
Retries(i, e) == Charges(e) /\ img[i].charged[e.how] < Budget[e.how]

Refused(e) == e.how = "token_invalid" /\ ~e.emitted

\* Where an attempt that ended as e leaves its image.  A poll timeout is
\* retried at once, with the next account of the pool; the other two pause.
AfterAttempt(i, e) ==
  CASE Returns(e) -> "ok"
    [] Refused(e) -> "refresh"
    [] Retries(i, e) -> IF e.how = "poll_timeout" THEN "token" ELSE "pause"
    [] OTHER -> "failed"

\* The counters of an image are gone when it is finished.
AttemptEnds(i, e) ==
  /\ img[i].at = "attempt"
  /\ Refused(e) => img[i].refused < MaxRefused
  /\ LET at == AfterAttempt(i, e)
         more == [b \in Budgeted |-> img[i].charged[b] + (IF e.how = b THEN 1 ELSE 0)]
     IN img' = [img EXCEPT ![i] =
          CASE at = "ok" -> [Fresh EXCEPT !.at = at, !.got = e.terminal]
            [] at = "failed" -> [Fresh EXCEPT !.at = at]
            [] at = "refresh" -> [img[i] EXCEPT !.at = at, !.refused = img[i].refused + 1]
            [] OTHER -> [img[i] EXCEPT !.at = at, !.charged = more]]
  /\ RestUnchanged

\* refresh_access_token and remove_invalid_token, or the sleep before a retry.
Resume(i) ==
  /\ img[i].at \in {"refresh", "pause"}
  /\ img' = [img EXCEPT ![i].at = "token"]
  /\ RestUnchanged

---------------------------------------------------------------------------
(* stream_image_outputs_with_pool. *)

OutputsOf(i) ==
  LET terminal == [img |-> i, kind |-> img[i].got]
      progress == [img |-> i, kind |-> "progress"]
  IN IF img[i].got = "none" THEN {<<>>} ELSE {<<terminal>>, <<progress, terminal>>}

SendsTo(output) == chan' = Append(chan, output)

\* Mutant: in parallel, too, the first error ends the request.
FirstErrorEnds ==
  /\ pool = "running" /\ next \in Image /\ Finished(next)
  /\ req.parallel => \A i \in Image : Finished(i)
  /\ IF img[next].at = "ok"
       THEN /\ queue' \in OutputsOf(next)
            /\ pool' = "emitting"
            /\ UNCHANGED chan
       ELSE /\ pool' = "closed"
            /\ SendsTo([img |-> next, kind |-> "error"])
            /\ UNCHANGED queue
  /\ UNCHANGED <<req, gate, img, next, any, relay, sent, answer, client>>

\* The next image's outputs are sent; its error ends a serial request and is
\* passed over in a parallel one, whose images have all finished by then.
TakeImage ==
  /\ pool = "running" /\ next \in Image /\ Finished(next)
  /\ req.parallel => \A i \in Image : Finished(i)
  /\ CASE img[next].at = "ok" ->
            /\ queue' \in OutputsOf(next)
            /\ pool' = "emitting"
            /\ UNCHANGED <<next, chan>>
       [] img[next].at # "ok" /\ req.parallel /\ req.n > 1 ->
            next' = next + 1 /\ UNCHANGED <<queue, pool, chan>>
       [] OTHER ->
            /\ pool' = "closed"
            /\ IF relay = "open" THEN SendsTo([img |-> next, kind |-> "error"]) ELSE UNCHANGED chan
            /\ UNCHANGED <<next, queue>>
  /\ UNCHANGED <<req, gate, img, any, relay, sent, answer, client>>

\* A failed send ends the task.
SendOutput ==
  /\ pool = "emitting"
  /\ IF queue = <<>>
       THEN pool' = "running" /\ next' = next + 1 /\ UNCHANGED <<queue, any, chan>>
       ELSE /\ any' = TRUE
            /\ IF relay = "open"
                 THEN SendsTo(Head(queue)) /\ queue' = Tail(queue) /\ UNCHANGED pool
                 ELSE pool' = "closed" /\ UNCHANGED <<queue, chan>>
            /\ UNCHANGED next
  /\ UNCHANGED <<req, gate, img, relay, sent, answer, client>>

\* Mutant: a request in which nothing was sent is forgotten.
EmitEndsIfAny ==
  /\ pool = "running" /\ next > req.n /\ any
  /\ pool' = "closed"
  /\ UNCHANGED <<req, gate, img, next, queue, any, chan, relay, sent, answer, client>>

\* Only a parallel request in which nothing was sent ends with an error here.
EmitEnds ==
  /\ pool = "running" /\ next > req.n
  /\ pool' = "closed"
  /\ IF req.parallel /\ req.n > 1 /\ ~any /\ relay = "open"
       THEN SendsTo([img |-> req.n, kind |-> "error"])
       ELSE UNCHANGED chan
  /\ UNCHANGED <<req, gate, img, next, queue, any, relay, sent, answer, client>>

---------------------------------------------------------------------------
(* The translators. *)

Closes(frames) == relay' = "closed" /\ sent' = sent \o frames

\* image_generations_stream and image_edit_stream: a frame per output; an
\* error is the last one before the end of the stream.
StreamImages(o) ==
  /\ IF o.kind = "error"
       THEN Closes(<<"error", "done">>)
       ELSE sent' = Append(sent, o.kind) /\ UNCHANGED relay
  /\ UNCHANGED answer

\* Mutant: a response that is completed waits for the end of the outputs.
ResponseGoesOn(o) ==
  /\ CASE o.kind = "error" -> Closes(<<"error", "done">>)
       [] o.kind = "progress" -> UNCHANGED <<sent, relay>>
       [] OTHER -> sent' = sent \o <<o.kind, "completed">> /\ UNCHANGED relay
  /\ UNCHANGED answer

\* stream_image_response: the first message or result completes the response,
\* and what follows it is not awaited.
StreamImageResponse(o) ==
  /\ CASE o.kind = "error" -> Closes(<<"error", "done">>)
       [] o.kind = "progress" -> UNCHANGED <<sent, relay>>
       [] OTHER -> Closes(<<o.kind, "completed", "done">>)
  /\ UNCHANGED answer

\* collect_image_outputs: the first error is the answer.
CollectImageOutput(o) ==
  /\ CASE o.kind = "error" -> /\ answer' = [answer EXCEPT !.error = TRUE, !.ready = TRUE]
                              /\ relay' = "closed"
       [] o.kind = "result" -> /\ answer' = [answer EXCEPT !.images = @ \cup {o.img}]
                               /\ UNCHANGED relay
       [] OTHER -> UNCHANGED <<answer, relay>>
  /\ UNCHANGED sent

Translate ==
  /\ relay = "open" /\ chan # <<>>
  /\ chan' = Tail(chan)
  /\ IF client = "gone"
       THEN relay' = "closed" /\ UNCHANGED <<sent, answer>>
       ELSE CASE req.style = "buffered" -> CollectImageOutput(Head(chan))
              [] req.style = "images" -> StreamImages(Head(chan))
              [] req.style = "responses" -> StreamImageResponse(Head(chan))
  /\ UNCHANGED <<req, gate, img, pool, next, queue, any, client>>

\* The outputs end: the answer is complete, or the stream ends, for a response
\* with an error because it was not completed.
TranslateEnds ==
  /\ relay = "open" /\ chan = <<>> /\ pool = "closed"
  /\ relay' = "closed"
  /\ answer' = [answer EXCEPT !.ready = (req.style = "buffered" /\ client = "here")]
  /\ sent' = IF client = "gone" \/ req.style = "buffered" THEN sent
             ELSE sent \o (IF req.style = "images" THEN <<"done">> ELSE <<"error", "done">>)
  /\ UNCHANGED <<req, gate, img, pool, next, queue, any, chan, client>>

\* A client that leaves drops the future of a buffered request; a stream
\* notices with its next frame.
ClientLeaves ==
  /\ gate = "open" /\ relay = "open" /\ client = "here"
  /\ client' = "gone"
  /\ relay' = IF req.style = "buffered" THEN "closed" ELSE relay
  /\ UNCHANGED <<req, gate, img, pool, next, queue, any, chan, sent, answer>>

---------------------------------------------------------------------------

ImageStep(i) ==
  \/ StartImage(i) \/ GetToken(i) \/ Resume(i)
  \/ \E e \in Ends : AttemptEnds(i, e)

Emit == TakeImage \/ SendOutput \/ EmitEnds
TranslatorStep == Translate \/ TranslateEnds

RequestNext ==
  \/ CheckRequest
  \/ \E i \in Image : ImageStep(i)
  \/ Emit \/ TranslatorStep
  \/ ClientLeaves

RequestSpec == RequestInit /\ [][RequestNext]_requestVars

---------------------------------------------------------------------------
(* Properties. *)

\* In a parallel request one image's failure never costs another its result:
\* the buffered answer holds every image that was generated, and is an error
\* only if there is none.
SiblingsKeepResults ==
  answer.ready /\ req.parallel /\ req.n > 1 =>
    /\ answer.images = {i \in Image : img[i].at = "ok" /\ img[i].got = "result"}
    /\ answer.error => answer.images = {}

\* Whatever order images end in and wherever one fails, a stream that closes
\* has one end, and a response is either completed by one message or result
\* or failed by one error, the last frame before the end in both cases.
StreamGrammar ==
  relay = "closed" /\ client = "here" /\ req.style # "buffered" =>
    LET last == Len(sent) IN
      /\ sent[last] = "done"
      /\ \A k \in 1..last - 1 : sent[k] # "done" /\ (sent[k] \in {"error", "completed"} => k = last - 1)
      /\ req.style = "responses" => last > 1 /\ sent[last - 1] \in {"error", "completed"}

\* A request that passed the filter is answered, or its client has left: no
\* order of failures leaves the emitting task or the translator waiting.
RequestEnds == gate = "open" ~> relay = "closed"
=============================================================================
