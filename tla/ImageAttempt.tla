---------------------------- MODULE ImageAttempt ----------------------------
(***************************************************************************)
(* One attempt at one image with one account: the calls that prepare a      *)
(* picture conversation, its event stream, the polling of the conversation  *)
(* document for image ids, and the download (stream_image_outputs of        *)
(* services/protocol/conversation.rs, services/openai_backend_api/image.rs).*)
(* Ids of both kinds are one set; headers, proof tokens and payloads are    *)
(* left out.  Time passes only while polling, where the code measures it.   *)
(***************************************************************************)
EXTENDS Integers, ImageEnds

CONSTANTS
  Generated,       \* ids of the images upstream makes in this conversation
  Attached,        \* ids of the images the user attached
  PollTimeout,     \* config image_poll_timeout_secs
  LongTimeout,     \* the 300 seconds given to a conversation with a text reply
  SettleSecs,      \* config image_settle_secs
  MaxBackoff       \* bound on the wait after a busy answer

ASSUME PollAssumption ==
  /\ Generated \cap Attached = {}
  /\ {PollTimeout, LongTimeout, SettleSecs, MaxBackoff} \subseteq Nat \ {0}
  /\ PollTimeout =< LongTimeout

VARIABLES
  conf,      \* the account and the settings the attempt reads
  pc,        \* where the attempt is
  conv,      \* the decoder's view of the conversation
  doc,       \* ids the conversation document has shown (the upstream's state)
  round,     \* 1, or 2 when a resolve is repeated
  left,      \* seconds left to poll
  found,     \* ids the poll has collected
  hit,       \* last_hit_key
  taskError, \* last_task_error
  emitted,   \* some output was pushed
  end        \* how the attempt ended

attemptVars ==
  <<conf, pc, conv, doc, round, left, found, hit, taskError, emitted, end>>

NoHit == {"none"}
NotEnded == [how |-> "running", emitted |-> FALSE, terminal |-> "none"]

MinOf(a, b) == IF a < b THEN a ELSE b

Conversation ==
  [id : BOOLEAN, ids : SUBSET (Generated \cup Attached), text : {"", "reply", "description"},
   blocked : BOOLEAN, tool : BOOLEAN, imageGen : BOOLEAN]

EmptyConversation ==
  [id |-> FALSE, ids |-> {}, text |-> "", blocked |-> FALSE, tool |-> FALSE, imageGen |-> FALSE]

AttemptTypeOK ==
  /\ conf \in [codex : BOOLEAN, images : BOOLEAN, check : BOOLEAN, settle : BOOLEAN]
  /\ pc \in {"upload", "bootstrap", "requirements", "prepare", "start", "codex", "stream",
             "decide", "poll", "urls", "download", "wait", "done"}
  /\ conv \in Conversation
  /\ doc \in SUBSET Generated
  /\ round \in 1..2
  /\ left \in 0..LongTimeout
  /\ found \in SUBSET (Generated \cup Attached)
  /\ hit \in (SUBSET (Generated \cup Attached)) \cup {NoHit}
  /\ taskError \in BOOLEAN /\ emitted \in BOOLEAN
  /\ end \in [how : {"ok", "no_image", "policy", "poll_timeout"} \cup EngineErrors \cup {"running"},
             emitted : BOOLEAN, terminal : {"none", "message", "result"}]

AttemptInit ==
  /\ conf \in [codex : BOOLEAN, images : BOOLEAN, check : BOOLEAN, settle : BOOLEAN]
  /\ pc = IF conf.codex THEN "codex" ELSE IF conf.images THEN "upload" ELSE "bootstrap"
  /\ conv = EmptyConversation
  /\ doc = {} /\ found = {}
  /\ round = 1 /\ left = 0
  /\ hit = NoHit
  /\ taskError = FALSE /\ emitted = FALSE
  /\ end = NotEnded

---------------------------------------------------------------------------
(* Ways to end. *)

EndsWith(how, terminal) ==
  /\ pc' = "done"
  /\ end' = [how |-> how, emitted |-> emitted \/ terminal # "none", terminal |-> terminal]
  /\ emitted' = end'.emitted

\* A request that fails in transport or with a status: the engine's error.
Fails == \E e \in EngineErrors : EndsWith(e, "none")

Idle == UNCHANGED <<conf, conv, doc, round, left, found, hit, taskError>>

---------------------------------------------------------------------------
(* stream_picture_conversation: each call of the chain is awaited and ends   *)
(* the attempt if it fails.                                                 *)

Call(here, next) ==
  /\ pc = here
  /\ \/ pc' = next /\ UNCHANGED <<emitted, end>>
     \/ Fails
  /\ Idle

\* One reference is created, put and confirmed; there may be several.
UploadImage == Call("upload", "upload") \/ Call("upload", "bootstrap")
Bootstrap == Call("bootstrap", "requirements")

\* No token, or an arkose challenge, is an error like the others.
GetChatRequirements == Call("requirements", "prepare")
PrepareImageConversation == Call("prepare", "start")
StartImageGeneration == Call("start", "stream")

\* The one request of codex: its answer has images, or none that can be read.
CodexAnswer == EndsWith("ok", "result") \/ EndsWith("no_image", "none") \/ Fails

\* stream_codex_image_outputs.
CodexImages ==
  /\ pc = "codex"
  /\ CodexAnswer
  /\ Idle

---------------------------------------------------------------------------
(* The event stream.  A frame is what ConversationDecoder.push and           *)
(* update_state tell apart.                                                 *)

\* What the assistant's text may become: a reply, or a description in place of
\* the image, by a whole message or by patches, which may also take it back.
TextAfter(kind) ==
  IF kind \in {"assistant", "patch"} THEN {"", "reply", "description"} ELSE {conv.text}

\* image_context: an image tool's message, any other message but the user's
\* after a tool was invoked, or a patch that names an asset.
TakesIds(kind) ==
  /\ kind # "user"
  /\ kind = "tool" \/ conv.tool \/ kind = "patch"

DecodeFrame(kind) ==
  \E ids \in SUBSET (IF kind = "user" THEN Attached ELSE Generated), named \in BOOLEAN :
    conv' \in [id : {conv.id \/ named},
               ids : {IF TakesIds(kind) THEN conv.ids \cup ids ELSE conv.ids},
               text : TextAfter(kind),
               blocked : IF kind = "moderation" THEN {TRUE} ELSE {conv.blocked},
               tool : IF kind = "metadata" THEN BOOLEAN ELSE {conv.tool},
               imageGen : IF kind = "metadata" THEN {TRUE, conv.imageGen} ELSE {conv.imageGen}]

\* A JSON frame gives a conversation.delta or a conversation.event, and each
\* of them pushes a progress output.
StreamEvent ==
  /\ pc = "stream"
  /\ \E kind \in {"user", "tool", "assistant", "patch", "metadata", "moderation"} : DecodeFrame(kind)
  /\ emitted' = TRUE
  /\ UNCHANGED <<conf, pc, doc, round, left, found, hit, taskError, end>>

\* A frame that is not JSON is searched for a conversation id, and for image
\* ids after a tool was invoked, and pushes nothing.
RawFrame ==
  /\ pc = "stream"
  /\ \E ids \in SUBSET (IF conv.tool THEN Generated ELSE {}), named \in BOOLEAN :
       conv' = [conv EXCEPT !.id = @ \/ named, !.ids = @ \cup ids]
  /\ UNCHANGED <<conf, pc, doc, round, left, found, hit, taskError, emitted, end>>

StreamEnds ==
  /\ pc = "stream"
  /\ \/ pc' = "decide" /\ UNCHANGED <<emitted, end>>
     \/ Fails
  /\ Idle

---------------------------------------------------------------------------
(* Resolving the ids. *)

ShouldPoll == conf.images \/ conv.imageGen
HasText == conv.text # ""
IsTextReply == conv.text = "description"

\* poll_image_results up to its loop: known ids settle, others are waited for.
StartPolling(timeout) ==
  /\ found' = conv.ids
  /\ hit' = IF conv.ids # {} THEN conv.ids ELSE NoHit
  /\ taskError' = FALSE
  /\ \E wait \in IF conv.ids # {} /\ conf.settle THEN {SettleSecs} ELSE 0..1 :
       left' = timeout - MinOf(wait, timeout)
  /\ pc' = "poll"

\* resolve_conversation_image_urls up to its poll.
Resolve(timeout) ==
  IF conv.id /\ ~(conv.ids # {} /\ ~conf.check /\ ~conf.settle)
    THEN StartPolling(timeout)
    ELSE pc' = "urls" /\ found' = {} /\ UNCHANGED <<hit, taskError, left>>

\* After the stream: a refusal or plain text ends the attempt, anything else
\* is resolved.
Decide ==
  /\ pc = "decide"
  /\ IF HasText /\ conv.ids = {} /\ (conv.blocked \/ ~ShouldPoll)
       THEN EndsWith("ok", "message") /\ UNCHANGED <<left, found, hit, taskError>>
       ELSE /\ Resolve(IF IsTextReply /\ conv.id THEN LongTimeout ELSE PollTimeout)
            /\ UNCHANGED <<emitted, end>>
  /\ UNCHANGED <<conf, conv, doc, round>>

\* An image reply without an image: the message ends the attempt, or the
\* resolve is repeated.
NoUrls ==
  IF round = 1 /\ conv.id /\ (IF HasText THEN IsTextReply ELSE ShouldPoll)
    THEN pc' = "wait" /\ UNCHANGED <<emitted, end>>
    ELSE EndsWith("ok", "message")

\* The wait before the repeated resolve, which starts from the stream's ids.
ResolveAgain ==
  /\ pc = "wait"
  /\ round' = 2
  /\ Resolve(LongTimeout)
  /\ UNCHANGED <<conf, conv, doc, emitted, end>>

\* An error of the poll: with ids from the stream they are tried as they are;
\* without, it ends the attempt unless a text reply or the second round
\* leaves a message to return.
PollFails(e) ==
  /\ found' = {}
  /\ IF conv.ids # {}
       THEN pc' = "urls" /\ UNCHANGED <<emitted, end>>
       ELSE IF round = 2 \/ (IsTextReply /\ e # "poll_timeout")
         THEN NoUrls
         ELSE EndsWith(e, "none")

\* The ids of this look are returned: confirmation is off, or the look before
\* showed the same.
Confirmed(ids) == ~conf.check \/ hit = ids \/ ~conf.settle

\* Mutant: a busy upstream is asked again at once.
NoBackoff(rest) == {rest}

\* A busy answer (429, 5xx) is waited for, within the time left.
AfterBackoff(rest) == {rest - MinOf(backoff, rest) : backoff \in 1..MaxBackoff}

\* The scan of the backend's tasks finds an error or none, and its own failure
\* counts as none.
TaskScan == taskError' \in BOOLEAN

\* What the conversation document shows next: what its tool messages name is
\* never taken back.
ShownAfter(shown) == {d \in SUBSET Generated : shown \subseteq d}

\* A refusal is looked for only in a document without any id.
MayRefuse(ids) == ids = {}

\* One turn of the loop.  The scan of the tasks and the request of the
\* conversation take time; a busy upstream is waited for.
PollOnce ==
  /\ pc = "poll" /\ left > 0
  /\ TaskScan
  /\ \E took \in 0..1 :
       LET rest == left - took IN
         \/ /\ left' \in AfterBackoff(rest)
            /\ UNCHANGED <<pc, doc, found, hit, emitted, end>>
         \/ /\ \E e \in EngineErrors : PollFails(e)
            /\ left' = rest
            /\ UNCHANGED <<doc, hit>>
         \/ /\ MayRefuse(found \cup doc)
            /\ PollFails("policy")
            /\ left' = rest
            /\ UNCHANGED <<doc, hit>>
         \/ /\ doc' \in ShownAfter(doc)
            /\ found' = found \cup doc'
            /\ IF found' = {}
                 THEN left' = rest - MinOf(1, rest) /\ UNCHANGED <<pc, hit>>
                 ELSE IF Confirmed(found') \/ rest = 0
                   THEN pc' = "urls" /\ left' = rest /\ hit' = found'
                   ELSE left' = rest - MinOf(SettleSecs, rest) /\ hit' = found' /\ UNCHANGED pc
            /\ UNCHANGED <<emitted, end>>
  /\ UNCHANGED <<conf, conv, round>>

\* A task error turns the timeout into a refusal.
PollTimesOut ==
  /\ pc = "poll" /\ left = 0
  /\ PollFails(IF taskError THEN "policy" ELSE "poll_timeout")
  /\ UNCHANGED <<conf, conv, doc, round, left, hit, taskError>>

\* resolve_image_urls skips every id that has no url.
ResolveImageUrls ==
  /\ pc = "urls"
  /\ \/ conv.ids \cup found # {} /\ pc' = "download" /\ UNCHANGED <<emitted, end>>
     \/ NoUrls
  /\ Idle

\* Mutant: images are pushed as they arrive, and a later one may still fail.
DownloadOneByOne ==
  /\ pc = "download"
  /\ \/ EndsWith("ok", "result")
     \/ \E e \in EngineErrors : EndsWith(e, "result")
  /\ Idle

\* download_and_format fails with the first image that fails; images without
\* a byte are dropped, and nothing may remain.
DownloadAndFormat ==
  /\ pc = "download"
  /\ \/ EndsWith("ok", "result")
     \/ IF round = 1
          THEN Fails \/ EndsWith("ok", "none")
          ELSE EndsWith("ok", "message")
  /\ Idle

---------------------------------------------------------------------------

AttemptNext ==
  \/ UploadImage \/ Bootstrap \/ GetChatRequirements
  \/ PrepareImageConversation \/ StartImageGeneration
  \/ CodexImages
  \/ StreamEvent \/ RawFrame \/ StreamEnds
  \/ Decide \/ ResolveAgain
  \/ PollOnce \/ PollTimesOut
  \/ ResolveImageUrls \/ DownloadAndFormat

AttemptSpec == AttemptInit /\ [][AttemptNext]_attemptVars

---------------------------------------------------------------------------
(* Properties. *)

\* An attempt ends in one of the ways generate_single_image tells apart, with
\* what it says it left behind: no error comes with a result, a result never
\* without an output, and ids that the event stream named are always tried: no
\* timeout and no refusal of the poll ends an attempt that has them.
AttemptEndExpected ==
  pc = "done" =>
    /\ end \in Ends
    /\ conv.ids # {} => end.how \notin {"poll_timeout", "policy"}

\* Polling comes to an end whatever upstream answers, and however often it is
\* too busy to answer.
PollEnds == pc = "poll" ~> pc # "poll"
=============================================================================
