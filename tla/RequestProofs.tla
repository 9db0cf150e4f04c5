---------------------------- MODULE RequestProofs ---------------------------
(***************************************************************************)
(* Proofs about an image attempt (AttemptInv), a request for images         *)
(* (RequestInv) and a text reply (ReplyInv), and, with those of the image   *)
(* storage, about all four side by side.                                    *)
(***************************************************************************)
EXTENDS MCRequests, GalleryProofs, SequenceTheorems, FiniteSetTheorems

---------------------------------------------------------------------------
(* One attempt at an image. *)

\* Where an attempt is at work, after the request of codex.
Busy == {"upload", "bootstrap", "requirements", "prepare", "start", "stream",
         "decide", "poll", "urls", "download", "wait"}

\* The types of what the attempt knows.
KnowledgeOK ==
  /\ conf \in [codex : BOOLEAN, images : BOOLEAN, check : BOOLEAN, settle : BOOLEAN]
  /\ conv \in Conversation
  /\ doc \in SUBSET Generated
  /\ round \in 1..2
  /\ left \in 0..LongTimeout
  /\ found \in SUBSET (Generated \cup Attached)
  /\ hit \in (SUBSET (Generated \cup Attached)) \cup {NoHit}
  /\ taskError \in BOOLEAN

\* Codex leaves no output before its answer, which is why an answer without an
\* image comes without one.
AttemptInv == AttemptTypeOK /\ (pc = "codex" => ~emitted) /\ AttemptEndExpected

\* A step goes on, or it ends the attempt as expected.
GoesOn == pc' \in Busy /\ emitted' \in BOOLEAN /\ end' = end
Ended ==
  /\ pc' = "done" /\ emitted' \in BOOLEAN /\ end' \in Ends
  /\ conv.ids # {} => end'.how \notin {"poll_timeout", "policy"}

LEMMA AttemptStep ==
  ASSUME AttemptInv, KnowledgeOK', GoesOn \/ (Ended /\ conv' = conv)
  PROVE  AttemptInv'
<1>1. Ends \subseteq [how : {"ok", "no_image", "policy", "poll_timeout"} \cup EngineErrors \cup {"running"},
                      emitted : BOOLEAN, terminal : {"none", "message", "result"}]
  <2>1. \A t \in {"result", "message"} :
          [how |-> "ok", emitted |-> TRUE, terminal |-> t]
            \in [how : {"ok"}, emitted : BOOLEAN, terminal : {"none", "message", "result"}]
    OBVIOUS
  <2>2. [how |-> "no_image", emitted |-> FALSE, terminal |-> "none"]
          \in [how : {"no_image"}, emitted : BOOLEAN, terminal : {"none", "message", "result"}]
    OBVIOUS
  <2> QED BY <2>1, <2>2 DEF Ends
<1>2. CASE GoesOn
  BY <1>2 DEF GoesOn, Busy, AttemptInv, AttemptTypeOK, KnowledgeOK, AttemptEndExpected
<1>3. CASE Ended /\ conv' = conv
  BY <1>1, <1>3 DEF Ended, AttemptInv, AttemptTypeOK, KnowledgeOK, AttemptEndExpected
<1> QED BY <1>2, <1>3

\* The ways EndsWith is used are expected ones.
LEMMA Ending ==
  ASSUME AttemptInv, NEW how, NEW terminal, EndsWith(how, terminal),
         \/ how = "ok" /\ terminal \in {"none", "message", "result"}
         \/ /\ how \in {"poll_timeout", "policy"} \cup EngineErrors
            /\ terminal = "none"
            /\ conv.ids # {} => how \in EngineErrors
         \/ how = "no_image" /\ terminal = "none" /\ ~emitted
  PROVE  Ended
<1>1. emitted \in BOOLEAN
  BY DEF AttemptInv, AttemptTypeOK
<1>2. /\ pc' = "done" /\ emitted' \in BOOLEAN
      /\ end' = [how |-> how, emitted |-> emitted', terminal |-> terminal]
      /\ emitted' = (emitted \/ terminal # "none")
  BY <1>1 DEF EndsWith
<1>3. conv.ids # {} => end'.how \notin {"poll_timeout", "policy"}
  BY <1>2 DEF EngineErrors
<1>4. CASE how = "ok" /\ terminal = "none"
  <2>1. end' \in [how : {"ok"}, emitted : BOOLEAN, terminal : {"none"}]
    BY <1>2, <1>4
  <2> QED BY <1>2, <1>3, <2>1 DEF Ended, Ends
<1>5. CASE how = "ok" /\ terminal \in {"message", "result"}
  <2>1. end' = [how |-> "ok", emitted |-> TRUE, terminal |-> terminal]
    BY <1>2, <1>5
  <2> QED BY <1>2, <1>3, <1>5, <2>1 DEF Ended, Ends
<1>6. CASE how \in {"poll_timeout", "policy"} \cup EngineErrors /\ terminal = "none"
  <2>1. end' \in [how : {"poll_timeout", "policy"} \cup EngineErrors, emitted : BOOLEAN, terminal : {"none"}]
    BY <1>2, <1>6
  <2> QED BY <1>2, <1>3, <2>1 DEF Ended, Ends
<1>7. CASE how = "no_image" /\ terminal = "none" /\ ~emitted
  <2>1. end' = [how |-> "no_image", emitted |-> FALSE, terminal |-> "none"]
    BY <1>2, <1>7
  <2> QED BY <1>2, <1>3, <2>1 DEF Ended, Ends
<1> QED BY <1>4, <1>5, <1>6, <1>7

LEMMA Failing == ASSUME AttemptInv, Fails PROVE Ended
BY Ending DEF Fails

LEMMA KnowledgeStays == ASSUME AttemptInv, Idle PROVE KnowledgeOK' /\ conv' = conv
BY DEF AttemptInv, AttemptTypeOK, KnowledgeOK, Idle, NoHit

LEMMA CallInv ==
  ASSUME AttemptInv, NEW here, NEW to \in Busy, Call(here, to)
  PROVE  AttemptInv'
<1>1. GoesOn \/ Ended
  <2>1. CASE pc' = to /\ UNCHANGED <<emitted, end>>
    BY <2>1 DEF GoesOn, AttemptInv, AttemptTypeOK
  <2> QED BY <2>1, Failing DEF Call
<1> QED BY <1>1, KnowledgeStays, AttemptStep DEF Call

LEMMA CodexInv == ASSUME AttemptInv, CodexImages PROVE AttemptInv'
<1>1. Ended
  <2>1. ~emitted
    BY DEF CodexImages, AttemptInv
  <2>2. CASE EndsWith("ok", "result")
    BY <2>2, Ending
  <2>3. CASE EndsWith("no_image", "none")
    BY <2>1, <2>3, Ending
  <2> QED BY <2>2, <2>3, Failing DEF CodexImages, CodexAnswer
<1> QED BY <1>1, KnowledgeStays, AttemptStep DEF CodexImages

---------------------------------------------------------------------------
(* The event stream. *)

LEMMA StreamEventInv == ASSUME AttemptInv, StreamEvent PROVE AttemptInv'
<1>1. PICK kind \in {"user", "tool", "assistant", "patch", "metadata", "moderation"} : DecodeFrame(kind)
  BY DEF StreamEvent
<1>2. conv' \in Conversation
  <2>1. PICK ids \in SUBSET (IF kind = "user" THEN Attached ELSE Generated), named \in BOOLEAN :
          conv' \in [id : {conv.id \/ named},
                     ids : {IF TakesIds(kind) THEN conv.ids \cup ids ELSE conv.ids},
                     text : TextAfter(kind),
                     blocked : IF kind = "moderation" THEN {TRUE} ELSE {conv.blocked},
                     tool : IF kind = "metadata" THEN BOOLEAN ELSE {conv.tool},
                     imageGen : IF kind = "metadata" THEN {TRUE, conv.imageGen} ELSE {conv.imageGen}]
    BY <1>1 DEF DecodeFrame
  <2>2. conv \in Conversation
    BY DEF AttemptInv, AttemptTypeOK
  <2>3. ids \in SUBSET (Generated \cup Attached)
    OBVIOUS
  <2>4. TextAfter(kind) \subseteq {"", "reply", "description"}
    BY <2>2 DEF TextAfter, Conversation
  <2>5. (IF TakesIds(kind) THEN conv.ids \cup ids ELSE conv.ids) \in SUBSET (Generated \cup Attached)
    BY <2>2, <2>3 DEF Conversation
  <2> HIDE DEF TakesIds, TextAfter
  <2> QED BY <2>1, <2>2, <2>4, <2>5 DEF Conversation
<1>3. KnowledgeOK'
  BY <1>2 DEF StreamEvent, AttemptInv, AttemptTypeOK, KnowledgeOK, NoHit
<1>4. GoesOn
  BY DEF StreamEvent, GoesOn, Busy
<1> QED BY <1>3, <1>4, AttemptStep

LEMMA RawFrameInv == ASSUME AttemptInv, RawFrame PROVE AttemptInv'
<1>1. conv' \in Conversation
  <2>1. PICK ids \in SUBSET (IF conv.tool THEN Generated ELSE {}), named \in BOOLEAN :
          conv' = [conv EXCEPT !.id = @ \/ named, !.ids = @ \cup ids]
    BY DEF RawFrame
  <2>2. conv \in Conversation
    BY DEF AttemptInv, AttemptTypeOK
  <2>3. ids \in SUBSET Generated
    OBVIOUS
  <2> QED BY <2>1, <2>2, <2>3 DEF Conversation
<1>2. KnowledgeOK'
  BY <1>1 DEF RawFrame, AttemptInv, AttemptTypeOK, KnowledgeOK, NoHit
<1>3. GoesOn
  BY DEF RawFrame, GoesOn, Busy, AttemptInv, AttemptTypeOK
<1> QED BY <1>2, <1>3, AttemptStep

LEMMA StreamEndsInv == ASSUME AttemptInv, StreamEnds PROVE AttemptInv'
<1>1. GoesOn \/ Ended
  <2>1. CASE pc' = "decide" /\ UNCHANGED <<emitted, end>>
    BY <2>1 DEF GoesOn, Busy, AttemptInv, AttemptTypeOK
  <2> QED BY <2>1, Failing DEF StreamEnds
<1> QED BY <1>1, KnowledgeStays, AttemptStep DEF StreamEnds

---------------------------------------------------------------------------
(* Resolving the ids. *)

LEMMA MinFacts == ASSUME NEW a \in Nat, NEW b \in Nat PROVE MinOf(a, b) \in Nat /\ MinOf(a, b) =< a /\ MinOf(a, b) =< b
BY DEF MinOf

LEMMA TimeRuns == ASSUME NEW a \in Nat, NEW b \in 0..LongTimeout PROVE b - MinOf(a, b) \in 0..LongTimeout
<1>1. b \in Nat /\ LongTimeout \in Nat /\ b =< LongTimeout
  BY PollAssumption
<1>2. MinOf(a, b) \in Nat /\ MinOf(a, b) =< b
  BY <1>1, MinFacts
<1> HIDE DEF MinOf
<1> QED BY <1>1, <1>2

LEMMA Resolving ==
  ASSUME AttemptInv, NEW timeout \in {PollTimeout, LongTimeout}, Resolve(timeout)
  PROVE  /\ pc' \in {"poll", "urls"}
         /\ left' \in 0..LongTimeout
         /\ found' \in SUBSET (Generated \cup Attached)
         /\ hit' \in (SUBSET (Generated \cup Attached)) \cup {NoHit}
         /\ taskError' \in BOOLEAN
<1>1. AttemptTypeOK
  BY DEF AttemptInv
<1>2. timeout \in 0..LongTimeout
  BY PollAssumption
<1>3. conv.ids \in SUBSET (Generated \cup Attached)
  BY <1>1 DEF AttemptTypeOK, Conversation
<1>4. CASE StartPolling(timeout)
  <2>1. PICK wait \in Nat : left' = timeout - MinOf(wait, timeout)
    BY <1>4, PollAssumption DEF StartPolling
  <2>2. left' \in 0..LongTimeout
    BY <1>2, <2>1, TimeRuns
  <2>3. /\ found' = conv.ids /\ hit' = (IF conv.ids # {} THEN conv.ids ELSE NoHit)
        /\ taskError' = FALSE /\ pc' = "poll"
    BY <1>4 DEF StartPolling
  <2> QED BY <1>3, <2>2, <2>3
<1>5. CASE pc' = "urls" /\ found' = {} /\ UNCHANGED <<hit, taskError, left>>
  BY <1>1, <1>5 DEF AttemptTypeOK, NoHit
<1> QED BY <1>4, <1>5 DEF Resolve

LEMMA DecideInv == ASSUME AttemptInv, Decide PROVE AttemptInv'
<1>1. CASE EndsWith("ok", "message") /\ UNCHANGED <<left, found, hit, taskError>>
  <2>1. Idle
    BY <1>1 DEF Decide, Idle
  <2> QED BY <1>1, <2>1, Ending, KnowledgeStays, AttemptStep
<1>2. CASE /\ Resolve(IF IsTextReply /\ conv.id THEN LongTimeout ELSE PollTimeout)
           /\ UNCHANGED <<emitted, end>>
  <2>1. KnowledgeOK' /\ pc' \in {"poll", "urls"}
    BY <1>2, Resolving DEF Decide, AttemptInv, AttemptTypeOK, KnowledgeOK, NoHit
  <2>2. GoesOn
    BY <1>2, <2>1 DEF GoesOn, Busy, AttemptInv, AttemptTypeOK
  <2> QED BY <2>1, <2>2, AttemptStep
<1> QED BY <1>1, <1>2 DEF Decide

LEMMA ResolveAgainInv == ASSUME AttemptInv, ResolveAgain PROVE AttemptInv'
<1>1. KnowledgeOK' /\ pc' \in {"poll", "urls"}
  BY Resolving DEF ResolveAgain, AttemptInv, AttemptTypeOK, KnowledgeOK, NoHit
<1>2. GoesOn
  BY <1>1 DEF ResolveAgain, GoesOn, Busy, AttemptInv, AttemptTypeOK
<1> QED BY <1>1, <1>2, AttemptStep

LEMMA NoUrlsOutcome == ASSUME AttemptInv, NoUrls PROVE GoesOn \/ Ended
<1>1. CASE pc' = "wait" /\ UNCHANGED <<emitted, end>>
  BY <1>1 DEF GoesOn, Busy, AttemptInv, AttemptTypeOK
<1>2. CASE EndsWith("ok", "message")
  BY <1>2, Ending
<1> QED BY <1>1, <1>2 DEF NoUrls

\* With ids from the stream a failing poll goes on to the urls, so its error
\* ends only an attempt without them.
LEMMA PollFailsOutcome ==
  ASSUME AttemptInv, NEW e \in {"poll_timeout", "policy"} \cup EngineErrors, PollFails(e)
  PROVE  (GoesOn \/ Ended) /\ found' = {}
<1>1. CASE conv.ids # {}
  BY <1>1 DEF PollFails, GoesOn, Busy, AttemptInv, AttemptTypeOK
<1>2. CASE conv.ids = {} /\ NoUrls
  BY <1>2, NoUrlsOutcome DEF PollFails
<1>3. CASE conv.ids = {} /\ EndsWith(e, "none")
  BY <1>3, Ending DEF PollFails
<1> QED BY <1>1, <1>2, <1>3 DEF PollFails

LEMMA PollTimesOutInv == ASSUME AttemptInv, PollTimesOut PROVE AttemptInv'
<1>1. (GoesOn \/ Ended) /\ found' = {}
  BY PollFailsOutcome DEF PollTimesOut
<1>2. KnowledgeOK' /\ conv' = conv
  BY <1>1 DEF PollTimesOut, KnowledgeOK, AttemptInv, AttemptTypeOK, NoHit
<1> QED BY <1>1, <1>2, AttemptStep

LEMMA PollOnceInv == ASSUME AttemptInv, PollOnce PROVE AttemptInv'
<1> USE DEF NoHit
<1>1. AttemptTypeOK
  BY DEF AttemptInv
<1>2. PICK took \in 0..1 :
         LET rest == left - took IN
         \/ /\ left' \in AfterBackoff(rest)
            /\ UNCHANGED <<pc, doc, found, hit, emitted, end>>
         \/ /\ \E e \in EngineErrors : PollFails(e)
            /\ left' = rest
            /\ UNCHANGED <<doc, hit>>
         \/ /\ MayRefuse(found \cup doc)
            /\ PollFails("policy")
            /\ left' = rest
            /\ UNCHANGED <<doc, hit>>
         \/ /\ doc' \in ShownAfter(doc)
            /\ found' = found \cup doc'
            /\ IF found' = {}
                 THEN left' = rest - MinOf(1, rest) /\ UNCHANGED <<pc, hit>>
                 ELSE IF Confirmed(found') \/ rest = 0
                   THEN pc' = "urls" /\ left' = rest /\ hit' = found'
                   ELSE left' = rest - MinOf(SettleSecs, rest) /\ hit' = found' /\ UNCHANGED pc
            /\ UNCHANGED <<emitted, end>>
  BY DEF PollOnce
<1> DEFINE rest == left - took
<1>3. rest \in 0..LongTimeout
  BY <1>1, PollAssumption DEF PollOnce, AttemptTypeOK
<1>4. /\ UNCHANGED <<conf, conv, round>> /\ taskError' \in BOOLEAN /\ pc = "poll"
  BY DEF PollOnce, TaskScan
<1> HIDE DEF rest
<1>5. CASE left' \in AfterBackoff(rest) /\ UNCHANGED <<pc, doc, found, hit, emitted, end>>
  <2>1. left' \in 0..LongTimeout
    <3>1. PICK backoff \in 1..MaxBackoff : left' = rest - MinOf(backoff, rest)
      BY <1>5 DEF AfterBackoff
    <3>2. backoff \in Nat
      BY PollAssumption
    <3> QED BY <1>3, <3>1, <3>2, TimeRuns
  <2>2. KnowledgeOK' /\ GoesOn
    BY <1>1, <1>4, <1>5, <2>1 DEF KnowledgeOK, AttemptTypeOK, GoesOn, Busy
  <2> QED BY <2>2, AttemptStep
<1>6. ASSUME NEW e \in {"policy"} \cup EngineErrors, PollFails(e), left' = rest, UNCHANGED <<doc, hit>>
      PROVE  AttemptInv'
  <2>1. (GoesOn \/ Ended) /\ found' = {}
    BY <1>6, PollFailsOutcome
  <2>2. KnowledgeOK'
    BY <1>1, <1>3, <1>4, <1>6, <2>1 DEF KnowledgeOK, AttemptTypeOK
  <2> QED BY <1>4, <2>1, <2>2, AttemptStep
<1>7. CASE /\ doc' \in ShownAfter(doc)
           /\ found' = found \cup doc'
           /\ IF found' = {}
                THEN left' = rest - MinOf(1, rest) /\ UNCHANGED <<pc, hit>>
                ELSE IF Confirmed(found') \/ rest = 0
                  THEN pc' = "urls" /\ left' = rest /\ hit' = found'
                  ELSE left' = rest - MinOf(SettleSecs, rest) /\ hit' = found' /\ UNCHANGED pc
           /\ UNCHANGED <<emitted, end>>
  <2>1. doc' \in SUBSET Generated /\ found' \in SUBSET (Generated \cup Attached)
    BY <1>1, <1>7 DEF ShownAfter, AttemptTypeOK
  <2>2. left' \in 0..LongTimeout
    BY <1>3, <1>7, TimeRuns, PollAssumption
  <2>3. hit' \in {hit, found'} /\ pc' \in {pc, "urls"}
    BY <1>7
  <2>4. KnowledgeOK'
    BY <1>1, <1>4, <2>1, <2>2, <2>3 DEF KnowledgeOK, AttemptTypeOK
  <2>5. GoesOn
    BY <1>1, <1>4, <1>7, <2>3 DEF GoesOn, Busy, AttemptTypeOK
  <2> QED BY <2>4, <2>5, AttemptStep
<1> QED BY <1>2, <1>5, <1>6, <1>7 DEF rest

LEMMA UrlsInv == ASSUME AttemptInv, ResolveImageUrls PROVE AttemptInv'
<1>1. CASE pc' = "download" /\ UNCHANGED <<emitted, end>>
  BY <1>1, KnowledgeStays, AttemptStep DEF ResolveImageUrls, GoesOn, Busy, AttemptInv, AttemptTypeOK
<1>2. CASE NoUrls
  BY <1>2, NoUrlsOutcome, KnowledgeStays, AttemptStep DEF ResolveImageUrls
<1> QED BY <1>1, <1>2 DEF ResolveImageUrls

LEMMA DownloadInv == ASSUME AttemptInv, DownloadAndFormat PROVE AttemptInv'
<1>1. Ended
  <2>1. CASE EndsWith("ok", "result") \/ EndsWith("ok", "none") \/ EndsWith("ok", "message")
    BY <2>1, Ending
  <2> QED BY <2>1, Failing DEF DownloadAndFormat
<1> QED BY <1>1, KnowledgeStays, AttemptStep DEF DownloadAndFormat

---------------------------------------------------------------------------

LEMMA AttemptInvInit == AttemptInit => AttemptInv
<1> SUFFICES ASSUME AttemptInit PROVE AttemptInv
  OBVIOUS
<1>1. conv \in Conversation
  BY DEF AttemptInit, EmptyConversation, Conversation
<1>2. left \in 0..LongTimeout
  BY PollAssumption DEF AttemptInit
<1>3. end \in [how : {"ok", "no_image", "policy", "poll_timeout"} \cup EngineErrors \cup {"running"},
               emitted : BOOLEAN, terminal : {"none", "message", "result"}]
  BY DEF AttemptInit, NotEnded
<1>4. pc \in {"codex", "upload", "bootstrap"}
  BY DEF AttemptInit
<1>5. /\ conf \in [codex : BOOLEAN, images : BOOLEAN, check : BOOLEAN, settle : BOOLEAN]
      /\ doc = {} /\ found = {} /\ round = 1 /\ hit = NoHit /\ taskError = FALSE /\ emitted = FALSE
  BY DEF AttemptInit
<1>6. AttemptTypeOK
  <2>1. taskError \in BOOLEAN /\ emitted \in BOOLEAN
    BY <1>5, Zenon
  <2>2. round \in 1..2
    BY <1>5
  <2>3. doc \in SUBSET Generated /\ found \in SUBSET (Generated \cup Attached)
    BY <1>5
  <2>4. hit \in (SUBSET (Generated \cup Attached)) \cup {NoHit}
    BY <1>5
  <2> QED BY <1>1, <1>2, <1>3, <1>4, <1>5, <2>1, <2>2, <2>3, <2>4 DEF AttemptTypeOK
<1>7. pc # "done" /\ (pc = "codex" => ~emitted)
  BY <1>4, <1>5
<1> QED BY <1>6, <1>7 DEF AttemptInv, AttemptEndExpected

LEMMA AttemptInvNext == AttemptInv /\ [AttemptNext]_attemptVars => AttemptInv'
<1> SUFFICES ASSUME AttemptInv, [AttemptNext]_attemptVars PROVE AttemptInv'
  OBVIOUS
<1>1. CASE UploadImage \/ Bootstrap \/ GetChatRequirements \/ PrepareImageConversation \/ StartImageGeneration
  BY <1>1, CallInv
     DEF UploadImage, Bootstrap, GetChatRequirements, PrepareImageConversation, StartImageGeneration, Busy
<1>2. CASE UNCHANGED attemptVars
  BY <1>2 DEF attemptVars, AttemptInv, AttemptTypeOK, AttemptEndExpected
<1> QED BY <1>1, <1>2, CodexInv, StreamEventInv, RawFrameInv, StreamEndsInv, DecideInv,
           ResolveAgainInv, PollOnceInv, PollTimesOutInv, UrlsInv, DownloadInv DEF AttemptNext

\* An attempt ends only in the ways generate_single_image tells apart, whatever
\* upstream answers: what ImageRequest assumes of one.
THEOREM AttemptEndsHold == AttemptSpec => [](AttemptTypeOK /\ AttemptEndExpected)
<1>1. AttemptInv => AttemptTypeOK /\ AttemptEndExpected
  BY DEF AttemptInv
<1> QED BY <1>1, AttemptInvInit, AttemptInvNext, PTL DEF AttemptSpec

---------------------------------------------------------------------------
(* A request for images: the invariant. *)

States == [at : {"new", "token", "attempt", "refresh", "pause", "ok", "failed"},
           got : {"none", "message", "result"}, charged : [Budgeted -> Nat], refused : 0..MaxRefused]

WithinBudget(s) == \A b \in Budgeted : s.charged[b] =< Budget[b]

Frame == {"progress", "message", "result", "error", "done", "completed"}

\* The types once more, as functions and sequences, with where the emitting
\* task is.
RequestShape ==
  /\ req \in Requests
  /\ gate \in {"filter", "open", "refused"}
  /\ img \in [1..MaxImages -> States]
  /\ \A i \in 1..MaxImages : WithinBudget(img[i])
  /\ pool \in {"running", "emitting", "closed"}
  /\ next \in 1..req.n + 1
  /\ pool = "emitting" => next =< req.n
  /\ queue \in Seq(Output)
  /\ pool = "running" => queue = <<>>
  /\ \A k \in 1..Len(queue) : queue[k].kind # "error"
  /\ chan \in Seq(Output)
  /\ relay \in {"open", "closed"} /\ any \in BOOLEAN
  /\ sent \in Seq(Frame)
  /\ answer \in [error : BOOLEAN, images : SUBSET (1..MaxImages), ready : BOOLEAN]
  /\ client \in {"here", "gone"}

\* An open image stream has sent outputs only, an open response nothing.
OpenStream ==
  relay = "open" =>
    /\ \A k \in 1..Len(sent) : sent[k] \in {"progress", "message", "result"}
    /\ req.style # "images" => sent = <<>>

Parallel == req.parallel /\ req.n > 1
AllFinished == \A i \in Image : Finished(i)

\* The images whose outputs the emitting task has taken, those of a set that
\* were generated, and those with a result among some outputs.
Taken == 1..(IF pool = "emitting" THEN next ELSE next - 1)
WithResult(S) == {i \in S : img[i].at = "ok" /\ img[i].got = "result"}
ResultsIn(s) == {s[k].img : k \in {j \in 1..Len(s) : s[j].kind = "result"}}

\* In a parallel request the emitting task begins when every image is finished,
\* and each result it has taken is in its queue, in the channel or in the
\* answer.  The only error it sends says that there is no result at all.
Siblings ==
  Parallel =>
    /\ next > 1 \/ pool # "running" \/ answer.ready => AllFinished
    /\ relay = "open" => /\ pool = "closed" => next = req.n + 1 /\ queue = <<>>
                         /\ ~answer.error /\ ~answer.ready
    /\ relay = "open" /\ client = "here" /\ req.style = "buffered" =>
         /\ answer.images \cup ResultsIn(chan) \cup ResultsIn(queue) = WithResult(Taken)
         /\ ~any => ResultsIn(chan) = {} /\ answer.images = {}
         /\ \A k \in 1..Len(chan) : chan[k].kind = "error" => AllFinished /\ WithResult(Image) = {}

RequestInv == RequestShape /\ OpenStream /\ StreamGrammar /\ Siblings /\ SiblingsKeepResults

---------------------------------------------------------------------------
(* Sequences of outputs. *)

LEMMA NoResults == ResultsIn(<<>>) = {}
BY DEF ResultsIn

LEMMA ResultsAppended ==
  ASSUME NEW s \in Seq(Output), NEW o \in Output
  PROVE  /\ Append(s, o) \in Seq(Output)
         /\ ResultsIn(Append(s, o)) = ResultsIn(s) \cup (IF o.kind = "result" THEN {o.img} ELSE {})
         /\ \A k \in 1..Len(Append(s, o)) : Append(s, o)[k] = o \/ \E j \in 1..Len(s) : Append(s, o)[k] = s[j]
<1> DEFINE t == Append(s, o)
<1>1. /\ t \in Seq(Output) /\ Len(s) \in Nat /\ Len(t) = Len(s) + 1
      /\ \A k \in 1..Len(s) : t[k] = s[k]
      /\ t[Len(s) + 1] = o
  BY AppendProperties
<1> HIDE DEF t
<1>2. 1..Len(t) = 1..Len(s) \cup {Len(s) + 1}
  BY <1>1
<1>3. ResultsIn(t) = ResultsIn(s) \cup (IF o.kind = "result" THEN {o.img} ELSE {})
  BY <1>1, <1>2 DEF ResultsIn
<1>4. \A k \in 1..Len(t) : t[k] = o \/ \E j \in 1..Len(s) : t[k] = s[j]
  BY <1>1, <1>2
<1> QED BY <1>1, <1>3, <1>4 DEF t

LEMMA ResultsTaken ==
  ASSUME NEW s \in Seq(Output), s # <<>>
  PROVE  /\ Head(s) \in Output /\ Tail(s) \in Seq(Output)
         /\ ResultsIn(s) = ResultsIn(Tail(s)) \cup (IF Head(s).kind = "result" THEN {Head(s).img} ELSE {})
         /\ 1 \in 1..Len(s) /\ Head(s) = s[1]
         /\ \A k \in 1..Len(Tail(s)) : k + 1 \in 1..Len(s) /\ Tail(s)[k] = s[k + 1]
<1> DEFINE t == Tail(s)
<1>1. /\ t \in Seq(Output) /\ Len(s) \in Nat /\ Len(t) \in Nat /\ Len(s) = Len(t) + 1
      /\ Head(s) = s[1] /\ Head(s) \in Output
      /\ \A k \in 1..Len(t) : t[k] = s[k + 1]
  BY HeadTailProperties, EmptySeq
<1> HIDE DEF t
<1>2. \A j \in 1..Len(s) : j = 1 \/ \E k \in 1..Len(t) : j = k + 1
  <2> TAKE j \in 1..Len(s)
  <2>1. CASE j # 1
    <3>1. j - 1 \in 1..Len(t) /\ j = (j - 1) + 1
      BY <1>1, <2>1
    <3> QED BY <3>1
  <2> QED BY <2>1
<1>3. /\ 1 \in 1..Len(s)
      /\ \A k \in 1..Len(t) : k + 1 \in 1..Len(s)
  BY <1>1
<1>4. ResultsIn(s) = ResultsIn(t) \cup (IF Head(s).kind = "result" THEN {Head(s).img} ELSE {})
  <2>1. ASSUME NEW x \in ResultsIn(s)
        PROVE  x \in ResultsIn(t) \cup (IF Head(s).kind = "result" THEN {Head(s).img} ELSE {})
    <3>1. PICK j \in 1..Len(s) : s[j].kind = "result" /\ x = s[j].img
      BY DEF ResultsIn
    <3>2. CASE j = 1
      BY <1>1, <3>1, <3>2
    <3>3. CASE \E k \in 1..Len(t) : j = k + 1
      BY <1>1, <3>1, <3>3 DEF ResultsIn
    <3> QED BY <1>2, <3>2, <3>3
  <2>2. ResultsIn(t) \subseteq ResultsIn(s)
    BY <1>1, <1>3 DEF ResultsIn
  <2>3. Head(s).kind = "result" => Head(s).img \in ResultsIn(s)
    BY <1>1, <1>3 DEF ResultsIn
  <2> QED BY <2>1, <2>2, <2>3
<1> QED BY <1>1, <1>3, <1>4 DEF t

\* The outputs of an image have its result if there is one, and no error.
LEMMA OutputsFacts ==
  ASSUME RequestShape, NEW i \in 1..MaxImages, NEW q \in OutputsOf(i)
  PROVE  /\ q \in Seq(Output) /\ \A k \in 1..Len(q) : q[k].kind # "error"
         /\ ResultsIn(q) = IF img[i].got = "result" THEN {i} ELSE {}
<1> DEFINE terminal == [img |-> i, kind |-> img[i].got]
           progress == [img |-> i, kind |-> "progress"]
<1>1. img[i].got \in {"none", "message", "result"}
  BY DEF RequestShape, States
<1>2. progress \in Output /\ progress.kind = "progress"
  BY DEF Output
<1>3. img[i].got # "none" => terminal \in Output /\ terminal.kind = img[i].got /\ terminal.img = i
  BY <1>1 DEF Output
<1>4. \/ img[i].got = "none" /\ q = <<>>
      \/ img[i].got # "none" /\ (q = <<terminal>> \/ q = <<progress, terminal>>)
  BY DEF OutputsOf
<1> HIDE DEF terminal, progress
<1>5. CASE img[i].got = "none" /\ q = <<>>
  BY <1>5, NoResults
<1>6. CASE img[i].got # "none" /\ q = <<terminal>>
  <2>1. q \in Seq(Output) /\ Len(q) = 1 /\ q[1] = terminal
    BY <1>3, <1>6
  <2>2. ResultsIn(q) = IF img[i].got = "result" THEN {i} ELSE {}
    BY <1>3, <1>6, <2>1 DEF ResultsIn
  <2> QED BY <1>1, <1>3, <1>6, <2>1, <2>2
<1>7. CASE img[i].got # "none" /\ q = <<progress, terminal>>
  <2>1. q \in Seq(Output) /\ Len(q) = 2 /\ q[1] = progress /\ q[2] = terminal
    BY <1>2, <1>3, <1>7
  <2>2. 1..2 = {1, 2}
    OBVIOUS
  <2>3. ResultsIn(q) = IF img[i].got = "result" THEN {i} ELSE {}
    BY <1>2, <1>3, <1>7, <2>1, <2>2 DEF ResultsIn
  <2> QED BY <1>1, <1>2, <1>3, <1>7, <2>1, <2>2, <2>3
<1> QED BY <1>4, <1>5, <1>6, <1>7

---------------------------------------------------------------------------
(* The images. *)

LEMMA RequestFacts ==
  ASSUME RequestShape
  PROVE  /\ req.n \in 1..MaxImages /\ req.n \in Nat /\ MaxImages \in Nat /\ next \in Nat
         /\ next =< req.n + 1 /\ next >= 1 /\ req.parallel \in BOOLEAN
         /\ req.style \in {"buffered", "images", "responses"}
         /\ \A i \in Image : i \in 1..MaxImages
BY BudgetAssumption DEF RequestShape, Requests, Styles, Image

LEMMA FreshFacts == Fresh \in States /\ WithinBudget(Fresh)
<1>1. NoCharge \in [Budgeted -> Nat] /\ \A b \in Budgeted : NoCharge[b] = 0
  BY DEF NoCharge
<1>2. \A b \in Budgeted : 0 =< Budget[b]
  BY BudgetAssumption
<1>3. 0 \in 0..MaxRefused
  BY BudgetAssumption
<1> QED BY <1>1, <1>2, <1>3 DEF Fresh, States, WithinBudget

\* A finished image stays as it is; any other one moves within its budgets.
Moves(i, s) ==
  /\ ~Finished(i) /\ RestUnchanged
  /\ img' = [img EXCEPT ![i] = s] /\ s \in States /\ WithinBudget(s)

LEMMA StateRenamed ==
  ASSUME NEW s \in States, WithinBudget(s),
         NEW at \in {"new", "token", "attempt", "refresh", "pause", "ok", "failed"}
  PROVE  [s EXCEPT !.at = at] \in States /\ WithinBudget([s EXCEPT !.at = at])
BY DEF States, WithinBudget

LEMMA StateReturned ==
  ASSUME NEW s \in States, WithinBudget(s),
         NEW at \in {"new", "token", "attempt", "refresh", "pause", "ok", "failed"},
         NEW kind \in {"none", "message", "result"}
  PROVE  /\ [s EXCEPT !.at = at, !.got = kind] \in States
         /\ WithinBudget([s EXCEPT !.at = at, !.got = kind])
BY DEF States, WithinBudget

LEMMA StateRefused ==
  ASSUME NEW s \in States, WithinBudget(s),
         NEW at \in {"new", "token", "attempt", "refresh", "pause", "ok", "failed"}, NEW count \in 0..MaxRefused
  PROVE  /\ [s EXCEPT !.at = at, !.refused = count] \in States
         /\ WithinBudget([s EXCEPT !.at = at, !.refused = count])
BY DEF States, WithinBudget

LEMMA StateCharged ==
  ASSUME NEW s \in States, WithinBudget(s),
         NEW at \in {"new", "token", "attempt", "refresh", "pause", "ok", "failed"},
         NEW more \in [Budgeted -> Nat], \A b \in Budgeted : more[b] =< Budget[b]
  PROVE  /\ [s EXCEPT !.at = at, !.charged = more] \in States
         /\ WithinBudget([s EXCEPT !.at = at, !.charged = more])
BY DEF States, WithinBudget

\* AttemptEnds in each of its four outcomes.
LEMMA AttemptEndsMoves ==
  ASSUME RequestShape, NEW i \in 1..MaxImages, NEW e \in Ends, AttemptEnds(i, e)
  PROVE  \E s : Moves(i, s)
<1> DEFINE at == AfterAttempt(i, e)
           more == [b \in Budgeted |-> img[i].charged[b] + (IF e.how = b THEN 1 ELSE 0)]
           s == CASE at = "ok" -> [Fresh EXCEPT !.at = at, !.got = e.terminal]
                  [] at = "failed" -> [Fresh EXCEPT !.at = at]
                  [] at = "refresh" -> [img[i] EXCEPT !.at = at, !.refused = img[i].refused + 1]
                  [] OTHER -> [img[i] EXCEPT !.at = at, !.charged = more]
<1>1. /\ img[i].at = "attempt" /\ RestUnchanged /\ img' = [img EXCEPT ![i] = s]
      /\ Refused(e) => img[i].refused < MaxRefused
  BY DEF AttemptEnds
<1>2. img[i] \in States /\ WithinBudget(img[i])
  BY DEF RequestShape
<1>3. ~Finished(i)
  BY <1>1 DEF Finished
<1>4. e.terminal \in {"none", "message", "result"}
  BY DEF Ends
<1>5. /\ at \in {"ok", "refresh", "token", "pause", "failed"}
      /\ at = "refresh" => Refused(e)
      /\ at \in {"token", "pause"} => Retries(i, e)
  BY DEF AfterAttempt
<1>6. s \in States /\ WithinBudget(s)
  <2> HIDE DEF at, more
  <2>1. /\ img[i].charged \in [Budgeted -> Nat] /\ img[i].refused \in 0..MaxRefused
        /\ \A b \in Budgeted : img[i].charged[b] \in Nat /\ Budget[b] \in Nat /\ img[i].charged[b] =< Budget[b]
    BY <1>2, BudgetAssumption DEF States, WithinBudget
  <2>2. CASE at \in {"ok", "failed"}
    BY <1>4, <2>2, FreshFacts, StateReturned, StateRenamed
  <2>3. CASE at = "refresh"
    <3>1. img[i].refused + 1 \in 0..MaxRefused
      BY <1>1, <1>5, <2>1, <2>3, BudgetAssumption
    <3>2. s = [img[i] EXCEPT !.at = at, !.refused = img[i].refused + 1]
      BY <2>3
    <3> HIDE DEF s
    <3> QED BY <1>2, <1>5, <3>1, <3>2, StateRefused
  <2>4. CASE at \in {"token", "pause"}
    <3>1. e.how \in Budgeted /\ img[i].charged[e.how] < Budget[e.how]
      BY <1>5, <2>4 DEF Retries, Charges
    <3>2. more \in [Budgeted -> Nat] /\ \A b \in Budgeted : more[b] =< Budget[b]
      BY <2>1, <3>1 DEF more
    <3>3. s = [img[i] EXCEPT !.at = at, !.charged = more]
      BY <2>4
    <3> HIDE DEF s
    <3> QED BY <1>2, <1>5, <3>2, <3>3, StateCharged
  <2> QED BY <1>5, <2>2, <2>3, <2>4
<1> HIDE DEF s
<1> QED BY <1>1, <1>3, <1>6 DEF Moves

LEMMA ImageStepMoves ==
  ASSUME RequestShape, NEW i \in Image, ImageStep(i)
  PROVE  \E s : Moves(i, s)
<1>1. i \in 1..MaxImages
  BY RequestFacts
<1>2. img \in [1..MaxImages -> States] /\ img[i] \in States /\ WithinBudget(img[i])
  BY <1>1 DEF RequestShape
<1>3. ASSUME NEW at \in {"token", "attempt"}, img' = [img EXCEPT ![i].at = at], ~Finished(i), RestUnchanged
      PROVE  \E s : Moves(i, s)
  <2> DEFINE s == [img[i] EXCEPT !.at = at]
  <2>1. img' = [img EXCEPT ![i] = s]
    BY <1>1, <1>2, <1>3
  <2>2. s \in States /\ WithinBudget(s)
    BY <1>2, StateRenamed
  <2> HIDE DEF s
  <2> QED BY <1>3, <2>1, <2>2 DEF Moves
<1>4. CASE StartImage(i)
  <2>1. ~Finished(i)
    BY <1>4 DEF StartImage, Finished
  <2> QED BY <1>3, <1>4, <2>1 DEF StartImage
<1>5. CASE Resume(i)
  <2>1. ~Finished(i)
    BY <1>5 DEF Resume, Finished
  <2> QED BY <1>3, <1>5, <2>1 DEF Resume
<1>6. CASE GetToken(i)
  <2>1. ~Finished(i) /\ RestUnchanged
    BY <1>6 DEF GetToken, Finished
  <2>2. CASE img' = [img EXCEPT ![i].at = "attempt"]
    BY <1>3, <2>1, <2>2
  <2>3. CASE img' = [img EXCEPT ![i] = [Fresh EXCEPT !.at = "failed"]]
    <3>1. [Fresh EXCEPT !.at = "failed"] \in States /\ WithinBudget([Fresh EXCEPT !.at = "failed"])
      BY FreshFacts, StateRenamed
    <3> QED BY <2>1, <2>3, <3>1 DEF Moves
  <2> QED BY <1>6, <2>2, <2>3 DEF GetToken
<1>7. CASE \E e \in Ends : AttemptEnds(i, e)
  BY <1>1, <1>7, AttemptEndsMoves
<1> QED BY <1>4, <1>5, <1>6, <1>7 DEF ImageStep

LEMMA MovesInv ==
  ASSUME RequestInv, NEW i \in Image, NEW s, Moves(i, s)
  PROVE  RequestInv'
<1>1. i \in 1..MaxImages
  BY RequestFacts DEF RequestInv
<1>2. RequestShape'
  <2>1. img' \in [1..MaxImages -> States] /\ \A j \in 1..MaxImages : WithinBudget(img'[j])
    BY <1>1 DEF RequestInv, RequestShape, Moves
  <2>2. UNCHANGED <<req, gate, pool, next, queue, any, chan, relay, sent, answer, client>>
    BY DEF Moves, RestUnchanged
  <2>3. (\A j \in 1..MaxImages : WithinBudget(img[j]))'
    BY <2>1 DEF WithinBudget
  <2> QED BY <2>1, <2>2, <2>3 DEF RequestInv, RequestShape
<1>3. OpenStream' /\ StreamGrammar'
  BY DEF RequestInv, Moves, RestUnchanged, OpenStream, StreamGrammar
<1>4. Siblings' /\ SiblingsKeepResults'
  <2> SUFFICES ASSUME Parallel' PROVE Siblings' /\ SiblingsKeepResults'
    BY DEF Siblings, SiblingsKeepResults, Parallel
  <2>1. UNCHANGED <<req, gate, pool, next, queue, any, chan, relay, sent, answer, client>> /\ ~Finished(i)
    BY DEF Moves, RestUnchanged
  <2>2. Parallel /\ ~AllFinished
    BY <2>1 DEF Parallel, AllFinished
  <2>3. ~(next > 1) /\ pool = "running" /\ ~answer.ready
    BY <2>2 DEF RequestInv, Siblings, RequestShape
  <2>4. Taken = {}
    BY <2>3, RequestFacts DEF Taken, RequestInv
  <2>5. WithResult(Taken) = {} /\ WithResult(Taken)' = {}
    BY <2>1, <2>4 DEF WithResult, Taken
  <2>6. ResultsIn(chan)' = ResultsIn(chan) /\ ResultsIn(queue)' = ResultsIn(queue)
    BY <2>1 DEF ResultsIn
  <2>7. SiblingsKeepResults'
    BY <2>1, <2>3 DEF SiblingsKeepResults
  <2>8. Siblings'
    BY <2>1, <2>2, <2>3, <2>5, <2>6 DEF Siblings, RequestInv
  <2> QED BY <2>7, <2>8
<1> QED BY <1>2, <1>3, <1>4 DEF RequestInv

---------------------------------------------------------------------------
(* The emitting task. *)

\* Sending an output adds its result to those in the channel.
LEMMA SendsFacts ==
  ASSUME RequestShape, NEW o \in Output, SendsTo(o)
  PROVE  /\ chan' \in Seq(Output)
         /\ ResultsIn(chan)' = ResultsIn(chan) \cup (IF o.kind = "result" THEN {o.img} ELSE {})
         /\ \A k \in 1..Len(chan)' : chan'[k] = o \/ \E j \in 1..Len(chan) : chan'[k] = chan[j]
<1>1. chan \in Seq(Output) /\ chan' = Append(chan, o)
  BY DEF RequestShape, SendsTo
<1>2. ResultsIn(chan') = ResultsIn(chan)'
  BY DEF ResultsIn
<1> QED BY <1>1, <1>2, ResultsAppended

LEMMA ErrorOutput ==
  ASSUME NEW i \in 1..MaxImages
  PROVE  [img |-> i, kind |-> "error"] \in Output /\ [img |-> i, kind |-> "error"].kind = "error"
BY DEF Output

\* The emitting task leaves the client alone.
LEMMA EmitKeepsStream ==
  ASSUME RequestInv, UNCHANGED <<req, relay, sent, client>>
  PROVE  OpenStream' /\ StreamGrammar'
BY DEF RequestInv, OpenStream, StreamGrammar

LEMMA AnswerStays ==
  ASSUME RequestInv, UNCHANGED <<req, img, answer>>
  PROVE  SiblingsKeepResults' /\ (AllFinished' <=> AllFinished) /\ (Parallel' <=> Parallel)
BY DEF RequestInv, SiblingsKeepResults, AllFinished, Finished, Parallel, Image

LEMMA TakeImageInv == ASSUME RequestInv, TakeImage PROVE RequestInv'
<1> USE RequestFacts DEF RequestInv
<1>1. /\ pool = "running" /\ next \in Image /\ Finished(next)
      /\ req.parallel => AllFinished
      /\ UNCHANGED <<req, gate, img, any, relay, sent, answer, client>>
  BY DEF TakeImage, AllFinished
<1>2. next \in 1..MaxImages /\ next \in Nat /\ next =< req.n
  BY <1>1 DEF Image
<1>3. OpenStream' /\ StreamGrammar'
  BY <1>1, EmitKeepsStream
<1>4. SiblingsKeepResults' /\ (AllFinished' <=> AllFinished) /\ (Parallel' <=> Parallel)
  BY <1>1, AnswerStays
<1>5. Parallel => AllFinished
  BY <1>1 DEF Parallel
<1>6. queue = <<>> /\ ResultsIn(queue) = {} /\ Taken = 1..next - 1
  BY <1>1, NoResults DEF RequestShape, Taken
<1>7. CASE /\ img[next].at = "ok" /\ queue' \in OutputsOf(next) /\ pool' = "emitting"
           /\ UNCHANGED <<next, chan>>
  <2>1. /\ queue' \in Seq(Output) /\ \A k \in 1..Len(queue') : queue'[k].kind # "error"
        /\ ResultsIn(queue') = IF img[next].got = "result" THEN {next} ELSE {}
    BY <1>2, <1>7, OutputsFacts
  <2>2. RequestShape'
    BY <1>1, <1>2, <1>7, <2>1 DEF RequestShape, WithinBudget
  <2>3. Taken' = 1..next
    BY <1>7 DEF Taken
  <2>4. WithResult(Taken)' = WithResult(Taken) \cup ResultsIn(queue')
    <3>1. 1..next = (1..next - 1) \cup {next}
      BY <1>2
    <3> QED BY <1>1, <1>6, <1>7, <2>1, <2>3, <3>1 DEF WithResult
  <2>5. /\ ResultsIn(chan)' = ResultsIn(chan) /\ ResultsIn(queue)' = ResultsIn(queue')
        /\ WithResult(Image)' = WithResult(Image)
    BY <1>1, <1>7 DEF ResultsIn, WithResult, Image
  <2>6. Siblings'
    BY <1>1, <1>4, <1>5, <1>6, <1>7, <2>4, <2>5 DEF Siblings
  <2> QED BY <1>3, <1>4, <2>2, <2>6
<1>8. CASE /\ img[next].at # "ok" /\ req.parallel /\ req.n > 1
           /\ next' = next + 1 /\ UNCHANGED <<queue, pool, chan>>
  <2>1. RequestShape'
    BY <1>1, <1>2, <1>8 DEF RequestShape, WithinBudget
  <2>2. Taken' = 1..next
    BY <1>1, <1>2, <1>8 DEF Taken
  <2>3. WithResult(Taken)' = WithResult(Taken)
    <3>1. 1..next = (1..next - 1) \cup {next}
      BY <1>2
    <3> QED BY <1>1, <1>6, <1>8, <2>2, <3>1 DEF WithResult
  <2>4. /\ ResultsIn(chan)' = ResultsIn(chan) /\ ResultsIn(queue)' = ResultsIn(queue)
        /\ WithResult(Image)' = WithResult(Image)
    BY <1>1, <1>8 DEF ResultsIn, WithResult, Image
  <2>5. Siblings'
    BY <1>1, <1>4, <1>5, <1>8, <2>3, <2>4 DEF Siblings
  <2> QED BY <1>3, <1>4, <2>1, <2>5
<1>9. CASE /\ ~Parallel /\ pool' = "closed" /\ UNCHANGED <<next, queue>>
           /\ \/ SendsTo([img |-> next, kind |-> "error"])
              \/ UNCHANGED chan
  <2>1. chan' \in Seq(Output)
    BY <1>2, <1>9, ErrorOutput, SendsFacts DEF RequestShape
  <2>2. RequestShape'
    BY <1>1, <1>2, <1>9, <2>1 DEF RequestShape, WithinBudget
  <2> QED BY <1>3, <1>4, <1>9, <2>2 DEF Siblings
<1> QED BY <1>7, <1>8, <1>9 DEF TakeImage, Parallel

LEMMA SendOutputInv == ASSUME RequestInv, SendOutput PROVE RequestInv'
<1> USE RequestFacts DEF RequestInv
<1>1. pool = "emitting" /\ UNCHANGED <<req, gate, img, relay, sent, answer, client>>
  BY DEF SendOutput
<1>2. next =< req.n /\ Taken = 1..next
  BY <1>1 DEF RequestShape, Taken
<1>3. OpenStream' /\ StreamGrammar'
  BY <1>1, EmitKeepsStream
<1>4. SiblingsKeepResults' /\ (AllFinished' <=> AllFinished) /\ (Parallel' <=> Parallel)
  BY <1>1, AnswerStays
<1>5. Parallel => AllFinished
  BY <1>1 DEF Siblings
<1>6. WithResult(Image)' = WithResult(Image)
  BY <1>1 DEF WithResult, Image
<1>7. CASE queue = <<>> /\ pool' = "running" /\ next' = next + 1 /\ UNCHANGED <<queue, any, chan>>
  <2>1. RequestShape'
    BY <1>1, <1>2, <1>7 DEF RequestShape, WithinBudget
  <2>2. Taken' = Taken
    BY <1>2, <1>7 DEF Taken
  <2>3. /\ ResultsIn(chan)' = ResultsIn(chan) /\ ResultsIn(queue)' = ResultsIn(queue)
        /\ WithResult(Taken)' = WithResult(Taken)
    BY <1>1, <1>7, <2>2 DEF ResultsIn, WithResult
  <2>4. Siblings'
    BY <1>1, <1>4, <1>5, <1>6, <1>7, <2>3 DEF Siblings
  <2> QED BY <1>3, <1>4, <2>1, <2>4
<1>8. CASE /\ queue # <<>> /\ any' = TRUE /\ relay = "open"
           /\ SendsTo(Head(queue)) /\ queue' = Tail(queue) /\ UNCHANGED <<pool, next>>
  <2>1. /\ Head(queue) \in Output /\ Tail(queue) \in Seq(Output)
        /\ ResultsIn(queue) = ResultsIn(Tail(queue))
             \cup (IF Head(queue).kind = "result" THEN {Head(queue).img} ELSE {})
        /\ 1 \in 1..Len(queue) /\ Head(queue) = queue[1]
        /\ \A k \in 1..Len(Tail(queue)) : k + 1 \in 1..Len(queue) /\ Tail(queue)[k] = queue[k + 1]
    BY <1>8, ResultsTaken DEF RequestShape
  <2>2. /\ chan' \in Seq(Output)
        /\ ResultsIn(chan)' = ResultsIn(chan) \cup (IF Head(queue).kind = "result" THEN {Head(queue).img} ELSE {})
        /\ \A k \in 1..Len(chan)' : chan'[k] = Head(queue) \/ \E j \in 1..Len(chan) : chan'[k] = chan[j]
    BY <1>8, <2>1, SendsFacts
  <2>3. Head(queue).kind # "error" /\ \A k \in 1..Len(queue') : queue'[k].kind # "error"
    BY <1>8, <2>1 DEF RequestShape
  <2>4. RequestShape'
    BY <1>1, <1>8, <2>1, <2>2, <2>3 DEF RequestShape, WithinBudget
  <2>5. /\ ResultsIn(chan)' \cup ResultsIn(queue)' = ResultsIn(chan) \cup ResultsIn(queue)
        /\ WithResult(Taken)' = WithResult(Taken)
    <3>1. ResultsIn(queue)' = ResultsIn(Tail(queue))
      BY <1>8 DEF ResultsIn
    <3> QED BY <1>1, <1>8, <2>1, <2>2, <3>1 DEF WithResult, Taken
  <2>6. Siblings'
    BY <1>1, <1>4, <1>5, <1>6, <1>8, <2>2, <2>3, <2>5 DEF Siblings
  <2> QED BY <1>3, <1>4, <2>4, <2>6
<1>9. CASE /\ queue # <<>> /\ any' = TRUE /\ relay # "open" /\ pool' = "closed" /\ UNCHANGED <<queue, chan, next>>
  <2>1. RequestShape'
    BY <1>1, <1>9 DEF RequestShape, WithinBudget
  <2>2. Siblings'
    BY <1>1, <1>4, <1>5, <1>9 DEF Siblings
  <2> QED BY <1>3, <1>4, <2>1, <2>2
<1> QED BY <1>7, <1>8, <1>9 DEF SendOutput

LEMMA EmitEndsInv == ASSUME RequestInv, EmitEnds PROVE RequestInv'
<1>1. /\ pool = "running" /\ pool' = "closed" /\ next > req.n
      /\ UNCHANGED <<req, gate, img, next, queue, any, relay, sent, answer, client>>
      /\ \/ Parallel /\ ~any /\ SendsTo([img |-> req.n, kind |-> "error"])
         \/ UNCHANGED chan
  BY Zenon DEF EmitEnds, Parallel
<1> USE RequestFacts DEF RequestInv
<1>2. queue = <<>> /\ ResultsIn(queue) = {} /\ next = req.n + 1 /\ Taken = Image /\ Taken' = Image
  BY <1>1, NoResults DEF RequestShape, Taken, Image
<1>3. OpenStream' /\ StreamGrammar'
  BY <1>1, EmitKeepsStream
<1>4. SiblingsKeepResults' /\ (AllFinished' <=> AllFinished) /\ (Parallel' <=> Parallel)
  BY <1>1, AnswerStays
<1>5. Parallel => AllFinished
  BY <1>1, <1>2 DEF Siblings, Parallel
<1>6. /\ WithResult(Image)' = WithResult(Image) /\ WithResult(Taken)' = WithResult(Taken)
      /\ ResultsIn(queue)' = ResultsIn(queue)
  BY <1>1, <1>2 DEF WithResult, Image, ResultsIn
<1>7. CASE UNCHANGED chan
  <2>1. RequestShape'
    BY <1>1, <1>7 DEF RequestShape, WithinBudget
  <2>2. ResultsIn(chan)' = ResultsIn(chan)
    BY <1>7 DEF ResultsIn
  <2>3. Siblings'
    BY <1>1, <1>2, <1>4, <1>5, <1>6, <1>7, <2>2 DEF Siblings
  <2> QED BY <1>3, <1>4, <2>1, <2>3
<1>8. CASE Parallel /\ ~any /\ SendsTo([img |-> req.n, kind |-> "error"])
  <2> DEFINE o == [img |-> req.n, kind |-> "error"]
  <2>1. o \in Output /\ o.kind = "error"
    BY ErrorOutput
  <2> HIDE DEF o
  <2>2. /\ chan' \in Seq(Output) /\ ResultsIn(chan)' = ResultsIn(chan)
        /\ \A k \in 1..Len(chan)' : chan'[k] = o \/ \E j \in 1..Len(chan) : chan'[k] = chan[j]
    <3>1. SendsTo(o)
      BY <1>8 DEF o
    <3> QED BY <2>1, <3>1, SendsFacts
  <2>3. RequestShape'
    BY <1>1, <2>2 DEF RequestShape, WithinBudget
  <2>4. relay = "open" /\ client = "here" /\ req.style = "buffered" => WithResult(Image) = {}
    BY <1>2, <1>8 DEF Siblings
  <2>5. Siblings'
    BY <1>1, <1>2, <1>4, <1>5, <1>6, <1>8, <2>2, <2>4 DEF Siblings
  <2> QED BY <1>3, <1>4, <2>3, <2>5
<1> QED BY <1>1, <1>7, <1>8

---------------------------------------------------------------------------
(* The translators. *)

LEMMA FramesAppended ==
  ASSUME NEW s \in Seq(Frame), NEW t \in Seq(Frame)
  PROVE  /\ s \o t \in Seq(Frame) /\ Len(s \o t) = Len(s) + Len(t)
         /\ Len(s) \in Nat /\ Len(t) \in Nat
         /\ \A k \in 1..Len(s) : (s \o t)[k] = s[k]
         /\ \A k \in 1..Len(t) : (s \o t)[Len(s) + k] = t[k]
BY ConcatProperties, LenProperties

LEMMA StreamCloses ==
  ASSUME relay' = "closed", sent'[Len(sent')] = "done", Len(sent') > 1,
         sent'[Len(sent') - 1] \in {"error", "completed"},
         \A k \in 1..Len(sent') - 1 :
           sent'[k] # "done" /\ (sent'[k] \in {"error", "completed"} => k = Len(sent') - 1)
  PROVE  OpenStream' /\ StreamGrammar'
<1>1. OpenStream'
  BY DEF OpenStream
<1>2. StreamGrammar'
  BY DEF StreamGrammar
<1> QED BY <1>1, <1>2

\* A stream is closed by one end, and before it at most one error or completion.
LEMMA ClosesFacts ==
  ASSUME RequestInv, NEW frames2 \in {<<"done">>, <<"error", "done">>},
         relay = "open", Closes(frames2), UNCHANGED <<req, client>>,
         req.style \in {"images", "responses"},
         frames2 = <<"done">> => req.style = "images"
  PROVE  OpenStream' /\ StreamGrammar' /\ sent' \in Seq(Frame)
<1>1. /\ sent \in Seq(Frame) /\ relay' = "closed" /\ sent' = sent \o frames2
      /\ \A k \in 1..Len(sent) : sent[k] \in {"progress", "message", "result"}
  BY DEF RequestInv, RequestShape, OpenStream, Closes
<1>2. CASE frames2 = <<"done">>
  <2>1. frames2 \in Seq(Frame) /\ Len(frames2) = 1 /\ frames2[1] = "done"
    BY <1>2 DEF Frame
  <2>2. /\ sent' \in Seq(Frame) /\ Len(sent') = Len(sent) + 1 /\ Len(sent) \in Nat
        /\ \A k \in 1..Len(sent) : sent'[k] = sent[k]
        /\ sent'[Len(sent) + 1] = "done"
    <3>1. /\ sent \o frames2 \in Seq(Frame) /\ Len(sent \o frames2) = Len(sent) + Len(frames2)
          /\ Len(sent) \in Nat
          /\ \A k \in 1..Len(sent) : (sent \o frames2)[k] = sent[k]
          /\ \A k \in 1..Len(frames2) : (sent \o frames2)[Len(sent) + k] = frames2[k]
      BY <1>1, <2>1, FramesAppended
    <3>2. 1 \in 1..Len(frames2)
      BY <2>1
    <3>3. (sent \o frames2)[Len(sent) + 1] = "done"
      BY <2>1, <3>1, <3>2
    <3> QED BY <1>1, <2>1, <3>1, <3>3
  <2>3. req'.style # "responses"
    BY <1>2
  <2>4. /\ sent'[Len(sent')] = "done" /\ Len(sent') - 1 = Len(sent)
        /\ \A k \in 1..Len(sent') - 1 : sent'[k] \in {"progress", "message", "result"}
    BY <1>1, <2>2
  <2>5. OpenStream'
    BY <1>1 DEF OpenStream
  <2>6. StreamGrammar'
    BY <2>3, <2>4 DEF StreamGrammar
  <2> QED BY <2>2, <2>5, <2>6
<1>3. CASE frames2 = <<"error", "done">>
  <2>1. frames2 \in Seq(Frame) /\ Len(frames2) = 2 /\ frames2[1] = "error" /\ frames2[2] = "done"
    BY <1>3 DEF Frame
  <2>2. /\ sent' \in Seq(Frame) /\ Len(sent') = Len(sent) + 2 /\ Len(sent) \in Nat
        /\ \A k \in 1..Len(sent) : sent'[k] = sent[k]
        /\ \A k \in 1..2 : sent'[Len(sent) + k] = frames2[k]
    <3>1. /\ sent \o frames2 \in Seq(Frame) /\ Len(sent \o frames2) = Len(sent) + Len(frames2)
          /\ Len(sent) \in Nat
          /\ \A k \in 1..Len(sent) : (sent \o frames2)[k] = sent[k]
          /\ \A k \in 1..Len(frames2) : (sent \o frames2)[Len(sent) + k] = frames2[k]
      BY <1>1, <2>1, FramesAppended
    <3> QED BY <1>1, <2>1, <3>1
  <2>3. 1 \in 1..2 /\ 2 \in 1..2
    OBVIOUS
  <2>4. sent'[Len(sent) + 1] = "error" /\ sent'[Len(sent) + 2] = "done"
    BY <2>1, <2>2, <2>3
  <2>5. Len(sent') - 1 = Len(sent) + 1 /\ \A k \in 1..Len(sent) + 1 : k \in 1..Len(sent) \/ k = Len(sent) + 1
    BY <2>2
  <2>6. /\ sent'[Len(sent')] = "done" /\ sent'[Len(sent') - 1] = "error" /\ Len(sent') > 1
        /\ \A k \in 1..Len(sent') - 1 :
             sent'[k] # "done" /\ (sent'[k] \in {"error", "completed"} => k = Len(sent') - 1)
    BY <1>1, <2>2, <2>4, <2>5
  <2> QED BY <1>1, <2>2, <2>6, StreamCloses
<1> QED BY <1>2, <1>3

\* The first message or result completes a response.
LEMMA CompletesFacts ==
  ASSUME RequestInv, NEW kind \in {"message", "result"}, relay = "open",
         Closes(<<kind, "completed", "done">>), req.style = "responses"
  PROVE  OpenStream' /\ StreamGrammar' /\ sent' \in Seq(Frame)
<1> DEFINE end2 == <<kind, "completed", "done">>
<1>1. sent = <<>> /\ sent \in Seq(Frame) /\ relay' = "closed" /\ sent' = sent \o end2
  BY DEF RequestInv, RequestShape, OpenStream, Closes
<1>2. /\ end2 \in Seq(Frame) /\ Len(end2) = 3
      /\ end2[1] = kind /\ end2[2] = "completed" /\ end2[3] = "done"
  BY DEF Frame
<1> HIDE DEF end2
<1>3. sent' = end2
  BY <1>1, <1>2, ConcatEmptySeq
<1>4. 3 - 1 = 2 /\ 1..2 = {1, 2}
  OBVIOUS
<1>5. /\ sent'[Len(sent')] = "done" /\ sent'[Len(sent') - 1] = "completed" /\ Len(sent') > 1
      /\ \A k \in 1..Len(sent') - 1 :
           sent'[k] # "done" /\ (sent'[k] \in {"error", "completed"} => k = Len(sent') - 1)
  <2>1. Len(sent') = 3 /\ sent'[1] = kind /\ sent'[2] = "completed" /\ sent'[3] = "done"
    BY <1>2, <1>3
  <2>2. ASSUME NEW k \in {1, 2}
        PROVE  sent'[k] # "done" /\ (sent'[k] \in {"error", "completed"} => k = 2)
    BY <2>1
  <2> QED BY <1>4, <2>1, <2>2
<1> QED BY <1>1, <1>2, <1>3, <1>5, StreamCloses

LEMMA StreamStays ==
  ASSUME RequestInv, UNCHANGED <<req, relay, sent, client>>
  PROVE  OpenStream' /\ StreamGrammar' /\ sent' \in Seq(Frame)
BY DEF RequestInv, RequestShape, OpenStream, StreamGrammar

\* A client that has gone is not told, and a buffered request streams nothing.
LEMMA StreamIgnored ==
  ASSUME RequestInv, relay' = "closed", UNCHANGED <<req, sent>>,
         client' = "gone" \/ req.style = "buffered"
  PROVE  OpenStream' /\ StreamGrammar' /\ sent' \in Seq(Frame)
BY DEF RequestInv, RequestShape, OpenStream, StreamGrammar

LEMMA StreamImagesFacts ==
  ASSUME RequestInv, relay = "open", req.style = "images", UNCHANGED <<req, client>>,
         NEW o \in Output, StreamImages(o)
  PROVE  OpenStream' /\ StreamGrammar' /\ sent' \in Seq(Frame) /\ relay' \in {"open", "closed"}
<1>1. CASE o.kind = "error"
  <2>1. Closes(<<"error", "done">>)
    BY <1>1 DEF StreamImages
  <2> QED BY <2>1, ClosesFacts DEF Closes
<1>2. CASE o.kind # "error"
  <2>1. o.kind \in {"progress", "message", "result"} /\ sent' = Append(sent, o.kind) /\ relay' = relay
    BY <1>2 DEF StreamImages, Output
  <2>2. sent \in Seq(Frame) /\ o.kind \in Frame
    BY <2>1 DEF RequestInv, RequestShape, Frame
  <2>3. /\ sent' \in Seq(Frame) /\ Len(sent') = Len(sent) + 1 /\ Len(sent) \in Nat
        /\ \A k \in 1..Len(sent) : sent'[k] = sent[k]
        /\ sent'[Len(sent) + 1] = o.kind
    BY <2>1, <2>2, AppendProperties
  <2>4. \A k \in 1..Len(sent') : k \in 1..Len(sent) \/ k = Len(sent) + 1
    BY <2>3
  <2> QED BY <2>1, <2>3, <2>4 DEF RequestInv, OpenStream, StreamGrammar
<1> QED BY <1>1, <1>2

LEMMA StreamResponseFacts ==
  ASSUME RequestInv, relay = "open", req.style = "responses", UNCHANGED <<req, client>>,
         NEW o \in Output, StreamImageResponse(o)
  PROVE  OpenStream' /\ StreamGrammar' /\ sent' \in Seq(Frame) /\ relay' \in {"open", "closed"}
<1>1. CASE o.kind = "error"
  <2>1. Closes(<<"error", "done">>)
    BY <1>1 DEF StreamImageResponse
  <2> QED BY <2>1, ClosesFacts DEF Closes
<1>2. CASE o.kind = "progress"
  BY <1>2, StreamStays DEF StreamImageResponse
<1>3. CASE o.kind \in {"message", "result"}
  <2>1. Closes(<<o.kind, "completed", "done">>)
    BY <1>3 DEF StreamImageResponse
  <2> QED BY <1>3, <2>1, CompletesFacts DEF Closes
<1> QED BY <1>1, <1>2, <1>3 DEF Output


\* In a parallel request a result that is collected is one of those taken, and
\* an error comes only when there is none.
LEMMA CollectFacts ==
  ASSUME RequestInv, relay = "open", client = "here", req.style = "buffered", chan # <<>>,
         chan' = Tail(chan), CollectImageOutput(Head(chan)),
         UNCHANGED <<req, gate, img, pool, next, queue, any, client>>
  PROVE  /\ answer' \in [error : BOOLEAN, images : SUBSET (1..MaxImages), ready : BOOLEAN]
         /\ relay' \in {"open", "closed"} /\ sent' = sent
         /\ Siblings' /\ SiblingsKeepResults'
<1> DEFINE o == Head(chan)
           rest == Tail(chan)
<1> USE DEF RequestInv
<1>1. /\ o \in Output /\ rest \in Seq(Output)
      /\ ResultsIn(chan) = ResultsIn(rest) \cup (IF o.kind = "result" THEN {o.img} ELSE {})
      /\ 1 \in 1..Len(chan) /\ o = chan[1]
      /\ \A k \in 1..Len(rest) : k + 1 \in 1..Len(chan) /\ rest[k] = chan[k + 1]
  BY ResultsTaken DEF RequestShape
<1>2. chan' = rest /\ CollectImageOutput(o)
  OBVIOUS
<1> HIDE DEF o, rest
<1>3. /\ answer \in [error : BOOLEAN, images : SUBSET (1..MaxImages), ready : BOOLEAN]
      /\ o.kind \in {"progress", "message", "result", "error"} /\ o.img \in 1..MaxImages
  BY <1>1 DEF RequestShape, Output
<1>4. /\ (AllFinished' <=> AllFinished) /\ (Parallel' <=> Parallel) /\ ResultsIn(chan)' = ResultsIn(rest)
      /\ ResultsIn(queue)' = ResultsIn(queue) /\ WithResult(Taken)' = WithResult(Taken)
      /\ WithResult(Image)' = WithResult(Image)
  BY <1>2 DEF AllFinished, Finished, Image, Parallel, ResultsIn, WithResult, Taken
<1>5. CASE o.kind = "error"
  <2>1. answer' = [answer EXCEPT !.error = TRUE, !.ready = TRUE] /\ relay' = "closed" /\ sent' = sent
    BY <1>2, <1>5 DEF CollectImageOutput
  <2>2. answer' \in [error : BOOLEAN, images : SUBSET (1..MaxImages), ready : BOOLEAN] /\ answer'.images = answer.images
    BY <1>3, <2>1
  <2>3. Parallel => AllFinished /\ WithResult(Image) = {} /\ answer.images \subseteq WithResult(Taken)
    BY <1>1, <1>5 DEF Siblings
  <2>4. Taken \subseteq Image \/ ~Parallel \/ pool = "closed"
    BY RequestFacts DEF Taken, Image, RequestShape
  <2>5. Parallel => answer.images = {}
    <3>1. Parallel /\ pool = "closed" => Taken = Image
      BY RequestFacts DEF Siblings, Taken, Image
    <3> QED BY <2>3, <2>4, <3>1 DEF WithResult
  <2>6. Siblings'
    BY <1>4, <2>1, <2>3 DEF Siblings
  <2>7. SiblingsKeepResults'
    <3>1. Parallel => WithResult(Image)' = {} /\ answer'.images = {}
      BY <1>4, <2>2, <2>3, <2>5
    <3> QED BY <1>4, <3>1 DEF SiblingsKeepResults, WithResult, Parallel
  <2> QED BY <2>1, <2>2, <2>6, <2>7
<1>6. CASE o.kind = "result"
  <2>1. answer' = [answer EXCEPT !.images = answer.images \cup {o.img}] /\ relay' = relay /\ sent' = sent
    BY <1>2, <1>6 DEF CollectImageOutput
  <2>2. /\ answer' \in [error : BOOLEAN, images : SUBSET (1..MaxImages), ready : BOOLEAN]
        /\ answer'.images = answer.images \cup {o.img}
        /\ answer'.error = answer.error /\ answer'.ready = answer.ready
    BY <1>3, <2>1
  <2>3. answer'.images \cup ResultsIn(chan)' = answer.images \cup ResultsIn(chan)
    BY <1>1, <1>4, <1>6, <2>2
  <2>4. o.img \in ResultsIn(chan)
    BY <1>1, <1>6
  <2>5. \A k \in 1..Len(chan') : \E j \in 1..Len(chan) : chan'[k] = chan[j]
    BY <1>1, <1>2
  <2>6. Siblings'
    BY <1>2, <1>4, <1>6, <2>1, <2>2, <2>3, <2>4, <2>5 DEF Siblings
  <2>7. SiblingsKeepResults'
    BY <1>4, <2>1, <2>2 DEF Siblings, SiblingsKeepResults, Parallel
  <2> QED BY <2>1, <2>2, <2>6, <2>7
<1>7. CASE o.kind \in {"progress", "message"}
  <2>1. answer' = answer /\ relay' = relay /\ sent' = sent
    BY <1>2, <1>7 DEF CollectImageOutput
  <2>2. ResultsIn(chan)' = ResultsIn(chan)
    BY <1>1, <1>4, <1>7
  <2>3. \A k \in 1..Len(chan') : \E j \in 1..Len(chan) : chan'[k] = chan[j]
    BY <1>1, <1>2
  <2>4. Siblings'
    BY <1>2, <1>4, <2>1, <2>2, <2>3 DEF Siblings
  <2>5. SiblingsKeepResults'
    BY <1>4, <2>1 DEF Siblings, SiblingsKeepResults, Parallel
  <2> QED BY <1>3, <2>1, <2>4, <2>5
<1> QED BY <1>3, <1>5, <1>6, <1>7

\* What is not answered is not promised: the other translators leave the
\* answer alone.
LEMMA SiblingsUnanswered ==
  ASSUME RequestInv, relay = "open", UNCHANGED <<req, img, pool, next, queue, answer>>,
         relay' = "closed" \/ req.style # "buffered"
  PROVE  Siblings' /\ SiblingsKeepResults'
<1>1. (AllFinished' <=> AllFinished) /\ (Parallel' <=> Parallel)
  BY DEF AllFinished, Finished, Image, Parallel
<1> QED BY <1>1 DEF RequestInv, Siblings, SiblingsKeepResults, Parallel

LEMMA TranslateInv == ASSUME RequestInv, Translate PROVE RequestInv'
<1>1. /\ relay = "open" /\ chan # <<>> /\ chan' = Tail(chan)
      /\ UNCHANGED <<req, gate, img, pool, next, queue, any, client>>
  BY DEF Translate
<1>2. Head(chan) \in Output /\ Tail(chan) \in Seq(Output)
  BY <1>1, ResultsTaken DEF RequestInv, RequestShape
<1>3. /\ answer \in [error : BOOLEAN, images : SUBSET (1..MaxImages), ready : BOOLEAN]
      /\ client \in {"here", "gone"} /\ req.style \in {"buffered", "images", "responses"}
  BY RequestFacts DEF RequestInv, RequestShape
<1>4. ASSUME relay' \in {"open", "closed"}, sent' \in Seq(Frame),
             answer' \in [error : BOOLEAN, images : SUBSET (1..MaxImages), ready : BOOLEAN]
      PROVE  RequestShape'
  BY <1>1, <1>2, <1>4 DEF RequestInv, RequestShape, WithinBudget
<1>5. CASE client = "gone"
  <2>1. relay' = "closed" /\ UNCHANGED <<sent, answer>>
    BY <1>5 DEF Translate
  <2> QED BY <1>1, <1>3, <1>4, <1>5, <2>1, StreamIgnored, SiblingsUnanswered DEF RequestInv
<1>6. CASE client = "here" /\ req.style = "buffered"
  <2>1. CollectImageOutput(Head(chan))
    BY <1>6 DEF Translate
  <2>2. /\ answer' \in [error : BOOLEAN, images : SUBSET (1..MaxImages), ready : BOOLEAN]
        /\ relay' \in {"open", "closed"} /\ sent' = sent /\ Siblings' /\ SiblingsKeepResults'
    BY <1>1, <1>6, <2>1, CollectFacts
  <2>3. OpenStream' /\ StreamGrammar' /\ sent' \in Seq(Frame)
    BY <1>1, <1>6, <2>2 DEF RequestInv, RequestShape, OpenStream, StreamGrammar
  <2> QED BY <1>4, <2>2, <2>3 DEF RequestInv
<1>7. CASE client = "here" /\ req.style = "images"
  <2>1. StreamImages(Head(chan)) /\ answer' = answer
    BY <1>7 DEF Translate, StreamImages
  <2> QED BY <1>1, <1>2, <1>3, <1>4, <1>7, <2>1, StreamImagesFacts, SiblingsUnanswered DEF RequestInv
<1>8. CASE client = "here" /\ req.style = "responses"
  <2>1. StreamImageResponse(Head(chan)) /\ answer' = answer
    BY <1>8 DEF Translate, StreamImageResponse
  <2> QED BY <1>1, <1>2, <1>3, <1>4, <1>8, <2>1, StreamResponseFacts, SiblingsUnanswered DEF RequestInv
<1> QED BY <1>3, <1>5, <1>6, <1>7, <1>8

LEMMA TranslateEndsInv == ASSUME RequestInv, TranslateEnds PROVE RequestInv'
<1>1. /\ relay = "open" /\ chan = <<>> /\ pool = "closed" /\ relay' = "closed"
      /\ answer' = [answer EXCEPT !.ready = (req.style = "buffered" /\ client = "here")]
      /\ UNCHANGED <<req, gate, img, pool, next, queue, any, chan, client>>
  BY DEF TranslateEnds
<1>2. /\ answer \in [error : BOOLEAN, images : SUBSET (1..MaxImages), ready : BOOLEAN]
      /\ client \in {"here", "gone"} /\ req.style \in {"buffered", "images", "responses"}
  BY RequestFacts DEF RequestInv, RequestShape
<1>3. /\ answer' \in [error : BOOLEAN, images : SUBSET (1..MaxImages), ready : BOOLEAN]
      /\ answer'.error = answer.error /\ answer'.images = answer.images
      /\ answer'.ready = (req.style = "buffered" /\ client = "here")
  BY <1>1, <1>2
<1>4. OpenStream' /\ StreamGrammar' /\ sent' \in Seq(Frame)
  <2>1. CASE client = "gone" \/ req.style = "buffered"
    <3>1. sent' = sent
      BY <2>1 DEF TranslateEnds
    <3> QED BY <1>1, <2>1, <3>1, StreamIgnored
  <2>2. CASE client # "gone" /\ req.style = "images"
    <3>1. Closes(<<"done">>)
      BY <1>1, <2>2 DEF TranslateEnds, Closes
    <3> QED BY <1>1, <2>2, <3>1, ClosesFacts
  <2>3. CASE client # "gone" /\ req.style = "responses"
    <3>1. Closes(<<"error", "done">>)
      BY <1>1, <2>3 DEF TranslateEnds, Closes
    <3> QED BY <1>1, <2>3, <3>1, ClosesFacts
  <2> QED BY <1>2, <2>1, <2>2, <2>3
<1>5. RequestShape'
  BY <1>1, <1>3, <1>4 DEF RequestInv, RequestShape, WithinBudget
<1>6. /\ (AllFinished' <=> AllFinished) /\ (Parallel' <=> Parallel) /\ WithResult(Image)' = WithResult(Image)
  BY <1>1 DEF AllFinished, Finished, Image, Parallel, WithResult
<1>7. Siblings'
  BY <1>1, <1>6 DEF RequestInv, Siblings
<1>8. SiblingsKeepResults'
  <2> SUFFICES ASSUME Parallel, req.style = "buffered", client = "here"
               PROVE  answer.images = WithResult(Image) /\ ~answer.error
    BY <1>1, <1>3, <1>6 DEF SiblingsKeepResults, Parallel, WithResult
  <2>1. queue = <<>> /\ next = req.n + 1 /\ ~answer.error
    BY <1>1 DEF RequestInv, Siblings
  <2>2. Taken = Image
    BY <1>1, <2>1, RequestFacts DEF Taken, Image, RequestInv
  <2> QED BY <1>1, <2>1, <2>2, NoResults DEF RequestInv, Siblings
<1> QED BY <1>4, <1>5, <1>7, <1>8 DEF RequestInv

LEMMA ClientLeavesInv == ASSUME RequestInv, ClientLeaves PROVE RequestInv'
<1>1. /\ relay = "open" /\ client' = "gone"
      /\ UNCHANGED <<req, gate, img, pool, next, queue, any, chan, sent, answer>>
      /\ relay' = IF req.style = "buffered" THEN "closed" ELSE relay
  BY DEF ClientLeaves
<1>2. RequestShape'
  BY <1>1 DEF RequestInv, RequestShape, WithinBudget
<1>3. OpenStream' /\ StreamGrammar'
  BY <1>1 DEF RequestInv, OpenStream, StreamGrammar
<1> QED BY <1>1, <1>2, <1>3, SiblingsUnanswered DEF RequestInv

---------------------------------------------------------------------------

LEMMA NothingMoves ==
  ASSUME RequestInv, RequestShape',
         UNCHANGED <<req, img, pool, next, queue, any, chan, relay, sent, answer, client>>
  PROVE  RequestInv'
<1>1. /\ (AllFinished' <=> AllFinished) /\ (Parallel' <=> Parallel)
      /\ ResultsIn(chan)' = ResultsIn(chan) /\ ResultsIn(queue)' = ResultsIn(queue)
      /\ WithResult(Taken)' = WithResult(Taken) /\ WithResult(Image)' = WithResult(Image)
  BY DEF AllFinished, Finished, Image, Parallel, ResultsIn, WithResult, Taken
<1>2. Siblings'
  BY <1>1 DEF RequestInv, Siblings
<1>3. SiblingsKeepResults'
  BY AnswerStays
<1> QED BY <1>2, <1>3, StreamStays DEF RequestInv

LEMMA RequestInvInit == RequestInit => RequestInv
<1> SUFFICES ASSUME RequestInit PROVE RequestInv
  OBVIOUS
<1>1. req \in Requests /\ img = [i \in 1..MaxImages |-> Fresh] /\ next = 1 /\ queue = <<>> /\ chan = <<>>
  BY DEF RequestInit
<1>2. req.n \in 1..MaxImages /\ 1 \in 1..req.n + 1
  BY <1>1, BudgetAssumption DEF Requests
<1>3. img \in [1..MaxImages -> States] /\ \A i \in 1..MaxImages : WithinBudget(img[i]) /\ img[i].at = "new"
  BY <1>1, FreshFacts DEF Fresh
<1>4. Len(sent) = 0 /\ Len(chan) = 0 /\ Len(queue) = 0
  BY DEF RequestInit
<1>5. answer \in [error : BOOLEAN, images : SUBSET (1..MaxImages), ready : BOOLEAN] /\ ~answer.ready /\ ~answer.error
      /\ answer.images = {}
  BY DEF RequestInit, NoAnswer
<1>6. RequestShape
  <2>1. queue \in Seq(Output) /\ chan \in Seq(Output) /\ sent \in Seq(Frame)
    BY <1>1 DEF RequestInit
  <2>2. gate = "filter" /\ pool = "running" /\ relay = "open" /\ client = "here"
    BY DEF RequestInit
  <2>3. any \in BOOLEAN
    BY DEF RequestInit
  <2> QED BY <1>1, <1>2, <1>3, <1>4, <1>5, <2>1, <2>2, <2>3 DEF RequestShape
<1>7. OpenStream /\ StreamGrammar /\ SiblingsKeepResults
  BY <1>4, <1>5 DEF RequestInit, OpenStream, StreamGrammar, SiblingsKeepResults
<1>8. Siblings
  <2>1. Taken = {} /\ ResultsIn(chan) = {} /\ ResultsIn(queue) = {}
    BY <1>1, NoResults DEF RequestInit, Taken
  <2> QED BY <1>1, <1>4, <1>5, <2>1 DEF RequestInit, Siblings, WithResult
<1> QED BY <1>6, <1>7, <1>8 DEF RequestInv

LEMMA RequestInvNext == RequestInv /\ [RequestNext]_requestVars => RequestInv'
<1> SUFFICES ASSUME RequestInv, [RequestNext]_requestVars PROVE RequestInv'
  OBVIOUS
<1>1. CASE CheckRequest
  <2>1. gate' \in {"open", "refused"} /\ UNCHANGED <<req, img, pool, next, queue, any, chan, relay, sent, answer, client>>
    BY <1>1 DEF CheckRequest
  <2>2. RequestShape'
    BY <2>1 DEF RequestInv, RequestShape, WithinBudget
  <2> QED BY <2>1, <2>2, NothingMoves
<1>2. CASE \E i \in Image : ImageStep(i)
  <2>1. PICK i \in Image : ImageStep(i)
    BY <1>2
  <2>2. \E s : Moves(i, s)
    BY <2>1, ImageStepMoves DEF RequestInv
  <2> QED BY <2>2, MovesInv
<1>3. CASE UNCHANGED requestVars
  <2>1. UNCHANGED <<req, gate, img, pool, next, queue, any, chan, relay, sent, answer, client>>
    BY <1>3 DEF requestVars
  <2>2. RequestShape'
    BY <2>1 DEF RequestInv, RequestShape, WithinBudget
  <2> QED BY <2>1, <2>2, NothingMoves
<1> QED BY <1>1, <1>2, <1>3, TakeImageInv, SendOutputInv, EmitEndsInv, TranslateInv, TranslateEndsInv,
           ClientLeavesInv DEF RequestNext, Emit, TranslatorStep

LEMMA RequestShapeTypes == RequestShape => RequestTypeOK
<1> SUFFICES ASSUME RequestShape PROVE RequestTypeOK
  OBVIOUS
<1>1. \A i \in 1..MaxImages : img[i] \in States /\ WithinBudget(img[i])
  BY DEF RequestShape
<1>2. \A i \in 1..MaxImages : \A b \in Budgeted : img[i].charged[b] \in 0..Budget[b]
  BY <1>1, BudgetAssumption DEF States, WithinBudget
<1>3. next \in 1..MaxImages + 1
  BY RequestFacts
<1>4. /\ \A k \in 1..Len(queue) : queue[k] \in Output
      /\ \A k \in 1..Len(chan) : chan[k] \in Output
  BY ElementOfSeq DEF RequestShape
<1> QED BY <1>1, <1>2, <1>3, <1>4 DEF RequestShape, RequestTypeOK, States

\* Whatever the attempts of a request end with and however its images, the
\* emitting task, the translator and the client interleave: a stream that is
\* closed has one end, and nothing follows it.
THEOREM StreamGrammarHolds == RequestSpec => [](RequestTypeOK /\ StreamGrammar)
<1>1. RequestInv => RequestTypeOK /\ StreamGrammar
  BY RequestShapeTypes DEF RequestInv
<1> QED BY <1>1, RequestInvInit, RequestInvNext, PTL DEF RequestSpec

\* In a parallel request no image's failure takes the result of another from
\* the answer, for every number of images and every retry budget.
THEOREM SiblingsHold == RequestSpec => []SiblingsKeepResults
<1>1. RequestInv => SiblingsKeepResults
  BY DEF RequestInv
<1> QED BY <1>1, RequestInvInit, RequestInvNext, PTL DEF RequestSpec

---------------------------------------------------------------------------
(* Operations on text. *)

LEMMA RankGrows ==
  ASSUME NEW n \in Nat, NEW kept \in SUBSET (1..n), NEW i \in kept, NEW j \in kept, i < j
  PROVE  Cardinality({k \in kept : k =< i}) < Cardinality({k \in kept : k =< j})
<1> DEFINE lower == {k \in kept : k =< i}
           upper == {k \in kept : k =< j}
<1>1. IsFiniteSet(kept)
  <2>1. IsFiniteSet(1..n)
    BY FS_Interval
  <2> QED BY <2>1, FS_Subset
<1>2. i \in Int /\ j \in Int /\ \A k \in kept : k \in Int
  OBVIOUS
<1>3. lower \subseteq upper /\ j \in upper /\ j \notin lower /\ upper \subseteq kept
  <2>1. \A k \in kept : k =< i => k =< j
    BY <1>2
  <2>2. j =< j /\ ~(j =< i)
    BY <1>2
  <2> QED BY <2>1, <2>2
<1> HIDE DEF lower, upper
<1>4. IsFiniteSet(upper)
  BY <1>1, <1>3, FS_Subset
<1>5. /\ IsFiniteSet(lower) /\ Cardinality(lower) =< Cardinality(upper)
      /\ Cardinality(upper) = Cardinality(lower) => upper = lower
  BY <1>3, <1>4, FS_Subset
<1>6. Cardinality(lower) \in Nat /\ Cardinality(upper) \in Nat
  BY <1>4, <1>5, FS_CardinalityType
<1>7. Cardinality(lower) < Cardinality(upper)
  BY <1>3, <1>5, <1>6
<1> QED BY <1>7 DEF lower, upper

\* Each rank up to their number is that of one of the positions kept: ranks are
\* an injection between two sets of the same size.
LEMMA Ranks ==
  ASSUME NEW n \in Nat, NEW kept \in SUBSET (1..n)
  PROVE  /\ Cardinality(kept) \in 0..n
         /\ \A k \in 1..Cardinality(kept) : \E i \in kept : Cardinality({j \in kept : j =< i}) = k
<1> DEFINE m == Cardinality(kept)
           rank == [i \in kept |-> Cardinality({j \in kept : j =< i})]
<1>1. IsFiniteSet(1..n) /\ Cardinality(1..n) = n
  BY FS_Interval
<1>2. IsFiniteSet(kept) /\ m =< n
  BY <1>1, FS_Subset
<1>3. m \in Nat
  BY <1>2, FS_CardinalityType
<1>4. ASSUME NEW i \in kept PROVE Cardinality({j \in kept : j =< i}) \in 1..m
  <2> DEFINE lower == {j \in kept : j =< i}
  <2>1. i \in Int
    OBVIOUS
  <2>2. lower \subseteq kept /\ i \in lower
    BY <2>1
  <2> HIDE DEF lower
  <2>3. IsFiniteSet(lower) /\ Cardinality(lower) =< m
    BY <1>2, <2>2, FS_Subset
  <2>4. Cardinality(lower) \in Nat /\ Cardinality(lower) # 0
    BY <2>2, <2>3, FS_CardinalityType, FS_EmptySet
  <2>5. Cardinality(lower) \in 1..m
    BY <1>3, <2>3, <2>4
  <2> QED BY <2>5 DEF lower
<1>5. rank \in [kept -> 1..m]
  BY <1>4
<1>6. IsInjective(rank)
  <2> SUFFICES ASSUME NEW i \in kept, NEW j \in kept, rank[i] = rank[j] PROVE i = j
    BY <1>5 DEF IsInjective
  <2>1. i \in Int /\ j \in Int
    OBVIOUS
  <2>2. rank[i] \in Int /\ rank[j] \in Int
    BY <1>5
  <2>3. i < j => rank[i] < rank[j]
    BY RankGrows
  <2>4. j < i => rank[j] < rank[i]
    BY RankGrows
  <2> HIDE DEF rank
  <2> QED BY <2>1, <2>2, <2>3, <2>4
<1>7. IsFiniteSet(1..m) /\ Cardinality(1..m) = m
  BY <1>3, FS_Interval
<1>8. rank \in Surjection(kept, 1..m)
  <2>1. rank \in Injection(kept, 1..m)
    BY <1>5, <1>6 DEF Injection
  <2> HIDE DEF rank
  <2> QED BY <1>7, <2>1, FS_Injection
<1>9. \A k \in 1..m : \E i \in kept : rank[i] = k
  <2> HIDE DEF rank
  <2> QED BY <1>8 DEF Surjection
<1> QED BY <1>2, <1>3, <1>9

\* What is kept of a text is a text that is not longer.
LEMMA KeptText ==
  ASSUME NEW s \in Seq(Symbol), NEW kept \in SUBSET DOMAIN s
  PROVE  LET t == [k \in 1..Cardinality(kept) |-> s[CHOOSE i \in kept : Cardinality({j \in kept : j =< i}) = k]]
         IN  t \in Seq(Symbol) /\ Len(t) =< Len(s) /\ Len(t) \in Nat
<1> DEFINE m == Cardinality(kept)
           nth(k) == CHOOSE i \in kept : Cardinality({j \in kept : j =< i}) = k
           t == [k \in 1..m |-> s[nth(k)]]
<1>1. Len(s) \in Nat /\ DOMAIN s = 1..Len(s) /\ s \in [1..Len(s) -> Symbol]
  BY LenProperties
<1>2. m \in 0..Len(s) /\ \A k \in 1..m : \E i \in kept : Cardinality({j \in kept : j =< i}) = k
  BY <1>1, Ranks
<1>3. \A k \in 1..m : nth(k) \in kept
  BY <1>2
<1>4. \A k \in 1..m : s[nth(k)] \in Symbol
  <2> HIDE DEF nth, m
  <2> QED BY <1>1, <1>3
<1>5. t \in [1..m -> Symbol] /\ m \in Nat /\ m =< Len(s)
  <2> HIDE DEF nth, m
  <2> QED BY <1>1, <1>2, <1>4
<1>6. t \in Seq(Symbol) /\ Len(t) = m
  <2> HIDE DEF t, m
  <2> QED BY <1>5
<1> QED BY <1>5, <1>6

LEMMA SanitizedText ==
  ASSUME NEW s \in Seq(Symbol)
  PROVE  Sanitize(s) \in Seq(Symbol) /\ Len(Sanitize(s)) =< Len(s) /\ Len(Sanitize(s)) \in Nat
<1>1. {i \in DOMAIN s : ~ \E j \in i + 1..Len(s) : s[j] = "." /\ \A k \in i..j - 1 : s[k] = " "} \in SUBSET DOMAIN s
  OBVIOUS
<1> QED BY <1>1, KeptText DEF Sanitize, Keep

LEMMA TrimmedEnd ==
  ASSUME NEW s \in Seq(Symbol)
  PROVE  TrimEnd(s) \in Seq(Symbol) /\ Len(TrimEnd(s)) =< Len(s) /\ Len(TrimEnd(s)) \in Nat
<1>1. {i \in DOMAIN s : \E j \in Solid(s) : i =< j} \in SUBSET DOMAIN s
  OBVIOUS
<1> QED BY <1>1, KeptText DEF TrimEnd, Keep

LEMMA TrimmedText ==
  ASSUME NEW s \in Seq(Symbol)
  PROVE  Trim(s) \in Seq(Symbol) /\ Len(Trim(s)) =< Len(s) /\ Len(Trim(s)) \in Nat
<1>1. {i \in DOMAIN s : \E j, k \in Solid(s) : j =< i /\ i =< k} \in SUBSET DOMAIN s
  OBVIOUS
<1> QED BY <1>1, KeptText DEF Trim, Keep

LEMMA StrippedText ==
  ASSUME NEW s \in Seq(Symbol)
  PROVE  /\ StripToolMarkup(s) \in Seq(Symbol) /\ Len(StripToolMarkup(s)) =< Len(s)
         /\ Len(StripToolMarkup(s)) \in Nat
<1> DEFINE outside == Keep(s, LAMBDA k : ~InCall(s, k))
<1>1. {k \in DOMAIN s : ~InCall(s, k)} \in SUBSET DOMAIN s
  OBVIOUS
<1>2. outside \in Seq(Symbol) /\ Len(outside) =< Len(s) /\ Len(outside) \in Nat
  BY <1>1, KeptText DEF Keep
<1>3. Len(s) \in Nat
  BY LenProperties
<1>4. Trim(outside) \in Seq(Symbol) /\ Len(Trim(outside)) =< Len(outside) /\ Len(Trim(outside)) \in Nat
  BY <1>2, TrimmedText
<1> HIDE DEF outside
<1>5. Len(Trim(outside)) =< Len(s)
  BY <1>2, <1>3, <1>4
<1> QED BY <1>4, <1>5 DEF StripToolMarkup, outside


LEMMA StreamableFacts ==
  ASSUME NEW s \in Seq(Symbol)
  PROVE  /\ StreamableText(s) \in Seq(Symbol) /\ Len(StreamableText(s)) =< Len(s)
         /\ Len(StreamableText(s)) \in Nat
<1>1. Len(s) \in Nat /\ DOMAIN s = 1..Len(s) /\ s \in [1..Len(s) -> Symbol]
  BY LenProperties
<1>2. CASE Tags(s) = {}
  BY <1>1, <1>2 DEF StreamableText
<1>3. CASE Tags(s) # {}
  <2> DEFINE first == CHOOSE i \in Tags(s) : \A j \in Tags(s) : i =< j
             head == SubSeq(s, 1, first - 1)
  <2>1. Tags(s) \subseteq 1..Len(s) /\ Tags(s) \subseteq Nat
    BY <1>1 DEF Tags
  <2>2. \E i \in Tags(s) : \A j \in Tags(s) : i =< j
    <3> DEFINE upTo(i) == {j \in Tags(s) : j =< i}
    <3>1. IsFiniteSet(Tags(s)) /\ \A i \in Tags(s) : upTo(i) \in SUBSET Tags(s) /\ i \in upTo(i)
      <4>1. IsFiniteSet(1..Len(s))
        BY <1>1, FS_Interval
      <4>2. \A i \in Tags(s) : i =< i
        BY <2>1
      <4> QED BY <2>1, <4>1, <4>2, FS_Subset
    <3>2. Cardinality(Tags(s)) \in Nat /\ Cardinality(Tags(s)) # 0
      BY <1>3, <3>1, FS_CardinalityType, FS_EmptySet
    <3>3. PICK i \in Tags(s) : Cardinality(upTo(i)) = 1
      <4>1. 1 \in 1..Cardinality(Tags(s))
        BY <3>2
      <4>2. \E i \in Tags(s) : Cardinality({j \in Tags(s) : j =< i}) = 1
        <5> DEFINE tags == Tags(s)
        <5>1. Len(s) \in Nat /\ tags \in SUBSET (1..Len(s)) /\ 1 \in 1..Cardinality(tags)
          BY <1>1, <2>1, <4>1
        <5> HIDE DEF tags
        <5>2. \E i \in tags : Cardinality({j \in tags : j =< i}) = 1
          BY <5>1, Ranks
        <5> QED BY <5>2 DEF tags
      <4> QED BY <4>2
    <3>4. ASSUME NEW j \in Tags(s), j < i PROVE FALSE
      <4>1. Cardinality(upTo(j)) < 1
        BY <1>1, <2>1, <3>3, <3>4, RankGrows
      <4> HIDE DEF upTo
      <4>2. IsFiniteSet(upTo(j)) /\ upTo(j) # {}
        BY <3>1, FS_Subset
      <4>3. Cardinality(upTo(j)) \in Nat /\ Cardinality(upTo(j)) # 0
        BY <4>2, FS_CardinalityType, FS_EmptySet
      <4> QED BY <4>1, <4>3
    <3> HIDE DEF upTo
    <3>5. \A j \in Tags(s) : i \in Nat /\ j \in Nat /\ ~(j < i)
      BY <2>1, <3>4
    <3> QED BY <3>5
  <2>3. first \in 1..Len(s)
    BY <2>1, <2>2
  <2> HIDE DEF first
  <2>4. first - 1 \in Int /\ first - 1 =< Len(s) /\ first - 1 >= 0 /\ 1..first - 1 \subseteq 1..Len(s)
    BY <1>1, <2>3
  <2>5. /\ head \in Seq(Symbol) /\ Len(head) = IF 1 =< first - 1 THEN first - 1 - 1 + 1 ELSE 0
    BY <1>1, <2>4, SubSeqProperties
  <2>6. head \in Seq(Symbol) /\ Len(head) =< Len(s) /\ Len(head) \in Nat
    BY <1>1, <2>4, <2>5
  <2>7. TrimEnd(head) \in Seq(Symbol) /\ Len(TrimEnd(head)) =< Len(head) /\ Len(TrimEnd(head)) \in Nat
    BY <2>6, TrimmedEnd
  <2> HIDE DEF head
  <2>8. Len(TrimEnd(head)) =< Len(s)
    BY <1>1, <2>6, <2>7
  <2> QED BY <1>3, <2>7, <2>8 DEF StreamableText, first, head
<1> QED BY <1>2, <1>3

LEMMA TextFacts == Text = {s \in Seq(Symbol) : Len(s) =< MaxLength}
<1>1. ASSUME NEW s \in Text PROVE s \in Seq(Symbol) /\ Len(s) =< MaxLength
  <2>1. PICK n \in 0..MaxLength : s \in [1..n -> Symbol]
    BY DEF Text
  <2> QED BY <2>1, ReplyAssumption
<1>2. ASSUME NEW s \in Seq(Symbol), Len(s) =< MaxLength PROVE s \in Text
  <2>1. s \in [1..Len(s) -> Symbol] /\ Len(s) \in 0..MaxLength
    BY <1>2, LenProperties, ReplyAssumption
  <2> QED BY <2>1 DEF Text
<1> QED BY <1>1, <1>2

\* A text ends with its suffixes.
LEMMA SuffixOfConcat ==
  ASSUME NEW u \in Seq(Symbol), NEW t \in Seq(Symbol)
  PROVE  IsSuffix(t, u \o t)
<1> DEFINE a == Reverse(t)
           b == Reverse(u \o t)
           n == Len(t)
           m == Len(u)
<1>1. /\ n \in Nat /\ m \in Nat /\ u \o t \in Seq(Symbol) /\ Len(u \o t) = m + n
      /\ \A i \in 1..m + n : (u \o t)[i] = IF i =< m THEN u[i] ELSE t[i - m]
      /\ \A i \in 1..n : t[i] \in Symbol
      /\ \A i \in 1..m + n : (u \o t)[i] \in Symbol
  BY ConcatProperties, LenProperties, ElementOfSeq
<1>2. /\ a \in Seq(Symbol) /\ Len(a) = n /\ \A i \in 1..n : a[i] = t[n - i + 1]
  <2>1. \A i \in 1..n : n - i + 1 \in 1..n
    BY <1>1
  <2>2. a \in [1..n -> Symbol] /\ \A i \in 1..n : a[i] = t[n - i + 1]
    BY <1>1, <2>1 DEF Reverse
  <2> HIDE DEF a, n
  <2> QED BY <1>1, <2>2
<1>3. /\ b \in Seq(Symbol) /\ Len(b) = m + n /\ \A i \in 1..m + n : b[i] = (u \o t)[m + n - i + 1]
  <2>1. \A i \in 1..m + n : m + n - i + 1 \in 1..m + n
    BY <1>1
  <2>2. b \in [1..m + n -> Symbol] /\ \A i \in 1..m + n : b[i] = (u \o t)[m + n - i + 1]
    BY <1>1, <2>1 DEF Reverse
  <2> HIDE DEF b, n, m
  <2> QED BY <1>1, <2>2
<1>4. \A i \in 1..n : b[i] = a[i]
  <2> TAKE i \in 1..n
  <2>1. /\ i \in 1..m + n /\ m + n - i + 1 \in 1..m + n /\ ~(m + n - i + 1 =< m)
        /\ (m + n - i + 1) - m = n - i + 1
    BY <1>1
  <2> HIDE DEF a, b, n, m
  <2> QED BY <1>1, <1>2, <1>3, <2>1
<1> HIDE DEF a, b, n, m
<1>5. SubSeq(a, 1, n) = a
  BY <1>2, SubSeqFull
<1>6. SubSeq(b, 1, n) = a
  <2>1. \A i \in 1..n : b[i] \in Symbol
    BY <1>1, <1>2, <1>4, ElementOfSeq
  <2>2. /\ SubSeq(b, 1, n) \in Seq(Symbol) /\ Len(SubSeq(b, 1, n)) = IF 1 =< n THEN n - 1 + 1 ELSE 0
        /\ \A i \in 1..n - 1 + 1 : SubSeq(b, 1, n)[i] = b[1 + i - 1]
    BY <1>1, <2>1, SubSeqProperties
  <2>3. Len(SubSeq(b, 1, n)) = n /\ n - 1 + 1 = n
    BY <1>1, <2>2
  <2>4. \A i \in 1..n : SubSeq(b, 1, n)[i] = a[i]
    <3> TAKE i \in 1..n
    <3>1. 1 + i - 1 = i
      BY <1>1
    <3> QED BY <1>4, <2>2, <2>3, <3>1
  <2> QED BY <1>2, <2>2, <2>3, <2>4, SeqEqual
<1>7. IsPrefix(a, b)
  BY <1>1, <1>2, <1>3, <1>5, <1>6 DEF IsPrefix
<1> QED BY <1>7 DEF IsSuffix, a, b

---------------------------------------------------------------------------
(* A text reply. *)

\* The text a client was sent ends with that of the decoder.
SentSoFar == \E u \in Seq(Symbol) : got = u \o text

ReplyInv ==
  /\ ReplyTypeOK
  /\ cur \in Seq(Symbol) /\ got \in Seq(Symbol)
  /\ ~ToolMode => got = cur /\ ~toolSeen /\ SentSoFar

\* What the decoder takes for the delta: the growth, or the whole new text.
LEMMA DeltaFacts ==
  ASSUME text \in Seq(Symbol), NEW new \in Seq(Symbol)
  PROVE  /\ Delta(new) \in Seq(Symbol) /\ Len(Delta(new)) \in Nat
         /\ text \o Delta(new) = new \/ Delta(new) = new
<1>1. Len(text) \in Nat /\ Len(new) \in Nat
  BY LenProperties
<1>2. CASE IsPrefix(text, new)
  <2> DEFINE growth == SubSeq(new, Len(text) + 1, Len(new))
  <2>1. Len(text) =< Len(new) /\ SubSeq(new, 1, Len(text)) = text
    <3>1. SubSeq(text, 1, Len(text)) = text
      BY SubSeqFull
    <3> QED BY <1>2, <3>1 DEF IsPrefix
  <2>2. growth \in Seq(Symbol)
    <3>1. \A i \in Len(text) + 1..Len(new) : new[i] \in Symbol
      <4> TAKE i \in Len(text) + 1..Len(new)
      <4>1. i \in 1..Len(new)
        BY <1>1
      <4> QED BY <4>1, ElementOfSeq
    <3>2. Len(text) + 1 \in Int /\ Len(new) \in Int
      BY <1>1
    <3> QED BY <3>1, <3>2, SubSeqProperties
  <2>3. text \o growth = new
    <3>1. 1 \in 1..Len(new) + 1 /\ Len(text) \in 1 - 1..Len(new) /\ Len(new) \in Len(text)..Len(new)
      BY <1>1, <2>1
    <3>2. SubSeq(new, 1, Len(text)) \o SubSeq(new, Len(text) + 1, Len(new)) = SubSeq(new, 1, Len(new))
      BY <3>1, ConcatAdjacentSubSeq
    <3> QED BY <2>1, <3>2, SubSeqFull
  <2>4. Delta(new) = growth
    BY <1>2 DEF Delta
  <2> HIDE DEF growth
  <2> QED BY <2>2, <2>3, <2>4, LenProperties
<1>3. CASE ~IsPrefix(text, new)
  BY <1>1, <1>3 DEF Delta
<1> QED BY <1>2, <1>3

\* A text grows by what is appended to it.
LEMMA GrowsBy ==
  ASSUME NEW s \in Seq(Symbol), NEW d \in Seq(Symbol)
  PROVE  /\ s \o d \in Seq(Symbol) /\ Len(s \o d) = Len(s) + Len(d) /\ Len(s) \in Nat /\ Len(d) \in Nat
         /\ d # <<>> => IsStrictPrefix(s, s \o d)
<1>1. /\ s \o d \in Seq(Symbol) /\ Len(s \o d) = Len(s) + Len(d) /\ Len(s) \in Nat /\ Len(d) \in Nat
  BY ConcatProperties, LenProperties
<1>2. SubSeq(s \o d, 1, Len(s)) = SubSeq(s, 1, Len(s))
  <2>1. CASE Len(s) = 0
    <3>1. SubSeq(s \o d, 1, 0) = <<>> /\ SubSeq(s, 1, 0) = <<>>
      BY SubSeqEmpty
    <3> QED BY <2>1, <3>1
  <2>2. CASE Len(s) # 0
    <3>1. 1 \in 1..Len(s) /\ Len(s) \in 1..Len(s)
      BY <1>1, <2>2
    <3> QED BY <3>1, SubSeqOfConcat1
  <2> QED BY <2>1, <2>2
<1>3. d # <<>> => s \o d # s
  BY ConcatEqualIffEmpty
<1> QED BY <1>1, <1>2, <1>3 DEF IsStrictPrefix, IsPrefix

\* The client gets the delta, in tool mode as far as the text goes before a tag.
LEMMA ChatDeltaFacts ==
  ASSUME ReplyInv, ~IsMessage, NEW d \in Seq(Symbol), cur' = cur \o d, ChatDelta(d)
  PROVE  /\ got' \in Seq(Symbol) /\ Len(got') =< Len(cur') /\ opened' \in BOOLEAN /\ toolSeen' \in BOOLEAN
         /\ got' = cur' /\ toolSeen' = toolSeen /\ ~ToolMode
<1>1. ~ToolMode
  BY DEF IsMessage, ToolMode
<1>2. got = cur /\ got' = got \o d /\ UNCHANGED <<opened, toolSeen>>
  BY <1>1 DEF ReplyInv, ChatDelta
<1>3. got' \in Seq(Symbol) /\ Len(got') \in Nat
  BY <1>2, GrowsBy, LenProperties DEF ReplyInv
<1> QED BY <1>1, <1>2, <1>3 DEF ReplyInv, ReplyTypeOK

LEMMA MessageDeltaFacts ==
  ASSUME ReplyInv, NEW d \in Seq(Symbol), d # <<>>, cur' = cur \o d, MessageDelta(d)
  PROVE  /\ got' \in Seq(Symbol) /\ Len(got') =< Len(cur') /\ opened' \in BOOLEAN /\ toolSeen' \in BOOLEAN
         /\ ~ToolMode => got' = cur' /\ ~toolSeen'
<1> DEFINE all == cur \o d
           visible == IF ToolMode THEN StreamableText(all) ELSE all
           grows == ~toolSeen /\ IsStrictPrefix(got, visible)
<1>1. /\ all \in Seq(Symbol) /\ Len(all) = Len(cur) + Len(d) /\ Len(cur) \in Nat /\ Len(d) \in Nat
      /\ IsStrictPrefix(cur, all)
  BY GrowsBy DEF ReplyInv
<1>2. visible \in Seq(Symbol) /\ Len(visible) =< Len(all) /\ Len(visible) \in Nat
  <2> HIDE DEF all
  <2> QED BY <1>1, StreamableFacts, LenProperties
<1>3. /\ got' = IF grows THEN visible ELSE got
      /\ opened' = (opened \/ grows) /\ toolSeen' = (toolSeen \/ visible # all)
  BY DEF MessageDelta
<1>4. /\ got \in Seq(Symbol) /\ Len(got) =< Len(cur) /\ Len(got) \in Nat
      /\ ~ToolMode => got = cur /\ ~toolSeen
  BY LenProperties DEF ReplyInv, ReplyTypeOK
<1>5. ~ToolMode => visible = all
  OBVIOUS
<1>6. cur' = all
  OBVIOUS
<1> HIDE DEF all, visible
<1>7. Len(got') =< Len(cur')
  BY <1>1, <1>2, <1>3, <1>4, <1>6
<1>8. ~ToolMode => got' = cur' /\ ~toolSeen'
  BY <1>1, <1>3, <1>4, <1>5, <1>6
<1>9. got' \in Seq(Symbol)
  BY <1>2, <1>3, <1>4
<1>10. opened' \in BOOLEAN /\ toolSeen' \in BOOLEAN
  BY <1>3
<1> QED BY <1>7, <1>8, <1>9, <1>10


\* Whatever the new text is, what was sent ends with it once the delta is
\* handed on: no property of sanitizing is needed.
LEMMA DecodeInv ==
  ASSUME ReplyInv, NEW newRaw \in Text, Decode(newRaw)
  PROVE  ReplyInv'
<1> DEFINE new == Sanitize(newRaw)
           d == Delta(new)
<1>1. /\ raw' = newRaw /\ text' = new /\ UNCHANGED <<style, replyPc, attempt>>
      /\ IF text' = text \/ d = <<>>
           THEN UNCHANGED <<cur, got, opened, toolSeen, frames, textEmitted>>
           ELSE /\ cur' = cur \o d
                /\ textEmitted' = TRUE
                /\ IF IsMessage THEN MessageDelta(d) ELSE ChatDelta(d)
  BY DEF Decode
<1>2. newRaw \in Seq(Symbol) /\ Len(newRaw) =< MaxLength /\ Len(newRaw) \in Nat
  BY TextFacts, LenProperties
<1>3. new \in Seq(Symbol) /\ new \in Text
  <2>1. new \in Seq(Symbol) /\ Len(new) =< Len(newRaw) /\ Len(new) \in Nat
    BY <1>2, SanitizedText
  <2> HIDE DEF new
  <2>2. Len(new) =< MaxLength
    BY <1>2, <2>1, ReplyAssumption
  <2> QED BY <2>1, <2>2, TextFacts
<1> HIDE DEF new
<1>4. text \in Seq(Symbol)
  BY TextFacts DEF ReplyInv, ReplyTypeOK
<1>5. d \in Seq(Symbol) /\ (text \o d = new \/ d = new)
  BY <1>3, <1>4, DeltaFacts
<1> HIDE DEF d
<1>6. ToolMode' = ToolMode
  BY <1>1 DEF ToolMode
<1>7. CASE text' = text \/ d = <<>>
  <2>1. UNCHANGED <<cur, got, opened, toolSeen, textEmitted>>
    BY <1>1, <1>7
  <2>2. SentSoFar => SentSoFar'
    <3>1. CASE text' = text
      BY <2>1, <3>1 DEF SentSoFar
    <3>2. CASE d = <<>>
      <4>1. new = text \/ new = <<>>
        BY <1>4, <1>5, <3>2, ConcatEmptySeq
      <4>2. got \o <<>> = got /\ got \in Seq(Symbol)
        BY ConcatEmptySeq DEF ReplyInv
      <4> QED BY <1>1, <2>1, <4>1, <4>2 DEF SentSoFar
    <3> QED BY <1>7, <3>1, <3>2
  <2>3. ReplyTypeOK'
    BY <1>1, <1>3, <2>1 DEF ReplyInv, ReplyTypeOK
  <2> QED BY <1>6, <2>1, <2>2, <2>3 DEF ReplyInv
<1>8. CASE ~(text' = text \/ d = <<>>)
  <2>1. cur' = cur \o d /\ textEmitted' = TRUE /\ d # <<>>
    BY <1>1, <1>8
  <2>2. cur' \in Seq(Symbol)
    BY <1>5, <2>1, GrowsBy DEF ReplyInv
  <2>3. /\ got' \in Seq(Symbol) /\ Len(got') =< Len(cur') /\ opened' \in BOOLEAN /\ toolSeen' \in BOOLEAN
        /\ ~ToolMode => got' = cur' /\ ~toolSeen'
    <3>1. CASE IsMessage
      BY <1>1, <1>5, <1>8, <2>1, <3>1, MessageDeltaFacts
    <3>2. CASE ~IsMessage
      <4>1. ChatDelta(d)
        BY <1>1, <1>8, <3>2
      <4>2. /\ got' \in Seq(Symbol) /\ Len(got') =< Len(cur') /\ opened' \in BOOLEAN /\ toolSeen' \in BOOLEAN
            /\ got' = cur' /\ toolSeen' = toolSeen /\ ~ToolMode
        BY <1>5, <2>1, <3>2, <4>1, ChatDeltaFacts
      <4> QED BY <4>2 DEF ReplyInv
    <3> QED BY <3>1, <3>2
  <2>4. ~ToolMode => SentSoFar'
    <3> SUFFICES ASSUME ~ToolMode PROVE SentSoFar'
      OBVIOUS
    <3>1. got' = got \o d /\ got \in Seq(Symbol) /\ SentSoFar
      BY <2>1, <2>3 DEF ReplyInv
    <3>2. CASE d = new
      BY <1>1, <3>1, <3>2 DEF SentSoFar
    <3>3. CASE text \o d = new
      <4>1. PICK u \in Seq(Symbol) : got = u \o text
        BY <3>1 DEF SentSoFar
      <4>2. text \in Seq(Symbol) /\ d \in Seq(Symbol)
        BY <1>1, <1>4, <1>5, <2>1
      <4>3. (u \o text) \o d = u \o (text \o d)
        BY <4>1, <4>2, ConcatAssociative
      <4>4. got' = u \o new
        BY <3>1, <3>3, <4>1, <4>3
      <4> QED BY <1>1, <4>1, <4>4 DEF SentSoFar
    <3> QED BY <1>5, <3>2, <3>3
  <2>5. ReplyTypeOK'
    BY <1>1, <1>3, <2>1, <2>3 DEF ReplyInv, ReplyTypeOK
  <2> QED BY <1>6, <2>2, <2>3, <2>4, <2>5 DEF ReplyInv
<1> QED BY <1>7, <1>8

LEMMA AppendPatchInv == ASSUME ReplyInv, AppendPatch PROVE ReplyInv'
<1>1. PICK piece \in Pieces : Len(raw) + Len(piece) =< MaxLength /\ Decode(raw \o piece)
  BY DEF AppendPatch
<1>2. piece \in Seq(Symbol)
  <2>1. \A x, y \in Symbol : <<x>> \in Seq(Symbol) /\ <<x, y>> \in Seq(Symbol)
    OBVIOUS
  <2>2. {"w", " ", "<", "(", ")", "."} \subseteq Symbol
    BY DEF Symbol
  <2> QED BY <2>1, <2>2 DEF Pieces
<1>3. raw \in Seq(Symbol)
  BY TextFacts DEF ReplyInv, ReplyTypeOK
<1>4. raw \o piece \in Seq(Symbol) /\ Len(raw \o piece) = Len(raw) + Len(piece)
  BY <1>2, <1>3, GrowsBy
<1>5. raw \o piece \in Text
  BY <1>1, <1>4, TextFacts
<1> QED BY <1>1, <1>5, DecodeInv

LEMMA FullMessageInv == ASSUME ReplyInv, FullMessage PROVE ReplyInv'
<1>1. <<"w">> \in Seq(Symbol) /\ Len(<<"w">>) = 1
  BY DEF Symbol
<1>2. 1 =< MaxLength
  BY LenProperties, ReplyAssumption DEF FullMessage, ReplyInv
<1>3. <<"w">> \in Text
  BY <1>1, <1>2, TextFacts
<1> QED BY <1>3, DecodeInv DEF FullMessage

\* The decoder forgets its text: every text ends with the empty one.
LEMMA Forgets ==
  ASSUME ReplyInv, raw' = <<>>, text' = <<>>, replyPc' \in {"start", "stream", "ended", "failed"},
         attempt' \in 1..MaxAttempts, UNCHANGED <<style, cur, got, opened, toolSeen, textEmitted>>
  PROVE  ReplyInv'
<1>1. <<>> \in Text
  <2>1. <<>> \in Seq(Symbol) /\ Len(<<>>) = 0
    OBVIOUS
  <2> QED BY <2>1, TextFacts, ReplyAssumption
<1>2. SentSoFar'
  <2>1. got \o <<>> = got /\ got \in Seq(Symbol)
    BY ConcatEmptySeq DEF ReplyInv
  <2> QED BY <2>1 DEF SentSoFar
<1> QED BY <1>1, <1>2 DEF ReplyInv, ReplyTypeOK, ToolMode

LEMMA TextStays ==
  ASSUME ReplyInv, replyPc' \in {"start", "stream", "ended", "failed"},
         UNCHANGED <<style, raw, text, cur, got, opened, toolSeen, attempt, textEmitted>>
  PROVE  ReplyInv'
BY DEF ReplyInv, ReplyTypeOK, ToolMode, SentSoFar

LEMMA ReplyEndsInv == ASSUME ReplyInv, ReplyEnds PROVE ReplyInv'
<1>1. /\ replyPc' = "ended"
      /\ UNCHANGED <<style, raw, text, cur, opened, toolSeen, attempt, textEmitted>>
      /\ IF IsMessage THEN MessageEnd ELSE ChatEnd
  BY DEF ReplyEnds
<1>2. CASE ~IsMessage
  <2>1. got' = got
    BY <1>1, <1>2 DEF ChatEnd
  <2> QED BY <1>1, <2>1, TextStays
<1>3. CASE IsMessage
  <2> DEFINE calls == IF ToolMode THEN ToolCalls(cur) ELSE 0
             block == StripToolMarkup(cur)
             rest == IF calls > 0 THEN SubSeq(block, Len(got) + 1, Len(block)) ELSE <<>>
  <2>1. got' = got \o rest
    BY <1>1, <1>3 DEF MessageEnd
  <2>2. /\ block \in Seq(Symbol) /\ Len(block) =< Len(cur) /\ Len(block) \in Nat /\ Len(cur) \in Nat
        /\ Len(got) \in Nat /\ Len(got) =< Len(cur) /\ got \in Seq(Symbol)
    BY StrippedText, LenProperties DEF ReplyInv, ReplyTypeOK
  <2> HIDE DEF block, calls
  <2>3. /\ rest \in Seq(Symbol) /\ Len(rest) \in Nat /\ Len(got) + Len(rest) =< Len(cur)
    <3>1. CASE calls > 0
      <4>1. \A i \in Len(got) + 1..Len(block) : block[i] \in Symbol
        <5> TAKE i \in Len(got) + 1..Len(block)
        <5>1. i \in 1..Len(block)
          BY <2>2
        <5> QED BY <2>2, <5>1, ElementOfSeq
      <4>2. Len(got) + 1 \in Int /\ Len(block) \in Int
        BY <2>2
      <4>3. /\ rest \in Seq(Symbol)
            /\ Len(rest) = IF Len(got) + 1 =< Len(block) THEN Len(block) - (Len(got) + 1) + 1 ELSE 0
        BY <3>1, <4>1, <4>2, SubSeqProperties
      <4> HIDE DEF rest
      <4> QED BY <2>2, <4>3
    <3>2. CASE ~(calls > 0)
      BY <2>2, <3>2
    <3> QED BY <3>1, <3>2
  <2>4. ~ToolMode => rest = <<>>
    BY DEF calls
  <2> HIDE DEF rest
  <2>5. got' \in Seq(Symbol) /\ Len(got') =< Len(cur)
    BY <2>1, <2>2, <2>3, GrowsBy
  <2>6. ~ToolMode => got' = got
    BY <2>1, <2>2, <2>4, ConcatEmptySeq
  <2> QED BY <1>1, <2>5, <2>6 DEF ReplyInv, ReplyTypeOK, ToolMode, SentSoFar
<1> QED BY <1>2, <1>3

LEMMA ReplyFailsInv == ASSUME ReplyInv, ReplyFails PROVE ReplyInv'
<1>1. PICK refused \in BOOLEAN :
        IF refused /\ TriesNext
          THEN /\ attempt' = attempt + 1
               /\ replyPc' = "start"
               /\ raw' = <<>> /\ text' = <<>>
               /\ UNCHANGED frames
          ELSE /\ replyPc' = "failed"
               /\ Sends(Frames(IF style \in {"chat", "responses"} THEN <<"error", "done">> ELSE <<"error">>))
               /\ UNCHANGED <<raw, text, attempt>>
  BY DEF ReplyFails
<1>2. UNCHANGED <<style, cur, got, opened, toolSeen, textEmitted>>
  BY DEF ReplyFails
<1>3. CASE refused /\ TriesNext
  <2>1. attempt + 1 \in 1..MaxAttempts
    BY <1>3, ReplyAssumption DEF TriesNext, ReplyInv, ReplyTypeOK
  <2> QED BY <1>1, <1>2, <1>3, <2>1, Forgets
<1>4. CASE ~(refused /\ TriesNext)
  BY <1>1, <1>2, <1>4, TextStays
<1> QED BY <1>3, <1>4

LEMMA ReplyInvInit == ReplyInit => ReplyInv
<1> SUFFICES ASSUME ReplyInit PROVE ReplyInv
  OBVIOUS
<1>1. <<>> \in Seq(Symbol) /\ Len(<<>>) = 0 /\ <<>> \o <<>> = <<>>
  BY ConcatEmptySeq
<1>2. <<>> \in Text /\ 1 \in 1..MaxAttempts
  BY <1>1, TextFacts, ReplyAssumption
<1>3. /\ raw = <<>> /\ text = <<>> /\ cur = <<>> /\ got = <<>> /\ toolSeen = FALSE /\ attempt = 1
      /\ style \in ReplyStyles /\ replyPc = "start" /\ opened = (style = "messages")
  BY DEF ReplyInit
<1>4. opened \in BOOLEAN /\ toolSeen \in BOOLEAN /\ textEmitted \in BOOLEAN
  BY DEF ReplyInit
<1>5. SentSoFar
  BY <1>1, <1>3 DEF SentSoFar
<1>6. ReplyTypeOK
  BY <1>1, <1>2, <1>3, <1>4 DEF ReplyTypeOK
<1> QED BY <1>1, <1>3, <1>5, <1>6 DEF ReplyInv

LEMMA ReplyInvNext == ReplyInv /\ [ReplyNext]_replyVars => ReplyInv'
<1> SUFFICES ASSUME ReplyInv, [ReplyNext]_replyVars PROVE ReplyInv'
  OBVIOUS
<1>1. CASE StartReply
  BY <1>1, TextStays DEF StartReply
<1>2. CASE HistoryMessage
  BY <1>2, Forgets DEF HistoryMessage, ReplyInv, ReplyTypeOK
<1>3. CASE UNCHANGED replyVars
  BY <1>3, TextStays DEF replyVars, ReplyInv, ReplyTypeOK
<1> QED BY <1>1, <1>2, <1>3, AppendPatchInv, FullMessageInv, ReplyEndsInv, ReplyFailsInv DEF ReplyNext

\* What the invariant says of the client's text.
LEMMA NothingMissed == ReplyInv => NothingMissing
<1> SUFFICES ASSUME ReplyInv, ~ToolMode PROVE got = cur /\ IsSuffix(text, got)
  BY DEF ReplyInv, NothingMissing
<1>1. PICK u \in Seq(Symbol) : got = u \o text
  BY DEF ReplyInv, SentSoFar
<1>2. text \in Seq(Symbol)
  BY TextFacts DEF ReplyInv, ReplyTypeOK
<1> QED BY <1>1, <1>2, SuffixOfConcat DEF ReplyInv

\* However the reply is cut into patches and whatever sanitizing takes back, a
\* client without tools has all the text the decoder passed on, and it ends
\* with the text the decoder has.
THEOREM RepliesHold == ReplySpec => [](ReplyTypeOK /\ NothingMissing)
<1>1. ReplyInv => ReplyTypeOK
  BY DEF ReplyInv
<1> QED BY <1>1, NothingMissed, ReplyInvInit, ReplyInvNext, PTL DEF ReplySpec

---------------------------------------------------------------------------
(* All four together. *)

RequestsInv ==
  /\ focus \in {"attempt", "request", "reply", "gallery"}
  /\ AttemptInv /\ RequestInv /\ ReplyInv /\ GalleryInv

\* Attempt, request, reply and image storage move on their own; none disturbs
\* another's.
LEMMA RequestsInvHolds == Spec => []RequestsInv
<1>1. Init => RequestsInv
  BY AttemptInvInit, RequestInvInit, ReplyInvInit, GalleryInvInit DEF Init, RequestsInv
<1>2. RequestsInv /\ [Next]_vars => RequestsInv'
  <2> SUFFICES ASSUME RequestsInv, [Next]_vars PROVE RequestsInv'
    OBVIOUS
  <2>1. /\ [AttemptNext]_attemptVars /\ [RequestNext]_requestVars
        /\ [ReplyNext]_replyVars /\ [GalleryNext]_galleryVars /\ UNCHANGED focus
    <3>1. CASE Attempt
      BY <3>1 DEF Attempt
    <3>2. CASE Request
      BY <3>2 DEF Request
    <3>3. CASE Reply
      BY <3>3 DEF Reply
    <3>4. CASE Pictures
      BY <3>4 DEF Pictures
    <3>5. CASE UNCHANGED vars
      BY <3>5 DEF vars
    <3> QED BY <3>1, <3>2, <3>3, <3>4, <3>5 DEF Next
  <2> QED BY <2>1, AttemptInvNext, RequestInvNext, ReplyInvNext, GalleryInvNext DEF RequestsInv
<1> QED BY <1>1, <1>2, PTL DEF Spec

\* Whichever of the four moves, the variables of each keep their types.
THEOREM RequestsTypesHold == Spec => []RequestsTypeOK
<1>1. RequestsInv => RequestsTypeOK
  <2> SUFFICES ASSUME RequestsInv PROVE RequestsTypeOK
    OBVIOUS
  <2>1. AttemptTypeOK /\ RequestTypeOK /\ ReplyTypeOK /\ GalleryTypeOK
    BY RequestShapeTypes DEF RequestsInv, AttemptInv, RequestInv, ReplyInv, GalleryInv
  <2>2. focus \in {"attempt", "request", "reply", "gallery"}
    BY DEF RequestsInv
  <2> QED BY <2>1, <2>2 DEF RequestsTypeOK
<1> QED BY <1>1, RequestsInvHolds, PTL

\* The safety invariants of attempt, request and reply hold side by side in the
\* specification that puts them together.
THEOREM RequestsHold ==
  Spec => [](AttemptEndExpected /\ SiblingsKeepResults /\ StreamGrammar /\ NothingMissing)
<1>1. RequestsInv => AttemptEndExpected /\ SiblingsKeepResults /\ StreamGrammar
  BY DEF RequestsInv, AttemptInv, RequestInv
<1>2. RequestsInv => NothingMissing
  BY NothingMissed DEF RequestsInv
<1> QED BY <1>1, <1>2, RequestsInvHolds, PTL
=============================================================================
