----------------------------- MODULE TextReply -----------------------------
(***************************************************************************)
(* The way of a text reply from the upstream event stream to the client:    *)
(* ConversationDecoder and run_text_stream of services/protocol/            *)
(* conversation.rs, and the translators for chat completions, responses and *)
(* Anthropic messages.  Text is a sequence of symbols, one for each kind of *)
(* text the code tells apart; the channels between the tasks keep the order *)
(* and are left out.                                                        *)
(***************************************************************************)
EXTENDS Integers, Sequences, SequencesExt, FiniteSets

CONSTANTS
  MaxLength,    \* bound on the symbols of a reply
  MaxAttempts   \* accounts that serve text

ASSUME ReplyAssumption == MaxLength \in Nat /\ MaxAttempts \in Nat \ {0}

VARIABLES
  style,      \* the endpoint, and whether the request has tools
  replyPc,    \* "start", "stream", "ended" or "failed"
  raw, text,  \* the decoder: raw_text, and text, which is raw sanitized
  cur,        \* the deltas of stream_text_deltas joined
  got,        \* the text the client was sent
  opened,     \* text_open: block 0 of a message was started
  toolSeen,   \* tool_started
  frames,     \* the frames the client was sent
  attempt,    \* the account in use
  textEmitted    \* emitted

replyVars == <<style, replyPc, raw, text, cur, got, opened, toolSeen, frames, attempt, textEmitted>>

\* A word, white space, a punctuation mark; the start of a tool tag, the rest
\* of it, and the end of a call.
Symbol == {"w", " ", ".", "<", "(", ")"}
Text == UNION {[1..n -> Symbol] : n \in 0..MaxLength}

ReplyStyles == {"buffered", "chat", "responses", "messages", "messages with tools"}
IsMessage == style \in {"messages", "messages with tools"}
ToolMode == style = "messages with tools"

---------------------------------------------------------------------------
(* Operations on text. *)

\* The symbols at the positions that are kept, in their order.
Keep(s, Kept(_)) ==
  LET kept == {i \in DOMAIN s : Kept(i)}
      nth(k) == CHOOSE i \in kept : Cardinality({j \in kept : j =< i}) = k
  IN [k \in 1..Cardinality(kept) |-> s[nth(k)]]

\* sanitize_output_text: white space before a punctuation mark is dropped.
Sanitize(s) ==
  Keep(s, LAMBDA i : ~ \E j \in i + 1..Len(s) : s[j] = "." /\ \A k \in i..j - 1 : s[k] = " ")

Solid(s) == {i \in DOMAIN s : s[i] # " "}
TrimEnd(s) == Keep(s, LAMBDA i : \E j \in Solid(s) : i =< j)
Trim(s) == Keep(s, LAMBDA i : \E j, k \in Solid(s) : j =< i /\ i =< k)

TagAt(s, i) == s[i] = "<" /\ i < Len(s) /\ s[i + 1] = "("
Tags(s) == {i \in DOMAIN s : TagAt(s, i)}

\* streamable_text: what comes before the first tag.
StreamableText(s) ==
  IF Tags(s) = {} THEN s
  ELSE TrimEnd(SubSeq(s, 1, (CHOOSE i \in Tags(s) : \A j \in Tags(s) : i =< j) - 1))

\* A call reaches from a tag to the next end of a call.
InCall(s, k) ==
  /\ \E i \in Tags(s) : i =< k /\ \A j \in i..k - 1 : s[j] # ")"
  /\ \E j \in k..Len(s) : s[j] = ")"

StripToolMarkup(s) == Trim(Keep(s, LAMBDA k : ~InCall(s, k)))
ToolCalls(s) == Cardinality({k \in DOMAIN s : s[k] = ")" /\ InCall(s, k)})

---------------------------------------------------------------------------

ReplyTypeOK ==
  /\ style \in ReplyStyles /\ replyPc \in {"start", "stream", "ended", "failed"}
  /\ raw \in Text /\ text \in Text
  /\ Len(got) =< Len(cur)
  /\ opened \in BOOLEAN /\ toolSeen \in BOOLEAN
  /\ attempt \in 1..MaxAttempts /\ textEmitted \in BOOLEAN

\* A frame is its name and the index of its block, 0 if it has none.
Frames(names) == [k \in DOMAIN names |-> <<names[k], 0>>]
Named(names) == SelectSeq(frames, LAMBDA f : f[1] \in names)

FirstFrames(s) ==
  CASE s = "buffered" -> <<>>
    [] s = "chat" -> Frames(<<"open">>)
    [] s = "responses" -> Frames(<<"created", "item.added">>)
    [] s = "messages" -> Frames(<<"message_start", "start">>)
    [] s = "messages with tools" -> Frames(<<"message_start">>)

ReplyInit ==
  /\ style \in ReplyStyles
  /\ replyPc = "start"
  /\ raw = <<>> /\ text = <<>> /\ cur = <<>> /\ got = <<>>
  /\ opened = (style = "messages") /\ toolSeen = FALSE
  /\ frames = FirstFrames(style)
  /\ attempt = 1 /\ textEmitted = FALSE

---------------------------------------------------------------------------
(* Handing a delta to the client. *)

Sends(more) == frames' = frames \o more

ChatDelta(delta) ==
  /\ got' = got \o delta
  /\ Sends(CASE style = "buffered" -> <<>>
             [] style = "responses" -> Frames(<<"delta">>)
             [] style = "chat" -> Frames(IF Named({"role"}) = <<>> THEN <<"role">> ELSE <<"content">>))
  /\ UNCHANGED <<opened, toolSeen>>

\* messages_stream: the text before the first tag is passed on as it grows.
MessageDelta(delta) ==
  LET all == cur \o delta
      visible == IF ToolMode THEN StreamableText(all) ELSE all
      grows == ~toolSeen /\ IsStrictPrefix(got, visible)
  IN /\ got' = IF grows THEN visible ELSE got
     /\ opened' = (opened \/ grows)
     /\ Sends(IF ~grows THEN <<>> ELSE Frames(IF opened THEN <<"delta">> ELSE <<"start", "delta">>))
     /\ toolSeen' = (toolSeen \/ visible # all)

\* Mutant: only the growth beyond the old length is sent.
DeltaByLength(new) == SubSeq(new, Len(text) + 1, Len(new))

\* What push calls the delta: the growth, or the whole text if it is not an
\* extension of the old one.
Delta(new) == IF IsPrefix(text, new) THEN SubSeq(new, Len(text) + 1, Len(new)) ELSE new

\* Events that leave the sanitized text as it was give no delta.
Decode(newRaw) ==
  /\ raw' = newRaw
  /\ text' = Sanitize(newRaw)
  /\ IF text' = text \/ Delta(text') = <<>>
       THEN UNCHANGED <<cur, got, opened, toolSeen, frames, textEmitted>>
       ELSE /\ cur' = cur \o Delta(text')
            /\ textEmitted' = TRUE
            /\ IF IsMessage THEN MessageDelta(Delta(text')) ELSE ChatDelta(Delta(text'))
  /\ UNCHANGED <<style, replyPc, attempt>>

\* run_text_stream up to its loop: stream_conversation bootstraps, asks for the
\* chat requirements and posts the conversation; what fails is ReplyFails.
StartReply ==
  /\ replyPc = "start"
  /\ replyPc' = "stream"
  /\ UNCHANGED <<style, raw, text, cur, got, opened, toolSeen, frames, attempt, textEmitted>>

\* What one patch appends: tags only to replies of requests with tools, where
\* they may be cut anywhere, and spaced punctuation only to the others.
Pieces ==
  IF ToolMode
    THEN {<<"w">>, <<" ">>, <<"<">>, <<"<", "(">>, <<"(">>, <<")">>}
    ELSE {<<"w">>, <<" ">>, <<".">>, <<" ", ".">>}

AppendPatch ==
  /\ replyPc = "stream"
  /\ \E piece \in Pieces :
       /\ Len(cur) + Len(piece) =< MaxLength /\ Len(raw) + Len(piece) =< MaxLength
       /\ Decode(raw \o piece)

\* A message with the whole text replaces what was there.
FullMessage ==
  /\ replyPc = "stream" /\ Len(cur) < MaxLength
  /\ Decode(<<"w">>)

\* A message of the history is upstream repeating what it was sent.
HistoryMessage ==
  /\ replyPc = "stream" /\ raw # <<>>
  /\ raw' = <<>> /\ text' = <<>>
  /\ UNCHANGED <<style, replyPc, cur, got, opened, toolSeen, frames, attempt, textEmitted>>

---------------------------------------------------------------------------
(* The end of the stream. *)

\* stream_buffered_blocks for n tool blocks from index first on.
ToolBlocks(first, n) ==
  [k \in 1..3 * n |-> LET names == <<"start", "delta", "stop">>
                      IN <<names[((k - 1) % 3) + 1], first + ((k - 1) \div 3)>>]

Closing == IF opened THEN Frames(<<"stop">>) ELSE <<>>
MessageStop == Frames(<<"message_delta", "message_stop">>)

\* The finish of messages_stream.  Text that was not streamed is sent before
\* the tool calls, though block 0 may be closed by then.
MessageEnd ==
  LET calls == IF ToolMode THEN ToolCalls(cur) ELSE 0
      block == StripToolMarkup(cur)
      rest == IF calls > 0 THEN SubSeq(block, Len(got) + 1, Len(block)) ELSE <<>>
      late == IF rest = <<>> THEN <<>>
              ELSE Frames(IF opened THEN <<"delta">> ELSE <<"start", "delta", "stop">>)
      first == IF opened \/ block # <<>> THEN 1 ELSE 0
  IN /\ got' = got \o rest
     /\ Sends(Closing \o late \o ToolBlocks(first, calls) \o MessageStop)

ChatEnd ==
  /\ UNCHANGED got
  /\ Sends(Frames(CASE style = "buffered" -> <<"answer">>
                    [] style = "chat" /\ Named({"role"}) = <<>> -> <<"role", "stop", "done">>
                    [] style = "chat" /\ Named({"role"}) # <<>> -> <<"stop", "done">>
                    [] style = "responses" -> <<"text.done", "item.done", "completed", "done">>))

ReplyEnds ==
  /\ replyPc = "stream"
  /\ replyPc' = "ended"
  /\ IF IsMessage THEN MessageEnd ELSE ChatEnd
  /\ UNCHANGED <<style, raw, text, cur, opened, toolSeen, attempt, textEmitted>>

\* The next account is tried only while nothing was emitted.
TriesNext == attempt < MaxAttempts /\ ~textEmitted

\* A refused token; the last account's, or one after the first delta, is the
\* client's error, like every other failure.
ReplyFails ==
  /\ replyPc \in {"start", "stream"}
  /\ \E refused \in BOOLEAN :
       IF refused /\ TriesNext
         THEN /\ attempt' = attempt + 1
              /\ replyPc' = "start"
              /\ raw' = <<>> /\ text' = <<>>
              /\ UNCHANGED frames
         ELSE /\ replyPc' = "failed"
              /\ Sends(Frames(IF style \in {"chat", "responses"} THEN <<"error", "done">> ELSE <<"error">>))
              /\ UNCHANGED <<raw, text, attempt>>
  /\ UNCHANGED <<style, cur, got, opened, toolSeen, textEmitted>>

---------------------------------------------------------------------------

ReplyNext == StartReply \/ AppendPatch \/ FullMessage \/ HistoryMessage \/ ReplyEnds \/ ReplyFails

ReplySpec == ReplyInit /\ [][ReplyNext]_replyVars

---------------------------------------------------------------------------
(* Properties. *)

\* However upstream cuts the reply into patches, and although sanitizing may
\* take back what was sent, the client is never short of text: what it was
\* sent ends with the text the decoder has.
NothingMissing == ~ToolMode => got = cur /\ IsSuffix(text, got)

\* services/protocol/anthropic_v1_messages.rs describes a text block as start,
\* deltas, stop.  Here: a delta comes only while its block is open.
DeltasInOpenBlocks ==
  IsMessage =>
    \A k \in DOMAIN frames : \A b \in 0..MaxLength :
      frames[k] = <<"delta", b>> =>
        /\ \E j \in 1..k - 1 : frames[j] = <<"start", b>>
        /\ \A j \in 1..k - 1 : frames[j] # <<"stop", b>>
=============================================================================
