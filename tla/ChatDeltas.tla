----------------------------- MODULE ChatDeltas -----------------------------
(***************************************************************************)
(* From the events and messages of a Pydantic AI agent to the chat log of  *)
(* Home Assistant: live, delta by delta, with a listener that hears every  *)
(* delta; or from the messages when the run is over.  Also what of the log *)
(* is spoken.                                                              *)
(*                                                                         *)
(* A turn is the state of the streaming: the flags of the generator, the   *)
(* ChatLog (log, with the message being built in pending), what the        *)
(* listener heard, and the two recorders.  Text is a sequence of words;    *)
(* Break is the separator between the texts before and after tool results. *)
(***************************************************************************)
EXTENDS ResponseParts, RunTimeline

CONSTANTS Break, Sorry  \* _TOOL_RESUME_SEPARATOR; the text of a failed run

Assistant(text, thinking, calls) ==
  [role |-> "assistant", text |-> text, thinking |-> thinking, calls |-> calls]
ToolResult(call) ==
  [role |-> "tool_result", text |-> <<>>, thinking |-> <<>>, calls |-> <<call>>]
Blank == Assistant(<<>>, <<>>, <<>>)

NewTurn ==
  [open |-> FALSE, needsSeparator |-> FALSE, textSeen |-> FALSE, emitted |-> FALSE,
   callIds |-> {}, pending |-> Blank, log |-> <<>>, heard |-> <<>>,
   trace |-> NoEvents, deltas |-> NoEvents,
   run |-> Record(Record(NoEvents, "attempt"), "llm_request")]

-----------------------------------------------------------------------------
(* Home Assistant: ChatLog.async_add_delta_content_stream.                 *)

Flush(turn) ==
  [turn EXCEPT !.log = IF turn.pending = Blank THEN @ ELSE Append(@, turn.pending),
               !.pending = Blank]

AddDelta(turn, delta) ==
  CASE delta.type = "assistant" -> Flush(turn)
    [] delta.type = "tool_result" -> [Flush(turn) EXCEPT !.log = Append(@, delta.result)]
    [] delta.type = "content" ->
         [turn EXCEPT !.pending.text = @ \o delta.words, !.heard = @ \o delta.words]
    [] delta.type = "thinking" -> [turn EXCEPT !.pending.thinking = @ \o delta.words]
    [] delta.type = "call" -> [turn EXCEPT !.pending.calls = Append(@, delta.call)]

-----------------------------------------------------------------------------
(* Live events.                                                            *)

RecordEvent(turn) ==
  [turn EXCEPT !.trace = Record(@, "llm_stream"), !.run = Record(@, "llm_stream")]

\* Every delta is recorded and marks the run as heard before it is handed over.
Emit(turn, delta) ==
  AddDelta([turn EXCEPT !.emitted = TRUE,
                        !.deltas = Record(@, "chat_delta"), !.run = Record(@, "chat_delta")], delta)

OpenAssistant(turn) == [Emit(turn, [type |-> "assistant"]) EXCEPT !.open = TRUE]

\* Text that resumes after tool results starts with a separator, once.
ResumedTextSeparator(turn, words) == IF turn.needsSeparator THEN <<Break>> \o words ELSE words

EmitPart(turn, kind, words) ==
  CASE kind = "text" /\ words # <<>> ->
         [Emit(turn, [type |-> "content", words |-> ResumedTextSeparator(turn, words)])
            EXCEPT !.textSeen = TRUE, !.needsSeparator = FALSE]
    [] kind = "thinking" /\ words # <<>> -> Emit(turn, [type |-> "thinking", words |-> words])
    [] OTHER -> turn

HandlePartStart(turn, e) ==
  EmitPart(IF e.index = 0 THEN OpenAssistant(turn) ELSE turn, e.kind, e.words)

HandlePartDelta(turn, e) ==
  EmitPart(IF turn.open THEN turn ELSE OpenAssistant(turn), e.kind, e.words)

\* Arguments are only shown with the event that starts the call; no id is shown twice in
\* a run.
ToolCallToDelta(turn, e) ==
  IF e.id \in turn.callIds THEN turn
  ELSE [Emit(turn, [type |-> "call", call |-> e.call]) EXCEPT !.callIds = @ \cup {e.id}]

HandleToolCall(turn, e) ==
  ToolCallToDelta(IF turn.open THEN turn ELSE OpenAssistant(turn), e)

HandleToolResult(turn, e) ==
  [Emit(turn, [type |-> "tool_result", result |-> ToolResult(e.call)])
     EXCEPT !.open = FALSE, !.needsSeparator = @ \/ turn.textSeen, !.textSeen = FALSE]

ProcessAgentEvent(turn, e) ==
  LET recorded == RecordEvent(turn) IN
  CASE e.type = "start" -> HandlePartStart(recorded, e)
    [] e.type = "delta" -> HandlePartDelta(recorded, e)
    [] e.type = "call" -> HandleToolCall(recorded, e)
    [] e.type = "result" -> HandleToolResult(recorded, e)
    [] e.type = "run_result" -> recorded

AgentEventsToChatDeltas(turn, events) == FoldLeft(ProcessAgentEvent, turn, events)

-----------------------------------------------------------------------------
(* Messages: [role, parts] of a response, [role, parts] of a request with  *)
(* the results and retry prompts as [call, ...]; call 0 is no call.      *)

WordsIn(message, kind) ==
  LET Collect(words, part) == IF part.kind = kind THEN words \o part.words ELSE words
  IN  FoldLeft(Collect, <<>>, message.parts)
TextOf(message) == WordsIn(message, "text")

CallsOf(message) ==
  LET Collect(calls, part) == IF part.kind = "call" THEN Append(calls, part.call) ELSE calls
  IN  FoldLeft(Collect, <<>>, message.parts)

ResponseMessageToDeltas(message) ==
  LET content == Assistant(TextOf(message), WordsIn(message, "thinking"), CallsOf(message))
  IN  IF content = Blank THEN <<>> ELSE <<content>>

RequestMessageToDeltas(message) ==
  [i \in DOMAIN message.parts |-> ToolResult(message.parts[i].call)]

\* The log of a run that does not stream.
AppendAgentMessages(messages) ==
  LET Deltas(i) == IF messages[i].role = "response"
                   THEN ResponseMessageToDeltas(messages[i])
                   ELSE RequestMessageToDeltas(messages[i])
  IN  FlattenSeq([i \in DOMAIN messages |-> Deltas(i)])

FinalTextFromMessages(messages) ==
  LET responses == {i \in DOMAIN messages : messages[i].role = "response"} IN
  IF responses = {} THEN <<>>
  ELSE TextOf(messages[CHOOSE i \in responses : \A j \in responses : j <= i])

IsAssistant(content) == content.role = "assistant"

\* The content before the tool results at the end of the log has text.
ToolResumeSeparatorPrefix(log) ==
  LET end == IF IsAssistant(Last(log)) THEN Len(log) - 1 ELSE Len(log)
      before == {i \in 1..end : IsAssistant(log[i])}
      prior == CHOOSE i \in before : \A j \in before : j <= i
  IN  IF before # {} /\ prior # end /\ log[prior].text # <<>> THEN <<Break>> ELSE <<>>

RemovePrefix(words, prefix) ==
  IF IsPrefix(prefix, words) THEN SubSeq(words, Len(prefix) + 1, Len(words)) ELSE words

\* Mutant: the rewritten text lacks the separator.
FinalTextUnseparated(turn, messages) ==
  LET final == FinalTextFromMessages(messages) IN
  IF final = <<>> \/ turn.log = <<>> \/ ~IsAssistant(Last(turn.log)) THEN turn
  ELSE [turn EXCEPT !.log[Len(turn.log)].text = final]

\* The log ends with the final text; the listener is told what it missed if what
\* it heard is the beginning of that.
AppendMissingFinalText(turn, messages) ==
  LET final == FinalTextFromMessages(messages)
      prefix == IF turn.log = <<>> THEN <<>> ELSE ToolResumeSeparatorPrefix(turn.log)
      whole == prefix \o final
      streamed == Last(turn.log).text
      normalized == RemovePrefix(streamed, prefix)
      missing == CASE normalized = <<>> -> whole
                   [] normalized # <<>> /\ IsPrefix(normalized, final) -> RemovePrefix(final, normalized)
                   [] OTHER -> <<>>
  IN  CASE final = <<>> -> turn
        [] final # <<>> /\ (turn.log = <<>> \/ ~IsAssistant(Last(turn.log))) ->
             [turn EXCEPT !.log = Append(@, Assistant(whole, <<>>, <<>>)), !.heard = @ \o whole]
        [] OTHER ->
             [turn EXCEPT !.log[Len(turn.log)].text = whole,
                          !.heard = IF streamed = whole THEN @ ELSE @ \o missing]

-----------------------------------------------------------------------------
(* What is spoken.                                                         *)

MergeSpeech(speech, content) ==
  LET text == content.text
      resumed == RemovePrefix(text, <<Break>>)
  IN  CASE text = <<>> -> speech
        [] text # <<>> /\ (speech = <<>> \/ ~IsPrefix(<<Break>>, text)) -> text
        [] OTHER -> IF IsPrefix(speech, resumed) THEN resumed ELSE speech \o text

MergedAssistantSpeech(log) ==
  LET Merge(speech, content) == IF IsAssistant(content) THEN MergeSpeech(speech, content) ELSE speech
  IN  FoldLeft(Merge, <<>>, log)

\* A partial answer is closed with an apology; what was pending is lost with the
\* generator of the log.
FailureResult(turn) ==
  [turn EXCEPT !.log = Append(@, Assistant(<<Break, Sorry>>, <<>>, <<>>)),
               !.heard = @ \o <<Break, Sorry>>, !.pending = Blank]
=============================================================================
