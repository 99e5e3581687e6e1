---------------------------- MODULE AgentStream ----------------------------
(***************************************************************************)
(* One streamed attempt of an agent: the provider's answers arrive event   *)
(* by event, are assembled to parts, handed to the agent as they grow and  *)
(* shown in the chat log; the agent calls tools and asks again until an    *)
(* answer is its result.  The provider ends an answer where it likes, and  *)
(* requests, streams and tools fail at any point.                          *)
(***************************************************************************)
EXTENDS History

CONSTANTS
  Apis,           \* subset of {"responses", "chat"}
  OutputRetries,  \* how often an answer without result is asked for again
  MaxAnswers,     \* bound: answers in a run
  MaxSize,        \* bound: items and pieces of all answers of a run
  MaxItems,       \* bound: items of an answer
  MaxSub,         \* bound: the number of the last content or summary of an item
  MaxTags         \* bound: thinking tags in an item

ASSUME AgentStreamAssumption ==
  /\ Apis \subseteq {"responses", "chat"}
  /\ {OutputRetries, MaxAnswers, MaxSize, MaxItems, MaxSub, MaxTags} \subseteq Nat
  /\ Tags \subseteq Nat \ {0}  \* words are positive numbers
  /\ Break \notin Nat \ {0}

VARIABLES
  pc,        \* "requesting", "receiving", "answered", "calling", "finishing" or an end
  api,       \* the API of the model profile
  ids,       \* the server labels its items
  named,     \* no two calls of a run have one id: the provider or its labels tell them apart
  answer,    \* what the provider has said of the current answer
  assembly,  \* what the adapter has made of it
  messages,  \* the new messages of the run
  calling,   \* results of the calls of the last answer
  retries,   \* answers without result so far
  turn,      \* the chat log and the state of the streaming
  collided,  \* history: two items of an answer, or two calls of the run, had one id
  size       \* items and pieces so far (bounded by MaxSize)

connection == <<api, ids, named>>
vars == <<pc, connection, answer, assembly, messages, calling, retries, turn, collided, size>>

Ended == {"done", "partial", "raw"}

TypeOK ==
  /\ pc \in {"requesting", "receiving", "answered", "calling", "finishing"} \cup Ended
  /\ api \in Apis /\ {ids, named, answer.refused} \subseteq BOOLEAN
  /\ \A i \in DOMAIN answer.items :
       answer.items[i].kind \in Kinds /\ Len(answer.items[i].pieces) <= size
  /\ assembly.argDeltas \subseteq {ItemId(ids, i) : i \in 1..size}
  /\ \A i \in DOMAIN messages : messages[i].role \in {"response", "request"}
  /\ \A i \in DOMAIN calling : calling[i].returned \in BOOLEAN
  /\ retries \in 0..OutputRetries
  /\ turn.open \in BOOLEAN /\ turn.emitted \in BOOLEAN

Init ==
  /\ pc = "requesting"
  /\ api \in Apis
  /\ ids \in IF api = "responses" THEN BOOLEAN ELSE {TRUE}
  /\ named \in IF ids THEN {TRUE} ELSE BOOLEAN
  /\ answer = NoAnswer
  /\ assembly = NoAssembly
  /\ messages = <<>>
  /\ calling = <<>>
  /\ retries = 0
  /\ turn = NewTurn
  /\ collided = FALSE
  /\ size = 0

Answers ==
  LET Add(answers, message) == IF message.role = "response" THEN Append(answers, message) ELSE answers
  IN  FoldLeft(Add, <<>>, messages)

-----------------------------------------------------------------------------
(* Failures.                                                               *)

\* A run that showed something ends with an apology, any other raises, and the
\* next profile may answer instead.  The messages of the attempt are lost.
Fail ==
  /\ pc' = IF turn.emitted THEN "partial" ELSE "raw"
  /\ turn' = IF turn.emitted THEN FailureResult(turn) ELSE turn
  /\ answer' = NoAnswer /\ assembly' = NoAssembly
  /\ messages' = <<>> /\ calling' = <<>> /\ retries' = 0
  /\ UNCHANGED connection

\* A status error or no connection; a timeout, a broken line or an event the
\* adapter does not support.
RequestFails == pc = "requesting" /\ Fail /\ UNCHANGED <<collided, size>>
StreamBreaks == pc = "receiving" /\ Fail /\ UNCHANGED <<collided, size>>

-----------------------------------------------------------------------------
(* The provider's stream.                                                  *)

OpenStream ==
  /\ pc = "requesting"
  /\ Len(Answers) < MaxAnswers
  /\ pc' = "receiving"
  /\ answer' = NoAnswer
  /\ assembly' = NoAssembly
  /\ UNCHANGED <<connection, messages, calling, retries, turn, collided, size>>

\* Without labels, the second content of the first item has the id of the second item.
IdsCollide(said) ==
  ~ids /\ Len(said.items) > 1 /\ said.items[1].kind = "message" /\ Subs(said.items[1]) > 1

\* The next server-sent event, with the answer said so far.
Deliver(said, e) ==
  LET update == Assemble(api, ids, assembly, e) IN
  /\ collided' = (collided \/ IdsCollide(said))
  /\ IF update.ok
     THEN /\ answer' = said
          /\ assembly' = [parts |-> update.parts, argDeltas |-> ArgDeltaItemIds(ids, assembly, e)]
          /\ turn' = AgentEventsToChatDeltas(turn, update.out)
          /\ UNCHANGED <<pc, connection, messages, calling, retries>>
     ELSE Fail

Done == \A i \in DOMAIN answer.items : answer.items[i].done
Receiving == pc = "receiving" /\ ~answer.refused
Growing(n) == Receiving /\ size + n <= MaxSize /\ size' = size + n

AnotherItem(n) == Growing(n) /\ Len(answer.items) < MaxItems

\* Chat Completions has no items: reasoning, then text, then calls.
Follows(kind) ==
  \A i \in DOMAIN answer.items :
    LET before == answer.items[i].kind IN
    CASE kind = "reasoning" -> FALSE
      [] kind = "message" -> before = "reasoning"
      [] kind = "function_call" -> TRUE

PieceType(kind) ==
  CASE kind = "reasoning" -> "reasoning"
    [] kind = "message" -> "text"
    [] kind = "function_call" -> "arguments"

\* The next word.  Text may be split so that a tag is a delta of its own.
Spoken(kind, pieces) ==
  LET IsTag(piece) == piece.word \in Tags IN
  {Len(pieces) + 1} \cup
    IF api = "chat" /\ kind = "message" /\ Len(SelectSeq(pieces, IsTag)) < MaxTags THEN Tags ELSE {}

\* An item with its first piece.  That a message or a reasoning item was added or is
\* done is an event of its own, which does nothing.  Calls may be streamed side by
\* side, everything else is sequential.
AddItem(kind) ==
  /\ AnotherItem(1)
  /\ IF api = "chat" THEN Follows(kind) ELSE Done /\ kind # "function_call"
  /\ \E word \in Spoken(kind, <<>>) :
       Deliver([answer EXCEPT !.items =
                  Append(@, [NewItem(kind) EXCEPT !.pieces = <<[sub |-> 0, word |-> word]>>, !.done = TRUE])],
               Event(PieceType(kind), Len(answer.items) + 1, 0, <<word>>))

\* Some servers send arguments with the item already.
AddCall(told) ==
  LET pieces == IF told THEN <<[sub |-> 0, word |-> 1]>> ELSE <<>>
      call == [NewItem("function_call") EXCEPT !.pieces = pieces, !.told = told]
  IN  /\ AnotherItem(IF told THEN 2 ELSE 1) /\ api = "responses"
      /\ Deliver([answer EXCEPT !.items = Append(@, call)],
                 Event("call_added", Len(answer.items) + 1, 0, Words(call)))

AddSealedReasoning ==
  /\ AnotherItem(1) /\ api = "responses" /\ Done
  /\ Deliver([answer EXCEPT !.items =
                 Append(@, [NewItem("reasoning") EXCEPT !.signed = TRUE, !.done = TRUE])],
             Event("signed_done", Len(answer.items) + 1, 0, <<>>))

AddPiece(i, sub) ==
  LET item == answer.items[i]
  IN  /\ Growing(1)
      /\ IF api = "responses" /\ item.kind = "function_call"
         THEN ~item.done /\ sub = 0
         ELSE i = Len(answer.items) /\ ~item.signed /\ sub \in {Subs(item) - 1, Subs(item)}
      /\ api = "chat" => sub = 0
      /\ \E word \in Spoken(item.kind, item.pieces) :
           Deliver([answer EXCEPT !.items[i] =
                      [item EXCEPT !.pieces = Append(@, [sub |-> sub, word |-> word]), !.told = FALSE]],
                   Event(PieceType(item.kind), i, sub, <<word>>))

\* The finished call repeats its arguments; a server may have sent no deltas of them.
FinishCall(i, undelivered) ==
  LET item == answer.items[i]
      pieces == IF undelivered THEN <<[sub |-> 0, word |-> 1]>> ELSE item.pieces
      finished == [item EXCEPT !.pieces = pieces, !.done = TRUE]
  IN  /\ Receiving /\ ~item.done
      /\ undelivered => item.pieces = <<>>
      /\ Deliver([answer EXCEPT !.items[i] = finished], Event("call_done", i, 0, Words(finished)))
      /\ UNCHANGED size

SignReasoning ==
  LET i == Len(answer.items) IN
  /\ Receiving /\ api = "responses" /\ i > 0
  /\ answer.items[i].kind = "reasoning" /\ ~answer.items[i].signed
  /\ Deliver([answer EXCEPT !.items[i].signed = TRUE], Event("signed_done", i, 0, <<>>))
  /\ UNCHANGED size

\* Bound: only an answer without text and calls is refused.
Refuse ==
  /\ Receiving /\ UNCHANGED size
  /\ \A i \in DOMAIN answer.items : answer.items[i].kind = "reasoning"
  /\ Deliver([answer EXCEPT !.refused = TRUE], Event("refusal", 1, 0, <<>>))

\* [DONE], or the end of the body wherever it comes: the answer counts as complete.
EndStream ==
  /\ pc = "receiving"
  /\ pc' = "answered"
  /\ messages' = Append(messages, [role |-> "response", parts |-> assembly.parts])
  /\ UNCHANGED <<connection, answer, assembly, calling, retries, turn, collided, size>>

-----------------------------------------------------------------------------
(* Pydantic AI's agent, and the tools.                                     *)

Calls == CallsOf(Last(messages))

\* The call_id of the provider or the label of its item; without both, or with numbers
\* that begin anew, the ids of an answer are those of the answer before.
CallIds ==
  [i \in DOMAIN Calls |-> IF named THEN <<Len(Answers), Calls[i]>> ELSE <<Calls[i]>>]

IdsRecur ==
  \E i \in DOMAIN CallIds :
    CallIds[i] \in turn.callIds \/ \E j \in DOMAIN CallIds : j # i /\ CallIds[j] = CallIds[i]

StartCalls ==
  /\ pc = "answered" /\ Calls # <<>>
  /\ pc' = "calling"
  /\ calling' = [i \in DOMAIN Calls |-> [kind |-> "return", call |-> Calls[i], returned |-> FALSE]]
  /\ LET events == [i \in DOMAIN Calls |->
                       [type |-> "call", call |-> Calls[i], id |-> CallIds[i]]]
         shown == AgentEventsToChatDeltas(turn, events)
         CallStarted(run, call) == Record(run, "tool_call")
     IN  turn' = [shown EXCEPT !.run = FoldLeft(CallStarted, @, Calls)]
  /\ collided' = (collided \/ IdsRecur)
  /\ UNCHANGED <<connection, answer, assembly, messages, retries, size>>

\* Calls run side by side: results come in any order, the messages get them in
\* the order of the calls.
ReturnCall(i) ==
  LET results == [calling EXCEPT ![i].returned = TRUE] IN
  /\ pc = "calling" /\ ~calling[i].returned
  /\ turn' = ProcessAgentEvent([turn EXCEPT !.run = Record(@, "tool_call")],
                               [type |-> "result", call |-> calling[i].call])
  /\ IF \E j \in DOMAIN results : ~results[j].returned
     THEN calling' = results /\ UNCHANGED <<pc, messages>>
     ELSE /\ pc' = "requesting"
          /\ calling' = <<>>
          /\ messages' = Append(messages, [role |-> "request", parts |-> results])
  /\ UNCHANGED <<connection, answer, assembly, retries, collided, size>>

\* HAToolRetryExhausted, or an error that is not retried.
ToolFails == pc = "calling" /\ Fail /\ UNCHANGED <<collided, size>>

HasText(message) == TextOf(message) # <<>>
NothingNew == Last(messages).parts = <<>> /\ \E i \in DOMAIN Answers : HasText(Answers[i])

Succeed ==
  /\ pc = "answered" /\ Calls = <<>>
  /\ HasText(Last(messages)) \/ NothingNew
  /\ pc' = "finishing"
  /\ turn' = ProcessAgentEvent(turn, [type |-> "run_result"])
  /\ UNCHANGED <<connection, answer, assembly, messages, calling, retries, collided, size>>

\* Thoughts alone are answered with a retry prompt, nothing at all with an empty
\* request.
AskAgain ==
  /\ pc = "answered" /\ Calls = <<>> /\ ~HasText(Last(messages)) /\ ~NothingNew
  /\ UNCHANGED <<collided, size>>
  /\ IF retries = OutputRetries THEN Fail
     ELSE /\ pc' = "requesting"
          /\ retries' = retries + 1
          /\ messages' = Append(messages,
               [role |-> "request",
                parts |-> IF Last(messages).parts = <<>> THEN <<>>
                          ELSE <<[kind |-> "retry", call |-> 0, returned |-> TRUE]>>])
          /\ UNCHANGED <<connection, answer, assembly, calling, turn>>

Finish ==
  /\ pc = "finishing"
  /\ pc' = "done"
  /\ turn' = LET finished == AppendMissingFinalText(Flush(turn), messages) IN
             [finished EXCEPT !.run = Record(Record(@, "output"), "llm_response")]
  /\ UNCHANGED <<connection, answer, assembly, messages, calling, retries, collided, size>>

Next ==
  \/ OpenStream \/ RequestFails \/ StreamBreaks
  \/ \E kind \in Kinds : AddItem(kind)
  \/ \E i \in DOMAIN answer.items, sub \in 0..MaxSub : AddPiece(i, sub)
  \/ \E told \in BOOLEAN : AddCall(told)
  \/ AddSealedReasoning \/ SignReasoning
  \/ \E i \in DOMAIN answer.items, undelivered \in BOOLEAN : FinishCall(i, undelivered)
  \/ Refuse \/ EndStream
  \/ StartCalls \/ ToolFails
  \/ \E i \in DOMAIN calling : ReturnCall(i)
  \/ Succeed \/ AskAgain \/ Finish

Spec == Init /\ [][Next]_vars

-----------------------------------------------------------------------------
(* Properties.                                                             *)

Unseparated(words) ==
  LET Keep(kept, word) == IF word = Break THEN kept ELSE Append(kept, word)
  IN  FoldLeft(Keep, <<>>, words)

\* The log as answers, each with the results of its calls; a retry prompt of the
\* agent itself answers no call.
Rounds(log) ==
  LET AddContent(rounds, content) ==
        CASE IsAssistant(content) ->
               Append(rounds, [content |-> [content EXCEPT !.text = Unseparated(@)], results |-> {}])
          [] ~IsAssistant(content) /\ content.calls # <<0>> ->
               [rounds EXCEPT ![Len(rounds)].results = @ \cup {content}]
          [] OTHER -> rounds
  IN  FoldLeft(AddContent, <<>>, log)

AllTexts ==
  LET Add(texts, message) == IF message.role = "response" THEN texts \o TextOf(message) ELSE texts
  IN  FoldLeft(Add, <<>>, messages)

\* The answer before the last shows that a text was followed by a round without one:
\* the log then loses the separator that was streamed.
SeparatorLost ==
  /\ Len(Answers) > 2
  /\ ~HasText(Answers[Len(Answers) - 1])
  /\ \E i \in 1..Len(Answers) - 2 : HasText(Answers[i])

SaidIn(text, speech) ==
  \E i \in 0..Len(speech) - Len(text) : \A k \in DOMAIN text : speech[i + k] = text[k]

LogIsWhole == Rounds(turn.log) = Rounds(AppendAgentMessages(messages))
HeardIsWhole == Unseparated(turn.heard) = AllTexts
SpeechIsWhole ==
  ~SeparatorLost => \A i \in DOMAIN messages : messages[i].role = "response" =>
    SaidIn(TextOf(messages[i]), MergedAssistantSpeech(turn.log))

\* A streamed run leaves the log that its messages would have made, with the same
\* texts, thoughts, calls and results round by round; the listener heard every text
\* once and in order; and no text of the turn is missing from what is spoken: unless the
\* ids of items or calls recur, when a later call is not shown but its result is.
AnswerIsWhole == pc = "done" /\ ~collided => LogIsWhole /\ HeardIsWhole /\ SpeechIsWhole

\* Texts of one message may be one part or several.
JoinTexts(parts) ==
  LET Join(joined, part) ==
        IF part.kind = "text" /\ joined # <<>> /\ Last(joined).kind = "text"
        THEN [joined EXCEPT ![Len(joined)].words = @ \o part.words]
        ELSE Append(joined, Part(part.kind, part.words, part.call))
  IN  FoldLeft(Join, <<>>, parts)

\* A whole answer has thinking tags in its text.
Tagged ==
  /\ api = "chat"
  /\ \E i \in DOMAIN answer.items :
       /\ answer.items[i].kind = "message"
       /\ \E k \in DOMAIN answer.items[i].pieces :
            answer.items[i].pieces[k].word \in Tags

\* The parts assembled from a complete stream are those of the same answer received
\* whole, however the calls were interleaved: arguments neither doubled nor lost, be they
\* in deltas, in the finished item or in both, or begun with the item that is added.
\* Two answers differ when they are streamed: one with a delta that is a thinking
\* tag, and one with all arguments of a call in the item that is added and again in the
\* finished one, which doubles them.
PartsSurviveStreaming ==
  /\ pc = "answered" /\ Done /\ ~answer.refused /\ ~collided
  /\ ~Tagged /\ \A i \in DOMAIN answer.items : ~answer.items[i].told
  => JoinTexts(Last(messages).parts) = JoinTexts(ProcessResponse(answer))

\* What a request tells of the assistant, as the texts, thoughts, calls and outputs of
\* one round after the other, without the prompts between them.
Told(items) ==
  LET NoRound == [text |-> <<>>, thinking |-> <<>>, calls |-> <<>>, outputs |-> <<>>]
      Add(rounds, item) ==
        LET now == Len(rounds) IN
        CASE item.type = "assistant" ->
               LET grown == IF now = 0 \/ rounds[now].outputs # <<>>
                            THEN Append(rounds, NoRound) ELSE rounds
               IN  [grown EXCEPT ![Len(grown)].text = @ \o Unseparated(item.text),
                                 ![Len(grown)].thinking = @ \o Unseparated(item.thinking),
                                 ![Len(grown)].calls = @ \o item.calls]
          [] item.type = "output" /\ item.calls # <<0>> ->
               [rounds EXCEPT ![now].outputs = @ \o item.calls]
          [] OTHER -> rounds
      IsTold(round) == round # NoRound
  IN  SelectSeq(FoldLeft(Add, <<>>, items), IsTold)

Prompts(items) ==
  LET IsPrompt(item) == item.type \in {"system", "user"} IN SelectSeq(items, IsPrompt)

\* The next turn tells the provider of this one what the run itself would have told:
\* whether it was streamed or not and in whatever order results came, texts,
\* thoughts, calls and their outputs come round by round, every call has its one
\* output, and only the new prompt is asked.  After a run that failed with a part
\* of its answer shown, there may be calls without output but none the other way.  No id
\* of items or calls may recur: the history would tell the output of a call that it lacks.
HistoryTellsTheTurn ==
  LET before == <<SystemContent(<<"s">>), UserContent(<<"u">>)>>
      NextRequest(log) == FirstRequest(api, before \o log \o <<UserContent(<<"v">>)>>)
      Asked(items) == [i \in DOMAIN Prompts(items) |-> Prompts(items)[i].text]
      Outputs(round) == ToSet(round.outputs)
  IN  /\ pc \in {"done", "partial"} /\ ~collided =>
           LET items == NextRequest(turn.log) IN
           /\ Asked(items) = <<<<"s">>, <<"u">>, <<"v">>>> /\ Last(items).type = "user"
           /\ \A i \in DOMAIN Told(items) :
                LET round == Told(items)[i] IN
                Outputs(round) \subseteq ToSet(round.calls) /\ IsInjective(round.outputs)
      /\ pc = "done" /\ ~collided =>
           \A log \in {turn.log, AppendAgentMessages(messages)} :
             LET told == Told(NextRequest(log))
                 whole == Told(MapMessages(api, messages))
             IN  /\ Len(told) = Len(whole)
                 /\ \A i \in DOMAIN told :
                      /\ [told[i] EXCEPT !.outputs = <<>>] = [whole[i] EXCEPT !.outputs = <<>>]
                      /\ Outputs(told[i]) = Outputs(whole[i])
                      /\ Outputs(told[i]) = ToSet(told[i].calls)

\* What a reader gets who asks for the next page, from an offset, until there are no more.
Pages(timeline, limit) ==
  LET pages[offset \in 0..Len(timeline.items) + limit] ==
        LET page == TimelinePage(timeline, offset, limit) IN
        page.items \o (IF page.more THEN pages[offset + limit] ELSE <<>>)
  IN  pages

Numbers(events) == [i \in DOMAIN events |-> events[i].seq]

\* The numbers of the events that are kept of n: the first and the last, as many of each
\* as an edge is long.
KeptLength(n) == Smaller(n, 2 * Edge)
Kept(n) == [i \in 1..KeptLength(n) |-> IF i <= Edge THEN i ELSE n - KeptLength(n) + i]

\* Whoever pages through the timeline gets, in order and once, the first events of
\* the run and the last, and is told how many are missing between them; so does
\* the reader of the stream trace.
TimelineTellsItsGaps ==
  LET timeline == Timeline(turn.run)
      total == turn.run.total
      trace == TracePayload(turn.trace)
  IN  /\ \A limit \in 1..Edge + 1 : Numbers(Pages(timeline, limit)[0]) = Kept(total)
      /\ KeptLength(total) + timeline.omitted = total
      /\ Numbers(trace.first \o trace.last) = Kept(turn.trace.total)
      /\ trace.omitted > 0 <=> KeptLength(turn.trace.total) < turn.trace.total
=============================================================================
