------------------------------ MODULE History ------------------------------
(***************************************************************************)
(* What a provider is told: the chat log of the earlier turns as messages, *)
(* the prompt of the turn split from them, and messages as the input items *)
(* of either API.  Thoughts are told as such, whether in a field of their  *)
(* own, as a reasoning item or as text between think tags.                 *)
(***************************************************************************)
EXTENDS ChatDeltas

\* What Home Assistant puts into the log before a turn.
SystemContent(text) == [Blank EXCEPT !.role = "system", !.text = text]
UserContent(text) == [Blank EXCEPT !.role = "user", !.text = text]

Request(part) == [role |-> "request", parts |-> <<part>>]

-----------------------------------------------------------------------------
(* From the log to messages.                                               *)

\* Mutant: the calls of a content that has text are forgotten.
TextOrCalls(content) ==
  IF content.text # <<>> THEN <<Part("text", content.text, 0)>>
  ELSE [i \in DOMAIN content.calls |-> Part("call", <<>>, content.calls[i])]

AssistantParts(content) ==
  LET Told(kind, words) == IF words = <<>> THEN <<>> ELSE <<Part(kind, words, 0)>> IN
  Told("text", content.text) \o Told("thinking", content.thinking)
    \o [i \in DOMAIN content.calls |-> Part("call", <<>>, content.calls[i])]

ContentToMessage(content) ==
  CASE content.role = "assistant" -> [role |-> "response", parts |-> AssistantParts(content)]
    [] content.role = "tool_result" -> Request(Part("return", <<>>, content.calls[1]))
    [] OTHER -> Request(Part(content.role, content.text, 0))

ChatLogContentToModelMessages(log) == [i \in DOMAIN log |-> ContentToMessage(log[i])]

\* The last user prompt and the messages without it; what shares its message stays.
\* (Home Assistant has put the turn's prompt into the log, so there is one.)
SplitLastUserPrompt(messages) ==
  LET IsPrompt(part) == part.kind = "user"
      Prompts(i) == {p \in DOMAIN messages[i].parts : IsPrompt(messages[i].parts[p])}
      Greatest(numbers) == CHOOSE n \in numbers : \A m \in numbers : m <= n
      at == Greatest({i \in DOMAIN messages : messages[i].role = "request" /\ Prompts(i) # {}})
      others == RemoveAt(messages[at].parts, Greatest(Prompts(at)))
  IN  [prompt |-> messages[at].parts[Greatest(Prompts(at))],
       history |-> IF others = <<>> THEN RemoveAt(messages, at)
                   ELSE ReplaceAt(messages, at, [messages[at] EXCEPT !.parts = others])]

-----------------------------------------------------------------------------
(* From messages to the items of a request: [type, text, thinking, calls]. *)

Item(type, text, thinking, calls) ==
  [type |-> type, text |-> text, thinking |-> thinking, calls |-> calls]

\* Results and retry prompts of a call are its output; any other retry prompt is the user's.
MapModelRequest(message) ==
  LET MapPart(part) ==
        CASE part.kind = "return" \/ part.call # 0 -> Item("output", <<>>, <<>>, <<part.call>>)
          [] part.kind = "retry" /\ part.call = 0 -> Item("retry", <<>>, <<>>, <<>>)
          [] OTHER -> Item(part.kind, part.words, <<>>, <<>>)
  IN  [i \in DOMAIN message.parts |-> MapPart(message.parts[i])]

WordsOfKind(message, kind) ==
  LET IsKind(part) == part.kind = kind
      parts == SelectSeq(message.parts, IsKind)
  IN  [i \in DOMAIN parts |-> parts[i].words]

\* Chat Completions: one message, its texts joined by empty lines.
MapChatResponse(message) ==
  LET Joined(texts) == FlattenSeq([i \in DOMAIN texts |-> IF i = 1 THEN texts[i] ELSE <<Break>> \o texts[i]])
  IN  IF message.parts = <<>> THEN <<>>
      ELSE <<Item("assistant", Joined(WordsOfKind(message, "text")),
                  Joined(WordsOfKind(message, "thinking")), CallsOf(message))>>

\* Responses: an item for each part.
MapResponsesResponse(message) ==
  LET MapPart(part) ==
        CASE part.kind = "text" -> Item("assistant", part.words, <<>>, <<>>)
          [] part.kind = "thinking" -> Item("assistant", <<>>, part.words, <<>>)
          [] part.kind = "call" -> Item("assistant", <<>>, <<>>, <<part.call>>)
  IN  [i \in DOMAIN message.parts |-> MapPart(message.parts[i])]

MapMessages(api, messages) ==
  LET Map(message) ==
        CASE message.role = "request" -> MapModelRequest(message)
          [] message.role = "response" /\ api = "chat" -> MapChatResponse(message)
          [] message.role = "response" /\ api = "responses" -> MapResponsesResponse(message)
  IN  FlattenSeq([i \in DOMAIN messages |-> Map(messages[i])])

\* The first request of the next turn, for the log it finds.
FirstRequest(api, log) ==
  LET split == SplitLastUserPrompt(ChatLogContentToModelMessages(log))
  IN  MapMessages(api, Append(split.history, Request(split.prompt)))
=============================================================================
