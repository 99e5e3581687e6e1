--------------------------- MODULE ResponseParts ---------------------------
(***************************************************************************)
(* How an answer of an OpenAI-compatible provider becomes the parts of a   *)
(* ModelResponse: from the whole answer (_process_response) or from the    *)
(* server-sent events of either API, one at a time.                        *)
(*                                                                         *)
(* An answer is [api, ids, items, refused]: ids tells whether the server   *)
(* labels the items of the Responses API, and an item is                   *)
(* [kind, pieces, signed, done, told].  A piece is [sub, word], a word of  *)
(* the item's summary or content number sub, or of the arguments of a      *)
(* call; told is a call whose arguments came with its item and in no delta *)
(* so far.                                                                 *)
(***************************************************************************)
EXTENDS Naturals, SequencesExt

CONSTANTS OpeningTag, ClosingTag  \* "<think>" and "</think>", as words
Tags == {OpeningTag, ClosingTag}

Kinds == {"reasoning", "message", "function_call"}
NoAnswer == [items |-> <<>>, refused |-> FALSE]
NewItem(kind) ==
  [kind |-> kind, pieces |-> <<>>, signed |-> FALSE, done |-> FALSE, told |-> FALSE]

WordsOf(item, sub) ==
  LET Collect(words, piece) == IF piece.sub = sub THEN Append(words, piece.word) ELSE words
  IN  FoldLeft(Collect, <<>>, item.pieces)
Words(item) == [i \in DOMAIN item.pieces |-> item.pieces[i].word]
Subs(item) == IF item.pieces = <<>> THEN 0 ELSE Last(item.pieces).sub + 1

\* call is the number of the item a call part stands for.
Part(kind, words, call) == [kind |-> kind, words |-> words, call |-> call]

-----------------------------------------------------------------------------
(* The whole answer.                                                       *)

ReasoningParts(item) ==
  IF item.pieces = <<>>
  THEN IF item.signed THEN <<Part("thinking", <<>>, 0)>> ELSE <<>>
  ELSE [i \in 1..Subs(item) |-> Part("thinking", WordsOf(item, i - 1), 0)]

MessageParts(item) == [i \in 1..Subs(item) |-> Part("text", WordsOf(item, i - 1), 0)]

ProcessResponse(answer) ==
  LET PartsOf(i) ==
        LET item == answer.items[i] IN
        CASE item.kind = "reasoning" -> ReasoningParts(item)
          [] item.kind = "message" -> MessageParts(item)
          [] item.kind = "function_call" -> <<Part("call", Words(item), i)>>
  IN  IF answer.refused THEN <<>> ELSE FlattenSeq([i \in DOMAIN answer.items |-> PartsOf(i)])

-----------------------------------------------------------------------------
(* Pydantic AI's parts manager: parts found again by a vendor part id.  An *)
(* update is [parts, out, ok]: out are the events it tells the agent.      *)

Holds(parts, key) == \E i \in DOMAIN parts : parts[i].key = key
Slot(parts, key) == CHOOSE i \in DOMAIN parts : parts[i].key = key

Keyed(part, key) ==
  [kind |-> part.kind, words |-> part.words, call |-> part.call, key |-> key]
Started(i, part) == [type |-> "start", index |-> i - 1, kind |-> part.kind, words |-> part.words]
Extended(i, kind, words) == [type |-> "delta", index |-> i - 1, kind |-> kind, words |-> words]

HandleDelta(parts, key, part) ==
  IF ~Holds(parts, key)
  THEN [parts |-> Append(parts, Keyed(part, key)), ok |-> TRUE,
        out |-> <<Started(Len(parts) + 1, part)>>]
  ELSE LET i == Slot(parts, key) IN
       [parts |-> [parts EXCEPT ![i].words = @ \o part.words],
        ok |-> parts[i].kind = part.kind,
        out |-> <<Extended(i, part.kind, part.words)>>]

\* handle_tool_call_part overwrites what has the same id.
HandleCallPart(parts, key, part) ==
  LET i == IF Holds(parts, key) THEN Slot(parts, key) ELSE Len(parts) + 1 IN
  [parts |-> IF i > Len(parts) THEN Append(parts, Keyed(part, key))
             ELSE [parts EXCEPT ![i] = Keyed(part, key)],
   ok |-> TRUE, out |-> <<Started(i, part)>>]

-----------------------------------------------------------------------------
(* The answer as events [type, at, sub, word, words]: at is the number of  *)
(* the item.  assembly is [parts, argDeltas].                              *)

NoAssembly == [parts |-> <<>>, argDeltas |-> {}]
Event(type, at, sub, words) == [type |-> type, at |-> at, sub |-> sub, words |-> words]

\* Without labels an item is known by its output_index, except that 0 is falsy.
ItemId(ids, at) ==
  IF ids THEN <<"item", at>> ELSE IF at > 1 THEN <<"number", at - 1>> ELSE <<"response">>

EventItemId(ids, e) ==
  IF ids \/ e.at > 1 \/ e.type # "text" \/ e.sub = 0
  THEN ItemId(ids, e.at) ELSE <<"number", e.sub>>

ReasoningVendorId(ids, e) ==
  IF e.sub = 0 THEN EventItemId(ids, e) ELSE Append(EventItemId(ids, e), e.sub)

Nothing(assembly) == [parts |-> assembly.parts, ok |-> TRUE, out |-> <<>>]

HandleOutputItemAdded(ids, assembly, e) ==
  IF e.type = "call_added"
  THEN HandleCallPart(assembly.parts, ItemId(ids, e.at), Part("call", e.words, e.at))
  ELSE Nothing(assembly)

\* Mutant: the arguments of the finished item are taken although they were streamed.
DoneRepeatsArguments(ids, assembly, e) ==
  LET key == ItemId(ids, e.at) IN
  CASE e.type = "call_done" -> HandleDelta(assembly.parts, key, Part("call", e.words, e.at))
    [] e.type = "signed_done" -> HandleDelta(assembly.parts, key, Part("thinking", <<>>, 0))
    [] OTHER -> Nothing(assembly)

\* What is repeated when no delta brought the arguments is added to what came with the item.
HandleOutputItemDone(ids, assembly, e) ==
  LET key == ItemId(ids, e.at)
      args == IF key \in assembly.argDeltas THEN <<>> ELSE e.words
  IN  CASE e.type = "call_done" -> HandleDelta(assembly.parts, key, Part("call", args, e.at))
        [] e.type = "signed_done" -> HandleDelta(assembly.parts, key, Part("thinking", <<>>, 0))
        [] OTHER -> Nothing(assembly)

HandleOutputText(ids, assembly, e) ==
  HandleDelta(assembly.parts, EventItemId(ids, e), Part("text", e.words, 0))

\* Summaries; raw reasoning goes into the details of the part, which are left out.
HandleReasoning(ids, assembly, e) ==
  HandleDelta(assembly.parts, ReasoningVendorId(ids, e), Part("thinking", e.words, 0))

HandleArguments(ids, assembly, e) ==
  HandleDelta(assembly.parts, EventItemId(ids, e), Part("call", e.words, e.at))

\* A refusal and the lifecycle events make no part.
ProcessResponseEvent(ids, assembly, e) ==
  CASE e.type \in {"item_added", "call_added"} -> HandleOutputItemAdded(ids, assembly, e)
    [] e.type \in {"item_done", "call_done", "signed_done"} -> HandleOutputItemDone(ids, assembly, e)
    [] e.type = "text" -> HandleOutputText(ids, assembly, e)
    [] e.type = "reasoning" -> HandleReasoning(ids, assembly, e)
    [] e.type = "arguments" -> HandleArguments(ids, assembly, e)
    [] e.type = "refusal" -> Nothing(assembly)

\* Text in which a delta that is the opening tag begins a thinking part under the id of the
\* text, until one that is the closing tag.
Untracked(parts, key) ==
  [i \in DOMAIN parts |->
     IF parts[i].key = key THEN [parts[i] EXCEPT !.key = <<"past", i>>] ELSE parts[i]]

HandleTaggedText(parts, key, words) ==
  LET thinking == \E i \in DOMAIN parts : parts[i].key = key /\ parts[i].kind = "thinking" IN
  CASE thinking /\ words = <<ClosingTag>> ->
         [parts |-> Untracked(parts, key), ok |-> TRUE, out |-> <<>>]
    [] thinking /\ words # <<ClosingTag>> -> HandleDelta(parts, key, Part("thinking", words, 0))
    [] ~thinking /\ words = <<OpeningTag>> ->
         HandleDelta(Untracked(parts, key), key, Part("thinking", <<>>, 0))
    [] OTHER -> HandleDelta(parts, key, Part("text", words, 0))

\* A chunk of Chat Completions: calls go by their index.
ProcessChunk(assembly, e) ==
  CASE e.type = "reasoning" -> HandleDelta(assembly.parts, <<"reasoning">>, Part("thinking", e.words, 0))
    [] e.type = "text" -> HandleTaggedText(assembly.parts, <<"content">>, e.words)
    [] e.type = "arguments" -> HandleDelta(assembly.parts, <<"call", e.at>>, Part("call", e.words, e.at))
    [] OTHER -> Nothing(assembly)

\* The ids whose arguments came in deltas.
ArgDeltaItemIds(ids, assembly, e) ==
  assembly.argDeltas \cup {EventItemId(ids, x) : x \in {y \in {e} : y.type = "arguments"}}

Assemble(api, ids, assembly, e) ==
  IF api = "responses" THEN ProcessResponseEvent(ids, assembly, e) ELSE ProcessChunk(assembly, e)
=============================================================================
