-------------------------- MODULE StreamInvariants --------------------------
(***************************************************************************)
(* What the proofs about a streamed run speak of: the folds of its model   *)
(* step by step, the shapes of answers, parts, logs and messages, and the  *)
(* inductive invariants StreamInv (the recorders), PartsInv (the assembly  *)
(* of an answer) and ShownInv (the turn as it is shown).  The headings are *)
(* those of AgentStream_proofs, which proves about them.                   *)
(***************************************************************************)
EXTENDS AgentStream

\* A content of the log taken into its rounds.
Round(rounds, content) ==
  CASE IsAssistant(content) -> Append(rounds, [content |-> [content EXCEPT !.text = Unseparated(@)],
                                               results |-> {}])
    [] ~IsAssistant(content) /\ content.calls # <<0>> ->
         [rounds EXCEPT ![Len(rounds)].results = @ \cup {content}]
    [] OTHER -> rounds

\* The folds of a streamed run: over the events of a turn, the calls that start and the
\* parts of an answer, for their calls, their words of a kind and their texts joined;
\* over the pieces of an item, for one content or summary; over sequences that are
\* flattened; over words, the contents of the log and the messages.
Folded(fold, result, item) ==
  CASE fold.name = "events" -> ProcessAgentEvent(result, item)
    [] fold.name = "starts" -> Record(result, "tool_call")
    [] fold.name = "calls" -> IF item.kind = "call" THEN Append(result, item.call) ELSE result
    [] fold.name = "words" -> IF item.sub = fold.sub THEN Append(result, item.word) ELSE result
    [] fold.name = "join" ->
         IF item.kind = "text" /\ result # <<>> /\ Last(result).kind = "text"
         THEN [result EXCEPT ![Len(result)].words = @ \o item.words]
         ELSE Append(result, Part(item.kind, item.words, item.call))
    [] fold.name = "flatten" -> result \o item
    [] fold.name = "kind" -> IF item.kind = fold.kind THEN result \o item.words ELSE result
    [] fold.name = "unseparated" -> IF item = Break THEN result ELSE Append(result, item)
    [] fold.name = "rounds" -> Round(result, item)
    [] fold.name = "speech" -> IF IsAssistant(item) THEN MergeSpeech(result, item) ELSE result
    [] fold.name = "answers" -> IF item.role = "response" THEN Append(result, item) ELSE result
    [] fold.name = "texts" -> IF item.role = "response" THEN result \o TextOf(item) ELSE result

Fold(name) == [name |-> name]

\* What a fold of the first k items computes, for every set of their places.
Computes(g, fold, base, items, k) ==
  g = [s \in SUBSET (1..k) |->
         IF s = {} THEN base ELSE Folded(fold, g[s \ {Max(s)}], items[Max(s)])]

-----------------------------------------------------------------------------
(* The bounded timeline.                                                   *)

Phases ==
  {"attempt", "llm_request", "llm_stream", "chat_delta", "tool_call", "output", "llm_response"}
Events == [seq : Nat, phase : Phases]

\* A recorder of n events has the first as its head and the last of the others as its tail.
RecorderOK(t) ==
  /\ t \in [total : Nat, head : Seq(Events), tail : Seq(Events)]
  /\ Len(t.head) = Smaller(t.total, Edge)
  /\ Len(t.tail) = Smaller(t.total - Len(t.head), Edge)
  /\ \A i \in 1..Len(t.head) : t.head[i].seq = i
  /\ \A i \in 1..Len(t.tail) : t.tail[i].seq = t.total - Len(t.tail) + i

-----------------------------------------------------------------------------
(* The recorders of a turn.                                                *)

TurnOK(t) ==
  /\ {"run", "trace"} \subseteq DOMAIN t
  /\ RecorderOK(t.run) /\ RecorderOK(t.trace)

\* The events of a turn.
EventTypes == {"start", "delta", "call", "result", "run_result"}

-----------------------------------------------------------------------------
(* The events and calls of an answer.                                      *)

IsList(s) == \E S : s \in Seq(S)

\* What the parts manager answers: a list of parts, and events that tell of them.
UpdateOK(update) ==
  /\ IsList(update.parts)
  /\ \E n \in Nat : DOMAIN update.out = 1..n /\ \A i \in 1..n : update.out[i].type \in EventTypes

StreamTypes ==
  {"call_added", "call_done", "signed_done", "text", "reasoning", "arguments", "refusal"}

-----------------------------------------------------------------------------
(* The run.                                                                *)

Piece == [sub : Nat, word : Nat \ {0}]
Items == [kind : Kinds, pieces : Seq(Piece), signed : BOOLEAN, done : BOOLEAN, told : BOOLEAN]
AnswerOK(said) == said \in [items : Seq(Items), refused : BOOLEAN]

\* Every event that reaches a recorder is one the streaming knows, because answers
\* have items of the three kinds and parts are lists.
StreamInv ==
  /\ AnswerOK(answer)
  /\ IsList(assembly.parts) /\ IsList(messages)
  /\ pc = "answered" => IsList(Last(messages).parts)
  /\ TurnOK(turn)

\* The arguments that come with a call, if any.
Begun(told) == IF told THEN <<[sub |-> 0, word |-> 1]>> ELSE <<>>
BegunCall(told) == [NewItem("function_call") EXCEPT !.pieces = Begun(told), !.told = told]

-----------------------------------------------------------------------------
(* Folds, item by item.                                                    *)

\* The fold of the first k items, itself no recursive operator: one of the functions
\* that FoldExists tells of, of which FoldsAgree says that they do not differ.
FoldOf(fold, base, items, k) ==
  LET g == CHOOSE g : Computes(g, fold, base, items, k) IN g[1..k]

-----------------------------------------------------------------------------
(* Flattened lists.                                                        *)

\* The first k lists, one after the other.
Flat(seqs, k) == FoldOf(Fold("flatten"), <<>>, seqs, k)

\* Every element of the flat list has its place in one of the lists, and every element of
\* a list its place in the flat one.
Place(seqs, i, j) == Len(Flat(seqs, i - 1)) + j

\* Names for two constructs, so that a fact about them can be found by its terms.
Replaced(s, i, x) == [s EXCEPT ![i] = x]
Joined(s, t) == s \o t

\* One element more, in a list of its own or at the end of the last list.
HasNewList(f, g, n, m, x) ==
  /\ n \in Nat /\ m = n + 1
  /\ \A i \in 1..n : IsList(f[i])
  /\ \A i \in 1..n : g[i] = f[i]
  /\ g[m] = <<x>>

\* The last of n lists has x at its end, too.
EndsLonger(f, g, n, x) ==
  /\ n \in Nat /\ n > 0
  /\ \A i \in 1..n : IsList(f[i])
  /\ \A i \in 1..n - 1 : g[i] = f[i]
  /\ g[n] = Append(f[n], x)

-----------------------------------------------------------------------------
(* The words of an item.                                                   *)

\* The fold that collects the words of the content or summary number s.
Of(s) == [name |-> "words", sub |-> s]

-----------------------------------------------------------------------------
(* The parts of an item, as they are streamed.                             *)

\* Whether the words of an item are one part, whatever its contents are.
\* (known and labelled are the API and whether the server labels its items, i is the
\* number of the item.)
IsOnePart(known, labelled, i, kind) ==
  \/ kind = "function_call"
  \/ kind = "message" /\ (known = "chat" \/ labelled \/ i > 1)

PartKind(kind) ==
  CASE kind = "reasoning" -> "thinking"
    [] kind = "message" -> "text"
    [] kind = "function_call" -> "call"

\* The vendor part id of a kind of delta in a chunk of Chat Completions.
ChatKey(i, kind) ==
  CASE kind = "reasoning" -> <<"reasoning">>
    [] kind = "message" -> <<"content">>
    [] kind = "function_call" -> <<"call", i>>

\* The vendor part id of the part number s of an item.
KeyAt(known, labelled, i, kind, s) ==
  IF known = "chat" THEN ChatKey(i, kind)
  ELSE IF s = 1 \/ IsOnePart(known, labelled, i, kind) THEN ItemId(labelled, i)
  ELSE IF kind = "reasoning" THEN Append(ItemId(labelled, i), s - 1)
  ELSE <<"number", s - 1>>

\* How many parts an item has.
Width(known, labelled, i, item) ==
  IF IsOnePart(known, labelled, i, item.kind) \/ (item.pieces = <<>> /\ item.signed)
  THEN 1 ELSE Subs(item)

\* The words of an item that is one part: arguments that came with the item and in no
\* delta are repeated when it is done.
Streamed(item) ==
  IF item.kind = "function_call" /\ item.told /\ item.done THEN Words(item) \o Words(item)
  ELSE Words(item)

\* The part number s of an item, and all of them.
PartAt(known, labelled, i, item, s) ==
  [kind |-> PartKind(item.kind),
   words |-> IF IsOnePart(known, labelled, i, item.kind) THEN Streamed(item) ELSE WordsOf(item, s - 1),
   call |-> IF item.kind = "function_call" THEN i ELSE 0,
   key |-> KeyAt(known, labelled, i, item.kind, s)]

StreamedParts(known, labelled, i, item) ==
  [s \in 1..Width(known, labelled, i, item) |-> PartAt(known, labelled, i, item, s)]

AllParts(known, labelled, items) ==
  [i \in DOMAIN items |-> StreamedParts(known, labelled, i, items[i])]

\* What tells the parts of an answer apart by their ids.
Distinct(known, labelled, items) ==
  /\ known = "chat" =>
       /\ labelled
       /\ \A i, j \in DOMAIN items :
            items[i].kind = items[j].kind /\ items[i].kind # "function_call" => i = j
       /\ \A i \in DOMAIN items : items[i].kind # "function_call" => Subs(items[i]) = 1
  /\ ~(~labelled /\ Len(items) > 1 /\ items[1].kind = "message" /\ Subs(items[1]) > 1)

\* The parts of an answer, as they are streamed.
PartsOf(known, labelled, items) == Flat(AllParts(known, labelled, items), Len(items))

\* The part number s of an item has the words of part more, the rest of the answer is the same.
PartIsLonger(known, labelled, items, more, i, item, s, part, key) ==
  LET w == Width(known, labelled, i, items[i]) IN
  /\ items \in Seq(Items) /\ item \in Items /\ i \in DOMAIN items
  /\ more = Replaced(items, i, item)
  /\ s \in 1..w /\ Width(known, labelled, i, item) = w
  /\ key = KeyAt(known, labelled, i, items[i].kind, s)
  /\ \A t \in 1..w :
       PartAt(known, labelled, i, item, t) =
         IF t = s THEN [PartAt(known, labelled, i, items[i], s) EXCEPT !.words = @ \o part.words]
         ELSE PartAt(known, labelled, i, items[i], t)

\* The last item of more has one part more than that of items, the rest is the same.
LastIsWider(known, labelled, items, more, n, item, part) ==
  LET w == Width(known, labelled, n, items[n]) IN
  /\ items \in Seq(Items) /\ more \in Seq(Items) /\ item \in Items
  /\ n \in Nat /\ n = Len(items) /\ n = Len(more) /\ n > 0
  /\ more[n] = item /\ item.kind = items[n].kind
  /\ \A k \in 1..n : k # n => more[k] = items[k]
  /\ Width(known, labelled, n, item) = w + 1
  /\ \A t \in 1..w : PartAt(known, labelled, n, item, t) = PartAt(known, labelled, n, items[n], t)
  /\ PartAt(known, labelled, n, item, w + 1) = part

-----------------------------------------------------------------------------
(* The items of an answer, and what an event does to the parts of one.     *)

\* The contents or summaries of an item, each with its words.
Contents(item) == [s \in 1..Subs(item) |-> WordsOf(item, s - 1)]

\* An item has its words in its contents or summaries, one after the other; only the
\* calls of the Responses API are open.
ItemOK(known, item) ==
  /\ item.kind = "message" => item.pieces # <<>>
  /\ item.kind = "reasoning" /\ item.pieces = <<>> => item.signed
  /\ item.kind # "function_call" =>
       /\ item.done
       /\ \A s \in Nat : s >= Subs(item) => WordsOf(item, s) = <<>>
       /\ Words(item) = Flat(Contents(item), Subs(item))
  /\ ~item.done => known # "chat"
  /\ item.told => item.kind = "function_call" /\ item.pieces # <<>> /\ known # "chat"

\* An item that begins, with word w if any.
Begins(known, item, w) ==
  /\ \/ item.pieces = <<[sub |-> 0, word |-> w]>>
     \/ item.pieces = <<>> /\ item.kind = "function_call"
     \/ item.pieces = <<>> /\ item.kind = "reasoning" /\ item.signed
  /\ item.done \/ (item.kind = "function_call" /\ known # "chat")
  /\ item.told => ~item.done /\ item.pieces # <<>>
OnePart(known, labelled, i, item) ==
  /\ Width(known, labelled, i, item) = 1
  /\ PartAt(known, labelled, i, item, 1) =
       Keyed(Part(PartKind(item.kind), Words(item), IF item.kind = "function_call" THEN i ELSE 0),
             KeyAt(known, labelled, i, item.kind, 1))

\* An item that has one piece more, of its last content or of the next.
PieceAdded(known, item, piece, grown) ==
  /\ item \in Items /\ ItemOK(known, item) /\ piece \in Piece /\ grown \in Items
  /\ grown.pieces = Append(item.pieces, piece)
  /\ grown.kind = item.kind /\ grown.done = item.done /\ grown.signed = item.signed
  /\ ~(item.done /\ item.told) /\ ~grown.told
  /\ item.kind # "function_call" => ~item.signed /\ piece.sub \in {Subs(item) - 1, Subs(item)}

\* What that does to its parts.
PartsGrow(known, labelled, i, item, piece, grown) ==
  /\ IsOnePart(known, labelled, i, item.kind) =>
       /\ Width(known, labelled, i, item) = 1 /\ Width(known, labelled, i, grown) = 1
       /\ PartAt(known, labelled, i, grown, 1) =
            [PartAt(known, labelled, i, item, 1) EXCEPT !.words = @ \o <<piece.word>>]
  /\ ~IsOnePart(known, labelled, i, item.kind) =>
       /\ Width(known, labelled, i, item) = Subs(item)
       /\ Width(known, labelled, i, grown) = piece.sub + 1
       /\ \A t \in 1..Subs(item) :
            PartAt(known, labelled, i, grown, t) =
              IF t = piece.sub + 1
              THEN [PartAt(known, labelled, i, item, t) EXCEPT !.words = @ \o <<piece.word>>]
              ELSE PartAt(known, labelled, i, item, t)
       /\ piece.sub = Subs(item) =>
            PartAt(known, labelled, i, grown, piece.sub + 1) =
              Keyed(Part(PartKind(item.kind), <<piece.word>>, 0),
                    KeyAt(known, labelled, i, item.kind, piece.sub + 1))

\* A call that is finished: its arguments, if they did not come before.
CallFinished(known, item, finished) ==
  /\ item \in Items /\ item.kind = "function_call" /\ ItemOK(known, item) /\ ~item.done
  /\ finished \in Items /\ finished.kind = "function_call" /\ finished.done
  /\ finished.told = item.told
  /\ \/ finished.pieces = item.pieces
     \/ item.pieces = <<>> /\ finished.pieces = <<[sub |-> 0, word |-> 1]>>

\* What that does to its part.
ArgumentsAdded(known, labelled, i, item, finished) ==
  /\ ItemOK(known, finished)
  /\ IsOnePart(known, labelled, i, "function_call")
  /\ Width(known, labelled, i, item) = 1 /\ Width(known, labelled, i, finished) = 1
  /\ PartAt(known, labelled, i, finished, 1) =
       [PartAt(known, labelled, i, item, 1)
          EXCEPT !.words = @ \o (IF item.pieces # <<>> /\ ~item.told THEN <<>> ELSE Words(finished))]

\* A reasoning item that is signed has its summaries as before.
ItemSigned(known, item, signed) ==
  /\ item \in Items /\ ItemOK(known, item) /\ item.kind = "reasoning" /\ ~item.signed
  /\ signed \in Items /\ signed.pieces = item.pieces /\ signed.kind = item.kind
  /\ signed.done = item.done /\ signed.told = item.told

\* What that does to its parts.
PartsStay(known, labelled, i, item, signed) ==
  /\ ItemOK(known, signed)
  /\ Subs(item) > 0
  /\ Width(known, labelled, i, item) = Subs(item)
  /\ Width(known, labelled, i, signed) = Subs(item)
  /\ \A s : PartAt(known, labelled, i, signed, s) = PartAt(known, labelled, i, item, s)
  /\ PartAt(known, labelled, i, item, 1) =
       [PartAt(known, labelled, i, item, 1) EXCEPT !.words = @ \o <<>>]

\* A new item is one part.
ItemIsPart(known, labelled, items, n, item, part, key) ==
  /\ items \in Seq(Items) /\ item \in Items /\ n = Len(items) + 1
  /\ key = KeyAt(known, labelled, n, item.kind, 1)
  /\ Width(known, labelled, n, item) = 1
  /\ PartAt(known, labelled, n, item, 1) = Keyed(part, key)

\* A new content or summary of the last item is a part.
ContentIsPart(known, labelled, items, more, n, item, part, key) ==
  /\ LastIsWider(known, labelled, items, more, n, item, Keyed(part, key))
  /\ key = KeyAt(known, labelled, n, item.kind, Width(known, labelled, n, item))

-----------------------------------------------------------------------------
(* What an answer and the assembly of it have in common, step by step.     *)

\* An item of Chat Completions has at most one content and, but for calls, a kind of its
\* own; the calls whose arguments came in deltas are known (delivered).
SaidOK(known, labelled, items, delivered) ==
  /\ items \in Seq(Items)
  /\ \A i \in DOMAIN items : ItemOK(known, items[i])
  /\ known = "chat" =>
       /\ labelled
       /\ \A i, j \in DOMAIN items :
            items[i].kind = items[j].kind /\ items[i].kind # "function_call" => i = j
       /\ \A i \in DOMAIN items : items[i].kind # "function_call" => Subs(items[i]) = 1
  /\ delivered \subseteq {ItemId(labelled, i) : i \in DOMAIN items}
  /\ \A i \in DOMAIN items :
       ~items[i].done =>
         (ItemId(labelled, i) \in delivered <=> items[i].pieces # <<>> /\ ~items[i].told)

\* Text is added to as it comes when neither it nor the part it is added to is a thought.
Untagged(parts, words) ==
  /\ words # <<OpeningTag>>
  /\ ~\E i \in DOMAIN parts : parts[i].key = <<"content">> /\ parts[i].kind = "thinking"

-----------------------------------------------------------------------------
(* What the agent is told of an event.                                     *)

\* Words without the separator; a part as the parts manager is given it.
Spelled(words) == IsList(words) /\ \A i \in 1..Len(words) : words[i] # Break
PartFits(part) ==
  /\ IsList(part.words)
  /\ part.kind = "call" => part.call # 0
  /\ part.kind = "text" => Spelled(part.words)

Longer(parts, i, words) == [parts EXCEPT ![i].words = @ \o words]

\* An update that tells of nothing, of a new part at the end, or of more of a part: of a
\* call, of nothing more, or of the last one.
TellsOfNew(parts, update, key, part) ==
  /\ PartFits(part)
  /\ update.parts = Append(parts, Keyed(part, key))
  /\ update.out = <<Started(Len(parts) + 1, part)>>
TellsOfMore(parts, update, i, part) ==
  /\ i \in DOMAIN parts /\ PartFits(part)
  /\ part.kind = "call" \/ part.words = <<>> \/ i = Len(parts)
  /\ update.parts = Longer(parts, i, part.words)
  /\ update.out = <<Extended(i, part.kind, part.words)>>
  /\ update.ok => parts[i].kind = part.kind
Tells(parts, update) ==
  \/ update.parts = parts /\ update.out = <<>>
  \/ \E key, part : TellsOfNew(parts, update, key, part)
  \/ \E i, part : TellsOfMore(parts, update, i, part)

-----------------------------------------------------------------------------
(* Text of Chat Completions with thinking tags.                            *)

\* Some message of the answer has a word that is a tag.
IsTagged(items) ==
  \E i \in DOMAIN items :
    items[i].kind = "message" /\ \E k \in DOMAIN items[i].pieces : items[i].pieces[k].word \in Tags

HasKind(items, kind) == \E i \in DOMAIN items : items[i].kind = kind
OnlyLast(parts, key) == \A i \in DOMAIN parts : parts[i].key = key => i = Len(parts)
Tracked(parts) == IsList(parts) /\ \A i \in DOMAIN parts : "key" \in DOMAIN parts[i]

\* Whatever the text was split into: what is spoken now is in the last part, if it is in
\* any, and nothing has the id of what was not spoken yet.
ChatOrder(items, parts) ==
  /\ Tracked(parts)
  /\ \A kind \in {"reasoning", "message"} :
       /\ ~HasKind(items, kind) => ~Holds(parts, ChatKey(0, kind))
       /\ items # <<>> /\ Last(items).kind = kind => OnlyLast(parts, ChatKey(0, kind))

\* An update that tells of the parts, or of the parts after one lost its id.
TellsOn(parts, update) ==
  Tells(parts, update) \/ \E key : Tells(Untracked(parts, key), update)

\* An update of tracked parts that leaves the other ids as they are.
KeepsOrder(parts, key, update) ==
  /\ TellsOn(parts, update) /\ Tracked(update.parts)
  /\ OnlyLast(parts, key) => OnlyLast(update.parts, key)
  /\ \A k : Len(k) = 1 /\ k # key /\ ~Holds(parts, k) => ~Holds(update.parts, k)

\* Answers before and after a chunk with a word of one kind.
SpokenNow(items, kind, more) ==
  /\ ~HasKind(items, kind) \/ (items # <<>> /\ Last(items).kind = kind) \/ kind = "function_call"
  /\ HasKind(more, kind) /\ Last(more).kind = kind
  /\ \A k : HasKind(items, k) => HasKind(more, k)

\* An event e takes an answer of Chat Completions from items to more, and its parts with
\* it, whatever tags it has.
ChatDelivered(labelled, items, a, e, more) ==
  /\ IsTagged(items) => IsTagged(more)
  /\ ChatOrder(items, a.parts) =>
       LET update == Assemble("chat", labelled, a, e) IN
       ChatOrder(more, update.parts) /\ TellsOn(a.parts, update)

-----------------------------------------------------------------------------
(* Every event takes the answer and its parts on together.                 *)

\* An event e takes the answer from items to more, and its parts with it, unless the
\* text has tags.
Delivered(known, labelled, items, a, e, more) ==
  /\ SaidOK(known, labelled, more, ArgDeltaItemIds(labelled, a, e))
  /\ /\ Distinct(known, labelled, items) /\ Distinct(known, labelled, more)
     /\ a.parts = PartsOf(known, labelled, items)
     /\ ~(known = "chat" /\ IsTagged(more))
     => /\ Assemble(known, labelled, a, e).parts = PartsOf(known, labelled, more)
        /\ Tells(a.parts, Assemble(known, labelled, a, e))

-----------------------------------------------------------------------------
(* The assembly of an answer, step by step.                                *)

\* The parts are those of what was said so far, each at its place, unless ids recurred or
\* the text has thinking tags; with tags they are still in order; and an answer that ended
\* is the last message.
PartsInv ==
  /\ api \in {"chat", "responses"} /\ ids \in BOOLEAN /\ collided \in BOOLEAN
  /\ SaidOK(api, ids, answer.items, assembly.argDeltas)
  /\ pc = "answered" => Last(messages).parts = assembly.parts
  /\ api = "chat" => ChatOrder(answer.items, assembly.parts)
  /\ ~collided => Distinct(api, ids, answer.items)
  /\ ~collided /\ ~(api = "chat" /\ IsTagged(answer.items)) =>
       assembly.parts = PartsOf(api, ids, answer.items)

\* How an answer and its assembly agree, wherever they come from.
Agreed(items, a, known, labelled) ==
  /\ SaidOK(known, labelled, items, a.argDeltas)
  /\ Distinct(known, labelled, items)
  /\ a.parts = PartsOf(known, labelled, items)
  /\ ChatOrder(items, a.parts)

\* An event arrives that takes the answer and its parts on together.
Arrives(said, e) ==
  /\ Deliver(said, e) /\ Delivered(api, ids, answer.items, assembly, e, said.items)
  /\ api = "chat" => ChatDelivered(ids, answer.items, assembly, e, said.items)
Arrival == pc = "receiving" /\ \E said, e : Arrives(said, e)

-----------------------------------------------------------------------------
(* Parts with their texts joined.                                          *)

\* What JoinTexts makes of parts, after those it has joined before.
JoinedOf(before, parts) == FoldOf(Fold("join"), before, parts, Len(parts))

\* What is joined: parts without ids, their words lists.
JoinedOK(joined) ==
  /\ IsList(joined)
  /\ \A i \in 1..Len(joined) :
       /\ joined[i] = Part(joined[i].kind, joined[i].words, joined[i].call)
       /\ IsList(joined[i].words)

\* One part more: a text after a text makes that longer.
Joining(joined, part) == Folded(Fold("join"), joined, part)
TextLast(joined) == joined # <<>> /\ Last(joined).kind = "text"
Grown(joined, words) == [joined EXCEPT ![Len(joined)].words = @ \o words]
LongerText(part, words) == Part("text", part.words \o words, part.call)

\* A list of joined parts, at its end.
Joinable(part) == part = Part(part.kind, part.words, part.call) /\ IsList(part.words)
TookIn(joined, part, more) ==
  /\ IsList(joined) /\ IsList(more) /\ Len(more) # 0 /\ Len(more) <= Len(joined) + 1
  /\ more[Len(more)] = part
  /\ \A i \in 1..Len(more) : i # Len(more) => more[i] = joined[i]

Text(words) == Part("text", words, 0)

\* A text joined in two pieces is joined as if in one.
InTwo(first, second, whole) == IsList(first) /\ IsList(second) /\ whole = first \o second

\* The parts of an item that was received whole.
WholeParts(i, item) ==
  CASE item.kind = "reasoning" -> ReasoningParts(item)
    [] item.kind = "message" -> MessageParts(item)
    [] item.kind = "function_call" -> <<Part("call", Words(item), i)>>
AllWhole(items) == [i \in DOMAIN items |-> WholeParts(i, items[i])]

\* Two lists of parts that differ only in their ids.
SameParts(s, t) ==
  /\ IsList(s) /\ IsList(t) /\ Len(s) = Len(t)
  /\ \A i \in 1..Len(s) : s[i].kind = t[i].kind /\ s[i].words = t[i].words /\ s[i].call = t[i].call

-----------------------------------------------------------------------------
(* The folds of the chat log and of messages.                              *)

FoldsOver(g, fold, base, items) ==
  g = [s \in SUBSET DOMAIN items |->
         IF s = {} THEN base ELSE Folded(fold, g[s \ {Max(s)}], items[Max(s)])]

\* Of parts, their words of a kind and their calls; of words, those but the separator;
\* of a log, its rounds and what is spoken; of messages, the answers and their texts;
\* and a turn after events.
Kinded(kind) == [name |-> "kind", kind |-> kind]
Gathered(parts, kind) == FoldOf(Kinded(kind), <<>>, parts, Len(parts))
CallsIn(parts) == FoldOf(Fold("calls"), <<>>, parts, Len(parts))
Plain(words) == FoldOf(Fold("unseparated"), <<>>, words, Len(words))
RoundsOf(log) == FoldOf(Fold("rounds"), <<>>, log, Len(log))
SpeechOf(log) == FoldOf(Fold("speech"), <<>>, log, Len(log))
AnswersOf(told) == FoldOf(Fold("answers"), <<>>, told, Len(told))
TextsOf(told) == FoldOf(Fold("texts"), <<>>, told, Len(told))
Processed(t, events) == FoldOf(Fold("events"), t, events, Len(events))

-----------------------------------------------------------------------------
(* Words without the separator.                                            *)

\* The separator at the beginning or not.
Resumed(separated, words) == IF separated THEN <<Break>> \o words ELSE words

-----------------------------------------------------------------------------
(* The texts, thoughts and calls of parts as they grow.                    *)

TextIn(parts) == Gathered(parts, "text")
ThoughtIn(parts) == Gathered(parts, "thinking")

\* Parts as the parts manager has made them: what they say is a list, texts are without
\* the separator, and each call is one.
CallsOK(calls) == IsList(calls) /\ \A i \in 1..Len(calls) : calls[i] # 0
PartsOK(parts) ==
  /\ IsList(parts)
  /\ \A i \in 1..Len(parts) :
       /\ {"kind", "words", "call"} \subseteq DOMAIN parts[i]
       /\ PartFits(parts[i])
  /\ Spelled(TextIn(parts)) /\ IsList(ThoughtIn(parts))
  /\ CallsOK(CallsIn(parts))

\* More of a kind said.
Extends(parts, more, kind, words) ==
  /\ more # <<>>
  /\ IsList(words) /\ (kind = "text" => Spelled(words))
  /\ TextIn(more) = IF kind = "text" THEN TextIn(parts) \o words ELSE TextIn(parts)
  /\ ThoughtIn(more) = IF kind = "thinking" THEN ThoughtIn(parts) \o words ELSE ThoughtIn(parts)

Gathers(parts, more, kind, words) ==
  \A k \in {"text", "thinking"} :
    Gathered(more, k) = IF kind = k THEN Gathered(parts, k) \o words ELSE Gathered(parts, k)

-----------------------------------------------------------------------------
(* What an event shows.                                                    *)

TurnFields == {"open", "needsSeparator", "textSeen", "emitted", "callIds", "pending", "log",
               "heard", "trace", "deltas", "run"}

\* All of a turn but its recorders and the ids of its calls.
Looks(t, open, needs, seen, pending, log, heard) ==
  /\ TurnFields \subseteq DOMAIN t
  /\ t.open = open /\ t.needsSeparator = needs /\ t.textSeen = seen
  /\ t.pending = pending /\ t.log = log /\ t.heard = heard

Flushed(log, pending) == IF pending = Blank THEN log ELSE Append(log, pending)

-----------------------------------------------------------------------------
(* The answer as it is shown.                                              *)

\* Text with the separator before it that earlier texts of the run call for.
Sep(had, text) == IF text = <<>> THEN <<>> ELSE Resumed(had, text)

\* A turn that shows text and thoughts of an answer, in a message of its own after the
\* log and what was heard before it; had tells whether there was text before.
Shows(t, had, text, thinking, log, heard) ==
  Looks(t, TRUE, text = <<>> /\ had, text # <<>>, Assistant(Sep(had, text), thinking, <<>>), log,
        heard \o Sep(had, text))

\* A turn between two answers, with its log when the thoughts of the last are in it.
Before(t, had, log, heard) ==
  \E open, thinking, known :
    /\ Looks(t, open, had, FALSE, Assistant(<<>>, thinking, <<>>), known, heard)
    /\ log = Flushed(known, Assistant(<<>>, thinking, <<>>))

\* A turn during an answer, with its parts so far.
Showing(t, had, parts, log, heard) ==
  IF parts = <<>> THEN Before(t, had, log, heard)
  ELSE Shows(t, had, TextIn(parts), ThoughtIn(parts), log, heard)

\* An event with more of an answer, which starts a part after those there are or goes on
\* with one of them.
Brings(parts, e, more) ==
  /\ \/ e.type = "start" /\ e.index = Len(parts)
     \/ e.type = "delta" /\ parts # <<>>
  /\ Extends(parts, more, e.kind, e.words)

-----------------------------------------------------------------------------
(* Calls and their results.                                                *)

\* A turn with a message in which calls come after text and thoughts.
CallsLook(t, needs, seen, text, thinking, calls, log, heard) ==
  Looks(t, TRUE, needs, seen, Assistant(text, thinking, calls), log, heard)

\* The event of a call that starts.
CallEvent(call, id) == [type |-> "call", call |-> call, id |-> id]

\* The ids of calls that a turn has shown are those known before and the first k given.
IdsOf(t, known, given, k) == \A id \in t.callIds : id \in known \/ \E i \in 1..k : id = given[i]
\* The first n ids given are no known ones, and no two of them are one.
AllNew(known, given, n) ==
  \A i \in 1..n : given[i] \notin known /\ \A j \in 1..n : j # i => given[j] # given[i]

-----------------------------------------------------------------------------
(* Rounds of the log.                                                      *)

OneRound(content, results) == [content |-> content, results |-> results]

-----------------------------------------------------------------------------
(* Messages.                                                               *)

Response(parts) == [role |-> "response", parts |-> parts]
DeltasOf(message) ==
  IF message.role = "response" THEN ResponseMessageToDeltas(message) ELSE RequestMessageToDeltas(message)

\* The log that messages make.
LogOf(told) == Flat([i \in DOMAIN told |-> DeltasOf(told[i])], Len(told))

MessageOK(message) == IsList(message.parts) /\ (message.role = "response" => PartsOK(message.parts))

\* Messages with their answers and texts; where there is text, some answer has it.
MessagesOK(told) ==
  /\ IsList(told) /\ \A i \in 1..Len(told) : MessageOK(told[i])
  /\ IsList(TextsOf(told)) /\ IsList(AnswersOf(told))
  /\ TextsOf(told) # <<>> => \E i \in 1..Len(AnswersOf(told)) : HasText(AnswersOf(told)[i])

\* Rounds after more contents of the log.
RoundsAfter(rounds, contents) == FoldOf(Fold("rounds"), rounds, contents, Len(contents))

\* Contents that are the results of calls make the results of the last round.
ResultsOf(calls, n) == {ToolResult(calls[i]) : i \in 1..n}

-----------------------------------------------------------------------------
(* Prefixes.                                                               *)

EndOf(s, m) == SubSeq(s, m + 1, Len(s))

-----------------------------------------------------------------------------
(* Speech.                                                                 *)

\* What was said is said, and a text besides.
Says(speech, text, more) ==
  /\ IsList(more) /\ more # <<>> /\ SaidIn(text, more)
  /\ \A x : IsList(x) /\ SaidIn(x, speech) => SaidIn(x, more)

-----------------------------------------------------------------------------
(* One message more.                                                       *)

Answered(told, parts) == Append(told, Response(parts))
Replied(told, parts) == Append(told, [role |-> "request", parts |-> parts])
LastText(told) == AnswersOf(told) # <<>> /\ HasText(Last(AnswersOf(told)))

-----------------------------------------------------------------------------
(* What is shown of messages.                                              *)

SaidOf(told, speech) ==
  \A i \in 1..Len(told) : told[i].role = "response" => SaidIn(TextIn(told[i].parts), speech)
Voiced(told, log) ==
  /\ IsList(SpeechOf(log)) /\ SaidOf(told, SpeechOf(log))
  /\ SpeechOf(log) # <<>> => TextsOf(told) # <<>>

\* The last content of the assistant in a log has text; it comes before others.
LastSaid(log, p) ==
  /\ IsAssistant(log[p]) /\ log[p].text # <<>>
  /\ \A j \in 1..Len(log) : j > p => ~IsAssistant(log[j])
TextLastIn(log) == \E p \in 1..Len(log) : LastSaid(log, p)
PriorText(log) == \E p \in 1..Len(log) : p # Len(log) /\ LastSaid(log, p)

\* The log and what was heard tell what the messages tell, with the rounds given.
Closed(log, heard, told, rounds) ==
  /\ IsList(log) /\ IsList(heard) /\ IsList(rounds)
  /\ RoundsOf(log) = rounds /\ Plain(heard) = TextsOf(told) /\ Voiced(told, log)
  /\ LastText(told) => TextLastIn(log)
Base(log, heard, told) ==
  Closed(log, heard, told, RoundsOf(LogOf(told))) /\ (LastText(told) => PriorText(log))

-----------------------------------------------------------------------------
(* Results and prompts.                                                    *)

Retry == [kind |-> "retry", call |-> 0, returned |-> TRUE]

-----------------------------------------------------------------------------
(* The end of an answer.                                                   *)

\* The messages of which SeparatorLost tells.
Lost(told) ==
  LET answers == AnswersOf(told) IN
  /\ Len(answers) > 2 /\ ~HasText(answers[Len(answers) - 1])
  /\ \E i \in 1..Len(answers) - 2 : HasText(answers[i])

\* The log and what is heard of a turn at its end.
Left(t, log, heard) == TurnFields \subseteq DOMAIN t /\ t.log = log /\ t.heard = heard

-----------------------------------------------------------------------------
(* The end of a run.                                                       *)

\* The log and what was heard are those of the messages.
WholeLog(log, heard, told) ==
  /\ IsList(log) /\ IsList(heard)
  /\ RoundsOf(log) = RoundsOf(LogOf(told)) /\ Plain(heard) = TextsOf(told)
  /\ ~Lost(told) => SaidOf(told, SpeechOf(log))
Whole(t, told) == \E log, heard : Left(t, log, heard) /\ WholeLog(log, heard, told)

-----------------------------------------------------------------------------
(* A turn between the steps of a run.                                      *)

Had(told) == TextsOf(told) # <<>>

\* Between two answers; during one, after the messages told; and when it is a message.
Waiting(t, told) == \E log, heard : Before(t, Had(told), log, heard) /\ Base(log, heard, told)
Answering(t, told, parts) ==
  \E log, heard : Showing(t, Had(told), parts, log, heard) /\ Base(log, heard, told)
AnswerShown(t, told, parts) ==
  \E past : MessagesOK(past) /\ told = Answered(past, parts) /\ Answering(t, past, parts)

-----------------------------------------------------------------------------
(* Calls that are running.                                                 *)

\* The results of calls as they come; those that are there.
Made(called, calls) ==
  /\ IsList(called) /\ Len(called) = Len(calls)
  /\ \A i \in 1..Len(called) :
       called[i].call = calls[i] /\ "returned" \in DOMAIN called[i] /\ called[i].returned \in BOOLEAN
Results(called) == {ToolResult(called[i].call) : i \in {j \in 1..Len(called) : called[j].returned}}
Returned(called, i) == [called EXCEPT ![i].returned = TRUE]

\* The log tells of the calls and of the results that are there.
LogOfCalls(log, heard, told, past, parts, results) ==
  LET rounds == RoundsOf(LogOf(past))
      content == Assistant(TextIn(parts), ThoughtIn(parts), CallsIn(parts))
  IN  IsList(rounds) /\ Closed(log, heard, told, Append(rounds, OneRound(content, results)))
CallsRunning(t, past, told, parts, called) ==
  \E open, needs, seen, pending, log, heard :
    /\ needs \in BOOLEAN /\ seen \in BOOLEAN
    /\ Looks(t, open, needs, seen, pending, log, heard)
    /\ (needs \/ seen) = Had(told)
    /\ LogOfCalls(Flushed(log, pending), heard, told, past, parts, Results(called))
CallsOpen(t, told, parts, called) ==
  /\ Made(called, CallsIn(parts)) /\ CallsIn(parts) # <<>>
  /\ \E past : MessagesOK(past) /\ told = Answered(past, parts) /\ CallsRunning(t, past, told, parts, called)

-----------------------------------------------------------------------------
(* What is shown, step by step.                                            *)

\* Unless two items of an answer or two calls of the run had one id, the turn shows what
\* the messages and the answer so far tell.
ShownInv == ~collided =>
  LET parts == assembly.parts IN
  /\ MessagesOK(messages) /\ PartsOK(parts)
  /\ pc = "requesting" => Waiting(turn, messages)
  /\ pc = "receiving" => Answering(turn, messages, parts)
  /\ pc \in {"answered", "finishing"} => AnswerShown(turn, messages, parts)
  /\ pc = "finishing" => CallsIn(parts) = <<>> /\ (TextIn(parts) # <<>> \/ parts = <<>>)
  /\ pc = "calling" => CallsOpen(turn, messages, parts, calling)
  /\ pc = "done" => Whole(turn, messages)
=============================================================================
