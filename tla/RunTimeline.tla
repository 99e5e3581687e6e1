---------------------------- MODULE RunTimeline ----------------------------
(***************************************************************************)
(* The bounded timeline of an agent run, as RunDiagnosticsRecorder and the *)
(* stream trace keep it, and the pages of it that the service              *)
(* get_agent_run_diagnostics hands out.  An event is its number in the run *)
(* and the phase it was recorded in.                                       *)
(***************************************************************************)
EXTENDS Naturals, Sequences

CONSTANT Edge  \* _SEQUENCE_EDGE_ITEMS, _TRACE_HEAD_ITEMS and _TRACE_TAIL_ITEMS: 100

ASSUME EdgeAssumption == Edge \in Nat \ {0}

NoEvents == [total |-> 0, head |-> <<>>, tail |-> <<>>]

\* Mutant: a full tail takes no more events.
RecordKeepsTail(t, phase) ==
  LET event == [seq |-> t.total + 1, phase |-> phase] IN
  IF Len(t.head) < Edge
  THEN [t EXCEPT !.total = @ + 1, !.head = Append(@, event)]
  ELSE [t EXCEPT !.total = @ + 1, !.tail = IF Len(@) = Edge THEN @ ELSE Append(@, event)]

\* The head fills first; then the tail, a deque, forgets its oldest event.
Record(t, phase) ==
  LET event == [seq |-> t.total + 1, phase |-> phase]
      room == IF Len(t.tail) = Edge THEN Tail(t.tail) ELSE t.tail
  IN  IF Len(t.head) < Edge
      THEN [t EXCEPT !.total = @ + 1, !.head = Append(@, event)]
      ELSE [t EXCEPT !.total = @ + 1, !.tail = Append(room, event)]

BoundSequence(s) ==
  IF Len(s) <= 2 * Edge
  THEN [items |-> s, total |-> Len(s), omitted |-> 0]
  ELSE [items |-> SubSeq(s, 1, Edge) \o SubSeq(s, Len(s) - Edge + 1, Len(s)),
        total |-> Len(s), omitted |-> Len(s) - 2 * Edge]

\* The timeline of the stored payload, as _timeline_events reads it.
Timeline(t) ==
  LET kept == t.head \o t.tail IN
  IF t.total <= Len(kept)
  THEN BoundSequence(kept)
  ELSE [items |-> BoundSequence(t.head).items \o BoundSequence(t.tail).items,
        total |-> t.total, omitted |-> t.total - Len(kept)]

Smaller(m, n) == IF m < n THEN m ELSE n
Slice(s, offset, limit) == SubSeq(s, offset + 1, Smaller(offset + limit, Len(s)))

TimelinePage(timeline, offset, limit) ==
  LET page == Slice(timeline.items, offset, limit) IN
  [items |-> page, total |-> timeline.total, omitted |-> timeline.omitted,
   more |-> offset + Len(page) < Len(timeline.items)]

\* The stream trace reports its tail apart once something in the middle is gone.
TracePayload(t) ==
  LET truncated == t.total > Len(t.head) + Len(t.tail) IN
  [first |-> IF truncated THEN t.head ELSE t.head \o t.tail,
   last |-> IF truncated THEN t.tail ELSE <<>>,
   omitted |-> t.total - Len(t.head) - Len(t.tail)]
=============================================================================
