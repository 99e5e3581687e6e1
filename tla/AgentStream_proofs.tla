-------------------------- MODULE AgentStream_proofs --------------------------
(***************************************************************************)
(* Proofs about a streamed run, for every length of the recorders' edges,  *)
(* every provider and any number and size of answers.  Whoever reads the   *)
(* timeline of the run or the trace of its stream gets the first and the   *)
(* last events, in order and once, and is told how many are missing; the   *)
(* parts assembled from the events of a complete answer are those of the   *)
(* answer received whole; and the chat log, what was heard of it and what  *)
(* is spoken are those of the messages of the run.                         *)
(***************************************************************************)
EXTENDS StreamInvariants, FiniteSetTheorems, SequenceTheorems, TLAPS

-----------------------------------------------------------------------------
(* Recursion over a sequence.                                              *)

\* The least number principle.  (Stated for sets: the library's statement has an
\* operator as parameter.  A number is as large as the interval below it, and
\* strict inclusion of finite sets is well-founded.)
LEMMA LeastNumber ==
  ASSUME NEW S \in SUBSET Nat, S # {}
  PROVE  \E n \in S : \A m \in S : n <= m
<1> DEFINE Below(n) == 0..n-1
           intervals == {Below(n) : n \in S}
<1>1. \A n \in S : Below(n) \in FiniteSubsetsOf(Nat)
  <2> TAKE n \in S
  <2>1. IsFiniteSet(Below(n)) /\ Below(n) \subseteq Nat  BY FS_Interval
  <2> QED BY <2>1, Zenon DEF FiniteSubsetsOf
<1>2. PICK n \in S : \A y \in intervals : <<y, Below(n)>> \notin StrictSubsetOrdering(Nat)
  <2>1. IsWellFoundedOn(StrictSubsetOrdering(Nat), FiniteSubsetsOf(Nat))
    BY FS_StrictSubsetOrderingWellFounded, Zenon
  <2>2. intervals \subseteq FiniteSubsetsOf(Nat) /\ intervals # {}  BY <1>1, Zenon
  <2>3. \E x \in intervals : \A y \in intervals : <<y, x>> \notin StrictSubsetOrdering(Nat)
    <3> HIDE DEF intervals
    <3> QED BY <2>1, <2>2, WFMin, Zenon
  <2> QED BY <2>3, Zenon
<1>3. ASSUME NEW m \in S, m < n PROVE FALSE
  <2>1. <<Below(m), Below(n)>> \notin StrictSubsetOrdering(Nat)  BY <1>2
  <2>2. Below(m) \subseteq Below(n) /\ Below(n) \subseteq Nat  BY <1>3
  <2>3. m \in Below(n) /\ m \notin Below(m)  BY <1>3
  <2> HIDE DEF Below
  <2>4. Below(m) # Below(n)  BY <2>3
  <2> QED BY <2>1, <2>2, <2>4 DEF StrictSubsetOrdering
<1> QED BY <1>3

\* Every set of places of a sequence has a last one.
LEMMA Greatest ==
  ASSUME NEW n \in Nat, NEW s \in SUBSET (1..n), s # {}
  PROVE  Max(s) \in s /\ \A i \in s : i <= Max(s)
<1> DEFINE bounds == {m \in 0..n : \A i \in s : i <= m}
<1>1. n \in bounds /\ bounds \in SUBSET Nat  OBVIOUS
<1>2. PICK m \in bounds : \A k \in bounds : m <= k
  <2> HIDE DEF bounds
  <2> QED BY <1>1, LeastNumber
<1>3. m \in Nat /\ m <= n /\ \A i \in s : i \in Nat /\ 1 <= i /\ i <= m  OBVIOUS
<1>4. m \in s
  <2>1. SUFFICES ASSUME m \notin s PROVE FALSE
    OBVIOUS
  <2>2. \A i \in s : i <= m - 1  BY <1>3, <2>1
  <2>3. m # 0
    <3>1. PICK i \in s : TRUE  OBVIOUS
    <3> QED BY <1>3, <3>1
  <2>4. m - 1 \in 0..n  BY <1>3, <2>3
  <2> QED BY <1>2, <1>3, <2>2, <2>4
<1>5. \E x \in s : \A i \in s : x >= i  BY <1>3, <1>4
<1>6. Max(s) \in s /\ \A i \in s : Max(s) >= i  BY <1>5, Zenon DEF Max
<1> QED BY <1>3, <1>6

-----------------------------------------------------------------------------

LEMMA FoldExists ==
  ASSUME NEW fold, NEW base, NEW items, NEW n \in Nat
  PROVE  \E g : Computes(g, fold, base, items, n)
<1> DEFINE Fails == {k \in 0..n : \A g : ~Computes(g, fold, base, items, k)}
<1>1. SUFFICES ASSUME n \in Fails PROVE FALSE
  <2>1. n \in 0..n  OBVIOUS
  <2> QED BY <2>1
<1>2. PICK k \in Fails : \A m \in Fails : k <= m
  <2>1. Fails \in SUBSET Nat  OBVIOUS
  <2> HIDE DEF Fails
  <2> QED BY <1>1, <2>1, LeastNumber
<1>3. k # 0
  <2> DEFINE g == [s \in SUBSET (1..0) |-> base]
  <2>1. Computes(g, fold, base, items, 0)
    <3>1. \A s \in SUBSET (1..0) : s = {}  OBVIOUS
    <3> QED BY <3>1 DEF Computes
  <2> QED BY <1>2, <2>1
<1>4. k \in 1..n /\ k \in Nat /\ k - 1 \in 0..n /\ k - 1 \in Nat  BY <1>2, <1>3
<1>5. PICK h : Computes(h, fold, base, items, k - 1)  BY <1>2, <1>4
<1> DEFINE g == [s \in SUBSET (1..k) |-> IF k \in s THEN Folded(fold, h[s \ {k}], items[k]) ELSE h[s]]
<1>6. \A s \in SUBSET (1..k) : s \ {k} \in SUBSET (1..k-1) /\ s \ {k} \in SUBSET (1..k)
  BY <1>4
<1>7. ASSUME NEW s \in SUBSET (1..k), k \in s PROVE Max(s) = k
  <2>1. Max(s) \in s /\ k <= Max(s)  BY <1>4, <1>7, Greatest
  <2>2. Max(s) \in 1..k  BY <2>1
  <2> QED BY <1>4, <2>1, <2>2
<1>8. ASSUME NEW s \in SUBSET (1..k)
      PROVE  g[s] = IF s = {} THEN base ELSE Folded(fold, g[s \ {Max(s)}], items[Max(s)])
  <2>1. CASE k \in s
    <3>1. g[s] = Folded(fold, h[s \ {k}], items[k]) /\ g[s \ {k}] = h[s \ {k}]
      BY <1>6, <2>1
    <3> HIDE DEF g
    <3> QED BY <1>7, <2>1, <3>1
  <2>2. CASE k \notin s
    <3>1. s \in SUBSET (1..k-1)  BY <1>6, <2>2
    <3>2. s \ {Max(s)} \in SUBSET (1..k) /\ k \notin s \ {Max(s)}  BY <2>2
    <3>3. g[s] = h[s] /\ g[s \ {Max(s)}] = h[s \ {Max(s)}]  BY <3>2, <2>2
    <3>4. h[s] = IF s = {} THEN base ELSE Folded(fold, h[s \ {Max(s)}], items[Max(s)])
      BY <1>5, <3>1 DEF Computes
    <3> HIDE DEF g
    <3> QED BY <3>3, <3>4
  <2> QED BY <2>1, <2>2
<1>9. Computes(g, fold, base, items, k)
  <2>1. g = [s \in SUBSET (1..k) |-> g[s]]  OBVIOUS
  <2> HIDE DEF g
  <2> QED BY <1>8, <2>1 DEF Computes
<1> QED BY <1>2, <1>9

\* What holds for no place and, step by step, for one place more, holds for all.
LEMMA FoldStays ==
  ASSUME NEW n \in Nat, NEW Good, {} \in Good,
         \A s \in SUBSET (1..n) : s # {} /\ s \ {Max(s)} \in Good => s \in Good
  PROVE  1..n \in Good
<1> DEFINE Fails == {k \in 0..n : \E s \in SUBSET (1..k) : s \notin Good}
<1>1. SUFFICES ASSUME n \in Fails PROVE FALSE
  OBVIOUS
<1>2. PICK k \in Fails : \A m \in Fails : k <= m
  <2>1. Fails \in SUBSET Nat  OBVIOUS
  <2> HIDE DEF Fails
  <2> QED BY <1>1, <2>1, LeastNumber
<1>3. PICK s \in SUBSET (1..k) : s \notin Good  BY <1>2
<1>4. k \in 0..n /\ s \in SUBSET (1..n) /\ s # {}  BY <1>2, <1>3
<1>5. Max(s) \in s /\ \A i \in s : i <= Max(s)  BY <1>4, Greatest
<1> DEFINE m == Max(s)
<1>6. m \in 1..k /\ \A i \in s : i \in Nat /\ 1 <= i /\ i <= m
  <2>1. m \in s /\ \A i \in s : i \in 1..k /\ i <= m  BY <1>5
  <2> HIDE DEF m
  <2> QED BY <1>4, <2>1
<1> HIDE DEF m
<1>7. s \ {m} \in SUBSET (1..m-1) /\ m - 1 \in 0..n /\ ~(k <= m - 1)  BY <1>4, <1>6
<1>8. s \ {m} \in Good  BY <1>2, <1>7
<1> QED BY <1>3, <1>4, <1>8 DEF m

-----------------------------------------------------------------------------
(* The bounded timeline.                                                   *)

LEMMA NoEventsOK == RecorderOK(NoEvents)
BY EdgeAssumption DEF RecorderOK, NoEvents, Smaller

LEMMA RecordOK ==
  ASSUME NEW t, RecorderOK(t), NEW phase \in Phases
  PROVE  RecorderOK(Record(t, phase))
<1> DEFINE event == [seq |-> t.total + 1, phase |-> phase]
           room == IF Len(t.tail) = Edge THEN Tail(t.tail) ELSE t.tail
           r == Record(t, phase)
<1>1. /\ t.total \in Nat /\ t.head \in Seq(Events) /\ t.tail \in Seq(Events)
      /\ Len(t.head) \in Nat /\ Len(t.tail) \in Nat /\ Edge \in Nat \ {0}
  BY EdgeAssumption DEF RecorderOK
<1>2. event \in Events  BY <1>1 DEF Events
<1>3. CASE Len(t.head) < Edge
  <2>1. Len(t.head) = t.total /\ Len(t.tail) = 0
    BY <1>1, <1>3 DEF RecorderOK, Smaller
  <2>2. /\ r.head = Append(t.head, event) /\ r.tail = t.tail /\ r.total = t.total + 1
        /\ r = [total |-> r.total, head |-> r.head, tail |-> r.tail]
    BY <1>3 DEF RecorderOK, Record
  <2>3. Len(r.head) = t.total + 1 /\ \A i \in 1..t.total + 1 : r.head[i].seq = i
    <3>1. /\ Len(Append(t.head, event)) = t.total + 1
          /\ \A i \in 1..t.total : Append(t.head, event)[i] = t.head[i]
          /\ Append(t.head, event)[t.total + 1] = event
      BY <1>1, <1>2, <2>1, AppendProperties
    <3>2. \A i \in 1..t.total : t.head[i].seq = i  BY <2>1 DEF RecorderOK
    <3>3. \A i \in 1..t.total + 1 : i \in 1..t.total \/ i = t.total + 1  BY <1>1
    <3> HIDE DEF r
    <3> QED BY <2>2, <3>1, <3>2, <3>3
  <2> HIDE DEF r, event
  <2>4. r.total \in Nat /\ r.head \in Seq(Events) /\ r.tail \in Seq(Events)
    BY <1>1, <1>2, <2>2
  <2>5. r \in [total : Nat, head : Seq(Events), tail : Seq(Events)]  BY <2>2, <2>4
  <2>6. Len(r.head) = Smaller(r.total, Edge) /\ Len(r.tail) = Smaller(r.total - Len(r.head), Edge)
    BY <1>1, <1>3, <2>1, <2>2, <2>3 DEF Smaller
  <2> QED BY <1>1, <2>1, <2>2, <2>3, <2>5, <2>6, SMTT(30) DEF RecorderOK, r
<1>4. CASE ~(Len(t.head) < Edge)
  <2>1. Len(t.head) = Edge /\ t.total >= Edge  BY <1>1, <1>4 DEF RecorderOK, Smaller
  <2>2. room \in Seq(Events) /\ Len(room) = Smaller(t.total - Edge, Edge - 1)
    <3>1. CASE Len(t.tail) = Edge
      BY <1>1, <2>1, <3>1, HeadTailProperties DEF RecorderOK, Smaller
    <3>2. CASE Len(t.tail) # Edge
      BY <1>1, <2>1, <3>2 DEF RecorderOK, Smaller
    <3> QED BY <3>1, <3>2
  <2>3. \A i \in 1..Len(room) : room[i].seq = t.total - Len(room) + i
    <3>1. CASE Len(t.tail) = Edge
      <4>1. Len(room) = Edge - 1 /\ \A i \in 1..Edge - 1 : room[i] = t.tail[i + 1]
        BY <1>1, <3>1, HeadTailProperties
      <4>2. \A i \in 1..Edge : t.tail[i].seq = t.total - Edge + i
        BY <3>1 DEF RecorderOK
      <4>3. \A i \in 1..Edge - 1 : i + 1 \in 1..Edge /\ i \in Nat  BY <1>1
      <4> HIDE DEF room
      <4>4. \A i \in 1..Edge - 1 : room[i].seq = t.total - Edge + (i + 1)
        BY <4>1, <4>2, <4>3
      <4>5. t.total - Len(room) = t.total - Edge + 1  BY <1>1, <4>1
      <4>6. ASSUME NEW i \in 1..Edge - 1 PROVE room[i].seq = t.total - Len(room) + i
        <5>1. i \in Nat /\ t.total - Edge + (i + 1) = t.total - Edge + 1 + i
          BY <1>1
        <5> QED BY <4>4, <4>5, <5>1
      <4> QED BY <4>1, <4>6
    <3>2. CASE Len(t.tail) # Edge
      BY <3>2 DEF RecorderOK
    <3> QED BY <3>1, <3>2
  <2>4. r.head = t.head /\ r.tail = Append(room, event) /\ r.total = t.total + 1
    BY <1>4 DEF RecorderOK, Record
  <2>5. DOMAIN r = {"total", "head", "tail"} /\ r = [r EXCEPT !.total = @]
    BY <1>4 DEF RecorderOK, Record
  <2>6. r = [total |-> r.total, head |-> r.head, tail |-> r.tail]
    BY <1>4 DEF RecorderOK, Record
  <2> HIDE DEF r, room
  <2>7. Append(room, event) \in Seq(Events) /\ Len(Append(room, event)) = Len(room) + 1
    BY <1>2, <2>2
  <2>8. \A i \in 1..Len(room) + 1 : Append(room, event)[i].seq = t.total - Len(room) + i
    BY <1>1, <1>2, <2>2, <2>3
  <2>9. Len(r.tail) = Smaller(r.total - Edge, Edge)
    BY <1>1, <2>1, <2>2, <2>4, <2>7 DEF Smaller
  <2>10. r \in [total : Nat, head : Seq(Events), tail : Seq(Events)]
    <3>1. r.total \in Nat /\ r.head \in Seq(Events) /\ r.tail \in Seq(Events)
      BY <1>1, <2>4, <2>7
    <3> QED BY <2>6, <3>1
  <2>11. \A i \in 1..Len(r.tail) : r.tail[i].seq = r.total - Len(r.tail) + i
    <3>1. Len(room) \in Nat  BY <2>2, LenProperties
    <3>2. Len(r.tail) = Len(room) + 1 /\ r.total = t.total + 1  BY <2>4, <2>7
    <3>3. r.total - Len(r.tail) = t.total - Len(room)  BY <1>1, <3>1, <3>2
    <3> QED BY <2>4, <2>8, <3>2, <3>3
  <2>12. Len(r.head) = Smaller(r.total, Edge)  BY <1>1, <2>1, <2>4 DEF Smaller
  <2> QED BY <2>1, <2>4, <2>9, <2>10, <2>11, <2>12 DEF RecorderOK, r
<1> QED BY <1>3, <1>4

\* Head and tail are the events that are kept.
LEMMA KeptEvents ==
  ASSUME NEW t, RecorderOK(t)
  PROVE  /\ t.head \o t.tail \in Seq(Events)
         /\ Numbers(t.head \o t.tail) = Kept(t.total)
         /\ Len(t.head) + Len(t.tail) = KeptLength(t.total) /\ KeptLength(t.total) \in Nat
         /\ Len(t.head) \in 0..Edge /\ Len(t.tail) \in 0..Edge
<1> DEFINE all == t.head \o t.tail
<1>1. /\ t.total \in Nat /\ t.head \in Seq(Events) /\ t.tail \in Seq(Events)
      /\ Len(t.head) \in Nat /\ Len(t.tail) \in Nat /\ Edge \in Nat \ {0}
  BY EdgeAssumption DEF RecorderOK
<1>2. Len(t.head) + Len(t.tail) = KeptLength(t.total) /\ KeptLength(t.total) \in Nat
  BY <1>1 DEF RecorderOK, KeptLength, Smaller
<1>3. Len(t.head) \in 0..Edge /\ Len(t.tail) \in 0..Edge
  BY <1>1 DEF RecorderOK, Smaller
<1>4. all \in Seq(Events) /\ Len(all) = KeptLength(t.total) /\ KeptLength(t.total) \in Nat
  <2>1. all \in Seq(Events) /\ Len(all) = Len(t.head) + Len(t.tail)
    BY <1>1, ConcatProperties
  <2> HIDE DEF all
  <2> QED BY <1>1, <1>2, <2>1
<1>5. ASSUME NEW i \in 1..KeptLength(t.total)
      PROVE  all[i].seq = IF i <= Edge THEN i ELSE t.total - KeptLength(t.total) + i
  <2>1. CASE i <= Len(t.head)
    <3>1. all[i] = t.head[i]  BY <1>1, <1>4, <2>1, ConcatProperties
    <3> QED BY <1>1, <1>3, <1>4, <2>1, <3>1 DEF RecorderOK
  <2>2. CASE ~(i <= Len(t.head))
    <3>1. Len(t.head) = Edge  BY <1>1, <1>2, <1>4, <2>2 DEF RecorderOK, Smaller
    <3>2. all[i] = t.tail[i - Len(t.head)] /\ i - Len(t.head) \in 1..Len(t.tail)
      <4>1. i \in 1..Len(t.head) + Len(t.tail)  BY <1>2
      <4>2. all[i] = t.tail[i - Len(t.head)]  BY <1>1, <2>2, <4>1, ConcatProperties
      <4>3. i \in Nat  BY <1>2
      <4> HIDE DEF all
      <4>4. i - Len(t.head) \in 1..Len(t.tail)
        <5> DEFINE h == Len(t.head)
                   l == Len(t.tail)
        <5>1. i \in Nat /\ h \in Nat /\ l \in Nat /\ ~(i <= h) /\ i \in 1..h + l
          BY <1>1, <2>2, <4>1, <4>3
        <5> HIDE DEF h, l
        <5>2. i - h \in 1..l  BY <5>1
        <5> QED BY <5>2 DEF h, l
      <4> QED BY <4>2, <4>4
    <3>3. all[i].seq = t.total - Len(t.tail) + (i - Len(t.head))
      BY <3>2 DEF RecorderOK
    <3> QED BY <1>1, <1>2, <1>4, <2>2, <3>1, <3>3
  <2> QED BY <1>1, <1>4, <2>1, <2>2
<1> HIDE DEF all
<1>6. DOMAIN all = 1..KeptLength(t.total)  BY <1>4, LenProperties
<1>7. Numbers(all) = Kept(t.total)  BY <1>5, <1>6 DEF Numbers, Kept
<1> QED BY <1>2, <1>3, <1>4, <1>7 DEF all

\* The rest of a sequence is the page at an offset and the rest after that.
LEMMA PageAndRest ==
  ASSUME NEW timeline, timeline.items \in Seq(Events), NEW limit \in Nat \ {0}, NEW offset \in Nat
  PROVE  LET items == timeline.items
             page == TimelinePage(timeline, offset, limit)
             Rest(o) == SubSeq(items, o + 1, Len(items))
         IN  /\ page.more => offset + limit < Len(items)
             /\ Rest(offset) = page.items \o (IF page.more THEN Rest(offset + limit) ELSE <<>>)
<1> DEFINE items == timeline.items
           n == Len(items)
           page == TimelinePage(timeline, offset, limit)
           Rest(o) == SubSeq(items, o + 1, n)
<1>1. /\ page.items = SubSeq(items, offset + 1, Smaller(offset + limit, n))
      /\ page.more <=> offset + Len(page.items) < n
  BY DEF TimelinePage, Slice
<1>2. items \in Seq(Events) /\ n \in Nat /\ <<>> \in Seq(Events)  BY LenProperties
<1> HIDE DEF items, n, page
<1>3. \A o \in Nat : Rest(o) \in Seq(Events)
  <2> TAKE o \in Nat
  <2>1. \A i \in o + 1..n : items[i] \in Events
    <3> TAKE i \in o + 1..n
    <3>1. i \in 1..Len(items)  BY <1>2 DEF n
    <3> QED BY <1>2, <3>1, ElementOfSeq
  <2> QED BY <1>2, <2>1, SubSeqProperties
<1>4. CASE offset >= n
  <2>1. Smaller(offset + limit, n) = n  BY <1>2, <1>4 DEF Smaller
  <2>2. page.items = <<>> /\ Rest(offset) = <<>>
    BY <1>1, <1>2, <1>4, <2>1, SubSeqEmpty
  <2>3. ~page.more
    <3>1. Len(page.items) = 0  BY <2>2
    <3>2. ~(offset + Len(page.items) < n)  BY <1>2, <1>4, <3>1
    <3> QED BY <1>1, <3>2
  <2> QED BY <1>2, <2>2, <2>3, ConcatEmptySeq DEF items, n, page
<1>5. CASE offset < n /\ offset + limit < n
  <2>1. Smaller(offset + limit, n) = offset + limit  BY <1>2, <1>5 DEF Smaller
  <2>2. /\ offset + 1 \in 1..Len(items) + 1
        /\ offset + limit \in (offset + 1) - 1..Len(items)
        /\ n \in offset + limit..Len(items)
    BY <1>2, <1>5 DEF n
  <2>3. page.items \o Rest(offset + limit) = Rest(offset)
    BY <1>1, <1>2, <2>1, <2>2, ConcatAdjacentSubSeq, ZenonT(60)
  <2>4. Len(page.items) = limit
    <3>1. \A i \in offset + 1..offset + limit : items[i] \in Events
      <4> TAKE i \in offset + 1..offset + limit
      <4>1. i \in 1..Len(items)  BY <1>2, <1>5 DEF n
      <4> QED BY <1>2, <4>1, ElementOfSeq
    <3>2. Len(SubSeq(items, offset + 1, offset + limit)) =
            IF offset + 1 <= offset + limit THEN offset + limit - (offset + 1) + 1 ELSE 0
      BY <3>1, SubSeqProperties
    <3> QED BY <1>1, <2>1, <3>2
  <2>5. page.more  BY <1>1, <1>5, <2>4
  <2> QED BY <1>5, <2>3, <2>5 DEF items, n, page
<1>6. CASE offset < n /\ offset + limit >= n
  <2>1. Smaller(offset + limit, n) = n  BY <1>2, <1>6 DEF Smaller
  <2>2. page.items = Rest(offset)  BY <1>1, <2>1
  <2>3. Len(page.items) = n - offset
    <3>1. \A i \in offset + 1..n : items[i] \in Events
      <4> TAKE i \in offset + 1..n
      <4>1. i \in 1..Len(items)  BY <1>2 DEF n
      <4> QED BY <1>2, <4>1, ElementOfSeq
    <3>2. Len(SubSeq(items, offset + 1, n)) = IF offset + 1 <= n THEN n - (offset + 1) + 1 ELSE 0
      BY <1>2, <3>1, SubSeqProperties
    <3> QED BY <1>2, <1>6, <2>2, <3>2
  <2>4. ~page.more
    <3>1. ~(offset + Len(page.items) < n)  BY <1>2, <2>3
    <3> QED BY <1>1, <3>1
  <2> QED BY <1>3, <2>2, <2>4, ConcatEmptySeq DEF items, n, page
<1>7. \/ offset >= n
      \/ offset < n /\ offset + limit < n
      \/ offset < n /\ offset + limit >= n
  BY <1>2
<1> QED BY <1>4, <1>5, <1>6, <1>7

\* Paging from the start gives everything (get_agent_run_diagnostics).
LEMMA PagesAreComplete ==
  ASSUME NEW timeline, timeline.items \in Seq(Events), NEW limit \in Nat \ {0}
  PROVE  Pages(timeline, limit)[0] = timeline.items
<1> DEFINE items == timeline.items
           n == Len(items)
           Rest(o) == SubSeq(items, o + 1, n)
           IsPages(p) ==
             p = [offset \in 0..Len(timeline.items) + limit |->
                    TimelinePage(timeline, offset, limit).items
                      \o (IF TimelinePage(timeline, offset, limit).more
                          THEN p[offset + limit] ELSE <<>>)]
           g == [o \in 0..n + limit |-> Rest(o)]
           pages == Pages(timeline, limit)
<1>1. pages = CHOOSE p : IsPages(p)  BY DEF Pages
<1>2. n \in Nat  BY LenProperties
<1>3. \A o \in 0..n + limit :
        LET page == TimelinePage(timeline, o, limit) IN
        /\ page.more => o + limit \in 0..n + limit /\ o + limit < n
        /\ Rest(o) = page.items \o (IF page.more THEN Rest(o + limit) ELSE <<>>)
  <2> TAKE o \in 0..n + limit
  <2>1. o \in Nat  BY <1>2
  <2> DEFINE page == TimelinePage(timeline, o, limit)
  <2>2. /\ page.more => o + limit < n
        /\ Rest(o) = page.items \o (IF page.more THEN Rest(o + limit) ELSE <<>>)
    BY <2>1, PageAndRest
  <2> HIDE DEF page, items, Rest
  <2>3. page.more => o + limit \in 0..n + limit
    <3>1. n \in Nat /\ (page.more => o + limit < n)  BY <1>2, <2>2
    <3> HIDE DEF n
    <3> QED BY <2>1, <3>1
  <2> QED BY <2>2, <2>3 DEF page
<1>4. IsPages(g)
  <2>1. \A o \in 0..n + limit :
          g[o] = TimelinePage(timeline, o, limit).items
                   \o (IF TimelinePage(timeline, o, limit).more THEN g[o + limit] ELSE <<>>)
    <3> HIDE DEF n, Rest
    <3> QED BY <1>3
  <2> HIDE DEF g
  <2>2. g = [o \in 0..n + limit |-> g[o]]  BY DEF g
  <2> QED BY <2>1, <2>2
<1>5. IsPages(pages)
  <2> HIDE DEF IsPages, g, pages
  <2> QED BY <1>1, <1>4
<1>6. \A o \in 0..n + limit :
        pages[o] = TimelinePage(timeline, o, limit).items
                     \o (IF TimelinePage(timeline, o, limit).more THEN pages[o + limit] ELSE <<>>)
  <2> HIDE DEF pages
  <2> QED BY <1>5
<1> HIDE DEF pages, IsPages, g
<1> DEFINE Fails == {k \in 0..n + limit : pages[n + limit - k] # Rest(n + limit - k)}
<1>7. ASSUME n + limit \in Fails PROVE FALSE
  <2>1. Fails \in SUBSET Nat  BY <1>2
  <2>2. PICK k \in Fails : \A m \in Fails : k <= m
    <3> HIDE DEF Fails
    <3> QED BY <1>7, <2>1, LeastNumber
  <2> DEFINE o == n + limit - k
             page == TimelinePage(timeline, o, limit)
  <2>3. k \in 0..n + limit /\ pages[o] # Rest(o)  BY <2>2
  <2>4. o \in 0..n + limit /\ k \in Nat
    <3> HIDE DEF n
    <3> QED BY <1>2, <2>3
  <2>5. page.more => o + limit < n  BY <1>3, <2>4
  <2>6. ASSUME page.more PROVE pages[o + limit] = Rest(o + limit)
    <3>1. k - limit \in 0..n + limit /\ k - limit < k /\ n + limit - (k - limit) = o + limit
      <4>1. o + limit < n  BY <2>5, <2>6
      <4> HIDE DEF n, page
      <4> QED BY <1>2, <2>3, <2>4, <4>1
    <3>2. k - limit \notin Fails
      <4> HIDE DEF Fails, n
      <4> QED BY <2>2, <2>4, <3>1
    <3> HIDE DEF n, Rest, o
    <3> QED BY <3>1, <3>2
  <2> HIDE DEF o, Rest, n
  <2>7. pages[o] = page.items \o (IF page.more THEN pages[o + limit] ELSE <<>>)
    BY <1>6, <2>4
  <2>8. Rest(o) = page.items \o (IF page.more THEN Rest(o + limit) ELSE <<>>)
    BY <1>3, <2>4
  <2> QED BY <2>3, <2>6, <2>7, <2>8
<1>8. pages[0] = Rest(0)
  <2>1. n + limit \in 0..n + limit /\ n + limit - (n + limit) = 0
    <3> HIDE DEF n
    <3> QED BY <1>2
  <2>2. n + limit \notin Fails  BY <1>7
  <2> HIDE DEF Rest, n
  <2> QED BY <2>1, <2>2
<1>9. Rest(0) = items
  <2>1. SubSeq(items, 1, Len(items)) = items  BY SubSeqFull
  <2> QED BY <2>1
<1> QED BY <1>8, <1>9 DEF pages

\* Recorders in order tell their gaps, to the reader of the trace and to whoever pages.
LEMMA TraceTells ==
  ASSUME NEW t, RecorderOK(t)
  PROVE  LET trace == TracePayload(t) IN
         /\ Numbers(trace.first \o trace.last) = Kept(t.total)
         /\ trace.omitted > 0 <=> KeptLength(t.total) < t.total
<1> DEFINE trace == TracePayload(t)
<1>1. /\ t.total \in Nat /\ t.head \in Seq(Events) /\ t.tail \in Seq(Events)
      /\ Len(t.head) \in Nat /\ Len(t.tail) \in Nat
  BY DEF RecorderOK
<1>2. trace.first \o trace.last = t.head \o t.tail
  <2>1. (t.head \o t.tail) \o <<>> = t.head \o t.tail  BY KeptEvents, ConcatEmptySeq
  <2> QED BY <2>1 DEF TracePayload
<1>3. trace.omitted = t.total - Len(t.head) - Len(t.tail)  BY DEF TracePayload
<1>4. trace.omitted > 0 <=> KeptLength(t.total) < t.total
  <2>1. KeptLength(t.total) = Len(t.head) + Len(t.tail) /\ KeptLength(t.total) \in Nat
    BY KeptEvents
  <2> DEFINE h == Len(t.head)
             l == Len(t.tail)
             k == KeptLength(t.total)
             n == t.total
  <2>2. h \in Nat /\ l \in Nat /\ n \in Nat /\ k = h + l /\ trace.omitted = n - h - l
    BY <1>1, <1>3, <2>1
  <2> HIDE DEF trace, h, l, k, n
  <2>3. trace.omitted > 0 <=> k < n  BY <2>2
  <2> QED BY <2>3 DEF k, n
<1> QED BY <1>2, <1>4, KeptEvents

LEMMA TimelineTells ==
  ASSUME NEW t, RecorderOK(t)
  PROVE  LET timeline == Timeline(t) IN
         /\ \A limit \in 1..Edge + 1 : Numbers(Pages(timeline, limit)[0]) = Kept(t.total)
         /\ KeptLength(t.total) + timeline.omitted = t.total
<1> DEFINE timeline == Timeline(t)
           kept == t.head \o t.tail
<1>1. /\ t.total \in Nat /\ t.head \in Seq(Events) /\ t.tail \in Seq(Events)
      /\ Len(t.head) \in 0..Edge /\ Len(t.tail) \in 0..Edge /\ Edge \in Nat \ {0}
      /\ kept \in Seq(Events) /\ Len(kept) = Len(t.head) + Len(t.tail)
      /\ KeptLength(t.total) = Len(t.head) + Len(t.tail) /\ KeptLength(t.total) \in Nat
      /\ Numbers(kept) = Kept(t.total)
  <2>1. t.total \in Nat /\ t.head \in Seq(Events) /\ t.tail \in Seq(Events)
    BY DEF RecorderOK
  <2> QED BY <2>1, EdgeAssumption, KeptEvents, ConcatProperties
<1>2. \A s : Len(s) <= 2 * Edge =>
        BoundSequence(s).items = s /\ BoundSequence(s).omitted = 0
  BY DEF BoundSequence
<1>3. Len(t.head) <= 2 * Edge /\ Len(t.tail) <= 2 * Edge /\ Len(kept) <= 2 * Edge
  <2> DEFINE h == Len(t.head)
             l == Len(t.tail)
             k == Len(kept)
  <2>1. h \in 0..Edge /\ l \in 0..Edge /\ Edge \in Nat /\ k = h + l  BY <1>1
  <2> HIDE DEF h, l, k
  <2>2. h <= 2 * Edge /\ l <= 2 * Edge /\ k <= 2 * Edge  BY <2>1
  <2> QED BY <2>2 DEF h, l, k
<1> HIDE DEF kept
<1>4. timeline.items = kept
  <2>1. CASE t.total <= Len(kept)
    BY <1>2, <1>3, <2>1 DEF Timeline, kept
  <2>2. CASE ~(t.total <= Len(kept))
    <3>1. BoundSequence(t.head).items = t.head /\ BoundSequence(t.tail).items = t.tail
      BY <1>2, <1>3
    <3> QED BY <2>2, <3>1 DEF Timeline, kept
  <2> QED BY <2>1, <2>2
<1>5. KeptLength(t.total) <= t.total  BY <1>1 DEF KeptLength, Smaller
<1>6. timeline.omitted = t.total - Len(kept)
  <2>1. CASE t.total <= Len(kept)
    <3>1. timeline.omitted = 0  BY <1>2, <1>3, <2>1 DEF Timeline, kept
    <3> DEFINE k == Len(kept)
               n == t.total
    <3>2. n \in Nat /\ k \in Nat /\ k <= n /\ n <= k /\ timeline.omitted = 0
      BY <1>1, <1>5, <2>1, <3>1
    <3> HIDE DEF timeline, k, n
    <3>3. timeline.omitted = n - k  BY <3>2
    <3> QED BY <3>3 DEF k, n
  <2>2. CASE ~(t.total <= Len(kept))
    BY <2>2 DEF Timeline, kept
  <2> QED BY <2>1, <2>2
<1>7. KeptLength(t.total) + timeline.omitted = t.total
  <2> DEFINE k == Len(kept)
             n == t.total
  <2>1. n \in Nat /\ k \in Nat /\ KeptLength(t.total) = k /\ timeline.omitted = n - k
    BY <1>1, <1>6
  <2> HIDE DEF timeline, k
  <2>2. k + timeline.omitted = n  BY <2>1
  <2> QED BY <2>1, <2>2
<1>8. ASSUME NEW limit \in 1..Edge + 1 PROVE Numbers(Pages(timeline, limit)[0]) = Kept(t.total)
  <2>1. limit \in Nat \ {0}  BY <1>1
  <2> HIDE DEF timeline
  <2>2. Pages(timeline, limit)[0] = timeline.items
    BY <1>1, <1>4, <2>1, PagesAreComplete
  <2> QED BY <1>1, <1>4, <2>2
<1> QED BY <1>7, <1>8

-----------------------------------------------------------------------------
(* The recorders of a turn.                                                *)

LEMMA NewTurnOK == TurnOK(NewTurn)
<1>1. RecorderOK(Record(Record(NoEvents, "attempt"), "llm_request"))
  BY NoEventsOK, RecordOK DEF Phases
<1> QED BY <1>1, NoEventsOK DEF TurnOK, NewTurn

\* What the streaming does to a turn but for its recorders.
LEMMA ShowingOK ==
  ASSUME NEW t, TurnOK(t)
  PROVE  /\ TurnOK(Flush(t))
         /\ TurnOK(FailureResult(t))
         /\ \A m : TurnOK(AppendMissingFinalText(t, m))
         /\ \A delta : delta.type \in {"assistant", "tool_result", "content", "thinking", "call"} =>
              TurnOK(AddDelta(t, delta))
<1>1. TurnOK(Flush(t))  BY DEF TurnOK, Flush
<1>2. TurnOK(FailureResult(t))  BY DEF TurnOK, FailureResult
<1>3. ASSUME NEW m PROVE TurnOK(AppendMissingFinalText(t, m))
  BY DEF TurnOK, AppendMissingFinalText
<1>4. ASSUME NEW delta,
             delta.type \in {"assistant", "tool_result", "content", "thinking", "call"}
      PROVE  TurnOK(AddDelta(t, delta))
  <2>1. CASE delta.type = "assistant"
    BY <1>1, <2>1 DEF AddDelta
  <2>2. CASE delta.type = "tool_result"
    BY <2>2 DEF AddDelta, TurnOK, Flush
  <2>3. CASE delta.type = "content"
    BY <2>3 DEF AddDelta, TurnOK
  <2>4. CASE delta.type = "thinking"
    BY <2>4 DEF AddDelta, TurnOK
  <2>5. CASE delta.type = "call"
    BY <2>5 DEF AddDelta, TurnOK
  <2> QED BY <1>4, <2>1, <2>2, <2>3, <2>4, <2>5
<1> QED BY <1>1, <1>2, <1>3, <1>4

LEMMA EmitOK ==
  ASSUME NEW t, TurnOK(t), NEW delta,
         delta.type \in {"assistant", "tool_result", "content", "thinking", "call"}
  PROVE  TurnOK(Emit(t, delta))
<1> DEFINE recorded ==
             [t EXCEPT !.emitted = TRUE,
                       !.deltas = Record(@, "chat_delta"), !.run = Record(@, "chat_delta")]
<1>1. RecorderOK(Record(t.run, "chat_delta"))  BY RecordOK DEF TurnOK, Phases
<1>2. TurnOK(recorded)  BY <1>1 DEF TurnOK
<1> HIDE DEF recorded
<1>3. TurnOK(AddDelta(recorded, delta))  BY <1>2, ShowingOK
<1> QED BY <1>3 DEF Emit, recorded

LEMMA EmitPartOK ==
  ASSUME NEW t, TurnOK(t), NEW kind, NEW words
  PROVE  TurnOK(EmitPart(t, kind, words)) /\ TurnOK(OpenAssistant(t))
<1>1. TurnOK(OpenAssistant(t))
  <2>1. TurnOK(Emit(t, [type |-> "assistant"]))  BY EmitOK
  <2> QED BY <2>1 DEF OpenAssistant, TurnOK
<1>2. CASE kind = "text" /\ words # <<>>
  <2> DEFINE e == Emit(t, [type |-> "content", words |-> ResumedTextSeparator(t, words)])
  <2>1. TurnOK(e)  BY EmitOK
  <2>2. EmitPart(t, kind, words) = [e EXCEPT !.textSeen = TRUE, !.needsSeparator = FALSE]
    BY <1>2 DEF EmitPart
  <2> HIDE DEF e
  <2> QED BY <1>1, <2>1, <2>2 DEF TurnOK
<1>3. CASE ~(kind = "text" /\ words # <<>>) /\ kind = "thinking" /\ words # <<>>
  <2>1. TurnOK(Emit(t, [type |-> "thinking", words |-> words]))  BY EmitOK
  <2> QED BY <1>1, <1>3, <2>1 DEF EmitPart
<1>4. CASE ~(kind = "text" /\ words # <<>>) /\ ~(kind = "thinking" /\ words # <<>>)
  BY <1>1, <1>4 DEF EmitPart
<1> QED BY <1>2, <1>3, <1>4

LEMMA ProcessOK ==
  ASSUME NEW t, TurnOK(t), NEW e, e.type \in EventTypes
  PROVE  TurnOK(ProcessAgentEvent(t, e))
<1> DEFINE r == RecordEvent(t)
<1>1. TurnOK(r)
  <2>1. RecorderOK(Record(t.run, "llm_stream")) /\ RecorderOK(Record(t.trace, "llm_stream"))
    BY RecordOK DEF TurnOK, Phases
  <2> QED BY <2>1 DEF TurnOK, RecordEvent
<1> HIDE DEF r
<1>2. TurnOK(HandlePartStart(r, e)) /\ TurnOK(HandlePartDelta(r, e))
  <2>1. TurnOK(OpenAssistant(r))  BY <1>1, EmitPartOK
  <2> QED BY <1>1, <2>1, EmitPartOK DEF HandlePartStart, HandlePartDelta
<1>3. TurnOK(HandleToolCall(r, e))
  <2> DEFINE opened == IF r.open THEN r ELSE OpenAssistant(r)
             shown == Emit(opened, [type |-> "call", call |-> e.call])
  <2>1. TurnOK(opened)  BY <1>1, EmitPartOK
  <2>2. HandleToolCall(r, e) \in {opened, [shown EXCEPT !.callIds = @ \cup {e.id}]}
    BY DEF HandleToolCall, ToolCallToDelta
  <2> HIDE DEF opened
  <2>3. TurnOK(shown)  BY <2>1, EmitOK
  <2> HIDE DEF shown
  <2> QED BY <2>1, <2>2, <2>3 DEF TurnOK
<1>4. TurnOK(HandleToolResult(r, e))
  <2> DEFINE s == Emit(r, [type |-> "tool_result", result |-> ToolResult(e.call)])
  <2>1. TurnOK(s)  BY <1>1, EmitOK
  <2>2. HandleToolResult(r, e) =
          [s EXCEPT !.open = FALSE, !.needsSeparator = @ \/ r.textSeen, !.textSeen = FALSE]
    BY DEF HandleToolResult
  <2> HIDE DEF s
  <2> QED BY <2>1, <2>2 DEF TurnOK
<1> QED BY <1>1, <1>2, <1>3, <1>4 DEF ProcessAgentEvent, EventTypes, r

-----------------------------------------------------------------------------
(* The events and calls of an answer.                                      *)

LEMMA ListDomain == ASSUME NEW s, IsList(s) PROVE Len(s) \in Nat /\ DOMAIN s = 1..Len(s)
BY LenProperties, Zenon DEF IsList

LEMMA AppendList ==
  ASSUME NEW s, IsList(s), NEW x
  PROVE  /\ IsList(Append(s, x)) /\ Len(Append(s, x)) = Len(s) + 1
         /\ \A i \in 1..Len(s) : Append(s, x)[i] = s[i]
         /\ Append(s, x)[Len(s) + 1] = x
<1>1. PICK S : s \in Seq(S)  BY DEF IsList
<1>2. s \in Seq(S \cup {x}) /\ x \in S \cup {x}  BY <1>1, SeqMonotonic
<1>3. /\ Append(s, x) \in Seq(S \cup {x}) /\ Len(Append(s, x)) = Len(s) + 1
      /\ \A i \in 1..Len(s) : Append(s, x)[i] = s[i]
      /\ Append(s, x)[Len(s) + 1] = x
  BY <1>2, AppendProperties
<1> QED BY <1>3, Zenon DEF IsList

LEMMA ExceptList ==
  ASSUME NEW s, IsList(s), NEW i \in DOMAIN s, NEW x
  PROVE  IsList([s EXCEPT ![i] = x])
<1>1. PICK S : s \in Seq(S)  BY DEF IsList
<1>2. s \in Seq(S \cup {x}) /\ x \in S \cup {x}  BY <1>1, SeqMonotonic
<1>3. i \in 1..Len(s)  BY <1>1, LenProperties
<1>4. [s EXCEPT ![i] = x] \in Seq(S \cup {x})  BY <1>2, <1>3, ExceptSeq, Zenon
<1> QED BY <1>4, Zenon DEF IsList

\* A turn stays in order through the events of a delta.
LEMMA EventsOK ==
  ASSUME NEW t, TurnOK(t), NEW n \in Nat, NEW events, DOMAIN events = 1..n,
         \A i \in 1..n : events[i].type \in EventTypes
  PROVE  TurnOK(AgentEventsToChatDeltas(t, events))
<1> DEFINE it == CHOOSE f : f = [s \in SUBSET DOMAIN events |->
                   IF s = {} THEN t ELSE ProcessAgentEvent(f[s \ {Max(s)}], events[Max(s)])]
           Good == {s \in SUBSET (1..n) : TurnOK(it[s])}
<1>1. AgentEventsToChatDeltas(t, events) = it[DOMAIN events]
  BY DEF AgentEventsToChatDeltas, FoldLeft, MapThenFoldSet
<1>2. PICK g : Computes(g, Fold("events"), t, events, n)  BY FoldExists
<1>3. g = [s \in SUBSET DOMAIN events |->
             IF s = {} THEN t ELSE ProcessAgentEvent(g[s \ {Max(s)}], events[Max(s)])]
  BY <1>2 DEF Computes, Folded, Fold
<1>4. it = [s \in SUBSET DOMAIN events |->
              IF s = {} THEN t ELSE ProcessAgentEvent(it[s \ {Max(s)}], events[Max(s)])]
  BY <1>3, Zenon
<1> HIDE DEF it
<1>5. {} \in Good  BY <1>4
<1>6. ASSUME NEW s \in SUBSET (1..n), s # {}, s \ {Max(s)} \in Good PROVE s \in Good
  <2>1. it[s] = ProcessAgentEvent(it[s \ {Max(s)}], events[Max(s)])  BY <1>4, <1>6
  <2>2. events[Max(s)].type \in EventTypes  BY <1>6, Greatest
  <2>3. TurnOK(ProcessAgentEvent(it[s \ {Max(s)}], events[Max(s)]))
    BY <1>6, <2>2, ProcessOK
  <2> QED BY <1>6, <2>1, <2>3
<1>7. 1..n \in Good
  <2> HIDE DEF Good
  <2> QED BY <1>5, <1>6, FoldStays
<1> QED BY <1>1, <1>7

\* Every call that starts is recorded.
LEMMA StartsOK ==
  ASSUME NEW run, RecorderOK(run), NEW n \in Nat, NEW calls, DOMAIN calls = 1..n
  PROVE  LET CallStarted(r, call) == Record(r, "tool_call") IN
         RecorderOK(FoldLeft(CallStarted, run, calls))
<1> DEFINE CallStarted(r, call) == Record(r, "tool_call")
           it == CHOOSE f : f = [s \in SUBSET DOMAIN calls |->
                   IF s = {} THEN run ELSE Record(f[s \ {Max(s)}], "tool_call")]
           Good == {s \in SUBSET (1..n) : RecorderOK(it[s])}
<1>1. FoldLeft(CallStarted, run, calls) = it[DOMAIN calls]
  BY DEF FoldLeft, MapThenFoldSet
<1>2. PICK g : Computes(g, Fold("starts"), run, calls, n)  BY FoldExists
<1>3. g = [s \in SUBSET DOMAIN calls |->
             IF s = {} THEN run ELSE Record(g[s \ {Max(s)}], "tool_call")]
  BY <1>2 DEF Computes, Folded, Fold
<1>4. it = [s \in SUBSET DOMAIN calls |->
              IF s = {} THEN run ELSE Record(it[s \ {Max(s)}], "tool_call")]
  BY <1>3, Zenon
<1> HIDE DEF it
<1>5. {} \in Good  BY <1>4
<1>6. ASSUME NEW s \in SUBSET (1..n), s # {}, s \ {Max(s)} \in Good PROVE s \in Good
  <2>1. it[s] = Record(it[s \ {Max(s)}], "tool_call")  BY <1>4, <1>6
  <2>2. RecorderOK(Record(it[s \ {Max(s)}], "tool_call"))
    BY <1>6, RecordOK DEF Phases
  <2> QED BY <1>6, <2>1, <2>2
<1>7. 1..n \in Good
  <2> HIDE DEF Good
  <2> QED BY <1>5, <1>6, FoldStays
<1> QED BY <1>1, <1>7

\* The calls of an answer are a list, whatever its parts are.
LEMMA CallsAreAList ==
  ASSUME IsList(Last(messages).parts)
  PROVE  IsList(Calls)
<1> DEFINE parts == Last(messages).parts
           n == Len(parts)
           Collect(calls, part) == IF part.kind = "call" THEN Append(calls, part.call) ELSE calls
           it == CHOOSE f : f = [s \in SUBSET DOMAIN parts |->
                   IF s = {} THEN <<>> ELSE Collect(f[s \ {Max(s)}], parts[Max(s)])]
           Good == {s \in SUBSET (1..n) : IsList(it[s])}
<1>1. Calls = it[DOMAIN parts]  BY DEF Calls, CallsOf, FoldLeft, MapThenFoldSet
<1>2. n \in Nat /\ DOMAIN parts = 1..n  BY ListDomain
<1> HIDE DEF parts, n
<1>3. PICK g : Computes(g, Fold("calls"), <<>>, parts, n)  BY <1>2, FoldExists
<1>4. g = [s \in SUBSET DOMAIN parts |->
             IF s = {} THEN <<>> ELSE Collect(g[s \ {Max(s)}], parts[Max(s)])]
  BY <1>2, <1>3 DEF Computes, Folded, Fold
<1> HIDE DEF Collect
<1>5. it = [s \in SUBSET DOMAIN parts |->
              IF s = {} THEN <<>> ELSE Collect(it[s \ {Max(s)}], parts[Max(s)])]
  BY <1>4, Zenon
<1> HIDE DEF it
<1>6. {} \in Good
  <2>1. it[{}] = <<>>  BY <1>2, <1>5
  <2>2. <<>> \in Seq({})  OBVIOUS
  <2> QED BY <2>1, <2>2 DEF IsList
<1>7. ASSUME NEW s \in SUBSET (1..n), s # {}, s \ {Max(s)} \in Good PROVE s \in Good
  <2>1. it[s] = Collect(it[s \ {Max(s)}], parts[Max(s)])  BY <1>2, <1>5, <1>7
  <2>2. IsList(Collect(it[s \ {Max(s)}], parts[Max(s)]))
    BY <1>7, AppendList DEF Collect
  <2> QED BY <1>7, <2>1, <2>2
<1>8. 1..n \in Good
  <2> HIDE DEF Good
  <2> QED BY <1>2, <1>6, <1>7, FoldStays
<1> QED BY <1>1, <1>2, <1>8

LEMMA OneEvent ==
  ASSUME NEW e, e.type \in EventTypes
  PROVE  \E n \in Nat : DOMAIN <<e>> = 1..n /\ \A i \in 1..n : <<e>>[i].type \in EventTypes
<1>1. DOMAIN <<e>> = 1..1 /\ \A i \in 1..1 : <<e>>[i].type \in EventTypes  OBVIOUS
<1> QED BY <1>1

LEMMA HandleDeltaOK ==
  ASSUME NEW parts, IsList(parts), NEW key, NEW part
  PROVE  UpdateOK(HandleDelta(parts, key, part))
<1> DEFINE u == HandleDelta(parts, key, part)
<1>1. CASE ~Holds(parts, key)
  <2>1. u.parts = Append(parts, Keyed(part, key)) /\ u.out = <<Started(Len(parts) + 1, part)>>
    BY <1>1 DEF HandleDelta
  <2>2. Started(Len(parts) + 1, part).type \in EventTypes
    BY DEF Started, EventTypes
  <2> HIDE DEF u
  <2> QED BY <2>1, <2>2, AppendList, OneEvent DEF UpdateOK, u
<1>2. CASE Holds(parts, key)
  <2> DEFINE i == Slot(parts, key)
  <2>1. i \in DOMAIN parts  BY <1>2, Zenon DEF Holds, Slot
  <2>2. /\ u.parts = [parts EXCEPT ![i] = [parts[i] EXCEPT !.words = @ \o part.words]]
        /\ u.out = <<Extended(i, part.kind, part.words)>>
    BY <1>2 DEF HandleDelta
  <2>3. Extended(i, part.kind, part.words).type \in EventTypes
    BY DEF Extended, EventTypes
  <2> HIDE DEF u, i
  <2> QED BY <2>1, <2>2, <2>3, ExceptList, OneEvent DEF UpdateOK, u
<1> QED BY <1>1, <1>2

LEMMA HandleCallPartOK ==
  ASSUME NEW parts, IsList(parts), NEW key, NEW part
  PROVE  UpdateOK(HandleCallPart(parts, key, part))
<1> DEFINE u == HandleCallPart(parts, key, part)
           i == IF Holds(parts, key) THEN Slot(parts, key) ELSE Len(parts) + 1
<1>1. /\ u.parts = IF i > Len(parts) THEN Append(parts, Keyed(part, key))
                   ELSE [parts EXCEPT ![i] = Keyed(part, key)]
      /\ u.out = <<Started(i, part)>>
  BY DEF HandleCallPart
<1>2. Started(i, part).type \in EventTypes  BY DEF Started, EventTypes
<1>3. i > Len(parts) \/ i \in DOMAIN parts
  <2>1. CASE Holds(parts, key)
    BY <2>1, Zenon DEF Holds, Slot
  <2>2. CASE ~Holds(parts, key)
    <3>1. Len(parts) \in Nat  BY ListDomain
    <3> QED BY <2>2, <3>1
  <2> QED BY <2>1, <2>2
<1> HIDE DEF u, i
<1> QED BY <1>1, <1>2, <1>3, AppendList, ExceptList, OneEvent DEF UpdateOK, u

LEMMA UntrackedList == ASSUME NEW parts, IsList(parts), NEW key PROVE IsList(Untracked(parts, key))
<1>1. Len(parts) \in Nat /\ DOMAIN parts = 1..Len(parts)  BY ListDomain
<1>2. Untracked(parts, key) \in Seq({Untracked(parts, key)[i] : i \in 1..Len(parts)})
  BY <1>1 DEF Untracked
<1> QED BY <1>2, Zenon DEF IsList

LEMMA NothingOK == ASSUME NEW a, IsList(a.parts) PROVE UpdateOK(Nothing(a))
<1>1. DOMAIN <<>> = 1..0 /\ 0 \in Nat /\ \A i \in 1..0 : FALSE  OBVIOUS
<1>2. Nothing(a).parts = a.parts /\ Nothing(a).out = <<>>  BY DEF Nothing
<1> QED BY <1>1, <1>2 DEF UpdateOK

LEMMA TaggedTextOK ==
  ASSUME NEW parts, IsList(parts), NEW key, NEW words
  PROVE  UpdateOK(HandleTaggedText(parts, key, words))
<1> DEFINE untracked == Untracked(parts, key)
           dropped == [parts |-> untracked, ok |-> TRUE, out |-> <<>>]
<1>1. IsList(untracked)  BY UntrackedList
<1>2. UpdateOK(dropped)
  <2>1. DOMAIN <<>> = 1..0 /\ 0 \in Nat /\ \A i \in 1..0 : FALSE  OBVIOUS
  <2> HIDE DEF untracked
  <2> QED BY <1>1, <2>1 DEF UpdateOK
<1> HIDE DEF untracked, dropped
<1>3. \A part : UpdateOK(HandleDelta(parts, key, part)) /\ UpdateOK(HandleDelta(untracked, key, part))
  BY <1>1, HandleDeltaOK
<1> QED BY <1>2, <1>3 DEF HandleTaggedText, dropped, untracked

LEMMA AssembleOK ==
  ASSUME NEW a, IsList(a.parts), NEW e, e.type \in StreamTypes, NEW known, NEW labelled
  PROVE  UpdateOK(Assemble(known, labelled, a, e))
<1>1. UpdateOK(HandleOutputItemAdded(labelled, a, e))
  BY HandleCallPartOK, NothingOK DEF HandleOutputItemAdded
<1>2. UpdateOK(HandleOutputItemDone(labelled, a, e))
  BY HandleDeltaOK, NothingOK DEF HandleOutputItemDone
<1>3. /\ UpdateOK(HandleOutputText(labelled, a, e))
      /\ UpdateOK(HandleReasoning(labelled, a, e))
      /\ UpdateOK(HandleArguments(labelled, a, e))
  BY HandleDeltaOK DEF HandleOutputText, HandleReasoning, HandleArguments
<1>4. UpdateOK(ProcessResponseEvent(labelled, a, e))
  BY <1>1, <1>2, <1>3, NothingOK DEF ProcessResponseEvent, StreamTypes
<1>5. UpdateOK(ProcessChunk(a, e))
  BY HandleDeltaOK, TaggedTextOK, NothingOK DEF ProcessChunk
<1> QED BY <1>4, <1>5 DEF Assemble

-----------------------------------------------------------------------------
(* The run.                                                                *)

LEMMA EmptyList == IsList(<<>>)
<1>1. <<>> \in Seq({})  OBVIOUS
<1> QED BY <1>1 DEF IsList

LEMMA NothingSaidOK == AnswerOK(NoAnswer) /\ IsList(NoAssembly.parts)
BY EmptyList DEF AnswerOK, NoAnswer, NoAssembly

LEMMA InitOK == Init => StreamInv
BY EmptyList, NothingSaidOK, NewTurnOK DEF Init, StreamInv

LEMMA FailOK == ASSUME StreamInv, Fail PROVE StreamInv'
<1>1. TurnOK(turn')  BY ShowingOK DEF Fail, StreamInv
<1>2. pc' # "answered"  BY DEF Fail
<1>3. AnswerOK(answer') /\ IsList(assembly'.parts) /\ IsList(messages')
  BY NothingSaidOK, EmptyList DEF Fail
<1> QED BY <1>1, <1>2, <1>3 DEF StreamInv

LEMMA DeliverOK ==
  ASSUME StreamInv, pc = "receiving", NEW said, AnswerOK(said), NEW e, e.type \in StreamTypes,
         Deliver(said, e)
  PROVE  StreamInv'
<1> DEFINE update == Assemble(api, ids, assembly, e)
<1>1. UpdateOK(update)  BY AssembleOK DEF StreamInv
<1>2. CASE ~update.ok
  <2>1. Fail  BY <1>2 DEF Deliver
  <2> QED BY <2>1, FailOK
<1>3. CASE update.ok
  <2>1. /\ answer' = said
        /\ assembly' = [parts |-> update.parts, argDeltas |-> ArgDeltaItemIds(ids, assembly, e)]
        /\ turn' = AgentEventsToChatDeltas(turn, update.out)
        /\ UNCHANGED <<pc, messages>>
    BY <1>3 DEF Deliver
  <2> HIDE DEF update
  <2>2. TurnOK(turn')  BY <1>1, <2>1, EventsOK DEF StreamInv, UpdateOK
  <2>3. IsList(assembly'.parts)  BY <1>1, <2>1 DEF UpdateOK
  <2> QED BY <2>1, <2>2, <2>3 DEF StreamInv
<1> QED BY <1>2, <1>3

LEMMA NewItemOK ==
  ASSUME AnswerOK(answer), NEW item \in Items
  PROVE  AnswerOK([answer EXCEPT !.items = Append(@, item)])
<1>1. Append(answer.items, item) \in Seq(Items)  BY AppendProperties DEF AnswerOK
<1> QED BY <1>1 DEF AnswerOK

LEMMA SameItemOK ==
  ASSUME AnswerOK(answer), NEW i \in DOMAIN answer.items, NEW item \in Items
  PROVE  AnswerOK([answer EXCEPT !.items[i] = item])
<1>1. [answer.items EXCEPT ![i] = item] \in Seq(Items)
  <2>1. answer.items \in Seq(Items) /\ i \in 1..Len(answer.items)
    BY LenProperties DEF AnswerOK
  <2> QED BY <2>1, ExceptSeq
<1> QED BY <1>1 DEF AnswerOK

LEMMA FirstPiece ==
  /\ \A word \in Nat \ {0} : <<[sub |-> 0, word |-> word]>> \in Seq(Piece)
  /\ <<[sub |-> 0, word |-> 1]>> \in Seq(Piece)
<1>1. \A word \in Nat \ {0} : [sub |-> 0, word |-> word] \in Piece  BY DEF Piece
<1> QED BY <1>1

LEMMA NewItemType ==
  ASSUME NEW kind \in Kinds
  PROVE  /\ NewItem(kind) \in Items
         /\ \A word \in Nat \ {0} :
              [NewItem(kind) EXCEPT !.pieces = <<[sub |-> 0, word |-> word]>>, !.done = TRUE] \in Items
         /\ [NewItem(kind) EXCEPT !.signed = TRUE, !.done = TRUE] \in Items
         /\ \A told \in BOOLEAN : BegunCall(told) \in Items
<1>1. NewItem(kind) \in Items /\ NewItem("function_call") \in Items
  BY EmptySeq DEF NewItem, Items, Kinds
<1>2. \A told : Begun(told) \in Seq(Piece)  BY FirstPiece, EmptySeq DEF Begun
<1>3. \A told \in BOOLEAN : BegunCall(told) \in Items
  BY <1>1, <1>2 DEF BegunCall, Items
<1> QED BY <1>1, <1>3, FirstPiece DEF Items

\* Whatever is said next is a word.
LEMMA SpokenWord ==
  ASSUME NEW kind, NEW pieces, Len(pieces) \in Nat, NEW word \in Spoken(kind, pieces)
  PROVE  word \in Nat \ {0} /\ (word \in Tags \/ word = Len(pieces) + 1)
BY AgentStreamAssumption DEF Spoken

LEMMA PieceTypeOK == ASSUME NEW kind \in Kinds PROVE PieceType(kind) \in StreamTypes
BY DEF PieceType, Kinds, StreamTypes

LEMMA ItemType ==
  ASSUME AnswerOK(answer), NEW i \in DOMAIN answer.items
  PROVE  answer.items[i] \in Items /\ answer.items[i].kind \in Kinds
<1>1. answer.items \in Seq(Items) /\ i \in 1..Len(answer.items)
  BY LenProperties DEF AnswerOK
<1>2. answer.items[i] \in Items  BY <1>1, ElementOfSeq
<1> QED BY <1>2 DEF Items

\* The provider's stream.
LEMMA StreamStepsOK ==
  ASSUME StreamInv
  PROVE  /\ \A kind \in Kinds : AddItem(kind) => StreamInv'
         /\ \A told \in BOOLEAN : AddCall(told) => StreamInv'
         /\ AddSealedReasoning => StreamInv'
         /\ \A i \in DOMAIN answer.items, sub \in 0..MaxSub : AddPiece(i, sub) => StreamInv'
         /\ \A i \in DOMAIN answer.items, undelivered \in BOOLEAN :
              FinishCall(i, undelivered) => StreamInv'
         /\ SignReasoning => StreamInv'
         /\ Refuse => StreamInv'
<1>1. AnswerOK(answer)  BY DEF StreamInv
<1>2. ASSUME NEW kind \in Kinds, AddItem(kind) PROVE StreamInv'
  <2> DEFINE item(word) ==
               [NewItem(kind) EXCEPT !.pieces = <<[sub |-> 0, word |-> word]>>, !.done = TRUE]
             Said(word) == [answer EXCEPT !.items = Append(@, item(word))]
             Ev(word) == Event(PieceType(kind), Len(answer.items) + 1, 0, <<word>>)
  <2>0. pc = "receiving" /\ \E word \in Spoken(kind, <<>>) : Deliver(Said(word), Ev(word))
    BY <1>2 DEF AddItem, AnotherItem, Growing, Receiving
  <2> PICK word \in Spoken(kind, <<>>) : Deliver(Said(word), Ev(word))
    BY <2>0
  <2> DEFINE said == Said(word)
             e == Ev(word)
  <2>1. pc = "receiving" /\ Deliver(said, e) /\ word \in Nat \ {0}
    <3>1. Len(<<>>) \in Nat  OBVIOUS
    <3> QED BY <2>0, <3>1, SpokenWord
  <2>2. AnswerOK(said)  BY <1>1, <1>2, <2>1, NewItemType, NewItemOK
  <2>3. e.type \in StreamTypes  BY <1>2, PieceTypeOK DEF Event
  <2> QED BY <2>1, <2>2, <2>3, DeliverOK
<1>3. ASSUME NEW told \in BOOLEAN, AddCall(told) PROVE StreamInv'
  <2> DEFINE item == BegunCall(told)
             said == [answer EXCEPT !.items = Append(@, item)]
             e == Event("call_added", Len(answer.items) + 1, 0, Words(item))
  <2>1. pc = "receiving" /\ Deliver(said, e)
    BY <1>3 DEF AddCall, AnotherItem, Growing, Receiving, BegunCall, Begun
  <2>2. AnswerOK(said)  BY <1>1, NewItemType, NewItemOK DEF Kinds
  <2>3. e.type \in StreamTypes  BY DEF Event, StreamTypes
  <2> QED BY <2>1, <2>2, <2>3, DeliverOK
<1>4. ASSUME AddSealedReasoning PROVE StreamInv'
  <2> DEFINE item == [NewItem("reasoning") EXCEPT !.signed = TRUE, !.done = TRUE]
             said == [answer EXCEPT !.items = Append(@, item)]
             e == Event("signed_done", Len(answer.items) + 1, 0, <<>>)
  <2>1. pc = "receiving" /\ Deliver(said, e)
    BY <1>4 DEF AddSealedReasoning, AnotherItem, Growing, Receiving
  <2>2. AnswerOK(said)  BY <1>1, NewItemType, NewItemOK DEF Kinds
  <2>3. e.type \in StreamTypes  BY DEF Event, StreamTypes
  <2> QED BY <2>1, <2>2, <2>3, DeliverOK
<1>5. ASSUME NEW i \in DOMAIN answer.items, NEW sub \in 0..MaxSub, AddPiece(i, sub)
      PROVE  StreamInv'
  <2> DEFINE item == answer.items[i]
             WithWord(word) ==
               [item EXCEPT !.pieces = Append(@, [sub |-> sub, word |-> word]), !.told = FALSE]
             Said(word) == [answer EXCEPT !.items[i] = WithWord(word)]
             Ev(word) == Event(PieceType(item.kind), i, sub, <<word>>)
  <2>0. /\ pc = "receiving"
        /\ \E word \in Spoken(item.kind, item.pieces) : Deliver(Said(word), Ev(word))
    BY <1>5 DEF AddPiece, Growing, Receiving
  <2> PICK word \in Spoken(item.kind, item.pieces) : Deliver(Said(word), Ev(word))
    BY <2>0
  <2> DEFINE grown == WithWord(word)
             said == Said(word)
             e == Ev(word)
  <2>1. pc = "receiving" /\ Deliver(said, e)  BY <2>0
  <2>2. item \in Items /\ item.kind \in Kinds  BY <1>1, <1>5, ItemType
  <2>3. item.pieces \in Seq(Piece) /\ [sub |-> sub, word |-> word] \in Piece
    <3>1. item.pieces \in Seq(Piece) /\ Len(item.pieces) \in Nat
      BY <2>2, LenProperties DEF Items
    <3>2. word \in Nat \ {0} /\ sub \in Nat
      <4> HIDE DEF item
      <4> QED BY <1>5, <3>1, SpokenWord, AgentStreamAssumption
    <3> QED BY <3>1, <3>2 DEF Piece
  <2>4. grown \in Items
    <3>1. Append(item.pieces, [sub |-> sub, word |-> word]) \in Seq(Piece)
      BY <2>3, AppendProperties
    <3> QED BY <2>2, <3>1 DEF Items, Piece
  <2>6. AnswerOK(said)
    <3> HIDE DEF WithWord
    <3> QED BY <1>1, <1>5, <2>4, SameItemOK
  <2>7. e.type \in StreamTypes  BY <2>2, PieceTypeOK DEF Event
  <2> QED BY <2>1, <2>6, <2>7, DeliverOK
<1>6. ASSUME NEW i \in DOMAIN answer.items, NEW undelivered \in BOOLEAN, FinishCall(i, undelivered)
      PROVE  StreamInv'
  <2> DEFINE item == answer.items[i]
             pieces == IF undelivered THEN <<[sub |-> 0, word |-> 1]>> ELSE item.pieces
             finished == [item EXCEPT !.pieces = pieces, !.done = TRUE]
             said == [answer EXCEPT !.items[i] = finished]
             e == Event("call_done", i, 0, Words(finished))
  <2>1. pc = "receiving" /\ Deliver(said, e)  BY <1>6 DEF FinishCall, Receiving
  <2>2. item \in Items  BY <1>1, <1>6, ItemType
  <2>3. finished \in Items
    <3>1. pieces \in Seq(Piece)  BY <2>2, FirstPiece DEF Items
    <3> HIDE DEF pieces
    <3> QED BY <2>2, <3>1 DEF Items
  <2>4. AnswerOK(said)
    <3> HIDE DEF finished
    <3> QED BY <1>1, <1>6, <2>3, SameItemOK
  <2>5. e.type \in StreamTypes  BY DEF Event, StreamTypes
  <2> QED BY <2>1, <2>4, <2>5, DeliverOK
<1>7. ASSUME SignReasoning PROVE StreamInv'
  <2> DEFINE i == Len(answer.items)
             signed == [answer.items[i] EXCEPT !.signed = TRUE]
             said == [answer EXCEPT !.items[i].signed = TRUE]
             e == Event("signed_done", i, 0, <<>>)
  <2>1. pc = "receiving" /\ i > 0 /\ Deliver(said, e)
    BY <1>7 DEF SignReasoning, Receiving
  <2>2. i \in DOMAIN answer.items  BY <1>1, <2>1, LenProperties DEF AnswerOK
  <2>3. answer.items[i] \in Items  BY <1>1, <2>2, ItemType
  <2>4. signed \in Items  BY <2>3 DEF Items
  <2>5. said = [answer EXCEPT !.items[i] = signed]  OBVIOUS
  <2>6. AnswerOK(said)
    <3> HIDE DEF signed, said, i
    <3> QED BY <1>1, <2>2, <2>4, <2>5, SameItemOK
  <2>7. e.type \in StreamTypes  BY DEF Event, StreamTypes
  <2> QED BY <2>1, <2>6, <2>7, DeliverOK
<1>8. ASSUME Refuse PROVE StreamInv'
  <2> DEFINE said == [answer EXCEPT !.refused = TRUE]
             e == Event("refusal", 1, 0, <<>>)
  <2>1. pc = "receiving" /\ Deliver(said, e)  BY <1>8 DEF Refuse, Receiving
  <2>2. AnswerOK(said)  BY <1>1 DEF AnswerOK
  <2>3. e.type \in StreamTypes  BY DEF Event, StreamTypes
  <2> QED BY <2>1, <2>2, <2>3, DeliverOK
<1> QED BY <1>2, <1>3, <1>4, <1>5, <1>6, <1>7, <1>8

LEMMA StartCallsOK == ASSUME StreamInv, StartCalls PROVE StreamInv'
<1> DEFINE CallStarted(run, call) == Record(run, "tool_call")
           events == [i \in DOMAIN Calls |-> [type |-> "call", call |-> Calls[i], id |-> CallIds[i]]]
           shown == AgentEventsToChatDeltas(turn, events)
           run == FoldLeft(CallStarted, shown.run, Calls)
<1>1. /\ pc' = "calling" /\ turn' = [shown EXCEPT !.run = run]
      /\ UNCHANGED <<answer, assembly, messages>>
  BY DEF StartCalls
<1>2. Len(Calls) \in Nat /\ DOMAIN Calls = 1..Len(Calls)
  <2>1. IsList(Calls)  BY CallsAreAList DEF StreamInv, StartCalls
  <2> QED BY <2>1, ListDomain
<1>3. DOMAIN events = 1..Len(Calls) /\ \A i \in 1..Len(Calls) : events[i].type \in EventTypes
  BY <1>2 DEF EventTypes
<1> HIDE DEF events
<1>4. TurnOK(shown)  BY <1>2, <1>3, EventsOK DEF StreamInv
<1>5. RecorderOK(run)  BY <1>2, <1>4, StartsOK DEF TurnOK
<1> HIDE DEF shown, run
<1>6. TurnOK(turn')  BY <1>1, <1>4, <1>5 DEF TurnOK
<1> QED BY <1>1, <1>6 DEF StreamInv

LEMMA MessagesGrow ==
  ASSUME IsList(messages), NEW message
  PROVE  /\ IsList(Append(messages, message))
         /\ Last(Append(messages, message)) = message
<1>1. /\ IsList(Append(messages, message))
      /\ Append(messages, message)[Len(messages) + 1] = message
      /\ Len(Append(messages, message)) = Len(messages) + 1
  BY AppendList
<1> QED BY <1>1, Zenon DEF Last

\* The agent and its tools.
LEMMA AgentStepsOK ==
  ASSUME StreamInv
  PROVE  /\ OpenStream => StreamInv'
         /\ EndStream => StreamInv'
         /\ \A i \in DOMAIN calling : ReturnCall(i) => StreamInv'
         /\ Succeed => StreamInv'
         /\ AskAgain => StreamInv'
         /\ Finish => StreamInv'
<1> USE DEF StreamInv
<1>1. ASSUME OpenStream PROVE StreamInv'
  BY <1>1, NothingSaidOK DEF OpenStream
<1>2. ASSUME EndStream PROVE StreamInv'
  <2>1. /\ messages' = Append(messages, [role |-> "response", parts |-> assembly.parts])
        /\ UNCHANGED <<answer, assembly, turn>>
    BY <1>2 DEF EndStream
  <2>2. IsList(messages') /\ Last(messages').parts = assembly.parts
    BY <2>1, MessagesGrow
  <2> QED BY <2>1, <2>2
<1>3. ASSUME NEW i \in DOMAIN calling, ReturnCall(i) PROVE StreamInv'
  <2> DEFINE recorded == [turn EXCEPT !.run = Record(@, "tool_call")]
             e == [type |-> "result", call |-> calling[i].call]
             results == [calling EXCEPT ![i].returned = TRUE]
  <2>1. TurnOK(recorded)
    <3>1. RecorderOK(Record(turn.run, "tool_call"))  BY RecordOK DEF TurnOK, Phases
    <3> QED BY <3>1 DEF TurnOK
  <2>2. /\ turn' = ProcessAgentEvent(recorded, e) /\ UNCHANGED <<answer, assembly>>
        /\ \/ UNCHANGED <<pc, messages>> /\ pc = "calling"
           \/ pc' = "requesting" /\ messages' = Append(messages, [role |-> "request", parts |-> results])
    BY <1>3 DEF ReturnCall
  <2> HIDE DEF recorded
  <2>3. TurnOK(turn')  BY <2>1, <2>2, ProcessOK DEF EventTypes
  <2>4. IsList(messages')  BY <2>2, MessagesGrow
  <2>5. pc' # "answered"  BY <2>2
  <2> HIDE DEF e, results
  <2> QED BY <2>2, <2>3, <2>4, <2>5
<1>4. ASSUME Succeed PROVE StreamInv'
  <2>1. TurnOK(turn')  BY <1>4, ProcessOK DEF Succeed, EventTypes
  <2> QED BY <1>4, <2>1 DEF Succeed
<1>5. ASSUME AskAgain PROVE StreamInv'
  <2>1. CASE Fail
    BY <2>1, FailOK
  <2>2. CASE ~Fail
    <3>1. /\ pc' = "requesting" /\ UNCHANGED <<answer, assembly, turn>>
          /\ \E message : messages' = Append(messages, message)
      BY <1>5, <2>2 DEF AskAgain
    <3>2. IsList(messages')  BY <3>1, MessagesGrow
    <3> QED BY <3>1, <3>2
  <2> QED BY <2>1, <2>2
<1>6. ASSUME Finish PROVE StreamInv'
  <2> DEFINE finished == AppendMissingFinalText(Flush(turn), messages)
  <2>1. TurnOK(finished)  BY ShowingOK
  <2>2. /\ pc' = "done" /\ UNCHANGED <<answer, assembly, messages>>
        /\ turn' = [finished EXCEPT !.run = Record(Record(@, "output"), "llm_response")]
    BY <1>6 DEF Finish
  <2> HIDE DEF finished
  <2>3. RecorderOK(Record(Record(finished.run, "output"), "llm_response"))
    BY <2>1, RecordOK DEF TurnOK, Phases
  <2>4. TurnOK(turn')  BY <2>1, <2>2, <2>3 DEF TurnOK
  <2> QED BY <2>2, <2>4
<1> QED BY <1>1, <1>2, <1>3, <1>4, <1>5, <1>6

LEMMA StepOK == StreamInv /\ [Next]_vars => StreamInv'
<1> SUFFICES ASSUME StreamInv, [Next]_vars PROVE StreamInv'
  OBVIOUS
<1>1. CASE UNCHANGED vars
  BY <1>1 DEF vars, connection, StreamInv
<1>2. CASE RequestFails \/ StreamBreaks \/ ToolFails
  BY <1>2, FailOK DEF RequestFails, StreamBreaks, ToolFails
<1>3. CASE StartCalls
  BY <1>3, StartCallsOK
<1> QED BY <1>1, <1>2, <1>3, StreamStepsOK, AgentStepsOK DEF Next

LEMMA RecordersInOrder == Spec => []StreamInv
BY InitOK, StepOK, PTL DEF Spec

\* In every run, streamed by whichever API, with any number of answers, calls and
\* failures: the pages of its timeline, of whatever size, give the first events and
\* the last, in order and once, and tell how many are missing between them, and so
\* does the trace of its stream (RunDiagnosticsRecorder, get_agent_run_diagnostics,
\* _StreamTraceRecorder).
THEOREM ReadersLearnOfGaps == Spec => []TimelineTellsItsGaps
<1>1. StreamInv => TimelineTellsItsGaps
  <2> SUFFICES ASSUME StreamInv PROVE TimelineTellsItsGaps
    OBVIOUS
  <2>1. RecorderOK(turn.run) /\ RecorderOK(turn.trace)  BY DEF StreamInv, TurnOK
  <2> QED BY <2>1, TraceTells, TimelineTells, Zenon DEF TimelineTellsItsGaps
<1> QED BY <1>1, RecordersInOrder, PTL

-----------------------------------------------------------------------------
(* Folds, item by item.                                                    *)

\* What holds of 0 and of each number after one it holds of, up to n, holds of n.
LEMMA UpTo ==
  ASSUME NEW n \in Nat, NEW Good, 0 \in Good,
         \A k \in 1..n : k - 1 \in Good => k \in Good
  PROVE  n \in Good
<1> DEFINE fails == {k \in 0..n : k \notin Good}
<1>1. SUFFICES ASSUME n \in fails PROVE FALSE
  OBVIOUS
<1>2. PICK k \in fails : \A m \in fails : k <= m
  <2>1. fails \in SUBSET Nat  OBVIOUS
  <2> HIDE DEF fails
  <2> QED BY <1>1, <2>1, LeastNumber
<1>3. k \in 1..n /\ k - 1 \in 0..n /\ ~(k <= k - 1)  BY <1>2
<1> QED BY <1>2, <1>3

LEMMA LastOfInterval ==
  ASSUME NEW k \in Nat \ {0}
  PROVE  Max(1..k) = k /\ (1..k) \ {Max(1..k)} = 1..k-1 /\ 1..k # {}
<1>1. k \in 1..k /\ 1..k \in SUBSET (1..k)  OBVIOUS
<1>2. Max(1..k) \in 1..k /\ k <= Max(1..k)  BY <1>1, Greatest
<1>3. Max(1..k) = k  BY <1>2
<1>4. (1..k) \ {k} = 1..k-1  OBVIOUS
<1> QED BY <1>1, <1>3, <1>4

\* Folds of sequences that begin alike are alike, as far as that.
LEMMA FoldsAgree ==
  ASSUME NEW fold, NEW base, NEW s, NEW t, NEW m \in Nat, NEW n \in Nat, NEW k \in Nat,
         k <= m, k <= n, \A i \in 1..k : s[i] = t[i],
         NEW g, Computes(g, fold, base, s, m), NEW h, Computes(h, fold, base, t, n)
  PROVE  g[1..k] = h[1..k]
<1> DEFINE Good == {j \in 0..k : g[1..j] = h[1..j]}
<1>1. 0 \in Good
  <2>1. 1..0 = {} /\ {} \in SUBSET (1..m) /\ {} \in SUBSET (1..n)  OBVIOUS
  <2>2. g[{}] = base /\ h[{}] = base  BY <2>1 DEF Computes
  <2> QED BY <2>1, <2>2
<1>2. ASSUME NEW j \in 1..k, j - 1 \in Good PROVE j \in Good
  <2>1. 1..j \in SUBSET (1..m) /\ 1..j \in SUBSET (1..n) /\ j \in Nat \ {0}  OBVIOUS
  <2>2. /\ g[1..j] = Folded(fold, g[1..j-1], s[j])
        /\ h[1..j] = Folded(fold, h[1..j-1], t[j])
    BY <2>1, LastOfInterval DEF Computes
  <2> QED BY <1>2, <2>2
<1>3. k \in Good
  <2> HIDE DEF Good
  <2> QED BY <1>1, <1>2, UpTo
<1> QED BY <1>3

LEMMA FoldOfIs ==
  ASSUME NEW fold, NEW base, NEW s, NEW n \in Nat, NEW g, Computes(g, fold, base, s, n)
  PROVE  g[1..n] = FoldOf(fold, base, s, n)
<1> DEFINE h == CHOOSE h : Computes(h, fold, base, s, n)
<1>1. Computes(h, fold, base, s, n)  OBVIOUS
<1> HIDE DEF h
<1>2. n <= n  OBVIOUS
<1>3. g[1..n] = h[1..n]  BY <1>1, <1>2, FoldsAgree
<1> QED BY <1>3 DEF FoldOf, h

LEMMA FoldOfNone == ASSUME NEW fold, NEW base, NEW s PROVE FoldOf(fold, base, s, 0) = base
<1>1. PICK g : Computes(g, fold, base, s, 0)  BY FoldExists
<1>2. g[1..0] = base
  <2>1. 1..0 = {} /\ {} \in SUBSET (1..0)  OBVIOUS
  <2> QED BY <1>1, <2>1 DEF Computes
<1> QED BY <1>1, <1>2, FoldOfIs

LEMMA FoldOfSame ==
  ASSUME NEW fold, NEW base, NEW s, NEW t, NEW k \in Nat, \A i \in 1..k : s[i] = t[i]
  PROVE  FoldOf(fold, base, s, k) = FoldOf(fold, base, t, k)
<1>1. PICK g : Computes(g, fold, base, s, k)  BY FoldExists
<1>2. PICK h : Computes(h, fold, base, t, k)  BY FoldExists
<1>3. g[1..k] = h[1..k]  BY <1>1, <1>2, FoldsAgree
<1> QED BY <1>1, <1>2, <1>3, FoldOfIs

LEMMA FoldOfNext ==
  ASSUME NEW fold, NEW base, NEW s, NEW j \in Nat, NEW k, k = j + 1
  PROVE  FoldOf(fold, base, s, k) = Folded(fold, FoldOf(fold, base, s, j), s[k])
<1>0. k \in Nat \ {0} /\ j = k - 1  OBVIOUS
<1>1. PICK g : Computes(g, fold, base, s, k)  BY <1>0, FoldExists
<1>2. PICK h : Computes(h, fold, base, s, j)  BY FoldExists
<1>3. g[1..j] = h[1..j]
  <2>1. k \in Nat /\ j <= k /\ j <= j  BY <1>0
  <2> QED BY <1>1, <1>2, <2>1, FoldsAgree
<1>4. g[1..k] = Folded(fold, g[1..j], s[k])
  <2>1. 1..k \in SUBSET (1..k) /\ 1..j = 1..k-1  BY <1>0
  <2>2. Max(1..k) = k /\ (1..k) \ {Max(1..k)} = 1..k-1 /\ 1..k # {}
    BY <1>0, LastOfInterval
  <2>3. g[1..k] = Folded(fold, g[(1..k) \ {Max(1..k)}], s[Max(1..k)])
    BY <1>1, <2>1, <2>2 DEF Computes
  <2> QED BY <2>1, <2>2, <2>3
<1>5. g[1..k] = FoldOf(fold, base, s, k) /\ h[1..j] = FoldOf(fold, base, s, j)
  BY <1>0, <1>1, <1>2, FoldOfIs
<1> QED BY <1>3, <1>4, <1>5

-----------------------------------------------------------------------------
(* Lists.                                                                  *)

LEMMA CommonType ==
  ASSUME NEW s, NEW t, IsList(s), IsList(t)
  PROVE  \E S : s \in Seq(S) /\ t \in Seq(S)
<1>1. PICK S : s \in Seq(S)  BY DEF IsList
<1>2. PICK T : t \in Seq(T)  BY DEF IsList
<1>3. s \in Seq(S \cup T) /\ t \in Seq(S \cup T)  BY <1>1, <1>2, SeqMonotonic
<1> QED BY <1>3

LEMMA ConcatList ==
  ASSUME NEW s, NEW t, IsList(s), IsList(t)
  PROVE  /\ IsList(s \o t) /\ Len(s \o t) = Len(s) + Len(t)
         /\ \A i \in 1..Len(s) : (s \o t)[i] = s[i]
         /\ \A i \in 1..Len(t) : (s \o t)[Len(s) + i] = t[i]
<1>1. PICK S : s \in Seq(S) /\ t \in Seq(S)  BY CommonType
<1>2. /\ s \o t \in Seq(S) /\ Len(s \o t) = Len(s) + Len(t) /\ Len(s) \in Nat /\ Len(t) \in Nat
      /\ \A i \in 1..Len(s) + Len(t) :
           (s \o t)[i] = IF i <= Len(s) THEN s[i] ELSE t[i - Len(s)]
  BY <1>1, ConcatProperties, LenProperties
<1>3. \A i \in 1..Len(s) : (s \o t)[i] = s[i]  BY <1>2
<1>4. \A i \in 1..Len(t) : (s \o t)[Len(s) + i] = t[i]
  <2> TAKE i \in 1..Len(t)
  <2> DEFINE j == Len(s) + i
             n == Len(s)
             m == Len(t)
             u == s \o t
  <2>1. \A k \in 1..n + m : u[k] = IF k <= n THEN s[k] ELSE t[k - n]  BY <1>2
  <2>2. j \in 1..n + m /\ ~(j <= n) /\ j - n = i
    <3>1. n \in Nat /\ m \in Nat /\ i \in 1..m /\ j = n + i  BY <1>2
    <3> HIDE DEF n, m, j
    <3> QED BY <3>1
  <2> HIDE DEF j, u, n, m
  <2>3. u[j] = t[i]  BY <2>1, <2>2
  <2> QED BY <2>3 DEF u, j, n
<1> QED BY <1>1, <1>2, <1>3, <1>4, Zenon DEF IsList

LEMMA ConcatLists ==
  ASSUME NEW s, NEW t, NEW u, IsList(s), IsList(t), IsList(u)
  PROVE  /\ (s \o t) \o u = s \o (t \o u)
         /\ s \o <<>> = s /\ <<>> \o s = s
<1>1. PICK S : s \in Seq(S) /\ t \in Seq(S)  BY CommonType
<1>2. PICK T : u \in Seq(T)  BY DEF IsList
<1>3. s \in Seq(S \cup T) /\ t \in Seq(S \cup T) /\ u \in Seq(S \cup T)
  BY <1>1, <1>2, SeqMonotonic
<1> QED BY <1>3, ConcatAssociative, ConcatEmptySeq

LEMMA AppendConcat ==
  ASSUME NEW s, NEW t, IsList(s), IsList(t), NEW x
  PROVE  /\ Append(s, x) = s \o <<x>> /\ IsList(<<x>>) /\ Len(<<x>>) = 1
         /\ s \o Append(t, x) = Append(s \o t, x)
<1>1. PICK S : s \in Seq(S) /\ t \in Seq(S)  BY CommonType
<1>2. /\ s \in Seq(S \cup {x}) /\ t \in Seq(S \cup {x}) /\ x \in S \cup {x}
      /\ <<x>> \in Seq(S \cup {x})
  BY <1>1, SeqMonotonic
<1>3. s \o t \in Seq(S \cup {x})  BY <1>2, ConcatProperties
<1>4. /\ Append(s, x) = s \o <<x>> /\ Append(t, x) = t \o <<x>>
      /\ Append(s \o t, x) = (s \o t) \o <<x>>
  BY <1>2, <1>3, AppendIsConcat
<1>5. (s \o t) \o <<x>> = s \o (t \o <<x>>)  BY <1>2, ConcatAssociative
<1>6. IsList(<<x>>)  BY <1>2, Zenon DEF IsList
<1> QED BY <1>4, <1>5, <1>6

LEMMA SameList ==
  ASSUME NEW s, NEW t, IsList(s), IsList(t), Len(s) = Len(t),
         \A i \in 1..Len(s) : s[i] = t[i]
  PROVE  s = t
<1>1. PICK S : s \in Seq(S) /\ t \in Seq(S)  BY CommonType
<1> QED BY <1>1, SeqEqual

LEMMA MappedList ==
  ASSUME NEW f, NEW n \in Nat, DOMAIN f = 1..n, f = [i \in 1..n |-> f[i]]
  PROVE  IsList(f) /\ Len(f) = n
<1> DEFINE S == {f[i] : i \in 1..n}
<1>1. f \in [1..n -> S]  OBVIOUS
<1>2. f \in Seq(S)  BY <1>1, SeqDef
<1>3. Len(f) = n  BY <1>2, LenProperties
<1> QED BY <1>2, <1>3, Zenon DEF IsList

\* The fold of two sequences, one after the other.
LEMMA FoldOfConcat ==
  ASSUME NEW fold, NEW base, NEW s, NEW t, IsList(s), IsList(t)
  PROVE  FoldOf(fold, base, s \o t, Len(s \o t)) = FoldOf(fold, FoldOf(fold, base, s, Len(s)), t, Len(t))
<1> DEFINE n == Len(s)
           m == Len(t)
           u == s \o t
           first == FoldOf(fold, base, s, n)
           Good == {k \in 0..m : FoldOf(fold, base, u, n + k) = FoldOf(fold, first, t, k)}
<1>1. /\ n \in Nat /\ m \in Nat /\ Len(u) = n + m
      /\ \A i \in 1..n : u[i] = s[i]
      /\ \A i \in 1..m : u[n + i] = t[i]
  BY ConcatList, ListDomain
<1> HIDE DEF n, m, u
<1>2. 0 \in Good
  <2>1. FoldOf(fold, base, u, n) = first  BY <1>1, FoldOfSame
  <2>2. n + 0 = n  BY <1>1
  <2> HIDE DEF first
  <2>3. FoldOf(fold, first, t, 0) = first  BY FoldOfNone
  <2> QED BY <1>1, <2>1, <2>2, <2>3
<1>3. ASSUME NEW k \in 1..m, k - 1 \in Good PROVE k \in Good
  <2>1. k - 1 \in Nat /\ k = k - 1 + 1 /\ n + (k - 1) \in Nat /\ n + k = n + (k - 1) + 1
    BY <1>1
  <2>2. FoldOf(fold, base, u, n + k) = Folded(fold, FoldOf(fold, base, u, n + (k - 1)), u[n + k])
    BY <2>1, FoldOfNext
  <2>3. FoldOf(fold, first, t, k) = Folded(fold, FoldOf(fold, first, t, k - 1), t[k])
    BY <2>1, FoldOfNext
  <2> HIDE DEF first
  <2> QED BY <1>1, <1>3, <2>2, <2>3
<1>4. m \in Good
  <2> HIDE DEF Good
  <2> QED BY <1>1, <1>2, <1>3, UpTo
<1> QED BY <1>1, <1>4 DEF n, m, u

LEMMA FoldOfAppend ==
  ASSUME NEW fold, NEW base, NEW s, IsList(s), NEW x
  PROVE  FoldOf(fold, base, Append(s, x), Len(s) + 1) = Folded(fold, FoldOf(fold, base, s, Len(s)), x)
<1> DEFINE n == Len(s)
           u == Append(s, x)
<1>1. n \in Nat /\ (\A i \in 1..n : u[i] = s[i]) /\ u[n + 1] = x
  BY AppendList, ListDomain
<1> HIDE DEF n, u
<1>3. FoldOf(fold, base, u, n + 1) = Folded(fold, FoldOf(fold, base, u, n), u[n + 1])
  BY <1>1, FoldOfNext
<1>4. FoldOf(fold, base, u, n) = FoldOf(fold, base, s, n)  BY <1>1, FoldOfSame
<1> QED BY <1>1, <1>3, <1>4 DEF n, u

-----------------------------------------------------------------------------
(* Flattened lists.                                                        *)

LEMMA FlatNone == ASSUME NEW seqs PROVE Flat(seqs, 0) = <<>>
BY FoldOfNone DEF Flat

LEMMA FlatNext ==
  ASSUME NEW seqs, NEW k \in Nat \ {0}
  PROVE  Flat(seqs, k) = Flat(seqs, k - 1) \o seqs[k]
<1>1. k - 1 \in Nat /\ k = k - 1 + 1  OBVIOUS
<1>2. Flat(seqs, k) = Folded(Fold("flatten"), Flat(seqs, k - 1), seqs[k])
  BY <1>1, FoldOfNext DEF Flat
<1> QED BY <1>2 DEF Folded, Fold

LEMMA FlatSame ==
  ASSUME NEW s, NEW t, NEW k \in Nat, \A i \in 1..k : s[i] = t[i]
  PROVE  Flat(s, k) = Flat(t, k)
BY FoldOfSame DEF Flat

LEMMA FlatList ==
  ASSUME NEW n \in Nat, NEW seqs, \A i \in 1..n : IsList(seqs[i])
  PROVE  \A k \in 0..n : IsList(Flat(seqs, k))
<1> TAKE k \in 0..n
<1> DEFINE Good == {j \in 0..k : IsList(Flat(seqs, j))}
<1>1. 0 \in Good  BY FlatNone, EmptyList
<1>2. ASSUME NEW j \in 1..k, j - 1 \in Good PROVE j \in Good
  <2>1. Flat(seqs, j) = Flat(seqs, j - 1) \o seqs[j]
    <3>1. j \in Nat \ {0}  OBVIOUS
    <3> QED BY <3>1, FlatNext
  <2>2. IsList(seqs[j]) /\ IsList(Flat(seqs, j - 1))  BY <1>2
  <2>3. IsList(Flat(seqs, j))  BY <2>1, <2>2, ConcatList
  <2>4. j \in 0..k  OBVIOUS
  <2> QED BY <2>3, <2>4
<1>3. k \in Good
  <2> HIDE DEF Good
  <2> QED BY <1>1, <1>2, UpTo
<1> QED BY <1>3

\* FlattenSeq is the fold of a concatenation.
LEMMA FlattenIsFlat ==
  ASSUME NEW seqs, IsList(seqs), \A i \in 1..Len(seqs) : IsList(seqs[i])
  PROVE  FlattenSeq(seqs) = Flat(seqs, Len(seqs))
<1> DEFINE n == Len(seqs)
           flatten == CHOOSE f : f = [i \in 1..Len(seqs) |->
                        IF i = 1 THEN seqs[i] ELSE f[i-1] \o seqs[i]]
           g == [i \in 1..Len(seqs) |-> Flat(seqs, i)]
<1>1. n \in Nat  BY ListDomain
<1>2. CASE n = 0
  <2>1. seqs = <<>>  BY <1>2, EmptyList, SameList
  <2>2. Flat(seqs, 0) = <<>>  BY FlatNone
  <2> QED BY <1>2, <2>1, <2>2 DEF FlattenSeq
<1>3. CASE n # 0
  <2>1. FlattenSeq(seqs) = flatten[n]  BY <1>3 DEF FlattenSeq
  <2>2. g = [i \in 1..Len(seqs) |-> IF i = 1 THEN seqs[i] ELSE g[i-1] \o seqs[i]]
    <3>1. \A i \in 1..Len(seqs) : g[i] = IF i = 1 THEN seqs[i] ELSE g[i-1] \o seqs[i]
      <4> TAKE i \in 1..Len(seqs)
      <4>1. i \in Nat \ {0} /\ i \in 1..n  OBVIOUS
      <4>2. Flat(seqs, i) = Flat(seqs, i - 1) \o seqs[i]  BY <4>1, FlatNext
      <4>3. CASE i = 1
        <5>1. Flat(seqs, 0) = <<>> /\ <<>> \o seqs[1] = seqs[1]
          BY <4>3, <4>1, FlatNone, ConcatLists, EmptyList
        <5>2. Flat(seqs, 1 - 1) = <<>>  BY <5>1
        <5>3. g[1] = Flat(seqs, 1)  BY <4>3
        <5> QED BY <4>2, <4>3, <5>1, <5>2, <5>3
      <4>4. CASE i # 1
        <5>1. i - 1 \in 1..Len(seqs)  BY <1>1, <4>1, <4>4
        <5> QED BY <4>2, <4>4, <5>1
      <4> QED BY <4>3, <4>4
    <3> HIDE DEF g
    <3>2. g = [i \in 1..Len(seqs) |-> g[i]]  BY DEF g
    <3> QED BY <3>1, <3>2
  <2>3. flatten = [i \in 1..Len(seqs) |-> IF i = 1 THEN seqs[i] ELSE flatten[i-1] \o seqs[i]]
    BY <2>2, Zenon
  <2> HIDE DEF flatten, g
  <2> DEFINE Good == {k \in 0..n : k = 0 \/ flatten[k] = Flat(seqs, k)}
  <2>4. 0 \in Good  BY <1>1
  <2>5. ASSUME NEW k \in 1..n, k - 1 \in Good PROVE k \in Good
    <3>1. flatten[k] = g[k]
      <4>1. flatten[k] = IF k = 1 THEN seqs[k] ELSE flatten[k-1] \o seqs[k]  BY <2>3
      <4>2. g[k] = IF k = 1 THEN seqs[k] ELSE g[k-1] \o seqs[k]  BY <2>2
      <4>3. CASE k = 1
        BY <4>1, <4>2, <4>3
      <4>4. CASE k # 1
        <5>1. k - 1 \in 1..Len(seqs) /\ k - 1 # 0  BY <1>1, <4>4
        <5>2. g[k-1] = Flat(seqs, k - 1) /\ flatten[k-1] = Flat(seqs, k - 1)
          BY <2>5, <5>1 DEF g
        <5> QED BY <4>1, <4>2, <4>4, <5>2
      <4> QED BY <4>3, <4>4
    <3> QED BY <3>1 DEF g
  <2>6. n \in Good
    <3> HIDE DEF Good
    <3> QED BY <1>1, <2>4, <2>5, UpTo
  <2> QED BY <1>3, <2>1, <2>6
<1> QED BY <1>2, <1>3

LEMMA FlatPlace ==
  ASSUME NEW n \in Nat, NEW seqs, \A i \in 1..n : IsList(seqs[i])
  PROVE  /\ \A i \in 1..n : \A j \in 1..Len(seqs[i]) :
              /\ Place(seqs, i, j) \in 1..Len(Flat(seqs, n))
              /\ Flat(seqs, n)[Place(seqs, i, j)] = seqs[i][j]
         /\ \A m \in 1..Len(Flat(seqs, n)) :
              \E i \in 1..n : \E j \in 1..Len(seqs[i]) : m = Place(seqs, i, j)
<1> DEFINE Here(k) ==
             /\ \A i \in 1..k : \A j \in 1..Len(seqs[i]) :
                  /\ Place(seqs, i, j) \in 1..Len(Flat(seqs, k))
                  /\ Flat(seqs, k)[Place(seqs, i, j)] = seqs[i][j]
             /\ \A m \in 1..Len(Flat(seqs, k)) :
                  \E i \in 1..k : \E j \in 1..Len(seqs[i]) : m = Place(seqs, i, j)
           Good == {k \in 0..n : Here(k)}
<1>1. 0 \in Good
  <2>1. Len(Flat(seqs, 0)) = 0  BY FlatNone
  <2> QED BY <2>1
<1>2. ASSUME NEW k \in 1..n, k - 1 \in Good PROVE k \in Good
  <2> DEFINE before == Flat(seqs, k - 1)
             b == Len(before)
             l == Len(seqs[k])
             all == Flat(seqs, k)
  <2>1. all = before \o seqs[k]
    <3>1. k \in Nat \ {0}  OBVIOUS
    <3> QED BY <3>1, FlatNext
  <2>2. IsList(before) /\ IsList(seqs[k])
    <3>1. k - 1 \in 0..n  OBVIOUS
    <3> QED BY <3>1, FlatList
  <2>3. /\ Len(all) = b + l /\ b \in Nat /\ l \in Nat
        /\ \A i \in 1..b : all[i] = before[i]
        /\ \A i \in 1..l : all[b + i] = seqs[k][i]
    BY <2>1, <2>2, ConcatList, ListDomain
  <2>4. \A j \in Nat : Place(seqs, k, j) = b + j  BY DEF Place
  <2>5. Here(k - 1)  BY <1>2
  <2>6. k - 1 \in Nat /\ k \in Nat /\ k <= n  OBVIOUS
  <2> HIDE DEF b, l, all
  <2>7. \A i \in 1..k - 1 : \A j \in 1..Len(seqs[i]) :
           Place(seqs, i, j) \in 1..b /\ before[Place(seqs, i, j)] = seqs[i][j]
    BY <2>5 DEF b
  <2>8. \A m \in 1..b : \E i \in 1..k - 1 : \E j \in 1..Len(seqs[i]) : m = Place(seqs, i, j)
    BY <2>5 DEF b
  <2> HIDE DEF before, Here
  <2>9. ASSUME NEW i \in 1..k, NEW j \in 1..Len(seqs[i])
        PROVE  Place(seqs, i, j) \in 1..Len(all) /\ all[Place(seqs, i, j)] = seqs[i][j]
    <3>1. CASE i = k
      <4>1. j \in 1..l /\ j \in Nat  BY <3>1 DEF l
      <4>2. b + j \in 1..b + l  BY <2>3, <4>1
      <4> QED BY <2>3, <2>4, <3>1, <4>1, <4>2
    <3>2. CASE i # k
      <4>1. i \in 1..k - 1  BY <2>6, <3>2
      <4>2. Place(seqs, i, j) \in 1..b /\ before[Place(seqs, i, j)] = seqs[i][j]
        BY <2>7, <4>1
      <4>3. 1..b \subseteq 1..b + l  BY <2>3
      <4> QED BY <2>3, <4>2, <4>3
    <3> QED BY <3>1, <3>2
  <2>10. ASSUME NEW m \in 1..Len(all)
         PROVE  \E i \in 1..k : \E j \in 1..Len(seqs[i]) : m = Place(seqs, i, j)
    <3>1. CASE m <= b
      <4>1. m \in 1..b  BY <2>3, <3>1
      <4>2. 1..k - 1 \subseteq 1..k  BY <2>6
      <4> QED BY <2>8, <4>1, <4>2
    <3>2. CASE ~(m <= b)
      <4>1. m - b \in 1..l /\ m = b + (m - b) /\ m - b \in Nat  BY <2>3, <3>2
      <4>2. k \in 1..k  BY <2>6
      <4>3. m = Place(seqs, k, m - b)  BY <2>4, <4>1
      <4> QED BY <4>1, <4>2, <4>3 DEF l
    <3> QED BY <3>1, <3>2
  <2>11. Here(k)  BY <2>9, <2>10 DEF Here, all
  <2> QED BY <2>11
<1>3. n \in Good
  <2> HIDE DEF Good
  <2> QED BY <1>1, <1>2, UpTo
<1> QED BY <1>3

LEMMA SameInterval == ASSUME NEW m \in Nat, NEW n \in Nat, 1..m = 1..n PROVE m = n
<1>1. m > n => m \in 1..m /\ m \notin 1..n  OBVIOUS
<1>2. n > m => n \in 1..n /\ n \notin 1..m  OBVIOUS
<1> QED BY <1>1, <1>2

LEMMA ExceptAt ==
  ASSUME NEW s, IsList(s), NEW i \in 1..Len(s), NEW x, NEW t, t = Replaced(s, i, x)
  PROVE  /\ IsList(t) /\ Len(t) = Len(s)
         /\ \A j \in 1..Len(s) : t[j] = IF j = i THEN x ELSE s[j]
<1>1. Len(s) \in Nat /\ DOMAIN s = 1..Len(s)  BY ListDomain
<1>2. IsList(t)  BY <1>1, ExceptList DEF Replaced
<1>3. DOMAIN t = 1..Len(s) /\ \A j \in 1..Len(s) : t[j] = IF j = i THEN x ELSE s[j]
  BY <1>1 DEF Replaced
<1>4. Len(t) = Len(s)
  <2>1. Len(t) \in Nat /\ DOMAIN t = 1..Len(t)  BY <1>2, ListDomain
  <2>2. 1..Len(t) = 1..Len(s)  BY <1>3, <2>1
  <2> QED BY <1>1, <2>1, <2>2, SameInterval
<1> QED BY <1>2, <1>3, <1>4

\* What replaces an element of a list replaces it in a longer one.
LEMMA ExceptConcat ==
  ASSUME NEW s, NEW t, IsList(s), IsList(t), NEW x
  PROVE  /\ \A i \in 1..Len(s) : Joined(Replaced(s, i, x), t) = Replaced(Joined(s, t), i, x)
         /\ \A i \in 1..Len(t) :
              Joined(s, Replaced(t, i, x)) = Replaced(Joined(s, t), Len(s) + i, x)
<1> DEFINE n == Len(s)
           m == Len(t)
           u == s \o t
<1>1. /\ n \in Nat /\ m \in Nat /\ IsList(u) /\ Len(u) = n + m
      /\ \A j \in 1..n : u[j] = s[j]
      /\ \A j \in 1..m : u[n + j] = t[j]
  BY ConcatList, ListDomain
<1>2. \A k \in 1..n + m : k \in 1..n \/ \E j \in 1..m : k = n + j
  <2> TAKE k \in 1..n + m
  <2> HIDE DEF n, m
  <2>1. ~(k <= n) => k - n \in 1..m /\ k = n + (k - n)  BY <1>1
  <2> QED BY <1>1, <2>1
<1>3. ASSUME NEW i \in 1..n PROVE Replaced(s, i, x) \o t = Replaced(u, i, x)
  <2> DEFINE s1 == Replaced(s, i, x)
             a == s1 \o t
             b == Replaced(u, i, x)
  <2>1. IsList(s1) /\ Len(s1) = n /\ \A j \in 1..n : s1[j] = IF j = i THEN x ELSE s[j]
    <3>1. s1 = Replaced(s, i, x)  OBVIOUS
    <3> HIDE DEF s1
    <3> QED BY <3>1, ExceptAt
  <2>2. i \in 1..Len(u)
    <3> HIDE DEF n, m, u
    <3> QED BY <1>1
  <2>3. /\ IsList(a) /\ Len(a) = n + m
        /\ \A j \in 1..n : a[j] = s1[j]
        /\ \A j \in 1..m : a[n + j] = t[j]
    <3> HIDE DEF s1
    <3>1. /\ IsList(a) /\ Len(a) = Len(s1) + Len(t)
          /\ \A j \in 1..Len(s1) : a[j] = s1[j]
          /\ \A j \in 1..Len(t) : a[Len(s1) + j] = t[j]
      BY <2>1, ConcatList
    <3> HIDE DEF a
    <3> QED BY <2>1, <3>1
  <2>4. /\ IsList(b) /\ Len(b) = n + m
        /\ \A j \in 1..n + m : b[j] = IF j = i THEN x ELSE u[j]
    <3>1. /\ IsList(b) /\ Len(b) = Len(u)
          /\ \A j \in 1..Len(u) : b[j] = IF j = i THEN x ELSE u[j]
      <4>1. b = Replaced(u, i, x)  OBVIOUS
      <4> HIDE DEF b, u, n, m
      <4> QED BY <1>1, <2>2, <4>1, ExceptAt
    <3> HIDE DEF b, u, n, m
    <3> QED BY <1>1, <3>1
  <2> HIDE DEF a, b, s1, u, n, m
  <2>5. \A k \in 1..n + m : a[k] = b[k]
    <3> TAKE k \in 1..n + m
    <3>1. CASE k \in 1..n
      BY <1>1, <2>1, <2>3, <2>4, <3>1
    <3>2. CASE k \notin 1..n
      <4>1. PICK j \in 1..m : k = n + j  BY <1>2, <3>2
      <4>2. k # i  BY <1>1, <3>2
      <4> QED BY <1>1, <2>3, <2>4, <4>1, <4>2
    <3> QED BY <3>1, <3>2
  <2>6. a = b  BY <2>3, <2>4, <2>5, SameList
  <2> QED BY <1>3, <2>6 DEF a, b, s1
<1>4. ASSUME NEW i \in 1..m PROVE s \o Replaced(t, i, x) = Replaced(u, n + i, x)
  <2> DEFINE t1 == Replaced(t, i, x)
             a == s \o t1
             b == Replaced(u, n + i, x)
  <2>1. IsList(t1) /\ Len(t1) = m /\ \A j \in 1..m : t1[j] = IF j = i THEN x ELSE t[j]
    <3>1. t1 = Replaced(t, i, x)  OBVIOUS
    <3> HIDE DEF t1
    <3> QED BY <3>1, ExceptAt
  <2>2. n + i \in 1..Len(u)
    <3> HIDE DEF n, m, u
    <3> QED BY <1>1
  <2>3. /\ IsList(a) /\ Len(a) = n + m
        /\ \A j \in 1..n : a[j] = s[j]
        /\ \A j \in 1..m : a[n + j] = t1[j]
    <3> HIDE DEF t1
    <3>1. /\ IsList(a) /\ Len(a) = Len(s) + Len(t1)
          /\ \A j \in 1..Len(s) : a[j] = s[j]
          /\ \A j \in 1..Len(t1) : a[Len(s) + j] = t1[j]
      BY <2>1, ConcatList
    <3> HIDE DEF a
    <3> QED BY <2>1, <3>1
  <2>4. /\ IsList(b) /\ Len(b) = n + m
        /\ \A j \in 1..n + m : b[j] = IF j = n + i THEN x ELSE u[j]
    <3>1. /\ IsList(b) /\ Len(b) = Len(u)
          /\ \A j \in 1..Len(u) : b[j] = IF j = n + i THEN x ELSE u[j]
      <4>1. b = Replaced(u, n + i, x)  OBVIOUS
      <4> HIDE DEF b, u, n, m
      <4> QED BY <1>1, <2>2, <4>1, ExceptAt
    <3> HIDE DEF b, u, n, m
    <3> QED BY <1>1, <3>1
  <2> HIDE DEF a, b, t1, u, n, m
  <2>5. \A k \in 1..n + m : a[k] = b[k]
    <3> TAKE k \in 1..n + m
    <3>1. CASE k \in 1..n
      <4>1. k # n + i  BY <1>1, <3>1
      <4> QED BY <1>1, <2>3, <2>4, <3>1, <4>1
    <3>2. CASE k \notin 1..n
      <4>1. PICK j \in 1..m : k = n + j  BY <1>2, <3>2
      <4>2. k = n + i <=> j = i  BY <1>1, <4>1
      <4> QED BY <1>1, <2>1, <2>3, <2>4, <4>1, <4>2, ZenonT(60)
    <3> QED BY <3>1, <3>2
  <2>6. a = b  BY <2>3, <2>4, <2>5, SameList
  <2> QED BY <1>4, <2>6 DEF a, b, t1
<1> QED BY <1>3, <1>4, Zenon DEF Joined

LEMMA ReplacedEarlier ==
  ASSUME NEW s, NEW t, IsList(s), IsList(t), NEW i \in 1..Len(s), NEW x
  PROVE  Joined(Replaced(s, i, x), t) = Replaced(Joined(s, t), i, x)
BY ExceptConcat, SMTT(30)

LEMMA ReplacedLater ==
  ASSUME NEW s, NEW t, IsList(s), IsList(t), NEW i \in 1..Len(t), NEW x
  PROVE  Joined(s, Replaced(t, i, x)) = Replaced(Joined(s, t), Len(s) + i, x)
BY ExceptConcat

LEMMA FlatNewList ==
  ASSUME NEW f, NEW g, NEW n, NEW m, NEW x, HasNewList(f, g, n, m, x)
  PROVE  Flat(g, m) = Append(Flat(f, n), x)
<1> USE DEF HasNewList
<1>1. Flat(g, m) = Flat(g, n) \o g[m]
  <2>1. m \in Nat \ {0} /\ m - 1 = n  OBVIOUS
  <2> QED BY <2>1, FlatNext
<1>2. Flat(g, n) = Flat(f, n) /\ IsList(Flat(f, n))  BY FlatList, FlatSame
<1> QED BY <1>1, <1>2, AppendConcat, EmptyList

LEMMA FlatLonger ==
  ASSUME NEW n, NEW f, NEW g, NEW x, EndsLonger(f, g, n, x)
  PROVE  Flat(g, n) = Append(Flat(f, n), x)
<1>1. /\ n \in Nat /\ n > 0
      /\ \A i \in 1..n : IsList(f[i])
      /\ \A i \in 1..n - 1 : g[i] = f[i]
      /\ g[n] = Append(f[n], x)
  BY DEF EndsLonger
<1>2. n \in Nat \ {0} /\ n - 1 \in Nat /\ n - 1 \in 0..n /\ n \in 1..n  BY <1>1
<1>3. Flat(g, n) = Flat(g, n - 1) \o g[n] /\ Flat(f, n) = Flat(f, n - 1) \o f[n]
  BY <1>1, <1>2, FlatNext
<1>4. Flat(g, n - 1) = Flat(f, n - 1)  BY <1>1, <1>2, FlatSame
<1>5. IsList(Flat(f, n - 1)) /\ IsList(f[n])  BY <1>1, <1>2, FlatList
<1> DEFINE b == Flat(f, n - 1)
           l == f[n]
<1>6. Flat(g, n) = b \o Append(l, x) /\ Flat(f, n) = b \o l /\ IsList(b) /\ IsList(l)
  BY <1>1, <1>3, <1>4, <1>5
<1> HIDE DEF b, l
<1> QED BY <1>6, AppendConcat

\* One element replaced in its list is replaced at its place.
LEMMA FlatReplaced ==
  ASSUME NEW n \in Nat, NEW f, NEW g, \A i \in 1..n : IsList(f[i]), NEW x,
         NEW i \in 1..n, NEW j \in 1..Len(f[i]), g[i] = Replaced(f[i], j, x),
         \A k \in 1..n : k # i => g[k] = f[k]
  PROVE  Flat(g, n) = Replaced(Flat(f, n), Place(f, i, j), x)
<1> DEFINE p == Place(f, i, j)
           Good == {k \in 0..n : k >= i =>
                      Flat(g, k) = Replaced(Flat(f, k), p, x) /\ p \in 1..Len(Flat(f, k))}
<1>1. \A k \in 0..n : IsList(Flat(f, k))  BY FlatList
<1>2. 0 \in Good  OBVIOUS
<1>3. ASSUME NEW k \in 1..n, k - 1 \in Good PROVE k \in Good
  <2>1. k \in Nat \ {0} /\ k - 1 \in Nat /\ k - 1 \in 0..n /\ k \in 0..n  OBVIOUS
  <2>2. Flat(g, k) = Flat(g, k - 1) \o g[k] /\ Flat(f, k) = Flat(f, k - 1) \o f[k]
    BY <2>1, FlatNext
  <2>3. IsList(Flat(f, k - 1)) /\ IsList(f[k])  BY <1>1, <2>1
  <2> DEFINE before == Flat(f, k - 1)
             b == Len(before)
             l == Len(f[k])
  <2>4. Len(Flat(f, k)) = b + l /\ b \in Nat /\ l \in Nat
    BY <2>2, <2>3, ConcatList, ListDomain
  <2>8. IsList(before)  BY <2>3
  <2>5. CASE k < i
    BY <2>1, <2>5
  <2>6. CASE k = i
    <3>1. Flat(g, k - 1) = before
      <4>1. \A m \in 1..k - 1 : g[m] = f[m]  BY <2>6
      <4> QED BY <2>1, <4>1, FlatSame
    <3>2. j \in 1..l  BY <2>6
    <3>3. p = b + j  BY <2>6 DEF Place
    <3>4. before \o Replaced(f[k], j, x) = Replaced(before \o f[k], b + j, x)
      <4> DEFINE c == f[k]
                 r == Replaced(c, j, x)
      <4>1. IsList(before) /\ IsList(c) /\ j \in 1..Len(c) /\ r = Replaced(c, j, x)
        BY <2>3, <2>8, <3>2
      <4> HIDE DEF before, c, r
      <4>2. Joined(before, r) = Replaced(Joined(before, c), Len(before) + j, x)
        BY <4>1, ReplacedLater
      <4> QED BY <4>2 DEF c, r, Joined
    <3>5. b + j \in 1..b + l
      <4> HIDE DEF b, l
      <4> QED BY <2>4, <3>2
    <3>6. Flat(g, k) = Replaced(Flat(f, k), p, x) /\ p \in 1..Len(Flat(f, k))
      <4> HIDE DEF p, b, l, before
      <4> QED BY <2>2, <2>4, <2>6, <3>1, <3>3, <3>4, <3>5 DEF before
    <3> QED BY <2>1, <3>6
  <2>7. CASE k > i
    <3>1. g[k] = f[k] /\ k - 1 >= i  BY <2>7
    <3>2. Flat(g, k - 1) = Replaced(before, p, x) /\ p \in 1..b  BY <1>3, <3>1
    <3>3. Replaced(before, p, x) \o f[k] = Replaced(before \o f[k], p, x)
      <4> DEFINE c == f[k]
                 r == Replaced(before, p, x)
      <4>1. IsList(before) /\ IsList(c) /\ p \in 1..Len(before) /\ r = Replaced(before, p, x)
        BY <2>3, <2>8, <3>2
      <4> HIDE DEF before, c, r, p
      <4>2. Joined(r, c) = Replaced(Joined(before, c), p, x)
        BY <4>1, ReplacedEarlier
      <4> QED BY <4>2 DEF c, r, Joined
    <3>4. p \in 1..b + l
      <4> HIDE DEF p, b, l
      <4> QED BY <2>4, <3>2
    <3>5. Flat(g, k) = Replaced(Flat(f, k), p, x) /\ p \in 1..Len(Flat(f, k))
      <4> HIDE DEF p, b, l, before
      <4> QED BY <2>2, <2>4, <3>1, <3>2, <3>3, <3>4 DEF before
    <3> QED BY <2>1, <3>5
  <2> QED BY <2>5, <2>6, <2>7
<1>4. n \in Good
  <2> HIDE DEF Good
  <2> QED BY <1>2, <1>3, UpTo
<1>5. n >= i  OBVIOUS
<1> QED BY <1>4, <1>5

-----------------------------------------------------------------------------
(* The words of an item.                                                   *)

LEMMA WordsAreFold ==
  ASSUME NEW item, IsList(item.pieces), NEW sub
  PROVE  WordsOf(item, sub) = FoldOf(Of(sub), <<>>, item.pieces, Len(item.pieces))
<1> DEFINE pieces == item.pieces
           n == Len(pieces)
           Collect(words, piece) == IF piece.sub = sub THEN Append(words, piece.word) ELSE words
           it == CHOOSE f : f = [s \in SUBSET DOMAIN pieces |->
                   IF s = {} THEN <<>> ELSE Collect(f[s \ {Max(s)}], pieces[Max(s)])]
<1>1. WordsOf(item, sub) = it[DOMAIN pieces]
  BY DEF WordsOf, FoldLeft, MapThenFoldSet
<1>2. n \in Nat /\ DOMAIN pieces = 1..n  BY ListDomain
<1> HIDE DEF pieces, n
<1>3. PICK g : Computes(g, Of(sub), <<>>, pieces, n)  BY <1>2, FoldExists
<1>4. g = [s \in SUBSET DOMAIN pieces |->
             IF s = {} THEN <<>> ELSE Collect(g[s \ {Max(s)}], pieces[Max(s)])]
  BY <1>2, <1>3 DEF Computes, Folded, Of
<1> HIDE DEF Collect
<1>5. it = [s \in SUBSET DOMAIN pieces |->
              IF s = {} THEN <<>> ELSE Collect(it[s \ {Max(s)}], pieces[Max(s)])]
  BY <1>4, Zenon
<1> HIDE DEF it
<1>6. Computes(it, Of(sub), <<>>, pieces, n)
  BY <1>2, <1>5 DEF Computes, Folded, Of, Collect
<1>7. it[1..n] = FoldOf(Of(sub), <<>>, pieces, n)  BY <1>2, <1>6, FoldOfIs
<1> QED BY <1>1, <1>2, <1>7 DEF pieces, n

LEMMA WordsAreList ==
  ASSUME NEW item, IsList(item.pieces), NEW sub
  PROVE  IsList(WordsOf(item, sub))
<1> DEFINE pieces == item.pieces
           n == Len(pieces)
           Good == {k \in 0..n : IsList(FoldOf(Of(sub), <<>>, pieces, k))}
<1>1. n \in Nat  BY ListDomain
<1> HIDE DEF pieces, n
<1>2. 0 \in Good  BY <1>1, FoldOfNone, EmptyList
<1>3. ASSUME NEW k \in 1..n, k - 1 \in Good PROVE k \in Good
  <2> DEFINE before == FoldOf(Of(sub), <<>>, pieces, k - 1)
  <2>1. k - 1 \in Nat /\ k = k - 1 + 1 /\ k \in 0..n  BY <1>1
  <2>2. FoldOf(Of(sub), <<>>, pieces, k) = Folded(Of(sub), before, pieces[k])
    BY <2>1, FoldOfNext
  <2>3. IsList(before)  BY <1>3
  <2> HIDE DEF before
  <2>4. IsList(Folded(Of(sub), before, pieces[k]))
    BY <2>3, AppendList DEF Folded, Of
  <2> QED BY <2>1, <2>2, <2>4
<1>4. n \in Good
  <2> HIDE DEF Good
  <2> QED BY <1>1, <1>2, <1>3, UpTo
<1> QED BY <1>4, WordsAreFold DEF pieces, n

LEMMA AllWords ==
  ASSUME NEW item, IsList(item.pieces)
  PROVE  IsList(Words(item)) /\ Len(Words(item)) = Len(item.pieces)
<1>1. Len(item.pieces) \in Nat /\ DOMAIN item.pieces = 1..Len(item.pieces)
  BY ListDomain
<1>2. Words(item) = [i \in 1..Len(item.pieces) |-> item.pieces[i].word]
  BY <1>1 DEF Words
<1>3. /\ DOMAIN Words(item) = 1..Len(item.pieces)
      /\ Words(item) = [i \in 1..Len(item.pieces) |-> Words(item)[i]]
  BY <1>2
<1> QED BY <1>1, <1>3, MappedList

\* The words of an item and of one with a piece more.
LEMMA PieceMore ==
  ASSUME NEW item, IsList(item.pieces), NEW piece, NEW grown,
         grown.pieces = Append(item.pieces, piece)
  PROVE  /\ \A s : WordsOf(grown, s) = IF piece.sub = s THEN Append(WordsOf(item, s), piece.word)
                                       ELSE WordsOf(item, s)
         /\ Words(grown) = Append(Words(item), piece.word)
         /\ IsList(grown.pieces) /\ grown.pieces # <<>>
         /\ Subs(grown) = piece.sub + 1
<1> DEFINE pieces == item.pieces
           n == Len(pieces)
           more == grown.pieces
<1>1. /\ n \in Nat /\ DOMAIN pieces = 1..n /\ IsList(more) /\ Len(more) = n + 1
      /\ more[n + 1] = piece /\ DOMAIN more = 1..n + 1
      /\ \A i \in 1..n : more[i] = pieces[i]
  BY AppendList, ListDomain
<1>2. ASSUME NEW s
      PROVE  WordsOf(grown, s) = IF piece.sub = s THEN Append(WordsOf(item, s), piece.word)
                                 ELSE WordsOf(item, s)
  <2>1. WordsOf(item, s) = FoldOf(Of(s), <<>>, pieces, n)  BY WordsAreFold
  <2>2. WordsOf(grown, s) = FoldOf(Of(s), <<>>, more, Len(more))
    <3> HIDE DEF n, pieces
    <3> QED BY <1>1, WordsAreFold
  <2>3. FoldOf(Of(s), <<>>, more, n + 1) = Folded(Of(s), FoldOf(Of(s), <<>>, pieces, n), piece)
    BY FoldOfAppend
  <2> HIDE DEF n, pieces, more
  <2> QED BY <1>1, <2>1, <2>2, <2>3 DEF Folded, Of
<1>3. Words(grown) = Append(Words(item), piece.word)
  <2> DEFINE a == Words(grown)
             b == Append(Words(item), piece.word)
  <2>1. IsList(a) /\ Len(a) = n + 1
    <3> HIDE DEF n, pieces
    <3> QED BY <1>1, AllWords
  <2>2. IsList(Words(item)) /\ Len(Words(item)) = n  BY AllWords
  <2>3. /\ IsList(b) /\ Len(b) = n + 1 /\ b[n + 1] = piece.word
        /\ \A i \in 1..n : b[i] = Words(item)[i]
    <3> HIDE DEF n, pieces
    <3> QED BY <2>2, AppendList
  <2>4. a[n + 1] = piece.word /\ \A i \in 1..n : a[i] = pieces[i].word /\ Words(item)[i] = pieces[i].word
    <3> HIDE DEF n
    <3>1. n + 1 \in 1..n + 1 /\ \A i \in 1..n : i \in 1..n + 1  BY <1>1
    <3> QED BY <1>1, <3>1 DEF Words
  <2> HIDE DEF a, b, n, pieces, more
  <2>5. \A i \in 1..n + 1 : a[i] = b[i]
    <3>1. \A i \in 1..n + 1 : i \in 1..n \/ i = n + 1  BY <1>1
    <3> QED BY <2>3, <2>4, <3>1
  <2>6. a = b  BY <2>1, <2>3, <2>5, SameList
  <2> QED BY <2>6 DEF a, b
<1>4. grown.pieces # <<>> /\ Last(more) = piece
  <2> HIDE DEF n, pieces
  <2>1. Len(more) # 0  BY <1>1
  <2> QED BY <1>1, <2>1 DEF Last
<1> HIDE DEF n, pieces
<1> QED BY <1>1, <1>2, <1>3, <1>4 DEF Subs

\* What begins with one piece.
LEMMA OnePiece ==
  ASSUME NEW item, NEW piece, item.pieces = <<piece>>
  PROVE  /\ IsList(item.pieces) /\ item.pieces # <<>>
         /\ \A s : WordsOf(item, s) = IF piece.sub = s THEN <<piece.word>> ELSE <<>>
         /\ Words(item) = <<piece.word>> /\ Subs(item) = piece.sub + 1
<1> DEFINE empty == [pieces |-> <<>>]
<1>1. IsList(empty.pieces) /\ item.pieces = Append(empty.pieces, piece)
  BY EmptyList
<1>2. \A s : WordsOf(empty, s) = <<>>
  <2> TAKE s
  <2>1. WordsOf(empty, s) = FoldOf(Of(s), <<>>, empty.pieces, Len(empty.pieces))
    BY <1>1, WordsAreFold
  <2>2. Len(empty.pieces) = 0  OBVIOUS
  <2> QED BY <2>1, <2>2, FoldOfNone
<1>3. Words(empty) = <<>>  BY DEF Words
<1> HIDE DEF empty
<1> QED BY <1>1, <1>2, <1>3, PieceMore, SMTT(30)

LEMMA NoPieces ==
  ASSUME NEW item, item.pieces = <<>>
  PROVE  Words(item) = <<>> /\ Subs(item) = 0 /\ \A s : WordsOf(item, s) = <<>>
<1>1. \A s : WordsOf(item, s) = <<>>
  <2> TAKE s
  <2>1. WordsOf(item, s) = FoldOf(Of(s), <<>>, item.pieces, Len(item.pieces))
    BY EmptyList, WordsAreFold
  <2>2. Len(item.pieces) = 0  OBVIOUS
  <2> QED BY <2>1, <2>2, FoldOfNone
<1> QED BY <1>1 DEF Words, Subs

-----------------------------------------------------------------------------
(* The parts of an item, as they are streamed.                             *)

LEMMA SubsOf ==
  ASSUME NEW item \in Items
  PROVE  Subs(item) \in Nat /\ (item.pieces # <<>> => Subs(item) > 0) /\ IsList(item.pieces)
<1>1. item.pieces \in Seq(Piece)  BY DEF Items
<1>2. CASE item.pieces = <<>>
  BY <1>2, NoPieces, EmptyList
<1>3. CASE item.pieces # <<>>
  <2>1. Last(item.pieces) \in Piece
    <3> DEFINE n == Len(item.pieces)
    <3>1. n \in Nat /\ n # 0  BY <1>1, <1>3, LenProperties, EmptySeq
    <3>2. n \in 1..Len(item.pieces)  BY <3>1
    <3> HIDE DEF n
    <3>3. item.pieces[n] \in Piece  BY <1>1, <3>2, ElementOfSeq
    <3> QED BY <3>3 DEF Last, n
  <2>2. Last(item.pieces).sub \in Nat  BY <2>1 DEF Piece
  <2> QED BY <1>1, <1>3, <2>2 DEF Subs, IsList
<1> QED BY <1>2, <1>3

LEMMA StreamedList ==
  ASSUME NEW known, NEW labelled, NEW i, NEW item \in Items
  PROVE  /\ IsList(StreamedParts(known, labelled, i, item))
         /\ Width(known, labelled, i, item) \in Nat
         /\ Len(StreamedParts(known, labelled, i, item)) = Width(known, labelled, i, item)
         /\ \A s \in 1..Width(known, labelled, i, item) :
              StreamedParts(known, labelled, i, item)[s] = PartAt(known, labelled, i, item, s)
<1> DEFINE w == Width(known, labelled, i, item)
           f == StreamedParts(known, labelled, i, item)
<1>1. w \in Nat  BY SubsOf DEF Width
<1>2. DOMAIN f = 1..w /\ \A s \in 1..w : f[s] = PartAt(known, labelled, i, item, s)
  BY DEF StreamedParts
<1>3. f = [s \in 1..w |-> f[s]]  BY DEF StreamedParts
<1> HIDE DEF w, f
<1> QED BY <1>1, <1>2, <1>3, MappedList DEF w, f

LEMMA ItemIds ==
  ASSUME NEW labelled \in BOOLEAN
  PROVE  /\ \A i, j \in Nat \ {0} : ItemId(labelled, i) = ItemId(labelled, j) => i = j
         /\ \A i, j \in Nat \ {0} : \A t \in Nat :
              ItemId(labelled, i) # Append(ItemId(labelled, j), t)
         /\ \A i, j \in Nat \ {0} : \A s, t \in Nat :
              Append(ItemId(labelled, i), s) = Append(ItemId(labelled, j), t) => i = j /\ s = t
<1> DEFINE id(i) == ItemId(labelled, i)
<1>1. ASSUME NEW i \in Nat \ {0}
      PROVE  /\ IsList(id(i)) /\ Len(id(i)) = IF labelled \/ i > 1 THEN 2 ELSE 1
             /\ id(i)[1] = IF labelled THEN "item" ELSE IF i > 1 THEN "number" ELSE "response"
             /\ labelled => id(i)[2] = i
             /\ ~labelled /\ i > 1 => id(i)[2] = i - 1
  <2>1. \A a, b : IsList(<<a, b>>) /\ Len(<<a, b>>) = 2 /\ <<a, b>>[1] = a /\ <<a, b>>[2] = b
    <3> TAKE a, b
    <3>1. <<a, b>> \in Seq({a, b})  OBVIOUS
    <3>2. IsList(<<a, b>>)  BY <3>1, Zenon DEF IsList
    <3> QED BY <3>2
  <2>2. \A a : IsList(<<a>>) /\ Len(<<a>>) = 1 /\ <<a>>[1] = a
    <3> TAKE a
    <3>1. <<a>> \in Seq({a})  OBVIOUS
    <3>2. IsList(<<a>>)  BY <3>1, Zenon DEF IsList
    <3> QED BY <3>2
  <2>3. CASE labelled
    BY <2>1, <2>3 DEF ItemId
  <2>4. CASE ~labelled /\ i > 1
    BY <2>1, <2>4 DEF ItemId
  <2>5. CASE ~labelled /\ ~(i > 1)
    BY <2>2, <2>5 DEF ItemId
  <2> QED BY <2>3, <2>4, <2>5
<1> HIDE DEF id
<1>2. ASSUME NEW i \in Nat \ {0}, NEW t \in Nat
      PROVE  /\ Len(Append(id(i), t)) = IF labelled \/ i > 1 THEN 3 ELSE 2
             /\ \A m \in 1..Len(id(i)) : Append(id(i), t)[m] = id(i)[m]
             /\ Append(id(i), t)[Len(id(i)) + 1] = t
  <2>1. IsList(id(i)) /\ Len(id(i)) = IF labelled \/ i > 1 THEN 2 ELSE 1  BY <1>1
  <2>2. /\ Len(Append(id(i), t)) = Len(id(i)) + 1
        /\ \A m \in 1..Len(id(i)) : Append(id(i), t)[m] = id(i)[m]
        /\ Append(id(i), t)[Len(id(i)) + 1] = t
    BY <2>1, AppendList, ZenonT(60)
  <2> QED BY <2>1, <2>2
<1>3. ASSUME NEW i \in Nat \ {0}, NEW j \in Nat \ {0}, id(i) = id(j)
      PROVE  i = j
  BY <1>1, <1>3
<1>4. ASSUME NEW i \in Nat \ {0}, NEW j \in Nat \ {0}, NEW t \in Nat
      PROVE  id(i) # Append(id(j), t)
  <2>1. SUFFICES ASSUME id(i) = Append(id(j), t) PROVE FALSE
    OBVIOUS
  <2>2. ~labelled /\ i > 1 /\ ~(j > 1)  BY <1>1, <1>2, <2>1, SMTT(30)
  <2>3. Append(id(j), t)[1] = id(j)[1]  BY <1>1, <1>2, <2>2
  <2> QED BY <1>1, <2>1, <2>2, <2>3
<1>5. ASSUME NEW i \in Nat \ {0}, NEW j \in Nat \ {0}, NEW s \in Nat, NEW t \in Nat,
             Append(id(i), s) = Append(id(j), t)
      PROVE  i = j /\ s = t
  <2>1. Len(id(i)) = Len(id(j)) /\ Len(id(i)) \in Nat  BY <1>1, <1>2, <1>5
  <2>2. s = t  BY <1>2, <1>5, <2>1, SMTT(30)
  <2>3. ASSUME NEW m \in 1..Len(id(i)) PROVE id(i)[m] = id(j)[m]
    <3>1. Append(id(i), s)[m] = id(i)[m]  BY <1>2
    <3>2. m \in 1..Len(id(j))  BY <2>1
    <3>3. Append(id(j), t)[m] = id(j)[m]  BY <1>2, <3>2
    <3> QED BY <1>5, <3>1, <3>3
  <2>4. IsList(id(i)) /\ IsList(id(j))  BY <1>1
  <2>5. id(i) = id(j)  BY <2>1, <2>3, <2>4, SameList
  <2> QED BY <1>3, <2>2, <2>5
<1> QED BY <1>3, <1>4, <1>5 DEF id

LEMMA KeysDiffer ==
  ASSUME NEW known \in {"chat", "responses"}, NEW labelled \in BOOLEAN, NEW items \in Seq(Items),
         Distinct(known, labelled, items),
         NEW i \in DOMAIN items, NEW s \in 1..Width(known, labelled, i, items[i]),
         NEW j \in DOMAIN items, NEW t \in 1..Width(known, labelled, j, items[j]),
         KeyAt(known, labelled, i, items[i].kind, s) = KeyAt(known, labelled, j, items[j].kind, t)
  PROVE  i = j /\ s = t
<1>1. /\ Len(items) \in Nat /\ DOMAIN items = 1..Len(items)
      /\ i \in Nat \ {0} /\ j \in Nat \ {0}
      /\ items[i] \in Items /\ items[j] \in Items
      /\ items[i].kind \in Kinds /\ items[j].kind \in Kinds
  <2>1. Len(items) \in Nat /\ DOMAIN items = 1..Len(items)  BY LenProperties
  <2>2. items[i] \in Items /\ items[j] \in Items  BY <2>1, ElementOfSeq
  <2> QED BY <2>1, <2>2 DEF Items
<1>2. /\ Width(known, labelled, i, items[i]) \in Nat /\ s \in Nat \ {0} /\ s - 1 \in Nat
      /\ Width(known, labelled, j, items[j]) \in Nat /\ t \in Nat \ {0} /\ t - 1 \in Nat
  BY <1>1, StreamedList
<1>3. /\ IsOnePart(known, labelled, i, items[i].kind) => s = 1
      /\ IsOnePart(known, labelled, j, items[j].kind) => t = 1
  BY DEF Width
<1>4. CASE known = "chat"
  <2>1. s = 1 /\ t = 1
    <3>1. /\ items[i].kind # "function_call" => Subs(items[i]) = 1
          /\ items[j].kind # "function_call" => Subs(items[j]) = 1
      BY <1>4 DEF Distinct
    <3>2. Width(known, labelled, i, items[i]) = 1 /\ Width(known, labelled, j, items[j]) = 1
      BY <3>1 DEF Width, IsOnePart
    <3> QED BY <3>2
  <2>2. ChatKey(i, items[i].kind) = ChatKey(j, items[j].kind)  BY <1>4 DEF KeyAt
  <2>3. \A a, b, c : <<a>> # <<b, c>>  OBVIOUS
  <2>4. items[i].kind = items[j].kind /\ (items[i].kind = "function_call" => i = j)
    BY <1>1, <2>2, <2>3 DEF ChatKey, Kinds
  <2> QED BY <1>4, <2>1, <2>4 DEF Distinct
<1>5. CASE known # "chat"
  <2>1. ASSUME NEW m \in DOMAIN items, NEW r \in 1..Width(known, labelled, m, items[m]), r # 1
        PROVE  /\ items[m].kind # "function_call"
               /\ items[m].kind = "message" => ~labelled /\ m = 1 /\ Len(items) = 1
    <3>1. m \in Nat \ {0} /\ items[m] \in Items /\ Width(known, labelled, m, items[m]) \in Nat
      BY <1>1, ElementOfSeq, StreamedList
    <3>2. ~IsOnePart(known, labelled, m, items[m].kind) /\ Width(known, labelled, m, items[m]) > 1
      BY <2>1, <3>1 DEF Width
    <3>3. Subs(items[m]) > 1  BY <3>2 DEF Width
    <3>4. items[m].kind = "message" => ~labelled /\ ~(m > 1)  BY <3>2 DEF IsOnePart
    <3>5. items[m].kind = "message" => ~labelled /\ m = 1  BY <3>1, <3>4
    <3> QED BY <1>1, <3>2, <3>3, <3>5 DEF IsOnePart, Distinct
  <2>2. /\ s = 1 => KeyAt(known, labelled, i, items[i].kind, s) = ItemId(labelled, i)
        /\ t = 1 => KeyAt(known, labelled, j, items[j].kind, t) = ItemId(labelled, j)
    BY <1>5 DEF KeyAt
  <2>3. /\ s # 1 => KeyAt(known, labelled, i, items[i].kind, s) =
                      IF items[i].kind = "reasoning" THEN Append(ItemId(labelled, i), s - 1)
                      ELSE <<"number", s - 1>>
        /\ t # 1 => KeyAt(known, labelled, j, items[j].kind, t) =
                      IF items[j].kind = "reasoning" THEN Append(ItemId(labelled, j), t - 1)
                      ELSE <<"number", t - 1>>
    BY <1>3, <1>5 DEF KeyAt
  <2>4. CASE (items[i].kind = "message" /\ s # 1) \/ (items[j].kind = "message" /\ t # 1)
    <3>1. ~labelled /\ Len(items) = 1  BY <2>1, <2>4
    <3>2. i = 1 /\ j = 1  BY <1>1, <3>1
    <3>3. ItemId(labelled, 1) = <<"response">>  BY <3>1 DEF ItemId
    <3>4. \A a, b, c : <<a>> # <<b, c>>  OBVIOUS
    <3>5. s = 1 <=> t = 1  BY <2>2, <2>3, <2>4, <3>2, <3>3, <3>4
    <3>6. s - 1 = t - 1  BY <2>3, <2>4, <3>2, <3>5
    <3> QED BY <1>2, <3>2, <3>6
  <2>5. CASE ~((items[i].kind = "message" /\ s # 1) \/ (items[j].kind = "message" /\ t # 1))
    <3>0. /\ s # 1 => items[i].kind # "function_call"
          /\ t # 1 => items[j].kind # "function_call"
      BY <2>1
    <3>1. /\ s # 1 => items[i].kind = "reasoning"
          /\ t # 1 => items[j].kind = "reasoning"
      <4> DEFINE first == items[i].kind
                 other == items[j].kind
      <4>1. first \in Kinds /\ (s # 1 => first # "function_call" /\ first # "message")
        BY <1>1, <2>5, <3>0
      <4>2. other \in Kinds /\ (t # 1 => other # "function_call" /\ other # "message")
        BY <1>1, <2>5, <3>0
      <4> HIDE DEF first, other
      <4>3. /\ s # 1 => first = "reasoning"
            /\ t # 1 => other = "reasoning"
        BY <4>1, <4>2 DEF Kinds
      <4> QED BY <4>3 DEF first, other
    <3>2. CASE s = 1 /\ t = 1
      BY <1>1, <2>2, <3>2, ItemIds
    <3>3. CASE s = 1 /\ t # 1
      <4>1. ItemId(labelled, i) = Append(ItemId(labelled, j), t - 1)
        BY <2>2, <2>3, <3>1, <3>3
      <4> DEFINE r == t - 1
      <4>2. r \in Nat /\ ItemId(labelled, i) = Append(ItemId(labelled, j), r)
        BY <1>2, <4>1
      <4> HIDE DEF r
      <4>3. \A m, n \in Nat \ {0} : \A q \in Nat : ItemId(labelled, m) # Append(ItemId(labelled, n), q)
        BY ItemIds
      <4> QED BY <1>1, <4>2, <4>3
    <3>4. CASE s # 1 /\ t = 1
      <4>1. ItemId(labelled, j) = Append(ItemId(labelled, i), s - 1)
        BY <2>2, <2>3, <3>1, <3>4
      <4> DEFINE r == s - 1
      <4>2. r \in Nat /\ ItemId(labelled, j) = Append(ItemId(labelled, i), r)
        BY <1>2, <4>1
      <4> HIDE DEF r
      <4>3. \A m, n \in Nat \ {0} : \A q \in Nat : ItemId(labelled, m) # Append(ItemId(labelled, n), q)
        BY ItemIds
      <4> QED BY <1>1, <4>2, <4>3
    <3>5. CASE s # 1 /\ t # 1
      <4>1. i = j /\ s - 1 = t - 1
        <5>1. Append(ItemId(labelled, i), s - 1) = Append(ItemId(labelled, j), t - 1)
          BY <2>3, <3>1, <3>5
        <5> DEFINE q == s - 1
                   r == t - 1
        <5>2. q \in Nat /\ r \in Nat /\ Append(ItemId(labelled, i), q) = Append(ItemId(labelled, j), r)
          BY <1>2, <5>1
        <5> HIDE DEF q, r
        <5>4. \A m, n \in Nat \ {0} : \A c, d \in Nat :
                Append(ItemId(labelled, m), c) = Append(ItemId(labelled, n), d) => m = n /\ c = d
          BY ItemIds
        <5>3. i = j /\ q = r  BY <1>1, <5>2, <5>4, ZenonT(60)
        <5> QED BY <5>3 DEF q, r
      <4> QED BY <1>2, <4>1
    <3> QED BY <3>2, <3>3, <3>4, <3>5
  <2> QED BY <2>4, <2>5
<1> QED BY <1>4, <1>5

LEMMA AllLists ==
  ASSUME NEW known, NEW labelled, NEW items \in Seq(Items)
  PROVE  /\ Len(items) \in Nat /\ DOMAIN items = 1..Len(items)
         /\ \A i \in 1..Len(items) :
              LET parts == AllParts(known, labelled, items)[i] IN
              /\ items[i] \in Items /\ Width(known, labelled, i, items[i]) \in Nat
              /\ parts = StreamedParts(known, labelled, i, items[i])
              /\ IsList(parts) /\ Len(parts) = Width(known, labelled, i, items[i])
              /\ \A s \in 1..Len(parts) : parts[s] = PartAt(known, labelled, i, items[i], s)
         /\ IsList(PartsOf(known, labelled, items))
<1> DEFINE f == AllParts(known, labelled, items)
           n == Len(items)
<1>1. n \in Nat /\ DOMAIN items = 1..n  BY LenProperties
<1>2. ASSUME NEW i \in 1..n
      PROVE  /\ items[i] \in Items /\ Width(known, labelled, i, items[i]) \in Nat
             /\ f[i] = StreamedParts(known, labelled, i, items[i])
             /\ IsList(f[i]) /\ Len(f[i]) = Width(known, labelled, i, items[i])
             /\ \A s \in 1..Len(f[i]) : f[i][s] = PartAt(known, labelled, i, items[i], s)
  <2>1. items[i] \in Items  BY ElementOfSeq
  <2>2. f[i] = StreamedParts(known, labelled, i, items[i])  BY <1>1 DEF AllParts
  <2> HIDE DEF f
  <2> QED BY <2>1, <2>2, StreamedList
<1> HIDE DEF f, n
<1>3. n \in 0..n  BY <1>1
<1>4. IsList(Flat(f, n))  BY <1>1, <1>2, <1>3, FlatList
<1> QED BY <1>1, <1>2, <1>4 DEF PartsOf, f, n

\* Every part is where its item has it.
LEMMA PartsArePlaced ==
  ASSUME NEW known, NEW labelled, NEW items \in Seq(Items)
  PROVE  LET parts == PartsOf(known, labelled, items)
             At(i, s) == Place(AllParts(known, labelled, items), i, s)
         IN  /\ \A i \in DOMAIN items : \A s \in 1..Width(known, labelled, i, items[i]) :
                  At(i, s) \in DOMAIN parts /\ parts[At(i, s)] = PartAt(known, labelled, i, items[i], s)
             /\ \A m \in DOMAIN parts :
                  \E i \in DOMAIN items : \E s \in 1..Width(known, labelled, i, items[i]) : m = At(i, s)
<1> DEFINE f == AllParts(known, labelled, items)
           n == Len(items)
           parts == Flat(f, n)
<1>1. /\ n \in Nat /\ DOMAIN items = 1..n
      /\ \A i \in 1..n : IsList(f[i]) /\ Len(f[i]) = Width(known, labelled, i, items[i])
      /\ \A i \in 1..n : \A s \in 1..Len(f[i]) : f[i][s] = PartAt(known, labelled, i, items[i], s)
      /\ IsList(parts)
  BY AllLists DEF PartsOf
<1>2. DOMAIN parts = 1..Len(parts)  BY <1>1, ListDomain
<1> HIDE DEF f, n
<1>3. /\ \A i \in 1..n : \A j \in 1..Len(f[i]) :
              /\ Place(f, i, j) \in 1..Len(Flat(f, n))
              /\ Flat(f, n)[Place(f, i, j)] = f[i][j]
      /\ \A m \in 1..Len(Flat(f, n)) :
              \E i \in 1..n : \E j \in 1..Len(f[i]) : m = Place(f, i, j)
  BY <1>1, FlatPlace
<1> HIDE DEF parts
<1>4. ASSUME NEW i \in DOMAIN items, NEW s \in 1..Width(known, labelled, i, items[i])
      PROVE  Place(f, i, s) \in DOMAIN parts /\ parts[Place(f, i, s)] = PartAt(known, labelled, i, items[i], s)
  <2>1. i \in 1..n /\ s \in 1..Len(f[i])  BY <1>1
  <2>2. Place(f, i, s) \in 1..Len(Flat(f, n)) /\ Flat(f, n)[Place(f, i, s)] = f[i][s]
    BY <1>3, <2>1
  <2>3. f[i][s] = PartAt(known, labelled, i, items[i], s)  BY <1>1, <2>1
  <2> QED BY <1>2, <2>2, <2>3 DEF parts
<1>5. ASSUME NEW m \in DOMAIN parts
      PROVE  \E i \in DOMAIN items : \E s \in 1..Width(known, labelled, i, items[i]) : m = Place(f, i, s)
  BY <1>1, <1>2, <1>3 DEF parts
<1> QED BY <1>4, <1>5 DEF PartsOf, parts, f, n

\* A part is found again by its id.
LEMMA PartFound ==
  ASSUME NEW known \in {"chat", "responses"}, NEW labelled \in BOOLEAN, NEW items \in Seq(Items),
         Distinct(known, labelled, items),
         NEW i \in DOMAIN items, NEW s \in 1..Width(known, labelled, i, items[i])
  PROVE  LET parts == PartsOf(known, labelled, items)
             key == KeyAt(known, labelled, i, items[i].kind, s)
         IN  /\ Holds(parts, key)
             /\ Slot(parts, key) = Place(AllParts(known, labelled, items), i, s)
             /\ parts[Slot(parts, key)] = PartAt(known, labelled, i, items[i], s)
<1> DEFINE parts == PartsOf(known, labelled, items)
           key == KeyAt(known, labelled, i, items[i].kind, s)
           At(j, t) == Place(AllParts(known, labelled, items), j, t)
<1>1. /\ \A j \in DOMAIN items : \A t \in 1..Width(known, labelled, j, items[j]) :
           At(j, t) \in DOMAIN parts /\ parts[At(j, t)] = PartAt(known, labelled, j, items[j], t)
      /\ \A m \in DOMAIN parts :
           \E j \in DOMAIN items : \E t \in 1..Width(known, labelled, j, items[j]) : m = At(j, t)
  BY PartsArePlaced
<1> HIDE DEF parts, At
<1>2. At(i, s) \in DOMAIN parts /\ parts[At(i, s)] = PartAt(known, labelled, i, items[i], s)
  BY <1>1
<1>3. parts[At(i, s)].key = key  BY <1>2 DEF PartAt
<1>4. Holds(parts, key)  BY <1>2, <1>3 DEF Holds
<1>5. Slot(parts, key) \in DOMAIN parts /\ parts[Slot(parts, key)].key = key
  <2> HIDE DEF key
  <2> QED BY <1>4, Zenon DEF Holds, Slot
<1> DEFINE m == Slot(parts, key)
<1>6. PICK j \in DOMAIN items : \E t \in 1..Width(known, labelled, j, items[j]) : m = At(j, t)
  <2> HIDE DEF m
  <2> QED BY <1>1, <1>5 DEF m
<1>7. PICK t \in 1..Width(known, labelled, j, items[j]) : m = At(j, t)  BY <1>6
<1> HIDE DEF m
<1>8. parts[m] = PartAt(known, labelled, j, items[j], t)  BY <1>1, <1>7
<1>9. KeyAt(known, labelled, j, items[j].kind, t) = key
  <2>1. parts[m].key = KeyAt(known, labelled, j, items[j].kind, t)
    BY <1>8 DEF PartAt
  <2>2. parts[m].key = key  BY <1>5 DEF m
  <2> QED BY <2>1, <2>2
<1>10. i = j /\ s = t  BY <1>9, KeysDiffer
<1> QED BY <1>2, <1>4, <1>7, <1>10 DEF m, key, parts, At

\* A part that comes later has an id of its own.
LEMMA NewKey ==
  ASSUME NEW known \in {"chat", "responses"}, NEW labelled \in BOOLEAN,
         NEW items \in Seq(Items), NEW more \in Seq(Items), Distinct(known, labelled, more),
         \A i \in DOMAIN items :
           /\ i \in DOMAIN more /\ more[i].kind = items[i].kind
           /\ Width(known, labelled, i, items[i]) <= Width(known, labelled, i, more[i]),
         NEW j \in DOMAIN more, NEW t \in 1..Width(known, labelled, j, more[j]),
         j \in DOMAIN items => t > Width(known, labelled, j, items[j])
  PROVE  ~Holds(PartsOf(known, labelled, items), KeyAt(known, labelled, j, more[j].kind, t))
<1> DEFINE parts == PartsOf(known, labelled, items)
           key == KeyAt(known, labelled, j, more[j].kind, t)
           At(i, s) == Place(AllParts(known, labelled, items), i, s)
<1>1. SUFFICES ASSUME Holds(parts, key) PROVE FALSE
  OBVIOUS
<1>2. /\ \A i \in DOMAIN items : \A s \in 1..Width(known, labelled, i, items[i]) :
           At(i, s) \in DOMAIN parts /\ parts[At(i, s)] = PartAt(known, labelled, i, items[i], s)
      /\ \A m \in DOMAIN parts :
           \E i \in DOMAIN items : \E s \in 1..Width(known, labelled, i, items[i]) : m = At(i, s)
  BY PartsArePlaced
<1> HIDE DEF parts, At, key
<1>3. PICK m \in DOMAIN parts : parts[m].key = key  BY <1>1 DEF Holds
<1>4. PICK i \in DOMAIN items : \E s \in 1..Width(known, labelled, i, items[i]) : m = At(i, s)
  BY <1>2, <1>3
<1>5. PICK s \in 1..Width(known, labelled, i, items[i]) : m = At(i, s)  BY <1>4
<1>6. parts[m].key = KeyAt(known, labelled, i, items[i].kind, s)
  <2>1. parts[m] = PartAt(known, labelled, i, items[i], s)  BY <1>2, <1>5
  <2> QED BY <2>1 DEF PartAt
<1>7. i \in DOMAIN more /\ more[i].kind = items[i].kind  OBVIOUS
<1>8. s \in 1..Width(known, labelled, i, more[i]) /\ s <= Width(known, labelled, i, items[i])
  <2>1. Width(known, labelled, i, items[i]) \in Nat /\ Width(known, labelled, i, more[i]) \in Nat
    BY <1>7, AllLists
  <2>2. Width(known, labelled, i, items[i]) <= Width(known, labelled, i, more[i])
    OBVIOUS
  <2> QED BY <2>1, <2>2
<1>9. KeyAt(known, labelled, i, more[i].kind, s) = KeyAt(known, labelled, j, more[j].kind, t)
  BY <1>3, <1>6, <1>7 DEF key
<1>10. i = j /\ s = t  BY <1>7, <1>8, <1>9, KeysDiffer
<1>11. Width(known, labelled, i, items[i]) \in Nat  BY AllLists
<1> QED BY <1>8, <1>10, <1>11

\* One part of an answer has more words.
LEMMA WordsAreHandled ==
  ASSUME NEW known \in {"chat", "responses"}, NEW labelled \in BOOLEAN,
         NEW items, NEW more, NEW i, NEW item, NEW s, NEW part, NEW key,
         PartIsLonger(known, labelled, items, more, i, item, s, part, key),
         Distinct(known, labelled, items)
  PROVE  HandleDelta(PartsOf(known, labelled, items), key, part).parts
           = PartsOf(known, labelled, more)
<1> SUFFICES
      ASSUME items \in Seq(Items), i \in DOMAIN items, s \in 1..Width(known, labelled, i, items[i]),
             item \in Items, Width(known, labelled, i, item) = Width(known, labelled, i, items[i]),
             \A t \in 1..Width(known, labelled, i, items[i]) :
               PartAt(known, labelled, i, item, t) =
                 IF t = s THEN [PartAt(known, labelled, i, items[i], s) EXCEPT !.words = @ \o part.words]
                 ELSE PartAt(known, labelled, i, items[i], t)
      PROVE  HandleDelta(PartsOf(known, labelled, items),
                         KeyAt(known, labelled, i, items[i].kind, s), part).parts
               = PartsOf(known, labelled, [items EXCEPT ![i] = item])
  BY DEF PartIsLonger, Replaced
<1> DEFINE parts == PartsOf(known, labelled, items)
           id == KeyAt(known, labelled, i, items[i].kind, s)
           others == [items EXCEPT ![i] = item]
           f == AllParts(known, labelled, items)
           g == AllParts(known, labelled, others)
           n == Len(items)
           w == Width(known, labelled, i, items[i])
           m == Place(f, i, s)
           new == PartAt(known, labelled, i, item, s)
<1>1. /\ n \in Nat /\ DOMAIN items = 1..n
      /\ \A k \in 1..n : IsList(f[k])
      /\ Len(f[i]) = w /\ w \in Nat
      /\ \A t \in 1..w : f[i][t] = PartAt(known, labelled, i, items[i], t)
  <2>1. n \in Nat /\ DOMAIN items = 1..n /\ \A k \in 1..n : IsList(f[k])
    BY AllLists
  <2>2. i \in 1..n  BY <2>1
  <2>3. /\ w \in Nat /\ Len(f[i]) = w
        /\ \A t \in 1..Len(f[i]) : f[i][t] = PartAt(known, labelled, i, items[i], t)
    BY <2>2, AllLists
  <2> HIDE DEF f, w, n
  <2> QED BY <2>1, <2>3
<1>2. /\ others \in Seq(Items) /\ Len(others) = n /\ DOMAIN others = 1..n
      /\ others[i] = item /\ \A k \in 1..n : k # i => others[k] = items[k]
  <2>1. others \in Seq(Items)
    <3>1. i \in 1..Len(items)  BY <1>1
    <3> QED BY <3>1, ExceptSeq
  <2>2. DOMAIN others = 1..n /\ others[i] = item /\ \A k \in 1..n : k # i => others[k] = items[k]
    BY <1>1
  <2>3. Len(others) \in Nat /\ DOMAIN others = 1..Len(others)  BY <2>1, AllLists
  <2>4. Len(others) = n
    <3> HIDE DEF others, n
    <3> QED BY <1>1, <2>2, <2>3, SameInterval
  <2> QED BY <2>1, <2>2, <2>4
<1>3. Holds(parts, id) /\ Slot(parts, id) = m /\ parts[m] = PartAt(known, labelled, i, items[i], s)
  BY PartFound
<1>4. [parts[m] EXCEPT !.words = @ \o part.words] = new
  <2>1. new = [PartAt(known, labelled, i, items[i], s) EXCEPT !.words = @ \o part.words]
    OBVIOUS
  <2> HIDE DEF new, parts, m
  <2> QED BY <1>3, <2>1
<1>5. HandleDelta(parts, id, part).parts = Replaced(parts, m, new)
  <2>1. HandleDelta(parts, id, part).parts = [parts EXCEPT ![m].words = @ \o part.words]
    <3> HIDE DEF parts, m, id
    <3> QED BY <1>3 DEF HandleDelta
  <2> HIDE DEF new, parts, m, id
  <2> QED BY <1>4, <2>1 DEF Replaced
<1>6. g[i] = Replaced(f[i], s, new) /\ \A k \in 1..n : k # i => g[k] = f[k]
  <2>1. \A k \in 1..n : k # i => g[k] = f[k]
    <3> HIDE DEF others
    <3> QED BY <1>1, <1>2 DEF AllParts
  <2>2. g[i] = StreamedParts(known, labelled, i, item)
    <3> HIDE DEF others
    <3> QED BY <1>1, <1>2 DEF AllParts
  <2>3. g[i] = [t \in 1..w |-> PartAt(known, labelled, i, item, t)]
    BY <2>2 DEF StreamedParts
  <2>4. DOMAIN f[i] = 1..w  BY <1>1, ListDomain
  <2>5. \A t \in 1..w : PartAt(known, labelled, i, item, t) = IF t = s THEN new ELSE f[i][t]
    BY <1>1
  <2>6. f[i] = [t \in 1..w |-> f[i][t]]  BY <1>1 DEF AllParts, StreamedParts
  <2> HIDE DEF f, g, new, others, w
  <2>7. Replaced(f[i], s, new) = [t \in 1..w |-> IF t = s THEN new ELSE f[i][t]]
    BY <2>4, <2>6 DEF Replaced
  <2>8. g[i] = [t \in 1..w |-> IF t = s THEN new ELSE f[i][t]]  BY <2>3, <2>5
  <2> QED BY <2>1, <2>7, <2>8
<1>7. Flat(g, n) = Replaced(Flat(f, n), m, new)
  <2> DEFINE j == s
  <2>1. i \in 1..n /\ s \in 1..Len(f[i])  BY <1>1
  <2> HIDE DEF f, g, new, n
  <2> QED BY <1>1, <1>6, <2>1, FlatReplaced
<1> QED BY <1>2, <1>5, <1>7 DEF PartsOf

\* An answer has one part more, with a new item.
LEMMA PartOfNewItem ==
  ASSUME NEW known, NEW labelled, NEW items \in Seq(Items), NEW item \in Items, NEW part,
         NEW n \in Nat, n = Len(items),
         Width(known, labelled, n + 1, item) = 1, PartAt(known, labelled, n + 1, item, 1) = part
  PROVE  PartsOf(known, labelled, Append(items, item)) = Append(PartsOf(known, labelled, items), part)
<1> DEFINE f == AllParts(known, labelled, items)
<1>1. /\ n \in Nat /\ DOMAIN items = 1..n
      /\ \A k \in 1..n : IsList(f[k])
  BY AllLists
<1> DEFINE more == Append(items, item)
           g == AllParts(known, labelled, more)
<1>2. /\ more \in Seq(Items) /\ Len(more) = n + 1 /\ more[n + 1] = item
      /\ \A i \in 1..n : more[i] = items[i]
  BY AppendProperties
<1>3. DOMAIN more = 1..n + 1  BY <1>2, LenProperties
<1> HIDE DEF more
<1>4. \A i \in 1..n : g[i] = f[i]
  <2> TAKE i \in 1..n
  <2>1. i \in 1..n + 1  BY <1>1
  <2> QED BY <1>1, <1>2, <1>3, <2>1 DEF AllParts
<1>5. g[n + 1] = <<part>>
  <2>1. g[n + 1] = StreamedParts(known, labelled, n + 1, item)
    <3>1. n + 1 \in 1..n + 1  BY <1>1
    <3> QED BY <1>2, <1>3, <3>1 DEF AllParts
  <2>2. StreamedParts(known, labelled, n + 1, item) = [t \in 1..1 |-> PartAt(known, labelled, n + 1, item, t)]
    BY DEF StreamedParts
  <2>3. [t \in 1..1 |-> PartAt(known, labelled, n + 1, item, t)] = <<part>>
    <3>1. \A t \in 1..1 : t = 1  OBVIOUS
    <3> QED BY <3>1
  <2> QED BY <2>1, <2>2, <2>3
<1>6. Flat(g, n + 1) = Append(Flat(f, n), part)
  <2> DEFINE m == n + 1
  <2>1. g[m] = <<part>>  BY <1>5
  <2>2. m = n + 1  OBVIOUS
  <2> HIDE DEF f, g, m
  <2>3. HasNewList(f, g, n, m, part)  BY <1>1, <1>4, <2>1, <2>2 DEF HasNewList
  <2>4. Flat(g, m) = Append(Flat(f, n), part)  BY <2>3, FlatNewList
  <2> QED BY <2>2, <2>4
<1> QED BY <1>2, <1>6 DEF PartsOf, more

LEMMA PartOfNewContent ==
  ASSUME NEW known, NEW labelled, NEW items, NEW more, NEW n, NEW item, NEW part,
         LastIsWider(known, labelled, items, more, n, item, part)
  PROVE  PartsOf(known, labelled, more) = Append(PartsOf(known, labelled, items), part)
<1> USE DEF LastIsWider
<1> DEFINE f == AllParts(known, labelled, items)
<1>1. /\ n \in Nat /\ DOMAIN items = 1..n
      /\ \A k \in 1..n : IsList(f[k])
  BY AllLists
<1> DEFINE g == AllParts(known, labelled, more)
           w == Width(known, labelled, n, items[n])
<1>2. n \in 1..n  BY <1>1
<1>3. Len(more) = n /\ DOMAIN more = 1..n  BY LenProperties
<1>4. /\ items[n] \in Items /\ w \in Nat /\ f[n] = StreamedParts(known, labelled, n, items[n])
      /\ IsList(f[n]) /\ Len(f[n]) = w
      /\ \A t \in 1..w : f[n][t] = PartAt(known, labelled, n, items[n], t)
  <2>1. \A i \in 1..n :
          /\ items[i] \in Items /\ Width(known, labelled, i, items[i]) \in Nat
          /\ f[i] = StreamedParts(known, labelled, i, items[i])
          /\ IsList(f[i]) /\ Len(f[i]) = Width(known, labelled, i, items[i])
          /\ \A t \in 1..Len(f[i]) : f[i][t] = PartAt(known, labelled, i, items[i], t)
    <3>1. items \in Seq(Items) /\ n = Len(items)  OBVIOUS
    <3> HIDE DEF LastIsWider
    <3> QED BY <3>1, AllLists
  <2> HIDE DEF f, LastIsWider
  <2> QED BY <1>2, <2>1
<1>5. /\ IsList(g[n]) /\ Len(g[n]) = w + 1
      /\ \A t \in 1..w + 1 : g[n][t] = PartAt(known, labelled, n, item, t)
  <2> HIDE DEF w
  <2>1. LET parts == AllParts(known, labelled, more)[n] IN
        /\ IsList(parts) /\ Len(parts) = Width(known, labelled, n, more[n])
        /\ \A s \in 1..Len(parts) : parts[s] = PartAt(known, labelled, n, more[n], s)
    BY <1>2, <1>3, AllLists
  <2> QED BY <1>3, <2>1 DEF w
<1>6. \A k \in 1..n - 1 : g[k] = f[k]
  <2> TAKE k \in 1..n - 1
  <2>1. k \in 1..n /\ k # n  BY <1>1
  <2> QED BY <1>1, <1>3, <2>1 DEF AllParts
<1>7. g[n] = Append(f[n], part)
  <2> DEFINE a == g[n]
             b == f[n]
             c == Append(b, part)
  <2>1. /\ IsList(c) /\ Len(c) = w + 1 /\ c[w + 1] = part
        /\ \A t \in 1..w : c[t] = b[t]
    <3> HIDE DEF f, w
    <3> QED BY <1>4, AppendList
  <2>2. a[w + 1] = part /\ \A t \in 1..w : a[t] = b[t]
    <3>1. w + 1 \in 1..w + 1 /\ \A t \in 1..w : t \in 1..w + 1  BY <1>4
    <3> HIDE DEF f, g, w
    <3>2. a[w + 1] = PartAt(known, labelled, n, item, w + 1)  BY <1>5, <3>1
    <3>3. PartAt(known, labelled, n, item, w + 1) = part  BY DEF w
    <3>4. \A t \in 1..w : PartAt(known, labelled, n, item, t) = PartAt(known, labelled, n, items[n], t)
      BY DEF w
    <3> QED BY <1>4, <1>5, <3>1, <3>2, <3>3, <3>4
  <2>3. IsList(a) /\ Len(a) = w + 1  BY <1>5
  <2>4. \A t \in 1..w + 1 : t \in 1..w \/ t = w + 1  BY <1>4
  <2> HIDE DEF a, b, c, w
  <2>5. \A t \in 1..w + 1 : a[t] = c[t]  BY <2>1, <2>2, <2>4
  <2>6. a = c  BY <2>1, <2>3, <2>5, SameList
  <2> QED BY <2>6 DEF a, b, c
<1>8. Flat(g, n) = Append(Flat(f, n), part)
  <2>1. EndsLonger(f, g, n, part)  BY <1>1, <1>6, <1>7 DEF EndsLonger
  <2> HIDE DEF f, g
  <2> QED BY <2>1, FlatLonger
<1> QED BY <1>3, <1>8 DEF PartsOf

-----------------------------------------------------------------------------
(* The items of an answer, and what an event does to the parts of one.     *)

LEMMA BeginningItem ==
  ASSUME NEW known, NEW labelled, NEW i, NEW item \in Items, NEW w, Begins(known, item, w)
  PROVE  /\ ItemOK(known, item)
         /\ OnePart(known, labelled, i, item)
         /\ Words(item) = IF item.pieces = <<>> THEN <<>> ELSE <<w>>
         /\ item.pieces # <<>> => Subs(item) = 1
<1> USE DEF Begins, OnePart
<1>0. Streamed(item) = Words(item)  BY DEF Streamed
<1>1. CASE item.pieces = <<>>
  <2>1. Words(item) = <<>> /\ Subs(item) = 0 /\ \A s : WordsOf(item, s) = <<>>
    BY <1>1, NoPieces
  <2>2. Flat(Contents(item), Subs(item)) = <<>>  BY <2>1, FlatNone
  <2>3. item.kind # "message" /\ (item.kind # "function_call" => item.signed /\ item.done)
    BY <1>1
  <2>4. ItemOK(known, item)  BY <1>1, <2>1, <2>2, <2>3 DEF ItemOK
  <2>5. Width(known, labelled, i, item) = 1  BY <1>1, <2>3 DEF Width, IsOnePart
  <2>6. WordsOf(item, 1 - 1) = <<>>  BY <2>1
  <2> QED BY <1>0, <1>1, <2>1, <2>4, <2>5, <2>6 DEF PartAt, Keyed, Part
<1>2. CASE item.pieces # <<>>
  <2> DEFINE piece == [sub |-> 0, word |-> w]
  <2>1. item.pieces = <<piece>> /\ piece.sub = 0 /\ piece.word = w  BY <1>2
  <2> HIDE DEF piece
  <2>2. /\ \A s : WordsOf(item, s) = IF piece.sub = s THEN <<piece.word>> ELSE <<>>
        /\ Words(item) = <<piece.word>> /\ Subs(item) = piece.sub + 1
    BY <2>1, OnePiece
  <2>3. /\ WordsOf(item, 0) = <<w>> /\ Words(item) = <<w>> /\ Subs(item) = 1
        /\ \A s \in Nat : s >= 1 => WordsOf(item, s) = <<>>
    BY <2>1, <2>2
  <2>4. Flat(Contents(item), 1) = <<w>>
    <3> DEFINE f == Contents(item)
    <3>1. f[1] = <<w>>  BY <2>3 DEF Contents
    <3>2. Flat(f, 0) = <<>> /\ Append(<<>>, w) = <<w>>  BY FlatNone
    <3>3. 0 \in Nat /\ 1 = 0 + 1 /\ (\A k \in 1..0 : IsList(f[k]))  OBVIOUS
    <3> HIDE DEF f
    <3>4. Flat(f, 1) = Append(Flat(f, 0), w)
      <4>1. HasNewList(f, f, 0, 1, w)  BY <3>1, <3>3 DEF HasNewList
      <4> QED BY <4>1, FlatNewList
    <3>5. Flat(f, 1) = <<w>>  BY <3>2, <3>4
    <3> QED BY <3>5 DEF f
  <2>5. item.kind # "function_call" => item.done  OBVIOUS
  <2>6. ItemOK(known, item)  BY <1>2, <2>3, <2>4, <2>5 DEF ItemOK
  <2>7. Width(known, labelled, i, item) = 1  BY <2>3 DEF Width
  <2>8. WordsOf(item, 1 - 1) = <<w>>  BY <2>3
  <2> QED BY <1>0, <1>2, <2>3, <2>6, <2>7, <2>8 DEF PartAt, Keyed, Part
<1> QED BY <1>1, <1>2

LEMMA PartOfContent ==
  ASSUME NEW known, NEW labelled, NEW i, NEW item, NEW s, NEW word,
         ~IsOnePart(known, labelled, i, item.kind), item.kind # "function_call",
         WordsOf(item, s - 1) = <<word>>
  PROVE  PartAt(known, labelled, i, item, s) =
           Keyed(Part(PartKind(item.kind), <<word>>, 0), KeyAt(known, labelled, i, item.kind, s))
BY DEF PartAt, Keyed, Part

LEMMA GrowingItem ==
  ASSUME NEW known, NEW labelled, NEW i, NEW item, NEW piece, NEW grown,
         PieceAdded(known, item, piece, grown)
  PROVE  /\ ItemOK(known, grown) /\ grown.pieces # <<>> /\ Subs(grown) = piece.sub + 1
         /\ PartsGrow(known, labelled, i, item, piece, grown)
<1> SUFFICES
      ASSUME item \in Items, ItemOK(known, item), piece \in Piece, grown \in Items,
             grown.pieces = Append(item.pieces, piece), grown.kind = item.kind,
             grown.done = item.done, grown.signed = item.signed, ~(item.done /\ item.told), ~grown.told,
             item.kind # "function_call" => ~item.signed /\ piece.sub \in {Subs(item) - 1, Subs(item)}
      PROVE  /\ ItemOK(known, grown) /\ grown.pieces # <<>> /\ Subs(grown) = piece.sub + 1
             /\ PartsGrow(known, labelled, i, item, piece, grown)
  BY DEF PieceAdded
<1>1. /\ IsList(item.pieces) /\ Subs(item) \in Nat /\ piece.sub \in Nat
      /\ item.pieces # <<>> => Subs(item) > 0
  BY SubsOf DEF Piece
<1>2. /\ grown.pieces = Append(item.pieces, piece) /\ grown.kind = item.kind
      /\ grown.done = item.done /\ grown.signed = item.signed
  OBVIOUS
<1>3. /\ \A s : WordsOf(grown, s) = IF piece.sub = s THEN Append(WordsOf(item, s), piece.word)
                                    ELSE WordsOf(item, s)
      /\ Words(grown) = Append(Words(item), piece.word)
      /\ IsList(grown.pieces) /\ grown.pieces # <<>>
      /\ Subs(grown) = piece.sub + 1
  <2> DEFINE Shorter(a, b) == IsList(a.pieces) /\ b.pieces = Append(a.pieces, piece)
             After(a, b) ==
               /\ \A s : WordsOf(b, s) = IF piece.sub = s THEN Append(WordsOf(a, s), piece.word)
                                         ELSE WordsOf(a, s)
               /\ Words(b) = Append(Words(a), piece.word)
               /\ IsList(b.pieces) /\ b.pieces # <<>>
               /\ Subs(b) = piece.sub + 1
  <2>1. Shorter(item, grown)  BY <1>1, <1>2
  <2>2. \A a, b : Shorter(a, b) => After(a, b)  BY PieceMore, ZenonT(60)
  <2> HIDE DEF Shorter, After
  <2>3. After(item, grown)  BY <2>1, <2>2
  <2> QED BY <2>3 DEF After
<1>4. /\ \A s : IsList(WordsOf(item, s))
      /\ \A s : Append(WordsOf(item, s), piece.word) = WordsOf(item, s) \o <<piece.word>>
      /\ Append(Words(item), piece.word) = Words(item) \o <<piece.word>>
  <2>1. IsList(Words(item)) /\ \A s : IsList(WordsOf(item, s))
    BY <1>1, WordsAreList, AllWords
  <2> QED BY <2>1, AppendConcat
<1>5. ItemOK(known, grown)
  <2>1. CASE item.kind = "function_call"
    BY <1>2, <1>3, <2>1 DEF ItemOK
  <2>2. CASE item.kind # "function_call"
    <3>1. /\ item.done /\ (~item.done => known # "chat")
          /\ \A s \in Nat : s >= Subs(item) => WordsOf(item, s) = <<>>
          /\ Words(item) = Flat(Contents(item), Subs(item))
          /\ piece.sub \in {Subs(item) - 1, Subs(item)}
      BY <2>2 DEF ItemOK
    <3>2. \A s \in Nat : s >= Subs(grown) => WordsOf(grown, s) = <<>>
      <4> TAKE s \in Nat
      <4>1. s >= piece.sub + 1 => s # piece.sub /\ s >= Subs(item)  BY <1>1, <3>1
      <4> QED BY <1>3, <3>1, <4>1
    <3> DEFINE f == Contents(item)
               g == Contents(grown)
               n == Subs(item)
    <3>3. n \in Nat /\ \A s \in 1..n : f[s] = WordsOf(item, s - 1) /\ IsList(f[s])
      BY <1>1, <1>4 DEF Contents
    <3>4. \A s \in 1..piece.sub + 1 : g[s] = WordsOf(grown, s - 1)
      BY <1>3 DEF Contents
    <3> HIDE DEF f, g, n
    <3>5. Flat(g, piece.sub + 1) = Append(Flat(f, n), piece.word)
      <4>1. CASE piece.sub = n
        <5>1. \A s \in 1..n : g[s] = f[s]
          <6> TAKE s \in 1..n
          <6>1. s \in 1..piece.sub + 1 /\ s - 1 # piece.sub  BY <3>3, <4>1
          <6> QED BY <1>3, <3>3, <3>4, <6>1
        <5>2. g[n + 1] = <<piece.word>>
          <6>1. n + 1 \in 1..piece.sub + 1 /\ n + 1 - 1 = piece.sub  BY <3>3, <4>1
          <6>2. WordsOf(item, piece.sub) = <<>>  BY <1>1, <3>1, <4>1 DEF n
          <6>3. g[n + 1] = WordsOf(grown, piece.sub)
            <7> DEFINE m == n + 1
            <7>1. m \in 1..piece.sub + 1 /\ m - 1 = piece.sub  BY <3>3, <4>1, <6>1
            <7> HIDE DEF m
            <7>2. g[m] = WordsOf(grown, m - 1)  BY <3>4, <7>1
            <7> QED BY <7>1, <7>2 DEF m
          <6>4. WordsOf(grown, piece.sub) = Append(WordsOf(item, piece.sub), piece.word)
            BY <1>3
          <6>5. Append(<<>>, piece.word) = <<piece.word>>  OBVIOUS
          <6> QED BY <6>2, <6>3, <6>4, <6>5
        <5> DEFINE m == n + 1
        <5>3. m = n + 1 /\ m = piece.sub + 1 /\ g[m] = <<piece.word>> /\ \A s \in 1..n : IsList(f[s])
          BY <3>3, <4>1, <5>2
        <5> HIDE DEF m
        <5>4. Flat(g, m) = Append(Flat(f, n), piece.word)
          <6>1. HasNewList(f, g, n, m, piece.word)
            BY <3>3, <5>1, <5>3 DEF HasNewList
          <6> QED BY <6>1, FlatNewList
        <5> QED BY <5>3, <5>4
      <4>2. CASE piece.sub # n
        <5>1. piece.sub + 1 = n /\ n > 0  BY <1>1, <3>1, <3>3, <4>2 DEF n
        <5>2. \A s \in 1..n - 1 : g[s] = f[s]
          <6> TAKE s \in 1..n - 1
          <6>1. s \in 1..n /\ s - 1 # piece.sub  BY <3>3, <5>1
          <6> QED BY <1>3, <3>3, <3>4, <5>1, <6>1
        <5>3. g[n] = Append(f[n], piece.word)
          <6>1. n \in 1..n /\ n - 1 = piece.sub  BY <1>1, <3>3, <5>1
          <6> QED BY <1>3, <3>3, <3>4, <5>1, <6>1
        <5>4. Flat(g, n) = Append(Flat(f, n), piece.word)
          <6>1. \A s \in 1..n : IsList(f[s])  BY <3>3
          <6>2. n \in Nat /\ n > 0  BY <3>3, <5>1
          <6>3. EndsLonger(f, g, n, piece.word)
            BY <5>2, <5>3, <6>1, <6>2 DEF EndsLonger
          <6> QED BY <6>3, FlatLonger
        <5> QED BY <5>1, <5>4
      <4> QED BY <4>1, <4>2
    <3>6. Words(grown) = Flat(Contents(grown), Subs(grown))
      BY <1>3, <3>1, <3>5 DEF f, g, n
    <3> QED BY <1>2, <1>3, <2>2, <3>1, <3>2, <3>6 DEF ItemOK
  <2> QED BY <2>1, <2>2
<1>6. ASSUME IsOnePart(known, labelled, i, item.kind)
      PROVE  /\ Width(known, labelled, i, item) = 1 /\ Width(known, labelled, i, grown) = 1
             /\ PartAt(known, labelled, i, grown, 1) =
                  [PartAt(known, labelled, i, item, 1) EXCEPT !.words = @ \o <<piece.word>>]
  <2>1. Width(known, labelled, i, item) = 1 /\ Width(known, labelled, i, grown) = 1
    BY <1>2, <1>6 DEF Width
  <2>2. Streamed(grown) = Streamed(item) \o <<piece.word>>
    <3>1. Streamed(grown) = Words(grown) /\ Streamed(item) = Words(item)
      BY DEF Streamed
    <3> QED BY <1>3, <1>4, <3>1
  <2>3. PartAt(known, labelled, i, grown, 1) =
          [PartAt(known, labelled, i, item, 1) EXCEPT !.words = Streamed(grown)]
    BY <1>2, <1>6 DEF PartAt
  <2>4. PartAt(known, labelled, i, item, 1).words = Streamed(item)
    BY <1>6 DEF PartAt
  <2> QED BY <2>1, <2>2, <2>3, <2>4
<1>7. ASSUME ~IsOnePart(known, labelled, i, item.kind)
      PROVE  /\ Width(known, labelled, i, item) = Subs(item)
             /\ Width(known, labelled, i, grown) = piece.sub + 1
             /\ \A t \in 1..Subs(item) :
                  PartAt(known, labelled, i, grown, t) =
                    IF t = piece.sub + 1
                    THEN [PartAt(known, labelled, i, item, t) EXCEPT !.words = @ \o <<piece.word>>]
                    ELSE PartAt(known, labelled, i, item, t)
             /\ piece.sub = Subs(item) =>
                  PartAt(known, labelled, i, grown, piece.sub + 1) =
                    Keyed(Part(PartKind(item.kind), <<piece.word>>, 0),
                          KeyAt(known, labelled, i, item.kind, piece.sub + 1))
  <2>1. item.kind # "function_call" /\ ~item.signed  BY <1>7 DEF IsOnePart
  <2>2. /\ Width(known, labelled, i, item) = Subs(item)
        /\ Width(known, labelled, i, grown) = piece.sub + 1
    BY <1>2, <1>3, <1>7, <2>1 DEF Width
  <2>3. ASSUME NEW t \in 1..Subs(item)
        PROVE  PartAt(known, labelled, i, grown, t) =
                 IF t = piece.sub + 1
                 THEN [PartAt(known, labelled, i, item, t) EXCEPT !.words = @ \o <<piece.word>>]
                 ELSE PartAt(known, labelled, i, item, t)
    <3>1. t \in Nat /\ (t = piece.sub + 1 <=> piece.sub = t - 1)  BY <1>1
    <3>2. WordsOf(grown, t - 1) = IF t = piece.sub + 1 THEN WordsOf(item, t - 1) \o <<piece.word>>
                                  ELSE WordsOf(item, t - 1)
      BY <1>3, <1>4, <3>1
    <3> QED BY <1>2, <1>7, <3>2 DEF PartAt
  <2>4. ASSUME piece.sub = Subs(item)
        PROVE  PartAt(known, labelled, i, grown, piece.sub + 1) =
                 Keyed(Part(PartKind(item.kind), <<piece.word>>, 0),
                       KeyAt(known, labelled, i, item.kind, piece.sub + 1))
    <3>1. WordsOf(item, piece.sub) = <<>>  BY <1>1, <2>1, <2>4 DEF ItemOK
    <3> DEFINE t == piece.sub + 1
    <3>2. t - 1 = piece.sub  BY <1>1
    <3> HIDE DEF t
    <3>3. WordsOf(grown, piece.sub) = Append(<<>>, piece.word)  BY <1>3, <3>1
    <3>4. Append(<<>>, piece.word) = <<piece.word>>  OBVIOUS
    <3>5. /\ ~IsOnePart(known, labelled, i, grown.kind) /\ grown.kind # "function_call"
          /\ grown.kind = item.kind
      BY <1>2, <1>7, <2>1
    <3>6. WordsOf(grown, t - 1) = <<piece.word>>  BY <3>2, <3>3, <3>4
    <3>7. PartAt(known, labelled, i, grown, t) =
            Keyed(Part(PartKind(grown.kind), <<piece.word>>, 0),
                  KeyAt(known, labelled, i, grown.kind, t))
      BY <3>5, <3>6, PartOfContent
    <3> QED BY <3>5, <3>7 DEF t
  <2> QED BY <2>2, <2>3, <2>4
<1> QED BY <1>3, <1>5, <1>6, <1>7 DEF PartsGrow

LEMMA FinishedItem ==
  ASSUME NEW known, NEW labelled, NEW i, NEW item, NEW finished,
         CallFinished(known, item, finished)
  PROVE  ArgumentsAdded(known, labelled, i, item, finished)
<1> USE DEF CallFinished, ArgumentsAdded
<1>1. /\ ItemOK(known, finished)
      /\ IsOnePart(known, labelled, i, "function_call")
      /\ Width(known, labelled, i, item) = 1 /\ Width(known, labelled, i, finished) = 1
  BY DEF ItemOK, IsOnePart, Width
<1>2. IsList(Words(item)) /\ IsList(Words(finished))  BY SubsOf, AllWords
<1> DEFINE args == IF item.pieces # <<>> /\ ~item.told THEN <<>> ELSE Words(finished)
<1>0. Streamed(item) = Words(item) /\ (item.told => item.pieces # <<>>)
  BY DEF Streamed, ItemOK
<1>3. Streamed(finished) = Streamed(item) \o args
  <2>1. CASE item.pieces # <<>> /\ ~item.told
    <3>1. Words(finished) = Words(item) /\ args = <<>> /\ Streamed(finished) = Words(finished)
      BY <2>1 DEF Words, Streamed
    <3> QED BY <1>0, <1>2, <3>1, ConcatLists
  <2>2. CASE item.pieces = <<>>
    <3>1. Words(item) = <<>> /\ args = Words(finished) /\ Streamed(finished) = Words(finished)
      BY <1>0, <2>2, NoPieces DEF Streamed
    <3> QED BY <1>0, <1>2, <3>1, ConcatLists
  <2>3. CASE item.told
    <3>1. /\ Words(finished) = Words(item) /\ args = Words(finished)
          /\ Streamed(finished) = Words(finished) \o Words(finished)
      BY <1>0, <2>3 DEF Words, Streamed
    <3> QED BY <1>0, <3>1
  <2> QED BY <2>1, <2>2, <2>3
<1> HIDE DEF args
<1>4. /\ PartAt(known, labelled, i, finished, 1) =
           [PartAt(known, labelled, i, item, 1) EXCEPT !.words = Streamed(finished)]
      /\ PartAt(known, labelled, i, item, 1).words = Streamed(item)
  BY <1>1 DEF PartAt
<1>5. PartAt(known, labelled, i, finished, 1) =
        [PartAt(known, labelled, i, item, 1) EXCEPT !.words = @ \o args]
  BY <1>3, <1>4
<1> QED BY <1>1, <1>5 DEF args

LEMMA SignedItem ==
  ASSUME NEW known, NEW labelled, NEW i, NEW item, NEW signed, ItemSigned(known, item, signed)
  PROVE  PartsStay(known, labelled, i, item, signed)
<1> SUFFICES ASSUME item \in Items, ItemOK(known, item), item.kind = "reasoning", ~item.signed,
                    signed \in Items, signed.pieces = item.pieces, signed.kind = item.kind,
                    signed.done = item.done, signed.told = item.told
             PROVE  PartsStay(known, labelled, i, item, signed)
  BY DEF ItemSigned
<1> USE DEF PartsStay
<1>1. item.pieces # <<>> /\ Subs(item) > 0 /\ IsList(item.pieces)
  BY SubsOf DEF ItemOK
<1>2. /\ signed.pieces = item.pieces /\ signed.kind = item.kind /\ signed.done = item.done
      /\ ~IsOnePart(known, labelled, i, item.kind)
  BY DEF Items, IsOnePart
<1>3. /\ Subs(signed) = Subs(item) /\ Words(signed) = Words(item)
      /\ \A s : WordsOf(signed, s) = WordsOf(item, s)
  <2>1. Subs(signed) = Subs(item) /\ Words(signed) = Words(item)
    BY <1>2 DEF Subs, Words
  <2>2. ASSUME NEW s PROVE WordsOf(signed, s) = WordsOf(item, s)
    <3>1. /\ WordsOf(item, s) = FoldOf(Of(s), <<>>, item.pieces, Len(item.pieces))
          /\ WordsOf(signed, s) = FoldOf(Of(s), <<>>, signed.pieces, Len(signed.pieces))
      BY <1>1, <1>2, WordsAreFold
    <3> QED BY <1>2, <3>1
  <2> QED BY <2>1, <2>2
<1>4. Contents(signed) = Contents(item)  BY <1>3 DEF Contents
<1>5. ItemOK(known, signed)  BY <1>1, <1>2, <1>3, <1>4 DEF ItemOK
<1>6. Width(known, labelled, i, item) = Subs(item) /\ Width(known, labelled, i, signed) = Subs(item)
  BY <1>1, <1>2, <1>3 DEF Width
<1>7. ASSUME NEW s PROVE PartAt(known, labelled, i, signed, s) = PartAt(known, labelled, i, item, s)
  BY <1>2, <1>3 DEF PartAt
<1>8. PartAt(known, labelled, i, item, 1) =
        [PartAt(known, labelled, i, item, 1) EXCEPT !.words = @ \o <<>>]
  <2> DEFINE part == PartAt(known, labelled, i, item, 1)
  <2>1. part.words = WordsOf(item, 1 - 1)  BY <1>2 DEF PartAt
  <2>2. part.words \o <<>> = part.words
    <3>1. IsList(WordsOf(item, 1 - 1))  BY <1>1, WordsAreList
    <3> QED BY <2>1, <3>1, ConcatLists
  <2>3. part = [part EXCEPT !.words = part.words]  BY DEF PartAt
  <2> HIDE DEF part
  <2>4. part = [part EXCEPT !.words = part.words \o <<>>]  BY <2>2, <2>3
  <2> QED BY <2>4 DEF part
<1> QED BY <1>1, <1>5, <1>6, <1>7, <1>8

LEMMA ItemIsHandled ==
  ASSUME NEW known \in {"chat", "responses"}, NEW labelled \in BOOLEAN,
         NEW items, NEW item, NEW at, NEW part, NEW key,
         ItemIsPart(known, labelled, items, at, item, part, key),
         Distinct(known, labelled, Append(items, item))
  PROVE  /\ ~Holds(PartsOf(known, labelled, items), key)
         /\ HandleDelta(PartsOf(known, labelled, items), key, part).parts
              = PartsOf(known, labelled, Append(items, item))
         /\ HandleCallPart(PartsOf(known, labelled, items), key, part).parts
              = PartsOf(known, labelled, Append(items, item))
<1> SUFFICES
      ASSUME items \in Seq(Items), item \in Items,
             key = KeyAt(known, labelled, Len(items) + 1, item.kind, 1),
             Width(known, labelled, Len(items) + 1, item) = 1,
             PartAt(known, labelled, Len(items) + 1, item, 1) = Keyed(part, key)
      PROVE  /\ ~Holds(PartsOf(known, labelled, items), key)
             /\ HandleDelta(PartsOf(known, labelled, items), key, part).parts
                  = PartsOf(known, labelled, Append(items, item))
             /\ HandleCallPart(PartsOf(known, labelled, items), key, part).parts
                  = PartsOf(known, labelled, Append(items, item))
  BY DEF ItemIsPart
<1> DEFINE n == Len(items)
           more == Append(items, item)
           parts == PartsOf(known, labelled, items)
<1>1. /\ n \in Nat /\ DOMAIN items = 1..n /\ more \in Seq(Items) /\ DOMAIN more = 1..n + 1
      /\ more[n + 1] = item /\ \A i \in 1..n : more[i] = items[i]
      /\ IsList(parts)
  BY AppendProperties, LenProperties, AllLists
<1>2. ~Holds(parts, key)
  <2> DEFINE m == n + 1
  <2>1. m \in DOMAIN more /\ m \notin DOMAIN items /\ more[m] = item /\ 1 \in 1..Width(known, labelled, m, item)
    BY <1>1
  <2>2. \A i \in DOMAIN items :
          /\ i \in DOMAIN more /\ more[i].kind = items[i].kind
          /\ Width(known, labelled, i, items[i]) <= Width(known, labelled, i, more[i])
    <3> TAKE i \in DOMAIN items
    <3>1. i \in DOMAIN more /\ more[i] = items[i] /\ Width(known, labelled, i, items[i]) \in Nat
      BY <1>1, AllLists
    <3> QED BY <3>1
  <2>3. Distinct(known, labelled, more) /\ key = KeyAt(known, labelled, m, item.kind, 1)
    OBVIOUS
  <2> HIDE DEF m, more, n
  <2>4. ~Holds(PartsOf(known, labelled, items), KeyAt(known, labelled, m, more[m].kind, 1))
    BY <1>1, <2>1, <2>2, <2>3, NewKey
  <2> QED BY <2>1, <2>3, <2>4
<1>3. PartsOf(known, labelled, more) = Append(parts, Keyed(part, key))
  <2> DEFINE new == Keyed(part, key)
  <2>1. Width(known, labelled, n + 1, item) = 1 /\ PartAt(known, labelled, n + 1, item, 1) = new
    OBVIOUS
  <2> HIDE DEF new
  <2>2. PartsOf(known, labelled, Append(items, item)) = Append(PartsOf(known, labelled, items), new)
    BY <1>1, <2>1, PartOfNewItem
  <2> QED BY <2>2 DEF new
<1>4. HandleDelta(parts, key, part).parts = Append(parts, Keyed(part, key))
  BY <1>2 DEF HandleDelta
<1>5. HandleCallPart(parts, key, part).parts = Append(parts, Keyed(part, key))
  <2>1. Len(parts) \in Nat  BY <1>1, ListDomain
  <2> HIDE DEF parts
  <2> QED BY <1>2, <2>1 DEF HandleCallPart
<1> QED BY <1>2, <1>3, <1>4, <1>5

LEMMA ContentIsHandled ==
  ASSUME NEW known \in {"chat", "responses"}, NEW labelled \in BOOLEAN,
         NEW items, NEW more, NEW n, NEW item, NEW part, NEW key,
         ContentIsPart(known, labelled, items, more, n, item, part, key),
         Distinct(known, labelled, more)
  PROVE  /\ ~Holds(PartsOf(known, labelled, items), key)
         /\ HandleDelta(PartsOf(known, labelled, items), key, part).parts
              = PartsOf(known, labelled, more)
<1> DEFINE w == Width(known, labelled, n, item)
<1>0. LastIsWider(known, labelled, items, more, n, item, Keyed(part, key))
      /\ key = KeyAt(known, labelled, n, item.kind, w)
  BY DEF ContentIsPart
<1> DEFINE parts == PartsOf(known, labelled, items)
<1>1. /\ items \in Seq(Items) /\ more \in Seq(Items)
      /\ n \in 1..n /\ DOMAIN items = 1..n /\ DOMAIN more = 1..n
      /\ more[n] = item /\ item.kind = items[n].kind
      /\ \A k \in 1..n : k # n => more[k] = items[k]
      /\ w = Width(known, labelled, n, items[n]) + 1
  <2>1. /\ items \in Seq(Items) /\ more \in Seq(Items) /\ n = Len(items) /\ n = Len(more)
        /\ n \in Nat /\ n > 0
        /\ more[n] = item /\ item.kind = items[n].kind
        /\ \A k \in 1..n : k # n => more[k] = items[k]
        /\ w = Width(known, labelled, n, items[n]) + 1
    BY <1>0 DEF LastIsWider
  <2> HIDE DEF parts
  <2>2. DOMAIN items = 1..n /\ DOMAIN more = 1..n  BY <2>1, LenProperties
  <2> QED BY <2>1, <2>2
<1>2. \A i \in DOMAIN items : Width(known, labelled, i, items[i]) \in Nat
  BY <1>1, AllLists
<1>3. ~Holds(parts, key)
  <2>1. \A i \in DOMAIN items :
          /\ i \in DOMAIN more /\ more[i].kind = items[i].kind
          /\ Width(known, labelled, i, items[i]) <= Width(known, labelled, i, more[i])
    <3> TAKE i \in DOMAIN items
    <3>1. CASE i = n
      <4>1. more[i] = item /\ Width(known, labelled, n, items[n]) \in Nat
            /\ Width(known, labelled, n, item) = Width(known, labelled, n, items[n]) + 1
        BY <1>1, <1>2, <3>1
      <4> QED BY <1>1, <3>1, <4>1
    <3>2. CASE i # n
      <4>1. more[i] = items[i] /\ Width(known, labelled, i, items[i]) \in Nat
        BY <1>1, <1>2, <3>2
      <4> QED BY <1>1, <4>1
    <3> QED BY <3>1, <3>2
  <2>2. w \in 1..Width(known, labelled, n, item) /\ w > Width(known, labelled, n, items[n])
    BY <1>1, <1>2
  <2> HIDE DEF w
  <2>3. ~Holds(PartsOf(known, labelled, items), KeyAt(known, labelled, n, more[n].kind, w))
    BY <1>1, <2>1, <2>2, NewKey
  <2> QED BY <1>0, <1>1, <2>3
<1>4. PartsOf(known, labelled, more) = Append(parts, Keyed(part, key))
  BY <1>0, PartOfNewContent
<1>5. HandleDelta(parts, key, part).parts = Append(parts, Keyed(part, key))
  BY <1>3 DEF HandleDelta
<1> QED BY <1>3, <1>4, <1>5

-----------------------------------------------------------------------------
(* What an answer and the assembly of it have in common, step by step.     *)

LEMMA NothingSaid ==
  ASSUME NEW known, NEW labelled, known = "chat" => labelled
  PROVE  /\ SaidOK(known, labelled, <<>>, {})
         /\ Distinct(known, labelled, <<>>)
         /\ PartsOf(known, labelled, <<>>) = <<>>
<1>1. <<>> \in Seq(Items) /\ DOMAIN <<>> = {} /\ Len(<<>>) = 0  OBVIOUS
<1>2. SaidOK(known, labelled, <<>>, {}) /\ Distinct(known, labelled, <<>>)
  BY <1>1 DEF SaidOK, Distinct
<1> QED BY <1>1, <1>2, FlatNone DEF PartsOf

LEMMA SaidMore ==
  ASSUME NEW known, NEW labelled \in BOOLEAN, NEW items, NEW delivered,
         SaidOK(known, labelled, items, delivered),
         NEW item \in Items, ItemOK(known, item),
         known = "chat" /\ item.kind # "function_call" =>
           Subs(item) = 1 /\ \A i \in DOMAIN items : items[i].kind # item.kind,
         NEW now, delivered \subseteq now,
         now \subseteq delivered \cup {ItemId(labelled, Len(items) + 1)},
         ~item.done => (ItemId(labelled, Len(items) + 1) \in now <=> item.pieces # <<>> /\ ~item.told)
  PROVE  SaidOK(known, labelled, Append(items, item), now)
<1> DEFINE n == Len(items)
           m == n + 1
           more == Append(items, item)
<1>1. /\ items \in Seq(Items) /\ n \in Nat /\ DOMAIN items = 1..n
      /\ more \in Seq(Items) /\ DOMAIN more = 1..m /\ m \in 1..m /\ m \in Nat \ {0}
      /\ more[m] = item
      /\ \A i \in 1..m : i = m \/ (i \in 1..n /\ i # m /\ more[i] = items[i])
      /\ \A i \in 1..n : i \in 1..m /\ i # m /\ i \in Nat \ {0}
  <2>1. items \in Seq(Items)  BY DEF SaidOK
  <2>2. n \in Nat /\ DOMAIN items = 1..n  BY <2>1, LenProperties
  <2>3. more \in Seq(Items) /\ Len(more) = m /\ more[m] = item /\ \A i \in 1..n : more[i] = items[i]
    BY <2>1, AppendProperties
  <2>4. DOMAIN more = 1..m  BY <2>3, LenProperties
  <2> HIDE DEF n, more
  <2> QED BY <2>1, <2>2, <2>3, <2>4
<1>2. /\ ItemOK(known, item)
      /\ known = "chat" /\ item.kind # "function_call" =>
           Subs(item) = 1 /\ \A i \in DOMAIN items : items[i].kind # item.kind
      /\ now \subseteq delivered \cup {ItemId(labelled, m)}
      /\ ~item.done => (ItemId(labelled, m) \in now <=> item.pieces # <<>> /\ ~item.told)
  OBVIOUS
<1> HIDE DEF n, m, more
<1>3. \A i \in DOMAIN more : ItemOK(known, more[i])  BY <1>1, <1>2 DEF SaidOK
<1>4. known = "chat" =>
       /\ labelled
       /\ \A i, j \in DOMAIN more :
            more[i].kind = more[j].kind /\ more[i].kind # "function_call" => i = j
       /\ \A i \in DOMAIN more : more[i].kind # "function_call" => Subs(more[i]) = 1
  BY <1>1, <1>2 DEF SaidOK
<1>5. now \subseteq {ItemId(labelled, i) : i \in DOMAIN more}
  <2>1. delivered \subseteq {ItemId(labelled, i) : i \in DOMAIN items}
    BY DEF SaidOK
  <2> QED BY <1>1, <1>2, <2>1
<1>6. ASSUME NEW i \in DOMAIN more, ~more[i].done
      PROVE  ItemId(labelled, i) \in now <=> more[i].pieces # <<>> /\ ~more[i].told
  <2>1. CASE i = m
    BY <1>1, <1>2, <1>6, <2>1
  <2>2. CASE i # m
    <3>1. i \in 1..n /\ i \in DOMAIN items /\ more[i] = items[i]
      BY <1>1, <1>6, <2>2
    <3>2. ItemId(labelled, i) # ItemId(labelled, m)  BY <1>1, <2>2, <3>1, ItemIds
    <3>3. ItemId(labelled, i) \in delivered <=> items[i].pieces # <<>> /\ ~items[i].told
      BY <1>6, <3>1 DEF SaidOK
    <3> QED BY <1>2, <3>1, <3>2, <3>3
  <2> QED BY <2>1, <2>2
<1>7. SaidOK(known, labelled, more, now)  BY <1>1, <1>3, <1>4, <1>5, <1>6 DEF SaidOK
<1> QED BY <1>7 DEF more

LEMMA SaidOtherwise ==
  ASSUME NEW known, NEW labelled \in BOOLEAN, NEW items, NEW delivered,
         SaidOK(known, labelled, items, delivered),
         NEW i \in DOMAIN items, NEW item \in Items, ItemOK(known, item), item.kind = items[i].kind,
         known = "chat" /\ item.kind # "function_call" => Subs(item) = 1,
         NEW now, delivered \subseteq now, now \subseteq delivered \cup {ItemId(labelled, i)},
         ~item.done => (ItemId(labelled, i) \in now <=> item.pieces # <<>> /\ ~item.told)
  PROVE  SaidOK(known, labelled, Replaced(items, i, item), now)
<1> DEFINE n == Len(items)
           more == [items EXCEPT ![i] = item]
<1>1. /\ items \in Seq(Items) /\ n \in Nat /\ DOMAIN items = 1..n
      /\ more \in Seq(Items) /\ DOMAIN more = 1..n
      /\ more[i] = item /\ \A k \in 1..n : k # i => more[k] = items[k]
  <2>1. items \in Seq(Items)  BY DEF SaidOK
  <2>2. n \in Nat /\ DOMAIN items = 1..n  BY <2>1, LenProperties
  <2>3. more \in Seq(Items)  BY <2>1, <2>2, ExceptSeq
  <2> HIDE DEF n
  <2> QED BY <2>1, <2>2, <2>3
<1> HIDE DEF n, more
<1>2. \A k \in DOMAIN more : more[k].kind = items[k].kind  BY <1>1
<1>3. \A k \in DOMAIN more : ItemOK(known, more[k])  BY <1>1 DEF SaidOK
<1>4. known = "chat" =>
       /\ labelled
       /\ \A k, j \in DOMAIN more :
            more[k].kind = more[j].kind /\ more[k].kind # "function_call" => k = j
       /\ \A k \in DOMAIN more : more[k].kind # "function_call" => Subs(more[k]) = 1
  BY <1>1, <1>2 DEF SaidOK
<1>5. now \subseteq {ItemId(labelled, k) : k \in DOMAIN more}
  <2>1. delivered \subseteq {ItemId(labelled, k) : k \in DOMAIN items}
    BY DEF SaidOK
  <2> QED BY <1>1, <2>1
<1>6. ASSUME NEW k \in DOMAIN more, ~more[k].done
      PROVE  ItemId(labelled, k) \in now <=> more[k].pieces # <<>> /\ ~more[k].told
  <2>1. CASE k = i
    BY <1>1, <1>6, <2>1
  <2>2. CASE k # i
    <3>1. k \in DOMAIN items /\ more[k] = items[k] /\ i \in Nat \ {0} /\ k \in Nat \ {0}
      BY <1>1, <1>6, <2>2
    <3>2. ItemId(labelled, k) # ItemId(labelled, i)  BY <2>2, <3>1, ItemIds
    <3>3. ItemId(labelled, k) \in delivered <=> items[k].pieces # <<>> /\ ~items[k].told
      BY <1>6, <3>1 DEF SaidOK
    <3> QED BY <3>1, <3>2, <3>3
  <2> QED BY <2>1, <2>2
<1>7. SaidOK(known, labelled, more, now)  BY <1>1, <1>3, <1>4, <1>5, <1>6 DEF SaidOK
<1> QED BY <1>7 DEF more, Replaced

LEMMA ArgumentsDelivered ==
  ASSUME NEW labelled, NEW a, NEW e
  PROVE  /\ e.type = "arguments" =>
              ArgDeltaItemIds(labelled, a, e) = a.argDeltas \cup {ItemId(labelled, e.at)}
         /\ e.type # "arguments" => ArgDeltaItemIds(labelled, a, e) = a.argDeltas
<1>1. ASSUME e.type = "arguments"
      PROVE  ArgDeltaItemIds(labelled, a, e) = a.argDeltas \cup {ItemId(labelled, e.at)}
  <2>1. EventItemId(labelled, e) = ItemId(labelled, e.at)  BY <1>1 DEF EventItemId
  <2>2. {EventItemId(labelled, x) : x \in {y \in {e} : y.type = "arguments"}} = {EventItemId(labelled, e)}
    BY <1>1
  <2> QED BY <2>1, <2>2 DEF ArgDeltaItemIds
<1>2. ASSUME e.type # "arguments" PROVE ArgDeltaItemIds(labelled, a, e) = a.argDeltas
  BY <1>2 DEF ArgDeltaItemIds
<1> QED BY <1>1, <1>2

\* Words of an item go to the part that has the id of their content.
LEMMA WordsArrive ==
  ASSUME NEW known \in {"chat", "responses"}, NEW labelled \in BOOLEAN, NEW a,
         NEW kind \in Kinds, NEW e, e.type = PieceType(kind), e.at \in Nat \ {0}, e.sub \in Nat,
         NEW s, s = e.sub + 1,
         known = "chat" /\ kind = "message" => Untagged(a.parts, e.words)
  PROVE  Assemble(known, labelled, a, e) =
           HandleDelta(a.parts, KeyAt(known, labelled, e.at, kind, s),
                       Part(PartKind(kind), e.words, IF kind = "function_call" THEN e.at ELSE 0))
<1> DEFINE i == e.at
           words == e.words
<1>1. /\ s = 1 <=> e.sub = 0
      /\ s - 1 = e.sub
  OBVIOUS
<1>2. CASE known = "chat"
  <2>1. Assemble(known, labelled, a, e) = ProcessChunk(a, e)  BY <1>2 DEF Assemble
  <2>2. KeyAt(known, labelled, i, kind, s) = ChatKey(i, kind)  BY <1>2 DEF KeyAt
  <2>3. CASE kind = "reasoning"
    BY <1>1, <2>1, <2>2, <2>3 DEF ProcessChunk, PieceType, PartKind, ChatKey
  <2>4. CASE kind = "message"
    <3>1. ProcessChunk(a, e) = HandleTaggedText(a.parts, <<"content">>, words)
      BY <2>4 DEF ProcessChunk, PieceType
    <3>2. Untagged(a.parts, words)  BY <1>2, <2>4
    <3> DEFINE parts == a.parts
    <3> HIDE DEF parts, words
    <3>3. HandleTaggedText(parts, <<"content">>, words)
            = HandleDelta(parts, <<"content">>, Part("text", words, 0))
      BY <3>2 DEF Untagged, HandleTaggedText, parts
    <3> QED BY <2>1, <2>2, <2>4, <3>1, <3>3 DEF PartKind, ChatKey, parts, words
  <2>5. CASE kind = "function_call"
    BY <1>1, <2>1, <2>2, <2>5 DEF ProcessChunk, PieceType, PartKind, ChatKey
  <2> QED BY <2>3, <2>4, <2>5 DEF Kinds
<1>3. CASE known = "responses"
  <2>1. Assemble(known, labelled, a, e) = ProcessResponseEvent(labelled, a, e)
    BY <1>3 DEF Assemble
  <2>2. CASE kind = "reasoning"
    <3>1. Assemble(known, labelled, a, e)
            = HandleDelta(a.parts, ReasoningVendorId(labelled, e), Part("thinking", words, 0))
      BY <1>1, <2>1, <2>2 DEF ProcessResponseEvent, HandleReasoning, PieceType
    <3>2. EventItemId(labelled, e) = ItemId(labelled, i)
      BY <1>1, <2>2 DEF EventItemId, PieceType
    <3>3. ReasoningVendorId(labelled, e) = KeyAt(known, labelled, i, kind, s)
      BY <1>1, <1>3, <2>2, <3>2 DEF ReasoningVendorId, KeyAt, IsOnePart
    <3> QED BY <2>2, <3>1, <3>3 DEF PartKind
  <2>3. CASE kind = "message"
    <3>1. Assemble(known, labelled, a, e)
            = HandleDelta(a.parts, EventItemId(labelled, e), Part("text", words, 0))
      BY <1>1, <2>1, <2>3 DEF ProcessResponseEvent, HandleOutputText, PieceType
    <3>2. EventItemId(labelled, e) = KeyAt(known, labelled, i, kind, s)
      BY <1>1, <1>3, <2>3 DEF EventItemId, KeyAt, IsOnePart, PieceType
    <3> QED BY <2>3, <3>1, <3>2 DEF PartKind
  <2>4. CASE kind = "function_call"
    <3>1. Assemble(known, labelled, a, e)
            = HandleDelta(a.parts, EventItemId(labelled, e), Part("call", words, i))
      BY <1>1, <2>1, <2>4 DEF ProcessResponseEvent, HandleArguments, PieceType
    <3>2. EventItemId(labelled, e) = KeyAt(known, labelled, i, kind, s)
      BY <1>1, <1>3, <2>4 DEF EventItemId, KeyAt, IsOnePart, PieceType
    <3> QED BY <2>4, <3>1, <3>2 DEF PartKind
  <2> QED BY <2>2, <2>3, <2>4 DEF Kinds
<1> QED BY <1>2, <1>3

-----------------------------------------------------------------------------
(* What the agent is told of an event.                                     *)

LEMMA DeltaTells ==
  ASSUME NEW parts, NEW key, NEW part, PartFits(part),
         \/ ~Holds(parts, key) \/ part.kind = "call" \/ part.words = <<>>
         \/ Slot(parts, key) = Len(parts)
  PROVE  Tells(parts, HandleDelta(parts, key, part))
<1> DEFINE update == HandleDelta(parts, key, part)
           i == Slot(parts, key)
<1>1. CASE ~Holds(parts, key)
  <2>1. TellsOfNew(parts, update, key, part)  BY <1>1 DEF TellsOfNew, HandleDelta
  <2> HIDE DEF update
  <2> QED BY <2>1, Zenon DEF Tells, update
<1>2. CASE Holds(parts, key)
  <2>1. i \in DOMAIN parts  BY <1>2, Zenon DEF Holds, Slot
  <2>2. /\ update.parts = Longer(parts, i, part.words)
        /\ update.out = <<Extended(i, part.kind, part.words)>>
        /\ update.ok => parts[i].kind = part.kind
    BY <1>2 DEF HandleDelta, Longer
  <2> HIDE DEF update
  <2>3. TellsOfMore(parts, update, i, part)  BY <1>2, <2>1, <2>2 DEF TellsOfMore
  <2> QED BY <2>3, Zenon DEF Tells, update
<1> QED BY <1>1, <1>2

LEMMA CallPartTells ==
  ASSUME NEW parts, IsList(parts), NEW key, NEW part, PartFits(part), ~Holds(parts, key)
  PROVE  Tells(parts, HandleCallPart(parts, key, part))
<1> DEFINE update == HandleCallPart(parts, key, part)
<1>1. Len(parts) \in Nat  BY ListDomain
<1>2. TellsOfNew(parts, update, key, part)  BY <1>1 DEF TellsOfNew, HandleCallPart
<1> HIDE DEF update
<1> QED BY <1>2, Zenon DEF Tells, update

\* One word, and none, are spelled.
LEMMA WordFits ==
  ASSUME NEW word, word \in Nat \ {0}, NEW kind, NEW call, kind = "call" => call # 0
  PROVE  PartFits(Part(kind, <<word>>, call)) /\ PartFits(Part(kind, <<>>, call))
<1>1. IsList(<<word>>) /\ Len(<<word>>) = 1 /\ <<word>>[1] = word
  BY EmptyList, AppendConcat
<1>2. word # Break  BY AgentStreamAssumption
<1>3. Spelled(<<word>>)  BY <1>1, <1>2 DEF Spelled
<1>4. Spelled(<<>>)  BY EmptyList DEF Spelled
<1> QED BY <1>1, <1>3, <1>4, EmptyList DEF PartFits, Part

\* The last part of the last item is found last.
LEMMA LastIsFound ==
  ASSUME NEW known \in {"chat", "responses"}, NEW labelled \in BOOLEAN, NEW items \in Seq(Items),
         Distinct(known, labelled, items), NEW n, n = Len(items), n > 0,
         NEW w, w = Width(known, labelled, n, items[n]), w > 0
  PROVE  LET parts == PartsOf(known, labelled, items) IN
         Slot(parts, KeyAt(known, labelled, n, items[n].kind, w)) = Len(parts)
<1> DEFINE f == AllParts(known, labelled, items)
           key == KeyAt(known, labelled, n, items[n].kind, w)
<1>1. /\ n \in Nat /\ n \in 1..n /\ DOMAIN items = 1..n /\ w \in Nat
      /\ \A i \in 1..n : IsList(f[i])
      /\ Len(f[n]) = w
      /\ n \in Nat \ {0} /\ n - 1 \in 0..n
  BY AllLists
<1>2. Slot(PartsOf(known, labelled, items), key) = Place(f, n, w)
  <2>1. n \in DOMAIN items /\ w \in 1..Width(known, labelled, n, items[n])  BY <1>1
  <2> QED BY <2>1, PartFound
<1> HIDE DEF f, key
<1>3. Flat(f, n) = Flat(f, n - 1) \o f[n]  BY <1>1, FlatNext
<1>4. IsList(Flat(f, n - 1)) /\ IsList(f[n])  BY <1>1, FlatList
<1>5. Len(Flat(f, n - 1) \o f[n]) = Len(Flat(f, n - 1)) + w
  <2> DEFINE before == Flat(f, n - 1)
             last == f[n]
  <2>1. IsList(before) /\ IsList(last) /\ Len(last) = w  BY <1>1, <1>4
  <2> HIDE DEF before, last
  <2>2. Len(before \o last) = Len(before) + Len(last)  BY <2>1, ConcatList
  <2>3. Len(before \o last) = Len(before) + w  BY <2>1, <2>2
  <2> QED BY <2>3 DEF before, last
<1> QED BY <1>2, <1>3, <1>5 DEF Place, PartsOf, f, key

-----------------------------------------------------------------------------
(* Text of Chat Completions with thinking tags.                            *)

LEMMA DeltaKeeps ==
  ASSUME NEW parts, Tracked(parts), NEW key, NEW part, PartFits(part),
         OnlyLast(parts, key) \/ part.kind = "call",
         NEW update, update = HandleDelta(parts, key, part)
  PROVE  /\ Tells(parts, update) /\ Tracked(update.parts)
         /\ OnlyLast(parts, key) => OnlyLast(update.parts, key)
         /\ \A k : k # key /\ ~Holds(parts, k) => ~Holds(update.parts, k)
<1> DEFINE n == Len(parts)
           i == Slot(parts, key)
           new == update.parts
<1>1. IsList(parts) /\ n \in Nat /\ DOMAIN parts = 1..n /\ \A j \in 1..n : "key" \in DOMAIN parts[j]
  BY ListDomain DEF Tracked
<1>2. Holds(parts, key) => i \in 1..n /\ (OnlyLast(parts, key) => i = n)
  <2>1. Holds(parts, key) => i \in DOMAIN parts /\ parts[i].key = key
    BY Zenon DEF Holds, Slot
  <2> HIDE DEF i, n
  <2> QED BY <1>1, <2>1 DEF OnlyLast, n
<1>3. Tells(parts, update)
  <2>1. \/ ~Holds(parts, key) \/ part.kind = "call" \/ part.words = <<>>
        \/ Slot(parts, key) = Len(parts)
    BY <1>2
  <2> QED BY <2>1, DeltaTells
<1> HIDE DEF i, n
<1>4. CASE ~Holds(parts, key)
  <2> DEFINE last == Keyed(part, key)
  <2>1. new = Append(parts, last)  BY <1>4 DEF HandleDelta
  <2>2. last.key = key /\ "key" \in DOMAIN last  BY DEF Keyed
  <2> HIDE DEF last, new
  <2>3. /\ IsList(new) /\ Len(new) = n + 1 /\ new[n + 1] = last
        /\ \A j \in 1..n : new[j] = parts[j]
    BY <1>1, <2>1, AppendList DEF n
  <2>4. DOMAIN new = 1..n + 1 /\ \A j \in 1..n + 1 : j \in 1..n \/ j = n + 1
    BY <1>1, <2>3, ListDomain
  <2>5. Tracked(new)  BY <1>1, <2>2, <2>3, <2>4 DEF Tracked
  <2>6. \A j \in 1..n : parts[j].key # key  BY <1>1, <1>4 DEF Holds
  <2>7. OnlyLast(new, key)  BY <2>3, <2>4, <2>6 DEF OnlyLast
  <2>8. \A k : k # key /\ ~Holds(parts, k) => ~Holds(new, k)
    BY <1>1, <2>2, <2>3, <2>4 DEF Holds
  <2> QED BY <1>3, <2>5, <2>7, <2>8 DEF new
<1>5. CASE Holds(parts, key)
  <2> DEFINE longer == [parts[i] EXCEPT !.words = @ \o part.words]
  <2>1. new = Replaced(parts, i, longer)  BY <1>5 DEF HandleDelta, Replaced, i
  <2>2. longer.key = parts[i].key /\ "key" \in DOMAIN longer  BY <1>1, <1>2, <1>5
  <2> HIDE DEF longer, new
  <2>3. /\ IsList(new) /\ Len(new) = n
        /\ \A j \in 1..n : new[j] = IF j = i THEN longer ELSE parts[j]
    BY <1>1, <1>2, <1>5, <2>1, ExceptAt DEF n
  <2>4. DOMAIN new = 1..n /\ \A j \in 1..n : new[j].key = parts[j].key /\ "key" \in DOMAIN new[j]
    BY <1>1, <2>2, <2>3, ListDomain
  <2>5. Tracked(new)  BY <2>3, <2>4 DEF Tracked
  <2>6. OnlyLast(parts, key) => OnlyLast(new, key)
    BY <1>1, <2>3, <2>4 DEF OnlyLast, n
  <2>7. \A k : ~Holds(parts, k) => ~Holds(new, k)  BY <1>1, <2>4 DEF Holds
  <2> QED BY <1>3, <2>5, <2>6, <2>7 DEF new
<1> QED BY <1>4, <1>5

LEMMA UntrackedKeeps ==
  ASSUME NEW parts, Tracked(parts), NEW key, Len(key) = 1, NEW new, new = Untracked(parts, key)
  PROVE  /\ Tracked(new) /\ ~Holds(new, key)
         /\ \A k : Len(k) = 1 /\ ~Holds(parts, k) => ~Holds(new, k)
<1> DEFINE n == Len(parts)
<1>1. IsList(parts) /\ n \in Nat /\ DOMAIN parts = 1..n /\ \A j \in 1..n : "key" \in DOMAIN parts[j]
  BY ListDomain DEF Tracked
<1>2. \A j \in 1..n : [parts[j] EXCEPT !.key = <<"past", j>>].key = <<"past", j>>
                      /\ "key" \in DOMAIN [parts[j] EXCEPT !.key = <<"past", j>>]
  BY <1>1
<1>3. IsList(new) /\ DOMAIN new = 1..n  BY <1>1, UntrackedList DEF Untracked
<1>4. \A j \in 1..n : /\ new[j].key = IF parts[j].key = key THEN <<"past", j>> ELSE parts[j].key
                      /\ "key" \in DOMAIN new[j]
  BY <1>1, <1>2 DEF Untracked
<1>5. \A j : Len(<<"past", j>>) = 2  OBVIOUS
<1> HIDE DEF n
<1>6. ASSUME NEW k, Len(k) = 1, k = key \/ ~Holds(parts, k), Holds(new, k) PROVE FALSE
  <2>1. PICK j \in 1..n : new[j].key = k  BY <1>3, <1>6 DEF Holds
  <2>2. k # <<"past", j>>  BY <1>5, <1>6
  <2> QED BY <1>1, <1>4, <1>6, <2>1, <2>2 DEF Holds
<1> QED BY <1>3, <1>4, <1>6 DEF Tracked

LEMMA TaggedKeeps ==
  ASSUME NEW parts, Tracked(parts), NEW key, Len(key) = 1, OnlyLast(parts, key),
         NEW word \in Nat \ {0}
  PROVE  KeepsOrder(parts, key, HandleTaggedText(parts, key, << word >>))
<1> DEFINE past == Untracked(parts, key)
           dropped == [parts |-> past, ok |-> TRUE, out |-> <<>>]
           more(before, part) == HandleDelta(before, key, part)
<1>1. /\ Tracked(past) /\ ~Holds(past, key)
      /\ \A k : Len(k) = 1 /\ ~Holds(parts, k) => ~Holds(past, k)
  BY UntrackedKeeps
<1>2. OnlyLast(past, key)  BY <1>1 DEF Holds, OnlyLast
<1>3. KeepsOrder(parts, key, dropped)
  <2>1. dropped.parts = past /\ dropped.out = <<>>  OBVIOUS
  <2>2. Tells(past, dropped)
    <3> HIDE DEF past, dropped
    <3> QED BY <2>1 DEF Tells
  <2>3. TellsOn(parts, dropped)  BY <2>2, Zenon DEF TellsOn, past
  <2> HIDE DEF past, dropped
  <2> QED BY <1>1, <1>2, <2>1, <2>3 DEF KeepsOrder
<1>4. ASSUME NEW part, PartFits(part) PROVE KeepsOrder(parts, key, more(parts, part))
  <2> DEFINE update == more(parts, part)
  <2>1. update = HandleDelta(parts, key, part)  OBVIOUS
  <2> HIDE DEF update
  <2>2. /\ Tells(parts, update) /\ Tracked(update.parts)
        /\ OnlyLast(parts, key) => OnlyLast(update.parts, key)
        /\ \A k : k # key /\ ~Holds(parts, k) => ~Holds(update.parts, k)
    BY <1>4, <2>1, DeltaKeeps
  <2>3. TellsOn(parts, update)  BY <2>2 DEF TellsOn
  <2>4. KeepsOrder(parts, key, update)  BY <2>2, <2>3 DEF KeepsOrder
  <2> QED BY <2>4 DEF update
<1>5. ASSUME NEW part, PartFits(part) PROVE KeepsOrder(parts, key, more(past, part))
  <2> DEFINE update == more(past, part)
  <2>1. update = HandleDelta(past, key, part)  OBVIOUS
  <2>5. Tells(past, update) => TellsOn(parts, update)  BY Zenon DEF TellsOn
  <2> HIDE DEF update, past
  <2>2. /\ Tells(past, update) /\ Tracked(update.parts)
        /\ OnlyLast(past, key) => OnlyLast(update.parts, key)
        /\ \A k : k # key /\ ~Holds(past, k) => ~Holds(update.parts, k)
    BY <1>1, <1>2, <1>5, <2>1, DeltaKeeps
  <2>4. KeepsOrder(parts, key, update)  BY <1>1, <1>2, <2>2, <2>5 DEF KeepsOrder
  <2> QED BY <2>4 DEF update
<1>6. \A kind \in {"text", "thinking"} :
        PartFits(Part(kind, <<word>>, 0)) /\ PartFits(Part(kind, <<>>, 0))
  BY WordFits
<1> HIDE DEF more, past, dropped
<1>7. /\ KeepsOrder(parts, key, more(parts, Part("thinking", <<word>>, 0)))
      /\ KeepsOrder(parts, key, more(parts, Part("text", <<word>>, 0)))
      /\ KeepsOrder(parts, key, more(past, Part("thinking", <<>>, 0)))
  BY <1>4, <1>5, <1>6
<1> QED BY <1>3, <1>7 DEF HandleTaggedText, dropped, past, more

\* What a chunk with a word of one kind does, if that is the kind that is spoken last.
LEMMA ChunkKeeps ==
  ASSUME NEW a, Tracked(a.parts), NEW kind \in Kinds, NEW word \in Nat \ {0}, NEW labelled,
         NEW e, e.type = PieceType(kind), e.words = << word >>, e.at \in Nat \ {0},
         NEW key, key = ChatKey(e.at, kind), kind # "function_call" => OnlyLast(a.parts, key)
  PROVE  KeepsOrder(a.parts, key, Assemble("chat", labelled, a, e))
<1>1. Assemble("chat", labelled, a, e) = ProcessChunk(a, e)  BY DEF Assemble
<1>2. CASE kind = "message"
  <2>1. ProcessChunk(a, e) = HandleTaggedText(a.parts, key, <<word>>)
    BY <1>2 DEF ProcessChunk, PieceType, ChatKey
  <2>2. Len(key) = 1  BY <1>2 DEF ChatKey
  <2> QED BY <1>1, <1>2, <2>1, <2>2, TaggedKeeps
<1>3. CASE kind # "message"
  <2> DEFINE part == Part(PartKind(kind), <<word>>, IF kind = "function_call" THEN e.at ELSE 0)
             update == HandleDelta(a.parts, key, part)
  <2>1. ProcessChunk(a, e) = update
    BY <1>3 DEF ProcessChunk, PieceType, PartKind, ChatKey, Kinds
  <2>2. PartFits(part) /\ (kind = "function_call" => part.kind = "call")
    BY WordFits DEF PartKind, Kinds, Part
  <2> HIDE DEF part
  <2>3. update = HandleDelta(a.parts, key, part)  OBVIOUS
  <2> HIDE DEF update
  <2>4. /\ Tells(a.parts, update) /\ Tracked(update.parts)
        /\ OnlyLast(a.parts, key) => OnlyLast(update.parts, key)
        /\ \A k : k # key /\ ~Holds(a.parts, k) => ~Holds(update.parts, k)
    BY <2>2, <2>3, DeltaKeeps
  <2>5. KeepsOrder(a.parts, key, update)  BY <2>4 DEF KeepsOrder, TellsOn
  <2> QED BY <1>1, <2>1, <2>5
<1> QED BY <1>2, <1>3

LEMMA ChunkOrder ==
  ASSUME NEW items, NEW a, ChatOrder(items, a.parts), NEW kind \in Kinds, NEW word \in Nat \ {0},
         NEW labelled, NEW e, e.type = PieceType(kind), e.words = << word >>, e.at \in Nat \ {0},
         NEW more, SpokenNow(items, kind, more),
         NEW update, update = Assemble("chat", labelled, a, e)
  PROVE  ChatOrder(more, update.parts) /\ TellsOn(a.parts, update)
<1> DEFINE key == ChatKey(e.at, kind)
<1>1. kind # "function_call" => kind \in {"reasoning", "message"} /\ key = ChatKey(0, kind)
  BY DEF Kinds, ChatKey
<1>2. kind # "function_call" => OnlyLast(a.parts, key)
  <2>1. ASSUME kind # "function_call", ~HasKind(items, kind) PROVE OnlyLast(a.parts, key)
    <3>1. ~Holds(a.parts, key)  BY <1>1, <2>1 DEF ChatOrder
    <3> QED BY <3>1 DEF Holds, OnlyLast
  <2>2. ASSUME kind # "function_call", items # <<>> /\ Last(items).kind = kind PROVE OnlyLast(a.parts, key)
    BY <1>1, <2>2 DEF ChatOrder
  <2> QED BY <2>1, <2>2 DEF SpokenNow
<1> HIDE DEF key
<1>3. KeepsOrder(a.parts, key, update)
  <2>1. Tracked(a.parts) /\ key = ChatKey(e.at, kind)  BY DEF ChatOrder, key
  <2> QED BY <1>2, <2>1, ChunkKeeps
<1>4. ASSUME NEW other \in {"reasoning", "message"}, ~HasKind(more, other)
      PROVE  ~Holds(update.parts, ChatKey(0, other))
  <2>1. other # kind /\ ~HasKind(items, other)  BY <1>4 DEF SpokenNow
  <2>2. ~Holds(a.parts, ChatKey(0, other))  BY <2>1 DEF ChatOrder
  <2>3. Len(ChatKey(0, other)) = 1  BY DEF ChatKey
  <2>4. ChatKey(0, other) # key  BY <2>1 DEF ChatKey, key, Kinds
  <2> QED BY <1>3, <2>2, <2>3, <2>4 DEF KeepsOrder
<1>5. ASSUME NEW other \in {"reasoning", "message"}, Last(more).kind = other
      PROVE  OnlyLast(update.parts, ChatKey(0, other))
  <2>1. other = kind /\ kind # "function_call"  BY <1>5 DEF SpokenNow
  <2> QED BY <1>1, <1>2, <1>3, <2>1 DEF KeepsOrder
<1> QED BY <1>3, <1>4, <1>5 DEF KeepsOrder, ChatOrder

LEMMA ChatItemDelivered ==
  ASSUME NEW labelled, NEW items \in Seq(Items), NEW a, NEW kind \in Kinds,
         kind # "function_call" => ~HasKind(items, kind),
         NEW word \in Nat \ {0}, NEW item, item.kind = kind,
         NEW n, n = Len(items) + 1, NEW e, e = Event(PieceType(kind), n, 0, << word >>)
  PROVE  ChatDelivered(labelled, items, a, e, Append(items, item))
<1> DEFINE m == Len(items)
           more == Append(items, item)
<1>1. /\ m \in Nat /\ DOMAIN items = 1..m /\ n = m + 1 /\ Len(more) = n /\ DOMAIN more = 1..n
      /\ more[n] = item /\ n \in 1..n /\ n \in Nat \ {0}
      /\ \A i \in 1..m : i \in 1..n /\ more[i] = items[i]
  <2>1. m \in Nat /\ DOMAIN items = 1..m /\ IsList(items)
    BY LenProperties, Zenon DEF IsList
  <2>2. /\ IsList(more) /\ Len(more) = n /\ more[n] = item
        /\ \A i \in 1..m : more[i] = items[i]
    BY <2>1, AppendList
  <2>3. DOMAIN more = 1..Len(more)  BY <2>2, ListDomain
  <2> HIDE DEF more, m
  <2> QED BY <2>1, <2>2, <2>3 DEF m
<1>2. e.type = PieceType(kind) /\ e.words = <<word>> /\ e.at \in Nat \ {0}
  BY <1>1 DEF Event
<1> HIDE DEF more, m
<1>3. IsTagged(items) => IsTagged(more)  BY <1>1 DEF IsTagged
<1>4. SpokenNow(items, kind, more)
  <2>1. Last(more) = item  BY <1>1 DEF Last
  <2>2. HasKind(more, kind) /\ \A k : HasKind(items, k) => HasKind(more, k)
    BY <1>1 DEF HasKind
  <2> QED BY <2>1, <2>2 DEF SpokenNow
<1>5. ASSUME ChatOrder(items, a.parts)
      PROVE  /\ ChatOrder(more, Assemble("chat", labelled, a, e).parts)
             /\ TellsOn(a.parts, Assemble("chat", labelled, a, e))
  BY <1>2, <1>4, <1>5, ChunkOrder
<1> QED BY <1>3, <1>5 DEF ChatDelivered, more

LEMMA ChatPieceDelivered ==
  ASSUME NEW labelled, NEW items \in Seq(Items), NEW a, NEW i \in DOMAIN items, i = Len(items),
         NEW kind \in Kinds, kind = items[i].kind, NEW piece, piece.word \in Nat \ {0},
         NEW grown, grown.kind = kind, grown.pieces = Append(items[i].pieces, piece),
         NEW e, e = Event(PieceType(kind), i, piece.sub, << piece.word >>),
         NEW more, more = Replaced(items, i, grown)
  PROVE  ChatDelivered(labelled, items, a, e, more)
<1>1. /\ i \in Nat \ {0} /\ DOMAIN items = 1..i /\ items[i].pieces \in Seq(Piece)
      /\ IsList(items) /\ items # <<>>
  <2>1. DOMAIN items = 1..i /\ i \in 1..i /\ i \in Nat /\ IsList(items)
    BY LenProperties, Zenon DEF IsList
  <2>2. items[i] \in Items  BY <2>1, ElementOfSeq
  <2> QED BY <2>1, <2>2 DEF Items
<1>2. /\ IsList(more) /\ Len(more) = i /\ DOMAIN more = 1..i /\ i \in 1..i
      /\ more[i] = grown /\ \A j \in 1..i : j # i => more[j] = items[j]
  <2>1. IsList(more) /\ Len(more) = Len(items) /\ \A j \in 1..Len(items) : more[j] = IF j = i THEN grown ELSE items[j]
    BY <1>1, ExceptAt
  <2> QED BY <1>1, <2>1, ListDomain
<1>3. /\ \A k \in DOMAIN items[i].pieces :
           k \in DOMAIN grown.pieces /\ grown.pieces[k] = items[i].pieces[k]
  <2> DEFINE old == items[i].pieces
             new == grown.pieces
  <2>1. IsList(old) /\ new = Append(old, piece)  BY <1>1, Zenon DEF IsList
  <2> HIDE DEF old, new
  <2>2. /\ DOMAIN old = 1..Len(old) /\ DOMAIN new = 1..Len(old) + 1 /\ Len(old) \in Nat
        /\ \A k \in 1..Len(old) : new[k] = old[k]
    BY <2>1, AppendList, ListDomain
  <2>3. \A k \in DOMAIN old : k \in DOMAIN new /\ new[k] = old[k]  BY <2>2
  <2> QED BY <2>3 DEF old, new
<1>4. e.type = PieceType(kind) /\ e.words = <<piece.word>> /\ e.at \in Nat \ {0}
  BY <1>1 DEF Event
<1>5. \A j \in 1..i : more[j].kind = items[j].kind  BY <1>2
<1>6. IsTagged(items) => IsTagged(more)
  <2> SUFFICES ASSUME IsTagged(items) PROVE IsTagged(more)
    OBVIOUS
  <2>1. PICK j \in 1..i : items[j].kind = "message"
                          /\ \E k \in DOMAIN items[j].pieces : items[j].pieces[k].word \in Tags
    BY <1>1 DEF IsTagged
  <2>2. PICK k \in DOMAIN items[j].pieces : items[j].pieces[k].word \in Tags
    BY <2>1
  <2>3. k \in DOMAIN more[j].pieces /\ more[j].pieces[k] = items[j].pieces[k]
    BY <1>2, <1>3, <2>2
  <2> QED BY <1>2, <1>5, <2>1, <2>2, <2>3 DEF IsTagged
<1>7. SpokenNow(items, kind, more)
  <2>1. Last(more) = grown /\ Last(items).kind = kind  BY <1>2 DEF Last
  <2>2. HasKind(more, kind) /\ \A k : HasKind(items, k) => HasKind(more, k)
    BY <1>1, <1>2, <1>5 DEF HasKind
  <2> QED BY <1>1, <2>1, <2>2 DEF SpokenNow
<1> DEFINE word == piece.word
<1>8. word \in Nat \ {0} /\ e.words = <<word>>  BY <1>4
<1> HIDE DEF word
<1>9. ASSUME ChatOrder(items, a.parts)
      PROVE  /\ ChatOrder(more, Assemble("chat", labelled, a, e).parts)
             /\ TellsOn(a.parts, Assemble("chat", labelled, a, e))
  BY <1>4, <1>7, <1>8, <1>9, ChunkOrder
<1> QED BY <1>6, <1>9 DEF ChatDelivered

LEMMA ChatRefusalDelivered ==
  ASSUME NEW labelled, NEW items, NEW a, NEW e, e = Event("refusal", 1, 0, <<>>)
  PROVE  ChatDelivered(labelled, items, a, e, items)
<1> DEFINE update == Assemble("chat", labelled, a, e)
<1>1. update.parts = a.parts /\ update.out = <<>>
  BY DEF Event, Assemble, ProcessChunk, Nothing
<1> HIDE DEF update
<1>2. TellsOn(a.parts, update)  BY <1>1 DEF TellsOn, Tells
<1> QED BY <1>1, <1>2 DEF ChatDelivered, update

\* Parts with the id of the text are texts, as long as there are no tags.
LEMMA ContentIsText ==
  ASSUME NEW labelled, NEW items \in Seq(Items)
  PROVE  LET parts == PartsOf("chat", labelled, items) IN
         \A m \in DOMAIN parts : parts[m].key = <<"content">> => parts[m].kind = "text"
<1> DEFINE parts == PartsOf("chat", labelled, items)
           At(i, s) == Place(AllParts("chat", labelled, items), i, s)
<1>1. /\ \A i \in DOMAIN items : \A s \in 1..Width("chat", labelled, i, items[i]) :
           At(i, s) \in DOMAIN parts /\ parts[At(i, s)] = PartAt("chat", labelled, i, items[i], s)
      /\ \A m \in DOMAIN parts :
           \E i \in DOMAIN items : \E s \in 1..Width("chat", labelled, i, items[i]) : m = At(i, s)
  BY PartsArePlaced
<1> HIDE DEF parts, At
<1>2. ASSUME NEW m \in DOMAIN parts, parts[m].key = <<"content">> PROVE parts[m].kind = "text"
  <2>1. PICK i \in DOMAIN items : \E s \in 1..Width("chat", labelled, i, items[i]) : m = At(i, s)
    BY <1>1
  <2>2. PICK s \in 1..Width("chat", labelled, i, items[i]) : m = At(i, s)  BY <2>1
  <2>3. parts[m] = PartAt("chat", labelled, i, items[i], s)  BY <1>1, <2>2
  <2>4. items[i].kind \in Kinds  BY AllLists DEF Items
  <2>5. parts[m].key = ChatKey(i, items[i].kind) /\ parts[m].kind = PartKind(items[i].kind)
    BY <2>3 DEF PartAt, KeyAt
  <2>6. \A b : <<"call", b>> # <<"content">>  OBVIOUS
  <2>7. items[i].kind = "message"  BY <1>2, <2>4, <2>5, <2>6 DEF ChatKey, Kinds
  <2> QED BY <2>5, <2>7 DEF PartKind
<1> QED BY <1>2 DEF parts

-----------------------------------------------------------------------------
(* Every event takes the answer and its parts on together.                 *)

LEMMA NoTagYet ==
  ASSUME NEW labelled, NEW items \in Seq(Items), NEW parts, parts = PartsOf("chat", labelled, items),
         NEW more, ~IsTagged(more), NEW i \in DOMAIN more, more[i].kind = "message",
         NEW k \in DOMAIN more[i].pieces, NEW word, word = more[i].pieces[k].word
  PROVE  Untagged(parts, << word >>)
<1>1. word \notin Tags  BY DEF IsTagged
<1>2. <<word>> # <<OpeningTag>>
  <2>1. word # OpeningTag  BY <1>1 DEF Tags
  <2> QED BY <2>1
<1>3. \A m \in DOMAIN parts : parts[m].key = <<"content">> => parts[m].kind = "text"
  BY ContentIsText
<1> HIDE DEF PartsOf
<1>4. ~\E m \in DOMAIN parts : parts[m].key = <<"content">> /\ parts[m].kind = "thinking"
  BY <1>3
<1> QED BY <1>2, <1>4 DEF Untagged

LEMMA ItemDelivered ==
  ASSUME NEW known \in {"chat", "responses"}, NEW labelled \in BOOLEAN, NEW items, NEW a,
         SaidOK(known, labelled, items, a.argDeltas), NEW kind \in Kinds,
         kind = "function_call" => known = "chat",
         known = "chat" /\ kind # "function_call" => \A i \in DOMAIN items : items[i].kind # kind,
         NEW item \in Items, item.kind = kind, item.done, ~item.told,
         NEW word \in Nat \ {0}, item.pieces = <<[sub |-> 0, word |-> word]>>,
         NEW n, n = Len(items) + 1, NEW e, e = Event(PieceType(kind), n, 0, << word >>)
  PROVE  Delivered(known, labelled, items, a, e, Append(items, item))
<1>1. item.pieces # <<>>  OBVIOUS
<1>2. items \in Seq(Items) /\ n \in Nat \ {0}
  <2>1. items \in Seq(Items)  BY DEF SaidOK
  <2> QED BY <2>1, LenProperties
<1> DEFINE call == IF kind = "function_call" THEN n ELSE 0
           part == Part(PartKind(kind), <<word>>, call)
           key == KeyAt(known, labelled, n, kind, 1)
<1>3. /\ ItemOK(known, item) /\ Width(known, labelled, n, item) = 1
      /\ PartAt(known, labelled, n, item, 1) = Keyed(part, key)
      /\ Subs(item) = 1
  <2>1. Begins(known, item, word)  BY DEF Begins
  <2>2. /\ ItemOK(known, item) /\ OnePart(known, labelled, n, item)
        /\ Words(item) = IF item.pieces = <<>> THEN <<>> ELSE <<word>>
        /\ item.pieces # <<>> => Subs(item) = 1
    BY <2>1, BeginningItem
  <2> QED BY <1>1, <2>2 DEF OnePart
<1>4. e.type = PieceType(kind) /\ e.at = n /\ e.sub = 0 /\ e.words = <<word>>
  BY DEF Event
<1>5. SaidOK(known, labelled, Append(items, item), ArgDeltaItemIds(labelled, a, e))
  <2> DEFINE now == ArgDeltaItemIds(labelled, a, e)
  <2>1. a.argDeltas \subseteq now /\ now \subseteq a.argDeltas \cup {ItemId(labelled, n)}
    BY <1>4, ArgumentsDelivered
  <2>2. known = "chat" /\ item.kind # "function_call" =>
          Subs(item) = 1 /\ \A i \in DOMAIN items : items[i].kind # item.kind
    BY <1>1, <1>3
  <2> HIDE DEF now
  <2>3. SaidOK(known, labelled, Append(items, item), now)
    BY <1>1, <1>3, <2>1, <2>2, SaidMore
  <2> QED BY <2>3 DEF now
<1>6. ASSUME Distinct(known, labelled, Append(items, item)), a.parts = PartsOf(known, labelled, items),
             ~(known = "chat" /\ IsTagged(Append(items, item)))
      PROVE  /\ Assemble(known, labelled, a, e).parts = PartsOf(known, labelled, Append(items, item))
             /\ Tells(a.parts, Assemble(known, labelled, a, e))
  <2>1. Assemble(known, labelled, a, e) = HandleDelta(a.parts, key, part)
    <3>1. Assemble(known, labelled, a, e) =
            HandleDelta(a.parts, KeyAt(known, labelled, e.at, kind, 1),
                        Part(PartKind(kind), e.words, IF kind = "function_call" THEN e.at ELSE 0))
      <4>1. e.at \in Nat \ {0} /\ e.sub \in Nat /\ 1 = e.sub + 1  BY <1>2, <1>4
      <4>2. ASSUME known = "chat", kind = "message" PROVE Untagged(a.parts, <<word>>)
        <5> DEFINE more == Append(items, item)
        <5>1. n \in DOMAIN more /\ more[n] = item
          <6>1. Len(items) \in Nat  BY <1>2, LenProperties
          <6> QED BY <1>2, <6>1, AppendProperties
        <5>2. 1 \in DOMAIN item.pieces /\ item.pieces[1].word = word  OBVIOUS
        <5> HIDE DEF more
        <5>3. ~IsTagged(more) /\ a.parts = PartsOf("chat", labelled, items)
          BY <1>6, <4>2 DEF more
        <5> QED BY <1>2, <4>2, <5>1, <5>2, <5>3, NoTagYet
      <4>3. known = "chat" /\ kind = "message" => Untagged(a.parts, e.words)
        BY <1>4, <4>2
      <4> QED BY <1>4, <4>1, <4>3, WordsArrive
    <3> QED BY <1>4, <3>1
  <2>2. ItemIsPart(known, labelled, items, n, item, part, key)
    BY <1>2, <1>3 DEF ItemIsPart
  <2>3. PartFits(part)  BY <1>2, WordFits DEF PartKind, Kinds
  <2> HIDE DEF part, key
  <2>4. /\ HandleDelta(PartsOf(known, labelled, items), key, part).parts
             = PartsOf(known, labelled, Append(items, item))
        /\ ~Holds(PartsOf(known, labelled, items), key)
    BY <1>6, <2>2, ItemIsHandled
  <2>5. Tells(a.parts, HandleDelta(a.parts, key, part))
    BY <1>6, <2>3, <2>4, DeltaTells
  <2> QED BY <1>6, <2>1, <2>4, <2>5
<1> QED BY <1>5, <1>6 DEF Delivered

LEMMA CallDelivered ==
  ASSUME NEW known, known = "responses", NEW labelled \in BOOLEAN, NEW items, NEW a,
         SaidOK(known, labelled, items, a.argDeltas),
         NEW told \in BOOLEAN, NEW item, item = BegunCall(told),
         NEW n, n = Len(items) + 1, NEW e, e = Event("call_added", n, 0, Words(item))
  PROVE  Delivered(known, labelled, items, a, e, Append(items, item))
<1>1. /\ items \in Seq(Items) /\ n \in Nat \ {0} /\ DOMAIN items = 1..n - 1
      /\ known \in {"chat", "responses"} /\ known # "chat"
  <2>1. items \in Seq(Items)  BY DEF SaidOK
  <2> QED BY <2>1, LenProperties
<1> DEFINE args == Words(item)
           part == Part("call", args, n)
           key == ItemId(labelled, n)
<1>7. /\ item \in Items /\ item.kind = "function_call" /\ ~item.done /\ item.told = told
      /\ item.pieces = IF told THEN <<[sub |-> 0, word |-> 1]>> ELSE <<>>
      /\ item.told <=> item.pieces # <<>>
  <2>1. item \in Items  BY NewItemType DEF Kinds
  <2> QED BY <2>1 DEF BegunCall, Begun, NewItem
<1>8. /\ ItemOK(known, item)
      /\ Width(known, labelled, n, item) = 1
      /\ PartAt(known, labelled, n, item, 1) =
           Keyed(Part(PartKind(item.kind), Words(item), IF item.kind = "function_call" THEN n ELSE 0),
                 KeyAt(known, labelled, n, item.kind, 1))
  <2> DEFINE w == 1
  <2>1. Begins(known, item, w)  BY <1>1, <1>7 DEF Begins
  <2> HIDE DEF w
  <2>2. ItemOK(known, item) /\ OnePart(known, labelled, n, item)
    BY <1>7, <2>1, BeginningItem
  <2> QED BY <2>2 DEF OnePart
<1>2. ItemOK(known, item) /\ IsList(args)
  <2>1. IsList(item.pieces)  BY <1>7, Zenon DEF Items, IsList
  <2> QED BY <1>8, <2>1, AllWords
<1>3. ItemIsPart(known, labelled, items, n, item, part, key)
  <2>1. key = KeyAt(known, labelled, n, item.kind, 1)
    BY <1>1, <1>7 DEF KeyAt, IsOnePart
  <2>2. PartAt(known, labelled, n, item, 1) = Keyed(part, key)
    BY <1>7, <1>8, <2>1 DEF PartKind
  <2> QED BY <1>1, <1>7, <1>8, <2>1, <2>2 DEF ItemIsPart
<1>4. e.type = "call_added" /\ e.at = n /\ e.words = args  BY DEF Event
<1>5. SaidOK(known, labelled, Append(items, item), ArgDeltaItemIds(labelled, a, e))
  <2>1. ArgDeltaItemIds(labelled, a, e) = a.argDeltas  BY <1>4, ArgumentsDelivered
  <2>2. ItemId(labelled, n) \notin a.argDeltas
    <3>1. a.argDeltas \subseteq {ItemId(labelled, i) : i \in DOMAIN items}
      BY DEF SaidOK
    <3>2. \A i \in DOMAIN items : ItemId(labelled, i) # ItemId(labelled, n)
      <4> TAKE i \in DOMAIN items
      <4>1. i \in Nat \ {0} /\ i # n  BY <1>1
      <4> QED BY <1>1, <4>1, ItemIds
    <3> QED BY <3>1, <3>2
  <2>3. SaidOK(known, labelled, Append(items, item), a.argDeltas)
    BY <1>1, <1>2, <1>7, <2>2, SaidMore
  <2> QED BY <2>1, <2>3
<1>6. ASSUME Distinct(known, labelled, Append(items, item)), a.parts = PartsOf(known, labelled, items)
      PROVE  /\ Assemble(known, labelled, a, e).parts = PartsOf(known, labelled, Append(items, item))
             /\ Tells(a.parts, Assemble(known, labelled, a, e))
  <2>1. Assemble(known, labelled, a, e) = HandleCallPart(a.parts, key, part)
    BY <1>4 DEF Assemble, ProcessResponseEvent, HandleOutputItemAdded
  <2>2. PartFits(part) /\ IsList(PartsOf(known, labelled, items))
    BY <1>1, <1>2, AllLists DEF PartFits, Part
  <2> HIDE DEF part, key
  <2>3. /\ HandleCallPart(PartsOf(known, labelled, items), key, part).parts
             = PartsOf(known, labelled, Append(items, item))
        /\ ~Holds(PartsOf(known, labelled, items), key)
    BY <1>1, <1>3, <1>6, ItemIsHandled
  <2>4. Tells(a.parts, HandleCallPart(a.parts, key, part))
    BY <1>6, <2>2, <2>3, CallPartTells
  <2> QED BY <1>6, <2>1, <2>3, <2>4
<1> QED BY <1>5, <1>6 DEF Delivered

LEMMA SealedDelivered ==
  ASSUME NEW known, known = "responses", NEW labelled \in BOOLEAN, NEW items, NEW a,
         SaidOK(known, labelled, items, a.argDeltas),
         NEW item \in Items, item.kind = "reasoning", item.pieces = <<>>, item.signed, item.done,
         ~item.told,
         NEW n, n = Len(items) + 1, NEW e, e = Event("signed_done", n, 0, <<>>)
  PROVE  Delivered(known, labelled, items, a, e, Append(items, item))
<1>1. items \in Seq(Items) /\ n \in Nat \ {0} /\ known \in {"chat", "responses"} /\ known # "chat"
  <2>1. items \in Seq(Items)  BY DEF SaidOK
  <2> QED BY <2>1, LenProperties
<1> DEFINE part == Part("thinking", <<>>, 0)
           key == ItemId(labelled, n)
<1>2. ItemOK(known, item)
  <2> DEFINE w == 1
  <2>1. Begins(known, item, w)  BY <1>1 DEF Begins
  <2> HIDE DEF w
  <2> QED BY <2>1, BeginningItem
<1>3. ItemIsPart(known, labelled, items, n, item, part, key)
  <2>1. Width(known, labelled, n, item) = 1 /\ key = KeyAt(known, labelled, n, item.kind, 1)
    BY <1>1 DEF Width, KeyAt
  <2>2. Streamed(item) = <<>> /\ WordsOf(item, 1 - 1) = <<>>
    BY NoPieces DEF Streamed
  <2>3. PartAt(known, labelled, n, item, 1) = Keyed(part, key)
    BY <2>1, <2>2 DEF PartAt, Keyed, Part, PartKind
  <2> QED BY <1>1, <2>1, <2>3 DEF ItemIsPart
<1>4. e.type = "signed_done" /\ e.at = n  BY DEF Event
<1>5. SaidOK(known, labelled, Append(items, item), ArgDeltaItemIds(labelled, a, e))
  <2>1. ArgDeltaItemIds(labelled, a, e) = a.argDeltas  BY <1>4, ArgumentsDelivered
  <2>2. SaidOK(known, labelled, Append(items, item), a.argDeltas)
    BY <1>1, <1>2, SaidMore
  <2> QED BY <2>1, <2>2
<1>6. ASSUME Distinct(known, labelled, Append(items, item)), a.parts = PartsOf(known, labelled, items)
      PROVE  /\ Assemble(known, labelled, a, e).parts = PartsOf(known, labelled, Append(items, item))
             /\ Tells(a.parts, Assemble(known, labelled, a, e))
  <2>1. Assemble(known, labelled, a, e) = HandleDelta(a.parts, key, part)
    BY <1>4 DEF Assemble, ProcessResponseEvent, HandleOutputItemDone
  <2>2. PartFits(part) /\ part.words = <<>>  BY EmptyList DEF PartFits, Part
  <2> HIDE DEF part, key
  <2>3. HandleDelta(PartsOf(known, labelled, items), key, part).parts
          = PartsOf(known, labelled, Append(items, item))
    BY <1>1, <1>3, <1>6, ItemIsHandled
  <2>4. Tells(a.parts, HandleDelta(a.parts, key, part))  BY <2>2, DeltaTells
  <2> QED BY <1>6, <2>1, <2>3, <2>4
<1> QED BY <1>5, <1>6 DEF Delivered

LEMMA PieceDelivered ==
  ASSUME NEW known \in {"chat", "responses"}, NEW labelled \in BOOLEAN, NEW items, NEW a,
         SaidOK(known, labelled, items, a.argDeltas),
         NEW i \in DOMAIN items, NEW item, item = items[i],
         NEW piece, NEW grown, PieceAdded(known, item, piece, grown),
         item.kind # "function_call" => i = Len(items) /\ (known = "chat" => piece.sub = 0),
         NEW e, e = Event(PieceType(item.kind), i, piece.sub, <<piece.word>>),
         NEW more, more = Replaced(items, i, grown)
  PROVE  Delivered(known, labelled, items, a, e, more)
<1>1. /\ items \in Seq(Items) /\ DOMAIN items = 1..Len(items) /\ Len(items) \in Nat
      /\ i \in 1..Len(items) /\ i \in Nat \ {0}
      /\ item \in Items /\ item.kind \in Kinds /\ ItemOK(known, item)
      /\ Subs(item) \in Nat /\ IsList(item.pieces)
      /\ piece.sub \in Nat /\ grown \in Items /\ grown.kind = item.kind /\ grown.done = item.done
      /\ item.kind # "function_call" => piece.sub \in {Subs(item) - 1, Subs(item)}
  <2>1. items \in Seq(Items) /\ ItemOK(known, item)  BY DEF SaidOK
  <2>2. DOMAIN items = 1..Len(items) /\ Len(items) \in Nat  BY <2>1, LenProperties
  <2>3. item \in Items  BY <2>1, <2>2, ElementOfSeq
  <2> QED BY <2>1, <2>2, <2>3, SubsOf DEF Items, Piece, PieceAdded
<1> DEFINE kind == item.kind
           part == Part(PartKind(kind), <<piece.word>>, IF kind = "function_call" THEN i ELSE 0)
           s == piece.sub + 1
<1>2. /\ e.type = PieceType(kind) /\ e.at = i /\ e.sub = piece.sub /\ e.words = <<piece.word>>
  BY DEF Event
<1>4. /\ ItemOK(known, grown) /\ grown.pieces # <<>> /\ Subs(grown) = s
      /\ IsOnePart(known, labelled, i, kind) =>
           /\ Width(known, labelled, i, item) = 1 /\ Width(known, labelled, i, grown) = 1
           /\ PartAt(known, labelled, i, grown, 1) =
                [PartAt(known, labelled, i, item, 1) EXCEPT !.words = @ \o <<piece.word>>]
      /\ ~IsOnePart(known, labelled, i, kind) =>
           /\ Width(known, labelled, i, item) = Subs(item)
           /\ Width(known, labelled, i, grown) = s
           /\ \A t \in 1..Subs(item) :
                PartAt(known, labelled, i, grown, t) =
                  IF t = s THEN [PartAt(known, labelled, i, item, t) EXCEPT !.words = @ \o <<piece.word>>]
                  ELSE PartAt(known, labelled, i, item, t)
           /\ piece.sub = Subs(item) =>
                PartAt(known, labelled, i, grown, s) =
                  Keyed(Part(PartKind(kind), <<piece.word>>, 0), KeyAt(known, labelled, i, kind, s))
  <2>1. /\ ItemOK(known, grown) /\ grown.pieces # <<>> /\ Subs(grown) = piece.sub + 1
        /\ PartsGrow(known, labelled, i, item, piece, grown)
    BY GrowingItem
  <2> QED BY <2>1 DEF PartsGrow
<1>5. SaidOK(known, labelled, more, ArgDeltaItemIds(labelled, a, e))
  <2> DEFINE now == ArgDeltaItemIds(labelled, a, e)
  <2>1. /\ a.argDeltas \subseteq now /\ now \subseteq a.argDeltas \cup {ItemId(labelled, i)}
        /\ kind = "function_call" => ItemId(labelled, i) \in now
    <3>1. kind = "function_call" => e.type = "arguments"  BY <1>2 DEF PieceType
    <3> QED BY <1>2, <3>1, ArgumentsDelivered
  <2>2. ~grown.done => (ItemId(labelled, i) \in now <=> grown.pieces # <<>> /\ ~grown.told)
    <3>1. (~grown.done => kind = "function_call") /\ ~grown.told
      BY <1>1 DEF ItemOK, PieceAdded
    <3> QED BY <1>4, <2>1, <3>1
  <2>3. known = "chat" /\ grown.kind # "function_call" => Subs(grown) = 1
    BY <1>1, <1>4
  <2> HIDE DEF now
  <2>4. SaidOK(known, labelled, Replaced(items, i, grown), now)
    BY <1>1, <1>4, <2>1, <2>2, <2>3, SaidOtherwise, SMTT(30)
  <2> QED BY <2>4 DEF now
<1>6. ASSUME Distinct(known, labelled, items), Distinct(known, labelled, more),
             a.parts = PartsOf(known, labelled, items),
             ~(known = "chat" /\ IsTagged(more))
      PROVE  /\ Assemble(known, labelled, a, e).parts = PartsOf(known, labelled, more)
             /\ Tells(a.parts, Assemble(known, labelled, a, e))
  <2>5. Assemble(known, labelled, a, e) = HandleDelta(a.parts, KeyAt(known, labelled, i, kind, s), part)
    <3>1. s = e.sub + 1 /\ e.sub \in Nat  BY <1>1, <1>2
    <3>2. ASSUME known = "chat", kind = "message" PROVE Untagged(a.parts, <<piece.word>>)
      <4> DEFINE k == Len(item.pieces) + 1
      <4>1. k \in DOMAIN grown.pieces /\ grown.pieces[k] = piece
        <5> DEFINE old == item.pieces
                   new == grown.pieces
        <5>1. IsList(old) /\ new = Append(old, piece)  BY <1>1 DEF PieceAdded
        <5> HIDE DEF old, new
        <5>2. DOMAIN new = 1..Len(old) + 1 /\ new[Len(old) + 1] = piece /\ Len(old) \in Nat
          BY <5>1, AppendList, ListDomain
        <5> QED BY <5>2 DEF old, new
      <4>2. i \in DOMAIN more /\ more[i] = grown  BY <1>1 DEF Replaced
      <4> DEFINE word == piece.word
      <4>3. word = grown.pieces[k].word  BY <4>1
      <4> HIDE DEF k, word
      <4>4. ~IsTagged(more) /\ a.parts = PartsOf("chat", labelled, items)
        BY <1>6, <3>2
      <4>5. Untagged(a.parts, <<word>>)
        BY <1>1, <3>2, <4>1, <4>2, <4>3, <4>4, NoTagYet
      <4> QED BY <4>5 DEF word
    <3>3. known = "chat" /\ kind = "message" => Untagged(a.parts, e.words)
      BY <1>2, <3>2
    <3> HIDE DEF s
    <3>4. Assemble(known, labelled, a, e) =
            HandleDelta(a.parts, KeyAt(known, labelled, e.at, kind, s),
                        Part(PartKind(kind), e.words, IF kind = "function_call" THEN e.at ELSE 0))
      BY <1>1, <1>2, <3>1, <3>3, WordsArrive
    <3> QED BY <1>2, <3>4
  <2> DEFINE w == Width(known, labelled, i, item)
  <2>1. w \in Nat /\ part.words = <<piece.word>> /\ PartFits(part)
    <3>1. w \in Nat /\ part.words = <<piece.word>>  BY <1>1, StreamedList DEF Part
    <3>2. piece.word \in Nat \ {0}  BY DEF PieceAdded, Piece
    <3>3. PartFits(part)  BY <1>1, <3>2, WordFits DEF PartKind, Kinds
    <3> QED BY <3>1, <3>3
  <2>2. CASE IsOnePart(known, labelled, i, kind)
    <3> DEFINE key == KeyAt(known, labelled, i, kind, 1)
    <3>1. KeyAt(known, labelled, i, kind, s) = key  BY <2>2 DEF KeyAt
    <3>2. PartIsLonger(known, labelled, items, more, i, grown, 1, part, key)
      <4>1. w = 1 /\ Width(known, labelled, i, grown) = w /\ \A t \in 1..w : t = 1
        BY <1>4, <2>2
      <4>2. key = KeyAt(known, labelled, i, items[i].kind, 1)  OBVIOUS
      <4> HIDE DEF part, w, key
      <4> QED BY <1>1, <1>4, <2>1, <2>2, <4>1, <4>2 DEF PartIsLonger, w
    <3>3. part.kind = "call" \/ Slot(a.parts, key) = Len(a.parts)
      <4>1. CASE kind = "function_call"
        BY <4>1 DEF Part, PartKind
      <4>2. CASE kind # "function_call"
        <5>1. i = Len(items) /\ Len(items) > 0 /\ w = 1 /\ kind = items[i].kind
          BY <1>1, <1>4, <2>2, <4>2
        <5> HIDE DEF w, kind, part, s
        <5>2. Slot(PartsOf(known, labelled, items), KeyAt(known, labelled, i, items[i].kind, 1))
                = Len(PartsOf(known, labelled, items))
          BY <1>1, <1>6, <5>1, LastIsFound DEF w
        <5> QED BY <1>6, <5>1, <5>2
      <4> QED BY <4>1, <4>2
    <3> HIDE DEF part, s, key
    <3>4. HandleDelta(PartsOf(known, labelled, items), key, part).parts = PartsOf(known, labelled, more)
      BY <1>6, <3>2, WordsAreHandled
    <3>5. Tells(a.parts, HandleDelta(a.parts, key, part))  BY <2>1, <3>3, DeltaTells
    <3> QED BY <1>6, <2>5, <3>1, <3>4, <3>5
  <2>3. CASE ~IsOnePart(known, labelled, i, kind) /\ piece.sub # Subs(item)
    <3> DEFINE key == KeyAt(known, labelled, i, kind, s)
    <3>1. kind # "function_call" /\ w = Subs(item) /\ s = Subs(item) /\ s \in 1..w
      BY <1>1, <1>4, <2>3 DEF IsOnePart
    <3>2. PartIsLonger(known, labelled, items, more, i, grown, s, part, key)
      <4>1. key = KeyAt(known, labelled, i, items[i].kind, s)  OBVIOUS
      <4> HIDE DEF part, w, s, key
      <4> QED BY <1>1, <1>4, <2>1, <2>3, <3>1, <4>1 DEF PartIsLonger, w
    <3>3. Slot(a.parts, key) = Len(a.parts)
      <4>1. i = Len(items) /\ Len(items) > 0 /\ w > 0 /\ w = s /\ kind = items[i].kind
        BY <1>1, <2>1, <3>1
      <4> HIDE DEF w, kind, part, s
      <4>2. Slot(PartsOf(known, labelled, items), KeyAt(known, labelled, i, items[i].kind, w))
              = Len(PartsOf(known, labelled, items))
        BY <1>1, <1>6, <4>1, LastIsFound DEF w
      <4> QED BY <1>6, <4>1, <4>2
    <3> HIDE DEF part, s, key
    <3>4. HandleDelta(PartsOf(known, labelled, items), key, part).parts = PartsOf(known, labelled, more)
      BY <1>6, <3>2, WordsAreHandled
    <3>5. Tells(a.parts, HandleDelta(a.parts, key, part))  BY <2>1, <3>3, DeltaTells
    <3> QED BY <1>6, <2>5, <3>4, <3>5 DEF key
  <2>4. CASE ~IsOnePart(known, labelled, i, kind) /\ piece.sub = Subs(item)
    <3> DEFINE key == KeyAt(known, labelled, i, kind, s)
    <3>1. /\ kind # "function_call" /\ w = Subs(item) /\ s = w + 1
          /\ Width(known, labelled, i, grown) = s
          /\ i = Len(items)
      BY <1>1, <1>4, <2>4 DEF IsOnePart
    <3>2. LastIsWider(known, labelled, items, more, i, grown, Keyed(part, key))
      <4>1. /\ more \in Seq(Items) /\ Len(more) = i /\ more[i] = grown
            /\ \A k \in 1..i : k # i => more[k] = items[k]
        <5>1. more \in Seq(Items)  BY <1>1, ExceptSeq DEF Replaced
        <5>2. /\ IsList(items) /\ Len(more) = Len(items)
              /\ \A k \in 1..Len(items) : more[k] = IF k = i THEN grown ELSE items[k]
          <6>1. IsList(items)  BY <1>1 DEF IsList
          <6> QED BY <1>1, <6>1, ExceptAt
        <5> QED BY <1>1, <3>1, <5>1, <5>2
      <4>2. PartAt(known, labelled, i, grown, w + 1) = Keyed(part, key)
        BY <1>4, <2>4, <3>1
      <4>3. \A t \in 1..w : PartAt(known, labelled, i, grown, t) = PartAt(known, labelled, i, items[i], t)
        <5> TAKE t \in 1..w
        <5>1. t # s /\ t \in 1..Subs(item)  BY <2>1, <3>1
        <5> HIDE DEF s, w
        <5> QED BY <1>4, <2>4, <5>1
      <4> DEFINE new == Keyed(part, key)
      <4>4. Width(known, labelled, i, grown) = w + 1 /\ Len(items) > 0
        BY <1>1, <3>1
      <4>5. PartAt(known, labelled, i, grown, w + 1) = new  BY <4>2, SMTT(30)
      <4> HIDE DEF new, part, key, s
      <4>6. LastIsWider(known, labelled, items, more, i, grown, new)
        BY <1>1, <3>1, <4>1, <4>3, <4>4, <4>5 DEF LastIsWider
      <4> QED BY <4>6 DEF new
    <3>3. ContentIsPart(known, labelled, items, more, i, grown, part, key)
      BY <1>1, <3>1, <3>2 DEF ContentIsPart
    <3> HIDE DEF part, s, key
    <3>4. /\ HandleDelta(PartsOf(known, labelled, items), key, part).parts = PartsOf(known, labelled, more)
          /\ ~Holds(PartsOf(known, labelled, items), key)
      BY <1>6, <3>3, ContentIsHandled
    <3>5. Tells(a.parts, HandleDelta(a.parts, key, part))
      BY <1>6, <2>1, <3>4, DeltaTells
    <3> QED BY <1>6, <2>5, <3>4, <3>5 DEF key
  <2> QED BY <2>2, <2>3, <2>4
<1> QED BY <1>5, <1>6 DEF Delivered

LEMMA ItemSaid ==
  ASSUME NEW known, NEW labelled, NEW items, NEW delivered,
         SaidOK(known, labelled, items, delivered), NEW i \in DOMAIN items
  PROVE  /\ items \in Seq(Items) /\ i \in Nat \ {0} /\ i \in 1..Len(items)
         /\ items[i] \in Items /\ ItemOK(known, items[i])
<1>1. items \in Seq(Items) /\ ItemOK(known, items[i])  BY DEF SaidOK
<1>2. i \in 1..Len(items) /\ Len(items) \in Nat  BY <1>1, LenProperties
<1> QED BY <1>1, <1>2, ElementOfSeq

LEMMA FinishDelivered ==
  ASSUME NEW known \in {"chat", "responses"}, NEW labelled \in BOOLEAN, NEW items, NEW a,
         SaidOK(known, labelled, items, a.argDeltas),
         NEW i \in DOMAIN items, NEW item, item = items[i], ~item.done,
         NEW finished \in Items, finished.kind = item.kind, finished.done, finished.told = item.told,
         \/ finished.pieces = item.pieces
         \/ item.pieces = <<>> /\ finished.pieces = <<[sub |-> 0, word |-> 1]>>,
         NEW e, e = Event("call_done", i, 0, Words(finished)),
         NEW more, more = Replaced(items, i, finished)
  PROVE  Delivered(known, labelled, items, a, e, more)
<1>1. /\ items \in Seq(Items) /\ i \in Nat \ {0} /\ item \in Items /\ ItemOK(known, item)
  BY ItemSaid
<1>2. item.kind = "function_call" /\ known # "chat" /\ finished.kind = "function_call"
  BY <1>1 DEF ItemOK
<1> DEFINE key == ItemId(labelled, i)
           args == IF item.pieces # <<>> /\ ~item.told THEN <<>> ELSE Words(finished)
           part == Part("call", args, i)
<1>3. /\ ItemOK(known, finished)
      /\ Width(known, labelled, i, item) = 1 /\ Width(known, labelled, i, finished) = 1
      /\ PartAt(known, labelled, i, finished, 1) =
           [PartAt(known, labelled, i, item, 1) EXCEPT !.words = @ \o args]
  <2>1. CallFinished(known, item, finished)  BY <1>1, <1>2 DEF CallFinished
  <2>2. ArgumentsAdded(known, labelled, i, item, finished)  BY <2>1, FinishedItem
  <2> QED BY <2>2 DEF ArgumentsAdded
<1>4. /\ e.type = "call_done" /\ e.at = i /\ e.words = Words(finished)  BY DEF Event
<1>5. SaidOK(known, labelled, more, ArgDeltaItemIds(labelled, a, e))
  <2>1. ArgDeltaItemIds(labelled, a, e) = a.argDeltas  BY <1>4, ArgumentsDelivered
  <2>2. SaidOK(known, labelled, Replaced(items, i, finished), a.argDeltas)
    BY <1>2, <1>3, SaidOtherwise
  <2> QED BY <2>1, <2>2
<1>6. ASSUME Distinct(known, labelled, items), a.parts = PartsOf(known, labelled, items)
      PROVE  /\ Assemble(known, labelled, a, e).parts = PartsOf(known, labelled, more)
             /\ Tells(a.parts, Assemble(known, labelled, a, e))
  <2>1. key \in a.argDeltas <=> item.pieces # <<>> /\ ~item.told  BY DEF SaidOK
  <2>2. Assemble(known, labelled, a, e) = ProcessResponseEvent(labelled, a, e)
    BY <1>2 DEF Assemble
  <2>3. ProcessResponseEvent(labelled, a, e) = HandleOutputItemDone(labelled, a, e)
    BY <1>4 DEF ProcessResponseEvent
  <2>4. HandleOutputItemDone(labelled, a, e) = HandleDelta(a.parts, key, part)
    BY <1>4, <2>1 DEF HandleOutputItemDone
  <2>5. PartIsLonger(known, labelled, items, more, i, finished, 1, part, key)
    <3>1. key = KeyAt(known, labelled, i, items[i].kind, 1)  BY <1>2 DEF KeyAt
    <3>2. part.words = args  BY DEF Part
    <3> HIDE DEF key, args, part
    <3> QED BY <1>1, <1>3, <3>1, <3>2 DEF PartIsLonger
  <2>6. PartFits(part) /\ part.kind = "call"
    <3>1. IsList(args)
      <4>1. IsList(item.pieces) /\ IsList(finished.pieces)
        BY <1>1 DEF Items, IsList
      <4>2. IsList(Words(finished))  BY <4>1, AllWords
      <4> QED BY <4>2, EmptyList
    <3> HIDE DEF args
    <3> QED BY <1>1, <3>1 DEF PartFits, Part
  <2> HIDE DEF key, part
  <2>7. HandleDelta(PartsOf(known, labelled, items), key, part).parts = PartsOf(known, labelled, more)
    BY <1>6, <2>5, WordsAreHandled
  <2>8. Tells(a.parts, HandleDelta(a.parts, key, part))  BY <2>6, DeltaTells
  <2> QED BY <1>6, <2>2, <2>3, <2>4, <2>7, <2>8
<1> QED BY <1>5, <1>6 DEF Delivered

LEMMA SignDelivered ==
  ASSUME NEW known, known = "responses", NEW labelled \in BOOLEAN, NEW items, NEW a,
         SaidOK(known, labelled, items, a.argDeltas),
         NEW i \in DOMAIN items, NEW item, item = items[i], item.kind = "reasoning", ~item.signed,
         NEW signed \in Items, signed.pieces = item.pieces, signed.kind = item.kind,
         signed.done = item.done, signed.told = item.told,
         NEW e, e = Event("signed_done", i, 0, <<>>),
         NEW more, more = Replaced(items, i, signed)
  PROVE  Delivered(known, labelled, items, a, e, more)
<1>1. /\ items \in Seq(Items) /\ i \in Nat \ {0} /\ item \in Items /\ ItemOK(known, item)
      /\ known \in {"chat", "responses"} /\ known # "chat" /\ item.done
  <2>1. items \in Seq(Items) /\ i \in Nat \ {0} /\ item \in Items /\ ItemOK(known, item)
    BY ItemSaid
  <2> QED BY <2>1 DEF ItemOK
<1> DEFINE key == ItemId(labelled, i)
           part == Part("thinking", <<>>, 0)
           w == Width(known, labelled, i, item)
<1>2. /\ ItemOK(known, signed) /\ w = Subs(item) /\ Subs(item) > 0
      /\ Width(known, labelled, i, signed) = w
      /\ \A s : PartAt(known, labelled, i, signed, s) = PartAt(known, labelled, i, item, s)
      /\ PartAt(known, labelled, i, item, 1) =
           [PartAt(known, labelled, i, item, 1) EXCEPT !.words = @ \o <<>>]
  <2>1. ItemSigned(known, item, signed)  BY <1>1 DEF ItemSigned
  <2>2. PartsStay(known, labelled, i, item, signed)  BY <2>1, SignedItem
  <2> QED BY <2>2 DEF PartsStay
<1>3. e.type = "signed_done" /\ e.at = i  BY DEF Event
<1>4. SaidOK(known, labelled, more, ArgDeltaItemIds(labelled, a, e))
  <2>1. ArgDeltaItemIds(labelled, a, e) = a.argDeltas  BY <1>3, ArgumentsDelivered
  <2>2. SaidOK(known, labelled, Replaced(items, i, signed), a.argDeltas)
    BY <1>1, <1>2, SaidOtherwise, ZenonT(60)
  <2> QED BY <2>1, <2>2
<1>5. ASSUME Distinct(known, labelled, items), a.parts = PartsOf(known, labelled, items)
      PROVE  /\ Assemble(known, labelled, a, e).parts = PartsOf(known, labelled, more)
             /\ Tells(a.parts, Assemble(known, labelled, a, e))
  <2>1. Assemble(known, labelled, a, e) = ProcessResponseEvent(labelled, a, e)
    BY DEF Assemble
  <2>2. ProcessResponseEvent(labelled, a, e) = HandleOutputItemDone(labelled, a, e)
    BY <1>3 DEF ProcessResponseEvent
  <2>3. HandleOutputItemDone(labelled, a, e) = HandleDelta(a.parts, key, part)
    BY <1>3 DEF HandleOutputItemDone
  <2>4. PartIsLonger(known, labelled, items, more, i, signed, 1, part, key)
    <3>1. key = KeyAt(known, labelled, i, items[i].kind, 1)  BY <1>1 DEF KeyAt
    <3>2. part.words = <<>>  BY DEF Part
    <3>3. w \in Nat /\ 1 \in 1..w  BY <1>1, <1>2, SubsOf
    <3> HIDE DEF key, part, w
    <3>4. \A t \in 1..w :
            PartAt(known, labelled, i, signed, t) =
              IF t = 1 THEN [PartAt(known, labelled, i, items[i], 1) EXCEPT !.words = @ \o part.words]
              ELSE PartAt(known, labelled, i, items[i], t)
      BY <1>2, <3>2
    <3> QED BY <1>1, <1>2, <3>1, <3>3, <3>4 DEF PartIsLonger, w
  <2>5. PartFits(part) /\ part.words = <<>>  BY EmptyList DEF PartFits, Part
  <2> HIDE DEF key, part
  <2>6. HandleDelta(PartsOf(known, labelled, items), key, part).parts = PartsOf(known, labelled, more)
    BY <1>1, <1>5, <2>4, WordsAreHandled
  <2>7. Tells(a.parts, HandleDelta(a.parts, key, part))  BY <2>5, DeltaTells
  <2> QED BY <1>5, <2>1, <2>2, <2>3, <2>6, <2>7
<1> QED BY <1>4, <1>5 DEF Delivered

LEMMA RefusalDelivered ==
  ASSUME NEW known \in {"chat", "responses"}, NEW labelled \in BOOLEAN, NEW items, NEW a,
         SaidOK(known, labelled, items, a.argDeltas),
         NEW e, e = Event("refusal", 1, 0, <<>>)
  PROVE  Delivered(known, labelled, items, a, e, items)
<1>1. e.type = "refusal"  BY DEF Event
<1>2. ArgDeltaItemIds(labelled, a, e) = a.argDeltas  BY <1>1, ArgumentsDelivered
<1>3. Assemble(known, labelled, a, e).parts = a.parts /\ Assemble(known, labelled, a, e).out = <<>>
  BY <1>1 DEF Assemble, ProcessResponseEvent, ProcessChunk, Nothing
<1>4. Tells(a.parts, Assemble(known, labelled, a, e))  BY <1>3 DEF Tells
<1> QED BY <1>2, <1>3, <1>4 DEF Delivered

-----------------------------------------------------------------------------
(* The assembly of an answer, step by step.                                *)

LEMMA NothingOrdered == ChatOrder(<<>>, <<>>)
<1>1. IsList(<<>>) /\ DOMAIN <<>> = {}  BY EmptyList
<1> QED BY <1>1 DEF ChatOrder, Tracked, Holds

LEMMA BeforeTheStream ==
  ASSUME NEW known, NEW labelled, known = "chat" => labelled
  PROVE  Agreed(NoAnswer.items, NoAssembly, known, labelled)
<1>1. NoAnswer.items = <<>> /\ NoAssembly.parts = <<>> /\ NoAssembly.argDeltas = {}
  BY DEF NoAnswer, NoAssembly
<1> QED BY <1>1, NothingSaid, NothingOrdered DEF Agreed

LEMMA PartsInitOK == Init => PartsInv
<1> SUFFICES ASSUME Init PROVE PartsInv
  OBVIOUS
<1>1. /\ api \in {"chat", "responses"} /\ ids \in BOOLEAN /\ (api = "chat" => ids)
      /\ answer = NoAnswer /\ assembly = NoAssembly /\ pc = "requesting" /\ collided = FALSE
  BY AgentStreamAssumption DEF Init
<1>2. Agreed(answer.items, assembly, api, ids)  BY <1>1, BeforeTheStream
<1> QED BY <1>1, <1>2 DEF PartsInv, Agreed

LEMMA PartsForgotten ==
  ASSUME PartsInv, UNCHANGED connection, answer' = NoAnswer, assembly' = NoAssembly,
         pc' # "answered", collided' \in BOOLEAN
  PROVE  PartsInv'
<1>1. api = "chat" => ids  BY DEF PartsInv, SaidOK
<1>2. Agreed(NoAnswer.items, NoAssembly, api, ids)  BY <1>1, BeforeTheStream
<1>3. api' = api /\ ids' = ids  BY DEF connection
<1> QED BY <1>2, <1>3 DEF PartsInv, Agreed

LEMMA FailParts == ASSUME PartsInv, Fail, collided' \in BOOLEAN PROVE PartsInv'
<1>1. UNCHANGED connection /\ answer' = NoAnswer /\ assembly' = NoAssembly /\ pc' # "answered"
  BY DEF Fail
<1> QED BY <1>1, PartsForgotten

LEMMA ArrivalParts == ASSUME PartsInv, Arrival PROVE PartsInv'
<1>1. pc = "receiving" /\ \E said, e : Arrives(said, e)  BY DEF Arrival
<1> PICK said, e : Arrives(said, e)
  BY <1>1
<1>2. /\ Deliver(said, e) /\ Delivered(api, ids, answer.items, assembly, e, said.items)
      /\ api = "chat" => ChatDelivered(ids, answer.items, assembly, e, said.items)
  BY DEF Arrives
<1> DEFINE update == Assemble(api, ids, assembly, e)
           items == said.items
<1>3. collided' = (collided \/ IdsCollide(said)) /\ collided' \in BOOLEAN
  BY <1>2 DEF Deliver
<1>4. CASE ~update.ok
  <2>1. Fail  BY <1>2, <1>4 DEF Deliver
  <2> QED BY <1>3, <2>1, FailParts
<1>5. CASE update.ok
  <2>1. /\ answer' = said
        /\ assembly' = [parts |-> update.parts, argDeltas |-> ArgDeltaItemIds(ids, assembly, e)]
        /\ UNCHANGED pc /\ UNCHANGED connection
    BY <1>2, <1>5 DEF Deliver
  <2>2. /\ answer'.items = items /\ assembly'.parts = update.parts
        /\ assembly'.argDeltas = ArgDeltaItemIds(ids, assembly, e)
        /\ api' = api /\ ids' = ids /\ pc' # "answered"
    BY <1>1, <2>1 DEF connection
  <2>3. SaidOK(api, ids, items, assembly'.argDeltas)  BY <1>2, <2>2 DEF Delivered
  <2>4. ASSUME ~collided'
        PROVE  ~collided /\ Distinct(api, ids, answer.items) /\ Distinct(api, ids, items)
    <3>1. ~collided /\ ~IdsCollide(said)  BY <1>3, <2>4
    <3>2. Distinct(api, ids, items)  BY <2>3, <3>1 DEF SaidOK, Distinct, IdsCollide
    <3> QED BY <3>1, <3>2 DEF PartsInv
  <2>5. ASSUME ~collided', ~(api = "chat" /\ IsTagged(items))
        PROVE  update.parts = PartsOf(api, ids, items)
    <3>1. ~(api = "chat" /\ IsTagged(answer.items))  BY <1>2, <2>5 DEF ChatDelivered
    <3>2. assembly.parts = PartsOf(api, ids, answer.items)
      BY <2>4, <2>5, <3>1 DEF PartsInv
    <3> QED BY <1>2, <2>4, <2>5, <3>2 DEF Delivered
  <2>6. api = "chat" => ChatOrder(items, update.parts)
    BY <1>2 DEF PartsInv, ChatDelivered
  <2> HIDE DEF update
  <2> QED BY <1>3, <2>2, <2>3, <2>4, <2>5, <2>6 DEF PartsInv
<1> QED BY <1>4, <1>5

LEMMA PartsSaid ==
  ASSUME PartsInv
  PROVE  /\ api \in {"chat", "responses"} /\ ids \in BOOLEAN
         /\ SaidOK(api, ids, answer.items, assembly.argDeltas)
         /\ answer.items \in Seq(Items)
         /\ \A i \in DOMAIN answer.items :
              answer.items[i] \in Items /\ answer.items[i].kind \in Kinds
              /\ ItemOK(api, answer.items[i])
<1>1. SaidOK(api, ids, answer.items, assembly.argDeltas)  BY DEF PartsInv
<1>2. ASSUME NEW i \in DOMAIN answer.items
      PROVE  answer.items[i] \in Items /\ answer.items[i].kind \in Kinds
             /\ ItemOK(api, answer.items[i])
  <2>1. answer.items[i] \in Items /\ ItemOK(api, answer.items[i])  BY <1>1, ItemSaid
  <2> QED BY <2>1 DEF Items
<1> QED BY <1>1, <1>2 DEF SaidOK, PartsInv

LEMMA ItemsOfSaid ==
  ASSUME StreamInv
  PROVE  /\ \A items : [answer EXCEPT !.items = items].items = items
         /\ \A refused : [answer EXCEPT !.refused = refused].items = answer.items
BY DEF StreamInv, AnswerOK

LEMMA AddItemArrives ==
  ASSUME StreamInv, PartsInv, NEW kind \in Kinds, AddItem(kind)
  PROVE  Arrival
<1> DEFINE n == Len(answer.items) + 1
           item(word) == [NewItem(kind) EXCEPT !.pieces = <<[sub |-> 0, word |-> word]>>, !.done = TRUE]
           spoken(word) == [answer EXCEPT !.items =
                              Append(@, [NewItem(kind) EXCEPT !.pieces = <<[sub |-> 0, word |-> word]>>,
                                                              !.done = TRUE])]
           event(word) == Event(PieceType(kind), n, 0, <<word>>)
<1>1. /\ pc = "receiving" /\ \E word \in Spoken(kind, <<>>) : Deliver(spoken(word), event(word))
      /\ IF api = "chat" THEN Follows(kind) ELSE kind # "function_call"
  BY DEF AddItem, AnotherItem, Growing, Receiving
<1> PICK word \in Spoken(kind, <<>>) : Deliver(spoken(word), event(word))
  BY <1>1
<1> DEFINE new == item(word)
           said == spoken(word)
           e == event(word)
<1>2. Deliver(said, e)  OBVIOUS
<1>3. said.items = Append(answer.items, new)  BY ItemsOfSaid
<1>4. word \in Nat \ {0}
  <2>1. Len(<<>>) \in Nat  OBVIOUS
  <2> QED BY <2>1, SpokenWord
<1>5. /\ new \in Items /\ new.kind = kind /\ new.done /\ ~new.told
      /\ new.pieces = <<[sub |-> 0, word |-> word]>>
  BY <1>4, NewItemType DEF NewItem
<1>6. kind = "function_call" => api = "chat"  BY <1>1
<1>7. api = "chat" /\ kind # "function_call" => \A i \in DOMAIN answer.items : answer.items[i].kind # kind
  BY <1>1 DEF Follows, Kinds
<1>8. e = Event(PieceType(kind), n, 0, <<word>>) /\ n = Len(answer.items) + 1
  OBVIOUS
<1> HIDE DEF item, spoken, event, new, said, n, e
<1>9. Delivered(api, ids, answer.items, assembly, e, Append(answer.items, new))
  BY <1>4, <1>5, <1>6, <1>7, <1>8, PartsSaid, ItemDelivered
<1>10. ASSUME api = "chat" PROVE ChatDelivered(ids, answer.items, assembly, e, Append(answer.items, new))
  <2>1. kind # "function_call" => ~HasKind(answer.items, kind)
    BY <1>7, <1>10 DEF HasKind
  <2> QED BY <1>4, <1>5, <1>8, <2>1, PartsSaid, ChatItemDelivered
<1>11. Arrives(said, e)  BY <1>2, <1>3, <1>9, <1>10 DEF Arrives
<1> QED BY <1>1, <1>11, Zenon DEF Arrival

LEMMA AddCallArrives ==
  ASSUME StreamInv, PartsInv, NEW told \in BOOLEAN, AddCall(told)
  PROVE  Arrival
<1> DEFINE item == BegunCall(told)
           said == [answer EXCEPT !.items = Append(@, item)]
           n == Len(answer.items) + 1
           e == Event("call_added", n, 0, Words(item))
<1>1. pc = "receiving" /\ Deliver(said, e) /\ api = "responses"
  BY DEF AddCall, AnotherItem, Growing, Receiving, BegunCall, Begun
<1>2. said.items = Append(answer.items, item)  BY ItemsOfSaid
<1>3. e = Event("call_added", n, 0, Words(item)) /\ item = BegunCall(told) /\ n = Len(answer.items) + 1
  OBVIOUS
<1> HIDE DEF item, said, n, e
<1>4. Delivered(api, ids, answer.items, assembly, e, Append(answer.items, item))
  BY <1>1, <1>3, PartsSaid, CallDelivered
<1>5. Arrives(said, e)  BY <1>1, <1>2, <1>4 DEF Arrives
<1> QED BY <1>1, <1>5, Zenon DEF Arrival

LEMMA AddSealedArrives == ASSUME StreamInv, PartsInv, AddSealedReasoning PROVE Arrival
<1> DEFINE item == [NewItem("reasoning") EXCEPT !.signed = TRUE, !.done = TRUE]
           said == [answer EXCEPT !.items = Append(@, item)]
           n == Len(answer.items) + 1
           e == Event("signed_done", n, 0, <<>>)
<1>1. pc = "receiving" /\ Deliver(said, e) /\ api = "responses"
  BY DEF AddSealedReasoning, AnotherItem, Growing, Receiving
<1>2. said.items = Append(answer.items, item)  BY ItemsOfSaid
<1>3. /\ item \in Items /\ item.kind = "reasoning" /\ item.pieces = <<>> /\ item.signed /\ item.done
      /\ ~item.told
  BY NewItemType DEF NewItem, Kinds
<1> HIDE DEF item, said, n, e
<1>4. Delivered(api, ids, answer.items, assembly, e, Append(answer.items, item))
  BY <1>1, <1>3, PartsSaid, SealedDelivered DEF n, e
<1>5. Arrives(said, e)  BY <1>1, <1>2, <1>4 DEF Arrives
<1> QED BY <1>1, <1>5, Zenon DEF Arrival

LEMMA AddPieceArrives ==
  ASSUME StreamInv, PartsInv, NEW i \in DOMAIN answer.items, NEW sub \in 0..MaxSub, AddPiece(i, sub)
  PROVE  Arrival
<1> DEFINE item == answer.items[i]
           longer(word) == [item EXCEPT !.pieces = Append(@, [sub |-> sub, word |-> word]), !.told = FALSE]
           spoken(word) == [answer EXCEPT !.items[i] = longer(word)]
           event(word) == Event(PieceType(item.kind), i, sub, <<word>>)
<1>1. /\ pc = "receiving"
      /\ \E word \in Spoken(item.kind, item.pieces) : Deliver(spoken(word), event(word))
      /\ IF api = "responses" /\ item.kind = "function_call"
         THEN ~item.done /\ sub = 0
         ELSE i = Len(answer.items) /\ ~item.signed /\ sub \in {Subs(item) - 1, Subs(item)}
      /\ api = "chat" => sub = 0
  BY DEF AddPiece, Growing, Receiving
<1> PICK word \in Spoken(item.kind, item.pieces) : Deliver(spoken(word), event(word))
  BY <1>1
<1> DEFINE piece == [sub |-> sub, word |-> word]
           grown == longer(word)
           said == spoken(word)
           more == Replaced(answer.items, i, grown)
           e == event(word)
<1>2. item \in Items /\ item.kind \in Kinds /\ ItemOK(api, item) /\ api \in {"chat", "responses"}
  BY PartsSaid
<1>3. said.items = more
  <2>1. said = [answer EXCEPT !.items = [answer.items EXCEPT ![i] = grown]]  OBVIOUS
  <2> HIDE DEF said, grown
  <2> QED BY <2>1, ItemsOfSaid DEF Replaced
<1>10. Deliver(said, e)  OBVIOUS
<1>4. /\ item.pieces \in Seq(Piece) /\ word \in Nat \ {0}
      /\ piece \in Piece /\ piece.sub = sub /\ piece.word = word
  <2>1. item.pieces \in Seq(Piece) /\ Len(item.pieces) \in Nat
    BY <1>2, LenProperties DEF Items
  <2> DEFINE kind == item.kind
             pieces == item.pieces
  <2>2. word \in Spoken(kind, pieces)  OBVIOUS
  <2> HIDE DEF kind, pieces
  <2>3. word \in Nat \ {0}  BY <2>1, <2>2, SpokenWord DEF pieces
  <2> QED BY <2>1, <2>3 DEF Piece
<1>5. PieceAdded(api, item, piece, grown)
  <2>1. Append(item.pieces, piece) \in Seq(Piece)  BY <1>4, AppendProperties
  <2>2. /\ grown \in Items /\ grown.pieces = Append(item.pieces, piece)
        /\ grown.kind = item.kind /\ grown.done = item.done /\ grown.signed = item.signed
        /\ ~grown.told
    BY <1>2, <2>1 DEF Items, Piece
  <2>3. item.kind # "function_call" => ~item.signed /\ piece.sub \in {Subs(item) - 1, Subs(item)}
    BY <1>1, <1>4
  <2>4. ~(item.done /\ item.told)  BY <1>1, <1>2 DEF ItemOK
  <2> HIDE DEF longer, spoken, event, said, e, grown, piece, item
  <2> QED BY <1>2, <1>4, <2>2, <2>3, <2>4 DEF PieceAdded
<1>6. /\ item.kind # "function_call" => i = Len(answer.items) /\ (api = "chat" => piece.sub = 0)
      /\ api = "chat" => i = Len(answer.items)
  BY <1>1, <1>4
<1>7. e = Event(PieceType(item.kind), i, piece.sub, <<piece.word>>)  BY <1>4
<1> HIDE DEF longer, spoken, event, item, piece, grown, said, more, e
<1>8. Delivered(api, ids, answer.items, assembly, e, more)
  BY <1>5, <1>6, <1>7, PartsSaid, PieceDelivered DEF item, more
<1>11. ASSUME api = "chat" PROVE ChatDelivered(ids, answer.items, assembly, e, more)
  <2> DEFINE kind == item.kind
  <2>1. /\ kind \in Kinds /\ kind = answer.items[i].kind /\ piece.word \in Nat \ {0}
        /\ e = Event(PieceType(kind), i, piece.sub, <<piece.word>>) /\ i = Len(answer.items)
        /\ more = Replaced(answer.items, i, grown)
    BY <1>2, <1>4, <1>6, <1>7, <1>11 DEF item, more
  <2>2. grown.kind = kind /\ grown.pieces = Append(answer.items[i].pieces, piece)
    BY <1>5 DEF PieceAdded, item
  <2> HIDE DEF kind
  <2> QED BY <2>1, <2>2, PartsSaid, ChatPieceDelivered
<1>9. Arrives(said, e)  BY <1>3, <1>8, <1>10, <1>11 DEF Arrives
<1> QED BY <1>1, <1>9, Zenon DEF Arrival

LEMMA FinishCallArrives ==
  ASSUME StreamInv, PartsInv, NEW i \in DOMAIN answer.items, NEW undelivered \in BOOLEAN,
         FinishCall(i, undelivered)
  PROVE  Arrival
<1> DEFINE item == answer.items[i]
           pieces == IF undelivered THEN <<[sub |-> 0, word |-> 1]>> ELSE item.pieces
           finished == [item EXCEPT !.pieces = pieces, !.done = TRUE]
           said == [answer EXCEPT !.items[i] = finished]
           more == Replaced(answer.items, i, finished)
           e == Event("call_done", i, 0, Words(finished))
<1>1. pc = "receiving" /\ ~item.done /\ (undelivered => item.pieces = <<>>) /\ Deliver(said, e)
  BY DEF FinishCall, Receiving
<1>2. item \in Items /\ api # "chat"  BY <1>1, PartsSaid DEF ItemOK
<1>3. /\ finished \in Items /\ finished.kind = item.kind /\ finished.done
      /\ finished.pieces = pieces /\ finished.told = item.told
  <2>1. pieces \in Seq(Piece)  BY <1>2, FirstPiece DEF Items
  <2> HIDE DEF pieces
  <2> QED BY <1>2, <2>1 DEF Items
<1>4. \/ finished.pieces = item.pieces
      \/ item.pieces = <<>> /\ finished.pieces = <<[sub |-> 0, word |-> 1]>>
  BY <1>1, <1>3
<1>5. said.items = more  BY ItemsOfSaid DEF Replaced
<1> HIDE DEF item, pieces, finished, said, more, e
<1>6. Delivered(api, ids, answer.items, assembly, e, more)
  BY <1>1, <1>3, <1>4, PartsSaid, FinishDelivered DEF item, more, e
<1>7. Arrives(said, e)  BY <1>1, <1>2, <1>5, <1>6 DEF Arrives
<1> QED BY <1>1, <1>7, Zenon DEF Arrival

LEMMA SignArrives == ASSUME StreamInv, PartsInv, SignReasoning PROVE Arrival
<1> DEFINE i == Len(answer.items)
           item == answer.items[i]
           signed == [item EXCEPT !.signed = TRUE]
           said == [answer EXCEPT !.items[i].signed = TRUE]
           more == Replaced(answer.items, i, signed)
           e == Event("signed_done", i, 0, <<>>)
<1>1. /\ pc = "receiving" /\ i > 0 /\ Deliver(said, e) /\ api = "responses"
      /\ item.kind = "reasoning" /\ ~item.signed
  BY DEF SignReasoning, Receiving
<1>2. i \in DOMAIN answer.items
  <2>1. answer.items \in Seq(Items)  BY PartsSaid
  <2> QED BY <1>1, <2>1, LenProperties
<1>3. item \in Items  BY <1>2, PartsSaid
<1>4. /\ signed \in Items /\ signed.pieces = item.pieces /\ signed.kind = item.kind
      /\ signed.done = item.done /\ signed.told = item.told
  BY <1>3 DEF Items
<1>5. said.items = more
  <2>1. said = [answer EXCEPT !.items = [answer.items EXCEPT ![i] = signed]]
    OBVIOUS
  <2> HIDE DEF said, signed, i
  <2> QED BY <2>1, ItemsOfSaid DEF Replaced
<1> HIDE DEF i, item, signed, said, more, e
<1>6. Delivered(api, ids, answer.items, assembly, e, more)
  BY <1>1, <1>2, <1>4, PartsSaid, SignDelivered DEF item, more, e
<1>7. Arrives(said, e)  BY <1>1, <1>5, <1>6 DEF Arrives
<1> QED BY <1>1, <1>7, Zenon DEF Arrival

LEMMA RefuseArrives == ASSUME StreamInv, PartsInv, Refuse PROVE Arrival
<1> DEFINE said == [answer EXCEPT !.refused = TRUE]
           e == Event("refusal", 1, 0, <<>>)
<1>1. pc = "receiving" /\ Deliver(said, e)  BY DEF Refuse, Receiving
<1>2. said.items = answer.items  BY ItemsOfSaid
<1> HIDE DEF said, e
<1>3. Delivered(api, ids, answer.items, assembly, e, answer.items)
  BY PartsSaid, RefusalDelivered DEF e
<1>5. ChatDelivered(ids, answer.items, assembly, e, answer.items)
  BY ChatRefusalDelivered DEF e
<1>4. Arrives(said, e)  BY <1>1, <1>2, <1>3, <1>5 DEF Arrives
<1> QED BY <1>1, <1>4, Zenon DEF Arrival

\* Every step of the provider is an arrival.
LEMMA SomethingArrives ==
  ASSUME StreamInv, PartsInv
  PROVE  /\ \A kind \in Kinds : AddItem(kind) => Arrival
         /\ \A i \in DOMAIN answer.items, sub \in 0..MaxSub : AddPiece(i, sub) => Arrival
         /\ \A told \in BOOLEAN : AddCall(told) => Arrival
         /\ AddSealedReasoning \/ SignReasoning \/ Refuse => Arrival
         /\ \A i \in DOMAIN answer.items, undelivered \in BOOLEAN :
              FinishCall(i, undelivered) => Arrival
BY AddItemArrives, AddCallArrives, AddSealedArrives, AddPieceArrives, FinishCallArrives, SignArrives,
   RefuseArrives

LEMMA EndStreamParts == ASSUME StreamInv, PartsInv, EndStream PROVE PartsInv'
<1>1. /\ messages' = Append(messages, [role |-> "response", parts |-> assembly.parts])
      /\ UNCHANGED connection /\ UNCHANGED <<answer, assembly, collided>>
  BY DEF EndStream
<1>2. Last(messages').parts = assembly.parts  BY <1>1, MessagesGrow DEF StreamInv
<1> QED BY <1>1, <1>2 DEF PartsInv, connection

\* The other steps leave the answer as it is, or forget it.
LEMMA PartsUntouched ==
  ASSUME PartsInv, UNCHANGED connection, UNCHANGED <<answer, assembly>>,
         collided' \in BOOLEAN, collided => collided',
         pc' # "answered" \/ UNCHANGED <<pc, messages>>
  PROVE  PartsInv'
BY DEF PartsInv, connection

LEMMA PartsStepOK == StreamInv /\ PartsInv /\ [Next]_vars => PartsInv'
<1> SUFFICES ASSUME StreamInv, PartsInv, [Next]_vars PROVE PartsInv'
  OBVIOUS
<1>0. collided \in BOOLEAN  BY DEF PartsInv
<1>1. CASE UNCHANGED vars
  BY <1>0, <1>1, PartsUntouched DEF vars
<1>2. CASE RequestFails \/ StreamBreaks \/ ToolFails
  BY <1>2, FailParts DEF RequestFails, StreamBreaks, ToolFails, PartsInv
<1>3. CASE OpenStream
  BY <1>3, PartsForgotten DEF OpenStream, PartsInv
<1>4. CASE StartCalls
  <2>1. IdsRecur \in BOOLEAN  BY DEF IdsRecur
  <2>2. UNCHANGED connection /\ UNCHANGED <<answer, assembly>> /\ pc' # "answered"
        /\ collided' = (collided \/ IdsRecur)
    BY <1>4 DEF StartCalls
  <2> QED BY <1>0, <2>1, <2>2, PartsUntouched
<1>5. ASSUME NEW i \in DOMAIN calling, ReturnCall(i) PROVE PartsInv'
  BY <1>0, <1>5, PartsUntouched DEF ReturnCall
<1>6. CASE Succeed \/ Finish
  BY <1>0, <1>6, PartsUntouched DEF Succeed, Finish
<1>7. CASE AskAgain
  BY <1>0, <1>7, PartsUntouched, FailParts DEF AskAgain, PartsInv
<1> QED
  BY <1>1, <1>2, <1>3, <1>4, <1>5, <1>6, <1>7, SomethingArrives, ArrivalParts, EndStreamParts DEF Next

LEMMA PartsInOrder == Spec => []PartsInv
<1>1. Init => PartsInv  BY PartsInitOK
<1>2. StreamInv /\ PartsInv /\ [Next]_vars => PartsInv'  BY PartsStepOK
<1> QED BY <1>1, <1>2, RecordersInOrder, PTL DEF Spec

-----------------------------------------------------------------------------
(* Parts with their texts joined.                                          *)

LEMMA JoinTextsIsFold ==
  ASSUME NEW parts, IsList(parts)
  PROVE  JoinTexts(parts) = JoinedOf(<<>>, parts)
<1> DEFINE n == Len(parts)
           Join(joined, part) ==
             IF part.kind = "text" /\ joined # <<>> /\ Last(joined).kind = "text"
             THEN [joined EXCEPT ![Len(joined)].words = @ \o part.words]
             ELSE Append(joined, Part(part.kind, part.words, part.call))
           it == CHOOSE f : f = [s \in SUBSET DOMAIN parts |->
                   IF s = {} THEN <<>> ELSE Join(f[s \ {Max(s)}], parts[Max(s)])]
<1>1. JoinTexts(parts) = it[DOMAIN parts]
  BY DEF JoinTexts, FoldLeft, MapThenFoldSet
<1>2. n \in Nat /\ DOMAIN parts = 1..n  BY ListDomain
<1> HIDE DEF n
<1>3. PICK g : Computes(g, Fold("join"), <<>>, parts, n)  BY <1>2, FoldExists
<1>4. \A joined, part : Folded(Fold("join"), joined, part) = Join(joined, part)
  BY DEF Folded, Fold
<1> HIDE DEF Join
<1>5. g = [s \in SUBSET DOMAIN parts |->
             IF s = {} THEN <<>> ELSE Join(g[s \ {Max(s)}], parts[Max(s)])]
  BY <1>2, <1>3, <1>4 DEF Computes
<1>6. it = [s \in SUBSET DOMAIN parts |->
              IF s = {} THEN <<>> ELSE Join(it[s \ {Max(s)}], parts[Max(s)])]
  BY <1>5, Zenon
<1> HIDE DEF it
<1>7. Computes(it, Fold("join"), <<>>, parts, n)  BY <1>2, <1>4, <1>6 DEF Computes
<1>8. it[1..n] = FoldOf(Fold("join"), <<>>, parts, n)  BY <1>2, <1>7, FoldOfIs
<1> QED BY <1>1, <1>2, <1>8 DEF JoinedOf, n

LEMMA JoiningIs ==
  ASSUME NEW joined, NEW part
  PROVE  /\ part.kind = "text" /\ TextLast(joined) =>
              Joining(joined, part) = Grown(joined, part.words)
         /\ ~(part.kind = "text" /\ TextLast(joined)) =>
              Joining(joined, part) = Append(joined, Part(part.kind, part.words, part.call))
BY DEF Joining, Folded, Fold, TextLast, Grown

LEMMA LastJoined ==
  ASSUME NEW joined, JoinedOK(joined), joined # <<>>, NEW n, n = Len(joined)
  PROVE  /\ n \in 1..Len(joined) /\ n \in Nat \ {0} /\ Last(joined) = joined[n]
         /\ IsList(joined[n].words)
         /\ joined[n] = Part(joined[n].kind, joined[n].words, joined[n].call)
<1>1. IsList(joined) /\ n \in Nat  BY ListDomain DEF JoinedOK
<1>2. n # 0
  <2>1. ASSUME n = 0 PROVE FALSE
    <3>1. IsList(<<>>) /\ Len(joined) = Len(<<>>) /\ \A i \in 1..Len(joined) : joined[i] = <<>>[i]
      BY <2>1, EmptyList
    <3> QED BY <1>1, <3>1, SameList
  <2> QED BY <2>1
<1>3. n \in 1..Len(joined)  BY <1>1, <1>2
<1>4. Last(joined) = joined[n]  BY DEF Last
<1> QED BY <1>1, <1>2, <1>3, <1>4 DEF JoinedOK

LEMMA WordsAdded ==
  ASSUME NEW part, NEW words, part = Part(part.kind, part.words, part.call), part.kind = "text"
  PROVE  [part EXCEPT !.words = part.words \o words] = LongerText(part, words)
<1> DEFINE more == part.words \o words
           now == part.words
           call == part.call
<1>1. part = Part("text", now, call)  OBVIOUS
<1> HIDE DEF more, now, call
<1>2. [Part("text", now, call) EXCEPT !.words = more] = Part("text", more, call)
  BY DEF Part
<1> QED BY <1>1, <1>2 DEF more, call, LongerText

LEMMA JoinedMore ==
  ASSUME NEW s, JoinedOK(s), NEW x, Joinable(x), NEW t, TookIn(s, x, t)
  PROVE  JoinedOK(t) /\ (x.kind = "text" => TextLast(t))
<1> DEFINE n == Len(s)
           m == Len(t)
<1>0. /\ IsList(t) /\ n \in Nat /\ m \in Nat \ {0} /\ m <= n + 1 /\ t[m] = x
      /\ \A i \in 1..m : i # m => t[i] = s[i]
  BY ListDomain DEF TookIn
<1> HIDE DEF n, m
<1>1. \A i \in 1..m : i # m => i \in 1..n  BY <1>0
<1>2. ASSUME NEW i \in 1..m
      PROVE  t[i] = Part(t[i].kind, t[i].words, t[i].call) /\ IsList(t[i].words)
  <2>1. CASE i = m
    BY <1>0, <2>1 DEF Joinable
  <2>2. CASE i # m
    <3>1. s[i] = Part(s[i].kind, s[i].words, s[i].call) /\ IsList(s[i].words)
      BY <1>1, <2>2 DEF JoinedOK, n
    <3> QED BY <1>0, <2>2, <3>1
  <2> QED BY <2>1, <2>2
<1>3. t # <<>> /\ Last(t) = x
  <2>1. Len(t) # 0  BY <1>0 DEF m
  <2>2. Last(t) = t[m]  BY DEF Last, m
  <2> QED BY <1>0, <2>1, <2>2
<1> QED BY <1>0, <1>2, <1>3 DEF JoinedOK, TextLast, m

\* A text at the end grows.
LEMMA TextGrows ==
  ASSUME NEW joined, JoinedOK(joined), TextLast(joined), NEW words, IsList(words)
  PROVE  /\ JoinedOK(Grown(joined, words)) /\ TextLast(Grown(joined, words))
         /\ Len(Grown(joined, words)) = Len(joined)
         /\ Grown(joined, words) = Replaced(joined, Len(joined), LongerText(Last(joined), words))
<1> DEFINE n == Len(joined)
           last == joined[n]
           text == LongerText(last, words)
           grown == Grown(joined, words)
<1>1. /\ n \in 1..Len(joined) /\ n \in Nat \ {0} /\ Last(joined) = last /\ IsList(last.words)
      /\ last = Part(last.kind, last.words, last.call) /\ last.kind = "text"
  BY LastJoined DEF TextLast
<1>2. IsList(joined) /\ DOMAIN joined = 1..n  BY ListDomain DEF JoinedOK
<1>3. [last EXCEPT !.words = last.words \o words] = text
  <2> HIDE DEF last
  <2> QED BY <1>1, WordsAdded
<1>4. grown = [joined EXCEPT ![n] = [last EXCEPT !.words = last.words \o words]]
  BY DEF Grown
<1>5. grown = Replaced(joined, n, text)
  <2> HIDE DEF text, last, grown, n
  <2> QED BY <1>3, <1>4 DEF Replaced
<1>6. IsList(last.words \o words)
  <2> HIDE DEF last
  <2> QED BY <1>1, ConcatList
<1>7. text = Part(text.kind, text.words, text.call) /\ IsList(text.words) /\ text.kind = "text"
  BY <1>6 DEF Part, LongerText
<1> HIDE DEF text, grown, last, n
<1>8. /\ IsList(grown) /\ Len(grown) = Len(joined)
      /\ \A j \in 1..Len(joined) : grown[j] = IF j = n THEN text ELSE joined[j]
  BY <1>1, <1>2, <1>5, ExceptAt
<1>9. JoinedOK(grown) /\ TextLast(grown)
  <2>1. n = Len(joined) /\ n <= n + 1  BY <1>1 DEF n
  <2>2. grown[n] = text /\ \A i \in 1..n : i # n => grown[i] = joined[i]
    BY <1>1, <1>8, <2>1, SMTT(30)
  <2>3. TookIn(joined, text, grown)  BY <1>1, <1>2, <1>8, <2>1, <2>2 DEF TookIn
  <2>4. Joinable(text)  BY <1>7 DEF Joinable
  <2> QED BY <1>7, <2>3, <2>4, JoinedMore
<1>10. text = LongerText(Last(joined), words)  BY <1>1 DEF text
<1> QED BY <1>5, <1>8, <1>9, <1>10 DEF grown, n

LEMMA NewPart ==
  ASSUME NEW joined, JoinedOK(joined), NEW part, part = Part(part.kind, part.words, part.call),
         IsList(part.words)
  PROVE  /\ JoinedOK(Append(joined, part))
         /\ part.kind = "text" => TextLast(Append(joined, part))
<1> DEFINE n == Len(joined)
           m == n + 1
           more == Append(joined, part)
<1>1. IsList(joined) /\ n \in Nat /\ m \in Nat \ {0} /\ m <= n + 1
  BY ListDomain DEF JoinedOK
<1>2. /\ IsList(more) /\ m = Len(more) /\ more[m] = part
      /\ \A i \in 1..n : more[i] = joined[i]
  BY <1>1, AppendList
<1>3. \A i \in 1..m : i # m => more[i] = joined[i]
  <2>1. \A i \in 1..m : i # m => i \in 1..n
    <3> HIDE DEF n
    <3> QED BY <1>1
  <2> QED BY <1>2, <2>1
<1>4. TookIn(joined, part, more)
  <2>1. n = Len(joined)  OBVIOUS
  <2> HIDE DEF n, m, more
  <2> QED BY <1>1, <1>2, <1>3, <2>1 DEF TookIn
<1> HIDE DEF n, m, more
<1>5. JoinedOK(more) /\ (part.kind = "text" => TextLast(more))
  BY <1>4, JoinedMore DEF Joinable
<1> QED BY <1>5 DEF more

LEMMA PartJoined ==
  ASSUME NEW joined, JoinedOK(joined), NEW part, IsList(part.words)
  PROVE  JoinedOK(Joining(joined, part))
<1>1. CASE part.kind = "text" /\ TextLast(joined)
  <2>1. Joining(joined, part) = Grown(joined, part.words)  BY <1>1, JoiningIs
  <2> QED BY <1>1, <2>1, TextGrows
<1>2. CASE ~(part.kind = "text" /\ TextLast(joined))
  <2> DEFINE new == Part(part.kind, part.words, part.call)
  <2>1. Joining(joined, part) = Append(joined, new)  BY <1>2, JoiningIs
  <2>2. new = Part(new.kind, new.words, new.call) /\ IsList(new.words)  BY DEF Part
  <2> HIDE DEF new
  <2> QED BY <2>1, <2>2, NewPart
<1> QED BY <1>1, <1>2

\* A text as a part.
LEMMA TextIs == \A words : Text(words).kind = "text" /\ Text(words).words = words
                           /\ Text(words) = Part("text", words, 0) /\ Text(words).call = 0
BY DEF Text, Part

LEMMA TwoTexts ==
  ASSUME NEW joined, JoinedOK(joined), NEW first, NEW second, NEW whole, InTwo(first, second, whole)
  PROVE  Joining(Joining(joined, Text(first)), Text(second)) = Joining(joined, Text(whole))
<1> USE DEF InTwo
<1> DEFINE once == Joining(joined, Text(first))
           twice == Joining(once, Text(second))
           both == Joining(joined, Text(whole))
           n == Len(joined)
<1>1. IsList(whole)  BY ConcatList
<1>2. JoinedOK(once)  BY TextIs, PartJoined
<1>3. IsList(joined) /\ n \in Nat  BY ListDomain DEF JoinedOK
<1>4. CASE TextLast(joined)
  <2> DEFINE last == joined[n]
             a == LongerText(last, first)
             b == LongerText(last, whole)
  <2>1. once = Grown(joined, first) /\ both = Grown(joined, whole)
    BY <1>4, TextIs, JoiningIs
  <2>2. /\ n \in 1..Len(joined) /\ Last(joined) = last /\ IsList(last.words)
    <3>1. joined # <<>>  BY <1>4 DEF TextLast
    <3> QED BY <3>1, LastJoined
  <2> HIDE DEF once, both
  <2>3. /\ TextLast(once) /\ Len(once) = n
        /\ once = Replaced(joined, n, a)
    BY <1>4, <2>1, <2>2, TextGrows
  <2>4. both = Replaced(joined, n, b)  BY <1>1, <1>4, <2>1, <2>2, TextGrows
  <2>5. twice = Grown(once, second)  BY <2>3, TextIs, JoiningIs
  <2>6. Last(once) = a
    <3>1. once[n] = a
      <4> HIDE DEF a, n
      <4> QED BY <1>3, <2>2, <2>3, ExceptAt
    <3> QED BY <2>3, <3>1 DEF Last
  <2> HIDE DEF twice, a
  <2>7. twice = Replaced(once, n, LongerText(a, second))
    BY <1>2, <2>3, <2>5, <2>6, TextGrows
  <2>8. LongerText(a, second) = b
    <3> DEFINE words == last.words
    <3>1. (words \o first) \o second = words \o whole
      <4> HIDE DEF words
      <4>1. IsList(words)  BY <2>2 DEF words
      <4> QED BY <4>1, ConcatLists
    <3> QED BY <3>1 DEF LongerText, Part, a
  <2> HIDE DEF b, n, last
  <2>9. twice = both  BY <2>3, <2>4, <2>7, <2>8 DEF Replaced
  <2> QED BY <2>9 DEF once, twice, both
<1>5. CASE ~TextLast(joined)
  <2> DEFINE m == n + 1
  <2>1. once = Append(joined, Text(first)) /\ both = Append(joined, Text(whole))
    <3>1. Text(first) = Part(Text(first).kind, Text(first).words, Text(first).call)
          /\ Text(whole) = Part(Text(whole).kind, Text(whole).words, Text(whole).call)
      BY TextIs
    <3> QED BY <1>5, <3>1, JoiningIs
  <2> HIDE DEF once, both
  <2>2. /\ Len(once) = m /\ once[m] = Text(first) /\ IsList(once)
        /\ \A i \in 1..n : once[i] = joined[i]
    BY <1>3, <2>1, AppendList
  <2>3. /\ Len(both) = m /\ both[m] = Text(whole) /\ IsList(both)
        /\ \A i \in 1..n : both[i] = joined[i]
    BY <1>3, <2>1, AppendList
  <2>4. m \in 1..Len(once) /\ \A i \in 1..m : (i \in 1..n /\ i # m) \/ i = m
    <3> HIDE DEF n
    <3> QED BY <1>3, <2>2
  <2> HIDE DEF n, m
  <2>5. TextLast(once)
    <3>1. Text(first) = Part(Text(first).kind, Text(first).words, Text(first).call)
      BY TextIs
    <3> QED BY <2>1, <3>1, TextIs, NewPart
  <2>6. twice = Grown(once, second)  BY <2>5, TextIs, JoiningIs
  <2> HIDE DEF twice
  <2>7. Last(once) = Text(first)  BY <2>2 DEF Last
  <2>8. twice = Replaced(once, m, LongerText(Text(first), second))
    BY <1>2, <2>2, <2>5, <2>6, <2>7, TextGrows
  <2>9. LongerText(Text(first), second) = Text(whole)  BY DEF LongerText, Text, Part
  <2>10. twice = Replaced(once, m, Text(whole))  BY <2>8, <2>9
  <2>11. /\ IsList(twice) /\ Len(twice) = Len(once)
         /\ \A j \in 1..Len(once) : twice[j] = IF j = m THEN Text(whole) ELSE once[j]
    BY <2>2, <2>4, <2>10, ExceptAt
  <2>12. \A j \in 1..Len(twice) : twice[j] = both[j]  BY <2>2, <2>3, <2>4, <2>11
  <2>13. twice = both  BY <2>2, <2>3, <2>11, <2>12, SameList
  <2> QED BY <2>13 DEF twice, both, once
<1> QED BY <1>4, <1>5

LEMMA SamePartsJoined ==
  ASSUME NEW s, NEW t, SameParts(s, t), NEW before
  PROVE  JoinedOf(before, s) = JoinedOf(before, t)
<1> DEFINE n == Len(s)
           S(k) == FoldOf(Fold("join"), before, s, k)
           T(k) == FoldOf(Fold("join"), before, t, k)
           Good == {k \in 0..n : S(k) = T(k)}
<1>1. n \in Nat /\ n = Len(t)  BY ListDomain DEF SameParts
<1>2. 0 \in Good
  <2>1. S(0) = T(0)  BY FoldOfNone
  <2> HIDE DEF S, T, n
  <2> QED BY <1>1, <2>1
<1>3. ASSUME NEW k \in 1..n, k - 1 \in Good PROVE k \in Good
  <2> DEFINE j == k - 1
             was == S(j)
  <2>1. j \in Nat /\ k = j + 1 /\ k \in 0..n /\ j \in Good  BY <1>1, <1>3
  <2> HIDE DEF j
  <2>2. S(k) = Folded(Fold("join"), S(j), s[k]) /\ T(k) = Folded(Fold("join"), T(j), t[k])
    BY <2>1, FoldOfNext
  <2>3. S(j) = T(j)  BY <2>1
  <2>4. s[k].kind = t[k].kind /\ s[k].words = t[k].words /\ s[k].call = t[k].call
    BY DEF SameParts
  <2> HIDE DEF was, S, T, n
  <2>5. Folded(Fold("join"), S(j), s[k]) = Folded(Fold("join"), S(j), t[k])
    BY <2>4 DEF Folded, Fold
  <2>6. S(k) = T(k)  BY <2>2, <2>3, <2>5
  <2> QED BY <2>1, <2>6
<1>4. n \in Good
  <2> HIDE DEF Good
  <2> QED BY <1>1, <1>2, <1>3, UpTo
<1> QED BY <1>1, <1>4 DEF JoinedOf

LEMMA PartsJoinedOK ==
  ASSUME NEW before, JoinedOK(before), NEW s, IsList(s), \A i \in 1..Len(s) : IsList(s[i].words)
  PROVE  \A k \in 0..Len(s) : JoinedOK(FoldOf(Fold("join"), before, s, k))
<1> TAKE n \in 0..Len(s)
<1> DEFINE S(k) == FoldOf(Fold("join"), before, s, k)
           Good == {k \in 0..n : JoinedOK(S(k))}
<1>1. n \in Nat /\ Len(s) \in Nat /\ \A k \in 1..n : k \in 1..Len(s)  BY ListDomain
<1>2. 0 \in Good
  <2>1. S(0) = before  BY FoldOfNone
  <2> HIDE DEF S
  <2> QED BY <1>1, <2>1
<1>3. ASSUME NEW k \in 1..n, k - 1 \in Good PROVE k \in Good
  <2> DEFINE j == k - 1
  <2>1. j \in Nat /\ k = j + 1 /\ k \in 0..n /\ j \in Good  BY <1>1, <1>3
  <2> HIDE DEF j
  <2>2. S(k) = Joining(S(j), s[k])  BY <2>1, FoldOfNext DEF Joining
  <2>3. JoinedOK(S(j)) /\ IsList(s[k].words)  BY <1>1, <2>1
  <2> HIDE DEF S
  <2> QED BY <2>1, <2>2, <2>3, PartJoined
<1>4. n \in Good
  <2> HIDE DEF Good
  <2> QED BY <1>1, <1>2, <1>3, UpTo
<1> QED BY <1>4

LEMMA OnePartJoined ==
  ASSUME NEW before, NEW s, IsList(s), Len(s) = 1, NEW part,
         s[1].kind = part.kind, s[1].words = part.words, s[1].call = part.call
  PROVE  JoinedOf(before, s) = Joining(before, part)
<1>1. FoldOf(Fold("join"), before, s, 1) = Folded(Fold("join"), FoldOf(Fold("join"), before, s, 0), s[1])
  <2>1. 0 \in Nat /\ 1 = 0 + 1  OBVIOUS
  <2> QED BY <2>1, FoldOfNext
<1>2. FoldOf(Fold("join"), before, s, 0) = before  BY FoldOfNone
<1>3. Folded(Fold("join"), before, s[1]) = Folded(Fold("join"), before, part)
  BY DEF Folded, Fold
<1> QED BY <1>1, <1>2, <1>3 DEF JoinedOf, Joining

LEMMA MessageList ==
  ASSUME NEW item \in Items
  PROVE  /\ IsList(MessageParts(item)) /\ Len(MessageParts(item)) = Subs(item)
         /\ \A s \in 1..Subs(item) : MessageParts(item)[s] = Part("text", WordsOf(item, s - 1), 0)
         /\ \A s : IsList(WordsOf(item, s))
<1> DEFINE f == MessageParts(item)
           n == Subs(item)
<1>1. n \in Nat /\ IsList(item.pieces)  BY SubsOf
<1>2. DOMAIN f = 1..n /\ f = [i \in 1..n |-> f[i]]
      /\ \A s \in 1..n : f[s] = Part("text", WordsOf(item, s - 1), 0)
  BY DEF MessageParts
<1> HIDE DEF f, n
<1> QED BY <1>1, <1>2, MappedList, WordsAreList DEF f, n

LEMMA ReasoningList ==
  ASSUME NEW item \in Items, item.pieces # <<>>
  PROVE  /\ IsList(ReasoningParts(item)) /\ Len(ReasoningParts(item)) = Subs(item)
         /\ \A s \in 1..Subs(item) :
              ReasoningParts(item)[s] = Part("thinking", WordsOf(item, s - 1), 0)
<1> DEFINE f == ReasoningParts(item)
           n == Subs(item)
<1>1. n \in Nat  BY SubsOf
<1>2. DOMAIN f = 1..n /\ f = [i \in 1..n |-> f[i]]
      /\ \A s \in 1..n : f[s] = Part("thinking", WordsOf(item, s - 1), 0)
  BY DEF ReasoningParts
<1> HIDE DEF f, n
<1> QED BY <1>1, <1>2, MappedList DEF f, n

LEMMA OneIsList == ASSUME NEW x PROVE IsList(<<x>>) /\ Len(<<x>>) = 1 /\ <<x>>[1] = x
BY AppendConcat, EmptyList

\* The contents of a message, joined, are all of its words.
LEMMA MessageJoined ==
  ASSUME NEW before, JoinedOK(before), NEW known, NEW item \in Items, ItemOK(known, item),
         item.kind = "message"
  PROVE  JoinedOf(before, MessageParts(item)) = Joining(before, Text(Words(item)))
<1> DEFINE n == Subs(item)
           parts == MessageParts(item)
           all == Contents(item)
           J(k) == FoldOf(Fold("join"), before, parts, k)
           Good == {k \in 0..n : k = 0 \/ J(k) = Joining(before, Text(Flat(all, k)))}
<1>1. /\ n \in Nat /\ n > 0 /\ Words(item) = Flat(all, n)  BY SubsOf DEF ItemOK
<1>2. \A s : IsList(WordsOf(item, s))  BY MessageList
<1>3. \A s \in 1..n : parts[s] = Text(WordsOf(item, s - 1)) /\ all[s] = WordsOf(item, s - 1)
  <2>1. \A s \in 1..n : parts[s] = Part("text", WordsOf(item, s - 1), 0)
    BY MessageList
  <2>2. \A s \in 1..n : all[s] = WordsOf(item, s - 1)  BY DEF Contents
  <2> QED BY <2>1, <2>2 DEF Text
<1>4. Len(parts) = n  BY MessageList
<1> HIDE DEF n, parts, all
<1>5. 0 \in Good  BY <1>1
<1>6. ASSUME NEW k \in 1..n, k - 1 \in Good PROVE k \in Good
  <2> DEFINE j == k - 1
             words == WordsOf(item, j)
             earlier == Flat(all, j)
             whole == Flat(all, k)
  <2>1. j \in Nat /\ k = j + 1 /\ k \in 0..n /\ j \in Good /\ k \in Nat \ {0} /\ j \in 0..n
    BY <1>1, <1>6
  <2>2. parts[k] = Text(words) /\ all[k] = words /\ IsList(words)  BY <1>2, <1>3
  <2>3. whole = earlier \o words
    <3>1. Flat(all, k) = Flat(all, k - 1) \o all[k]  BY <2>1, FlatNext
    <3> QED BY <2>2, <3>1
  <2>4. IsList(earlier)
    <3>1. \A i \in 1..n : IsList(all[i])  BY <1>2, <1>3
    <3> QED BY <1>1, <2>1, <3>1, FlatList
  <2> HIDE DEF words
  <2>5. J(k) = Joining(J(j), Text(words))
    <3>1. FoldOf(Fold("join"), before, parts, k)
            = Folded(Fold("join"), FoldOf(Fold("join"), before, parts, j), parts[k])
      <4> HIDE DEF j
      <4> QED BY <2>1, FoldOfNext
    <3> QED BY <2>2, <3>1 DEF Joining
  <2>6. CASE j = 0
    <3>1. J(0) = before  BY FoldOfNone
    <3>2. Flat(all, 0) = <<>>  BY FlatNone
    <3> HIDE DEF whole, j, J
    <3>3. whole = words  BY <2>2, <2>3, <2>6, <3>2, EmptyList, ConcatLists
    <3> QED BY <2>1, <2>5, <2>6, <3>1, <3>3 DEF J, whole
  <2>7. CASE j # 0
    <3>1. J(j) = Joining(before, Text(earlier))  BY <2>1, <2>7
    <3> HIDE DEF j, J, whole, earlier
    <3>2. Joining(Joining(before, Text(earlier)), Text(words)) = Joining(before, Text(whole))
      <4>1. InTwo(earlier, words, whole)  BY <2>2, <2>3, <2>4 DEF InTwo
      <4> QED BY <4>1, TwoTexts
    <3>3. J(k) = Joining(before, Text(whole))  BY <2>5, <3>1, <3>2
    <3> QED BY <2>1, <3>3 DEF J, whole
  <2> QED BY <2>6, <2>7
<1>7. n \in Good
  <2> HIDE DEF Good
  <2> QED BY <1>1, <1>5, <1>6, UpTo
<1>8. JoinedOf(before, parts) = J(n)  BY <1>4 DEF JoinedOf
<1> HIDE DEF J
<1>9. J(n) = Joining(before, Text(Flat(all, n)))  BY <1>1, <1>7 DEF J
<1> QED BY <1>1, <1>8, <1>9 DEF parts

\* An item, joined, is the same streamed as whole.
LEMMA ItemJoined ==
  ASSUME NEW known, NEW labelled, NEW i, NEW item \in Items, ItemOK(known, item), ~item.told,
         NEW before, JoinedOK(before)
  PROVE  /\ JoinedOf(before, StreamedParts(known, labelled, i, item))
              = JoinedOf(before, WholeParts(i, item))
         /\ JoinedOK(JoinedOf(before, StreamedParts(known, labelled, i, item)))
         /\ IsList(StreamedParts(known, labelled, i, item)) /\ IsList(WholeParts(i, item))
<1> DEFINE s == StreamedParts(known, labelled, i, item)
           t == WholeParts(i, item)
           w == Width(known, labelled, i, item)
<1>0. Streamed(item) = Words(item)  BY DEF Streamed
<1>1. /\ IsList(s) /\ w \in Nat /\ Len(s) = w
      /\ \A k \in 1..w : s[k] = PartAt(known, labelled, i, item, k)
  BY StreamedList
<1>2. item.kind \in Kinds /\ IsList(item.pieces)  BY SubsOf DEF Items
<1>3. JoinedOK(JoinedOf(before, s))
  <2>1. \A k \in 1..w : IsList(PartAt(known, labelled, i, item, k).words)
    <3>1. IsList(Words(item)) /\ \A k : IsList(WordsOf(item, k))
      BY <1>2, AllWords, WordsAreList
    <3> QED BY <1>0, <3>1 DEF PartAt
  <2>2. \A k \in 1..Len(s) : IsList(s[k].words)  BY <1>1, <2>1
  <2>3. Len(s) \in 0..Len(s)  BY <1>1
  <2> HIDE DEF s
  <2> QED BY <1>1, <2>2, <2>3, PartsJoinedOK DEF JoinedOf
<1>4. CASE item.kind = "function_call"
  <2>1. t = <<Part("call", Words(item), i)>>  BY <1>4 DEF WholeParts
  <2>2. w = 1  BY <1>4 DEF Width, IsOnePart
  <2>3. PartAt(known, labelled, i, item, 1).kind = "call"
        /\ PartAt(known, labelled, i, item, 1).words = Words(item)
        /\ PartAt(known, labelled, i, item, 1).call = i
    BY <1>0, <1>4 DEF PartAt, PartKind, IsOnePart
  <2> HIDE DEF s, t, w
  <2>4. IsList(t) /\ Len(t) = 1 /\ t[1] = Part("call", Words(item), i)
    BY <2>1, OneIsList
  <2>5. SameParts(s, t)
    <3>1. \A k \in 1..Len(s) : k = 1  BY <1>1, <2>2
    <3> QED BY <1>1, <2>2, <2>3, <2>4, <3>1 DEF SameParts, Part
  <2> QED BY <1>1, <1>3, <2>4, <2>5, SamePartsJoined DEF s, t
<1>5. CASE item.kind = "reasoning"
  <2>1. t = ReasoningParts(item) /\ ~IsOnePart(known, labelled, i, item.kind)
    BY <1>5 DEF WholeParts, IsOnePart
  <2>2. \A k : /\ PartAt(known, labelled, i, item, k).kind = "thinking"
               /\ PartAt(known, labelled, i, item, k).words = WordsOf(item, k - 1)
               /\ PartAt(known, labelled, i, item, k).call = 0
    BY <1>5, <2>1 DEF PartAt, PartKind
  <2>3. CASE item.pieces = <<>>
    <3>1. item.signed /\ w = 1  BY <1>5, <2>3 DEF ItemOK, Width
    <3>2. t = <<Part("thinking", <<>>, 0)>>  BY <2>1, <2>3, <3>1 DEF ReasoningParts
    <3>3. \A k : WordsOf(item, k) = <<>>  BY <2>3, NoPieces
    <3> HIDE DEF s, t, w
    <3>4. IsList(t) /\ Len(t) = 1 /\ t[1] = Part("thinking", <<>>, 0)
      BY <3>2, OneIsList
    <3>5. SameParts(s, t)
      <4>1. \A k \in 1..Len(s) : k = 1  BY <1>1, <3>1
      <4> QED BY <1>1, <2>2, <3>1, <3>3, <3>4, <4>1 DEF SameParts, Part
    <3> QED BY <1>1, <1>3, <3>4, <3>5, SamePartsJoined DEF s, t
  <2>4. CASE item.pieces # <<>>
    <3>1. w = Subs(item)  BY <2>1, <2>4 DEF Width
    <3>2. /\ IsList(t) /\ Len(t) = Subs(item)
          /\ \A k \in 1..Subs(item) : t[k] = Part("thinking", WordsOf(item, k - 1), 0)
      <4> HIDE DEF t
      <4> QED BY <2>1, <2>4, ReasoningList
    <3> HIDE DEF s, t, w
    <3>3. SameParts(s, t)  BY <1>1, <2>2, <3>1, <3>2 DEF SameParts, Part
    <3> QED BY <1>1, <1>3, <3>2, <3>3, SamePartsJoined DEF s, t
  <2> QED BY <2>3, <2>4
<1>6. CASE item.kind = "message"
  <2>1. t = MessageParts(item) /\ item.pieces # <<>>  BY <1>6 DEF WholeParts, ItemOK
  <2>2. /\ IsList(t) /\ Len(t) = Subs(item)
        /\ \A k \in 1..Subs(item) : t[k] = Part("text", WordsOf(item, k - 1), 0)
    <3> HIDE DEF t
    <3> QED BY <2>1, MessageList
  <2>3. CASE IsOnePart(known, labelled, i, item.kind)
    <3> DEFINE part == Text(Words(item))
    <3>1. w = 1 /\ PartAt(known, labelled, i, item, 1).kind = "text"
          /\ PartAt(known, labelled, i, item, 1).words = Words(item)
          /\ PartAt(known, labelled, i, item, 1).call = 0
      BY <1>0, <1>6, <2>3 DEF Width, PartAt, PartKind
    <3> HIDE DEF s, t, w
    <3>2. JoinedOf(before, t) = Joining(before, part)  BY <1>6, <2>1, MessageJoined
    <3>3. part.kind = "text" /\ part.words = Words(item) /\ part.call = 0  BY TextIs
    <3>4. s[1] = PartAt(known, labelled, i, item, 1) /\ Len(s) = 1  BY <1>1, <3>1
    <3>5. s[1].kind = part.kind /\ s[1].words = part.words /\ s[1].call = part.call
      BY <3>1, <3>3, <3>4
    <3> HIDE DEF part
    <3>6. JoinedOf(before, s) = Joining(before, part)
      BY <1>1, <3>4, <3>5, OnePartJoined
    <3> QED BY <1>1, <1>3, <2>2, <3>2, <3>6 DEF s, t
  <2>4. CASE ~IsOnePart(known, labelled, i, item.kind)
    <3>1. w = Subs(item)  BY <2>1, <2>4 DEF Width
    <3>2. \A k : /\ PartAt(known, labelled, i, item, k).kind = "text"
                 /\ PartAt(known, labelled, i, item, k).words = WordsOf(item, k - 1)
                 /\ PartAt(known, labelled, i, item, k).call = 0
      BY <1>6, <2>4 DEF PartAt, PartKind
    <3> HIDE DEF s, t, w
    <3>3. SameParts(s, t)  BY <1>1, <2>2, <3>1, <3>2 DEF SameParts, Part
    <3> QED BY <1>1, <1>3, <2>2, <3>3, SamePartsJoined DEF s, t
  <2> QED BY <2>3, <2>4
<1> QED BY <1>2, <1>4, <1>5, <1>6 DEF Kinds

\* An answer, joined, is the same streamed as whole.
LEMMA AnswerJoined ==
  ASSUME NEW known, NEW labelled, NEW items \in Seq(Items),
         \A i \in DOMAIN items : ItemOK(known, items[i]) /\ ~items[i].told
  PROVE  JoinTexts(PartsOf(known, labelled, items)) = JoinTexts(FlattenSeq(AllWhole(items)))
<1> DEFINE n == Len(items)
           streamed == AllParts(known, labelled, items)
           whole == AllWhole(items)
           S(k) == JoinedOf(<<>>, Flat(streamed, k))
           W(k) == JoinedOf(<<>>, Flat(whole, k))
           Good == {k \in 0..n : S(k) = W(k) /\ JoinedOK(S(k))}
<1>1. n \in Nat /\ DOMAIN items = 1..n  BY AllLists
<1>2. ASSUME NEW i \in 1..n
      PROVE  /\ items[i] \in Items /\ ItemOK(known, items[i]) /\ ~items[i].told
             /\ streamed[i] = StreamedParts(known, labelled, i, items[i])
             /\ whole[i] = WholeParts(i, items[i])
  <2>1. items[i] \in Items /\ streamed[i] = StreamedParts(known, labelled, i, items[i])
    BY AllLists
  <2>2. whole[i] = WholeParts(i, items[i])  BY <1>1 DEF AllWhole
  <2> QED BY <1>1, <2>1, <2>2
<1>3. JoinedOK(<<>>)  BY EmptyList DEF JoinedOK
<1>4. \A i \in 1..n : IsList(streamed[i]) /\ IsList(whole[i])
  <2> TAKE i \in 1..n
  <2> HIDE DEF streamed, whole
  <2> QED BY <1>2, <1>3, ItemJoined
<1>5. /\ IsList(whole) /\ Len(whole) = n
  <2>1. DOMAIN whole = 1..n /\ whole = [i \in 1..n |-> whole[i]]
    BY <1>1 DEF AllWhole
  <2> HIDE DEF whole, n
  <2> QED BY <1>1, <2>1, MappedList
<1> HIDE DEF n, streamed, whole
<1>6. \A k \in 0..n : IsList(Flat(streamed, k)) /\ IsList(Flat(whole, k))
  <2>1. \A k \in 0..n : IsList(Flat(streamed, k))  BY <1>1, <1>4, FlatList
  <2>2. \A k \in 0..n : IsList(Flat(whole, k))  BY <1>1, <1>4, FlatList
  <2> QED BY <2>1, <2>2
<1>7. 0 \in Good
  <2>1. Flat(streamed, 0) = <<>> /\ Flat(whole, 0) = <<>>  BY FlatNone
  <2>2. JoinedOf(<<>>, <<>>) = <<>>
    <3>1. Len(<<>>) = 0  OBVIOUS
    <3> QED BY <3>1, FoldOfNone DEF JoinedOf
  <2>3. S(0) = <<>> /\ W(0) = <<>>  BY <2>1, <2>2
  <2> HIDE DEF S, W
  <2> QED BY <1>1, <1>3, <2>3
<1>8. ASSUME NEW k \in 1..n, k - 1 \in Good PROVE k \in Good
  <2> DEFINE j == k - 1
             before == S(j)
             s == Flat(streamed, j)
             t == Flat(whole, j)
  <2>1. j \in Good /\ k \in 0..n /\ j \in 0..n /\ k \in Nat \ {0}  BY <1>1, <1>8
  <2>2. Flat(streamed, k) = s \o streamed[k] /\ Flat(whole, k) = t \o whole[k]
    BY <2>1, FlatNext
  <2>3. IsList(s) /\ IsList(t) /\ IsList(streamed[k]) /\ IsList(whole[k])
    BY <1>4, <1>6, <2>1
  <2>4. before = JoinedOf(<<>>, s) /\ before = JoinedOf(<<>>, t) /\ JoinedOK(before)
    BY <2>1
  <2> HIDE DEF j, before, s, t, S, W
  <2>5. S(k) = JoinedOf(before, streamed[k]) /\ W(k) = JoinedOf(before, whole[k])
    <3>1. JoinedOf(<<>>, s \o streamed[k]) = JoinedOf(JoinedOf(<<>>, s), streamed[k])
      BY <2>3, FoldOfConcat DEF JoinedOf
    <3>2. JoinedOf(<<>>, t \o whole[k]) = JoinedOf(JoinedOf(<<>>, t), whole[k])
      BY <2>3, FoldOfConcat DEF JoinedOf
    <3> QED BY <2>2, <2>4, <3>1, <3>2 DEF S, W
  <2>6. /\ JoinedOf(before, streamed[k]) = JoinedOf(before, whole[k])
        /\ JoinedOK(JoinedOf(before, streamed[k]))
    BY <1>2, <2>4, ItemJoined
  <2> QED BY <2>1, <2>5, <2>6
<1>9. n \in Good
  <2> HIDE DEF Good
  <2> QED BY <1>1, <1>7, <1>8, UpTo
<1>10. S(n) = W(n)  BY <1>9
<1>11. FlattenSeq(whole) = Flat(whole, n)  BY <1>4, <1>5, FlattenIsFlat
<1>12. PartsOf(known, labelled, items) = Flat(streamed, n)
  BY DEF PartsOf, streamed, n
<1>13. IsList(Flat(streamed, n)) /\ IsList(Flat(whole, n))  BY <1>1, <1>6
<1>14. JoinTexts(Flat(streamed, n)) = JoinTexts(Flat(whole, n))
  BY <1>10, <1>13, JoinTextsIsFold
<1> QED BY <1>11, <1>12, <1>14 DEF whole

LEMMA WholeAnswer ==
  ASSUME NEW said, ~said.refused
  PROVE  ProcessResponse(said) = FlattenSeq(AllWhole(said.items))
BY DEF ProcessResponse, AllWhole, WholeParts

\* In every run, over either API, with or without labels of the items, with any number
\* of items and pieces and however calls are interleaved: the parts that the deltas of
\* a complete answer were assembled to (_process_response_event, _process_chunk) are
\* those of the same answer received whole (_process_response), text by text, thought
\* by thought and call by call.  Excepted are a refused answer, runs in which ids recurred,
\* an answer of Chat Completions with thinking tags in its text, and one with a call
\* whose arguments came with the item that is added and in no delta.
THEOREM StreamedIsWhole == Spec => []PartsSurviveStreaming
<1>1. PartsInv => PartsSurviveStreaming
  <2> SUFFICES ASSUME PartsInv, pc = "answered", ~answer.refused, ~collided,
                      ~Tagged, \A i \in DOMAIN answer.items : ~answer.items[i].told
               PROVE  JoinTexts(Last(messages).parts) = JoinTexts(ProcessResponse(answer))
    BY DEF PartsSurviveStreaming
  <2>1. Last(messages).parts = PartsOf(api, ids, answer.items)
    BY DEF PartsInv, Tagged, IsTagged
  <2>2. ProcessResponse(answer) = FlattenSeq(AllWhole(answer.items))  BY WholeAnswer
  <2>3. answer.items \in Seq(Items) /\ \A i \in DOMAIN answer.items : ItemOK(api, answer.items[i])
    BY PartsSaid
  <2> QED BY <2>1, <2>2, <2>3, AnswerJoined
<1> QED BY <1>1, PartsInOrder, PTL

-----------------------------------------------------------------------------
(* The folds of the chat log and of messages.                              *)

LEMMA FoldIs ==
  ASSUME NEW fold, NEW base, NEW items, IsList(items), NEW g, FoldsOver(g, fold, base, items)
  PROVE  g[DOMAIN items] = FoldOf(fold, base, items, Len(items))
<1> DEFINE n == Len(items)
<1>1. n \in Nat /\ DOMAIN items = 1..n  BY ListDomain
<1> HIDE DEF n
<1>2. Computes(g, fold, base, items, n)  BY <1>1 DEF Computes, FoldsOver
<1>3. g[1..n] = FoldOf(fold, base, items, n)  BY <1>1, <1>2, FoldOfIs
<1> QED BY <1>1, <1>3 DEF n

LEMMA FoldFound ==
  ASSUME NEW fold, NEW base, NEW items, IsList(items)
  PROVE  \E g : FoldsOver(g, fold, base, items)
<1> DEFINE n == Len(items)
<1>1. n \in Nat /\ DOMAIN items = 1..n  BY ListDomain
<1> HIDE DEF n
<1>2. PICK g : Computes(g, fold, base, items, n)  BY <1>1, FoldExists
<1>3. FoldsOver(g, fold, base, items)  BY <1>1, <1>2 DEF Computes, FoldsOver
<1> QED BY <1>3, Zenon

LEMMA WordsInAreFold ==
  ASSUME NEW message, NEW kind, IsList(message.parts)
  PROVE  WordsIn(message, kind) = Gathered(message.parts, kind)
<1> DEFINE Collect(words, part) == IF part.kind = kind THEN words \o part.words ELSE words
           Is(f) == f = [s \in SUBSET DOMAIN message.parts |->
                           IF s = {} THEN <<>> ELSE Collect(f[s \ {Max(s)}], message.parts[Max(s)])]
           it == CHOOSE f : Is(f)
<1>1. WordsIn(message, kind) = it[DOMAIN message.parts]
  BY DEF WordsIn, FoldLeft, MapThenFoldSet
<1>2. \A words, part : Folded(Kinded(kind), words, part) = Collect(words, part)
  BY DEF Folded, Kinded
<1> HIDE DEF Collect
<1>3. \A f : FoldsOver(f, Kinded(kind), <<>>, message.parts) <=> Is(f)
  BY <1>2 DEF FoldsOver
<1> HIDE DEF Is
<1>4. Is(it)  BY <1>3, FoldFound, Zenon
<1> HIDE DEF it
<1> QED BY <1>1, <1>3, <1>4, FoldIs DEF Gathered

LEMMA CallsAreFold ==
  ASSUME NEW message, IsList(message.parts)
  PROVE  CallsOf(message) = CallsIn(message.parts)
<1> DEFINE Collect(calls, part) == IF part.kind = "call" THEN Append(calls, part.call) ELSE calls
           Is(f) == f = [s \in SUBSET DOMAIN message.parts |->
                           IF s = {} THEN <<>> ELSE Collect(f[s \ {Max(s)}], message.parts[Max(s)])]
           it == CHOOSE f : Is(f)
<1>1. CallsOf(message) = it[DOMAIN message.parts]
  BY DEF CallsOf, FoldLeft, MapThenFoldSet
<1>2. \A calls, part : Folded(Fold("calls"), calls, part) = Collect(calls, part)
  BY DEF Folded, Fold
<1> HIDE DEF Collect
<1>3. \A f : FoldsOver(f, Fold("calls"), <<>>, message.parts) <=> Is(f)
  BY <1>2 DEF FoldsOver
<1> HIDE DEF Is
<1>4. Is(it)  BY <1>3, FoldFound, Zenon
<1> HIDE DEF it
<1> QED BY <1>1, <1>3, <1>4, FoldIs DEF CallsIn

LEMMA UnseparatedIsFold ==
  ASSUME NEW words, IsList(words)
  PROVE  Unseparated(words) = Plain(words)
<1> DEFINE Keep(kept, word) == IF word = Break THEN kept ELSE Append(kept, word)
           Is(f) == f = [s \in SUBSET DOMAIN words |->
                           IF s = {} THEN <<>> ELSE Keep(f[s \ {Max(s)}], words[Max(s)])]
           it == CHOOSE f : Is(f)
<1>1. Unseparated(words) = it[DOMAIN words]
  BY DEF Unseparated, FoldLeft, MapThenFoldSet
<1>2. \A kept, word : Folded(Fold("unseparated"), kept, word) = Keep(kept, word)
  BY DEF Folded, Fold
<1> HIDE DEF Keep
<1>3. \A f : FoldsOver(f, Fold("unseparated"), <<>>, words) <=> Is(f)
  BY <1>2 DEF FoldsOver
<1> HIDE DEF Is
<1>4. Is(it)  BY <1>3, FoldFound, Zenon
<1> HIDE DEF it
<1> QED BY <1>1, <1>3, <1>4, FoldIs DEF Plain

LEMMA RoundsAreFold ==
  ASSUME NEW log, IsList(log)
  PROVE  Rounds(log) = RoundsOf(log)
<1> DEFINE AddContent(rounds, content) == 
             CASE IsAssistant(content) ->
                    Append(rounds, [content |-> [content EXCEPT !.text = Unseparated(@)], results |-> {}])
               [] ~IsAssistant(content) /\ content.calls # <<0>> ->
                    [rounds EXCEPT ![Len(rounds)].results = @ \cup {content}]
               [] OTHER -> rounds
           Is(f) == f = [s \in SUBSET DOMAIN log |->
                           IF s = {} THEN <<>> ELSE AddContent(f[s \ {Max(s)}], log[Max(s)])]
           it == CHOOSE f : Is(f)
<1>1. Rounds(log) = it[DOMAIN log]  BY DEF Rounds, FoldLeft, MapThenFoldSet
<1>2. \A rounds, content : Folded(Fold("rounds"), rounds, content) = AddContent(rounds, content)
  BY DEF Folded, Fold, Round
<1> HIDE DEF AddContent
<1>3. \A f : FoldsOver(f, Fold("rounds"), <<>>, log) <=> Is(f)
  BY <1>2 DEF FoldsOver
<1> HIDE DEF Is
<1>4. Is(it)  BY <1>3, FoldFound, Zenon
<1> HIDE DEF it
<1> QED BY <1>1, <1>3, <1>4, FoldIs DEF RoundsOf

LEMMA SpeechIsFold ==
  ASSUME NEW log, IsList(log)
  PROVE  MergedAssistantSpeech(log) = SpeechOf(log)
<1> DEFINE Merge(speech, content) == IF IsAssistant(content) THEN MergeSpeech(speech, content) ELSE speech
           Is(f) == f = [s \in SUBSET DOMAIN log |->
                           IF s = {} THEN <<>> ELSE Merge(f[s \ {Max(s)}], log[Max(s)])]
           it == CHOOSE f : Is(f)
<1>1. MergedAssistantSpeech(log) = it[DOMAIN log]
  BY DEF MergedAssistantSpeech, FoldLeft, MapThenFoldSet
<1>2. \A speech, content : Folded(Fold("speech"), speech, content) = Merge(speech, content)
  BY DEF Folded, Fold
<1> HIDE DEF Merge
<1>3. \A f : FoldsOver(f, Fold("speech"), <<>>, log) <=> Is(f)
  BY <1>2 DEF FoldsOver
<1> HIDE DEF Is
<1>4. Is(it)  BY <1>3, FoldFound, Zenon
<1> HIDE DEF it
<1> QED BY <1>1, <1>3, <1>4, FoldIs DEF SpeechOf

LEMMA AnswersAreFold ==
  ASSUME IsList(messages)
  PROVE  Answers = AnswersOf(messages)
<1> DEFINE Add(answers, message) == IF message.role = "response" THEN Append(answers, message) ELSE answers
           Is(f) == f = [s \in SUBSET DOMAIN messages |->
                           IF s = {} THEN <<>> ELSE Add(f[s \ {Max(s)}], messages[Max(s)])]
           it == CHOOSE f : Is(f)
<1>1. Answers = it[DOMAIN messages]  BY DEF Answers, FoldLeft, MapThenFoldSet
<1>2. \A answers, message : Folded(Fold("answers"), answers, message) = Add(answers, message)
  BY DEF Folded, Fold
<1> HIDE DEF Add
<1>3. \A f : FoldsOver(f, Fold("answers"), <<>>, messages) <=> Is(f)
  BY <1>2 DEF FoldsOver
<1> HIDE DEF Is
<1>4. Is(it)  BY <1>3, FoldFound, Zenon
<1> HIDE DEF it
<1> QED BY <1>1, <1>3, <1>4, FoldIs DEF AnswersOf

LEMMA TextsAreFold ==
  ASSUME IsList(messages)
  PROVE  AllTexts = TextsOf(messages)
<1> DEFINE Add(texts, message) == IF message.role = "response" THEN texts \o TextOf(message) ELSE texts
           Is(f) == f = [s \in SUBSET DOMAIN messages |->
                           IF s = {} THEN <<>> ELSE Add(f[s \ {Max(s)}], messages[Max(s)])]
           it == CHOOSE f : Is(f)
<1>1. AllTexts = it[DOMAIN messages]  BY DEF AllTexts, FoldLeft, MapThenFoldSet
<1>2. \A texts, message : Folded(Fold("texts"), texts, message) = Add(texts, message)
  BY DEF Folded, Fold
<1> HIDE DEF Add
<1>3. \A f : FoldsOver(f, Fold("texts"), <<>>, messages) <=> Is(f)
  BY <1>2 DEF FoldsOver
<1> HIDE DEF Is
<1>4. Is(it)  BY <1>3, FoldFound, Zenon
<1> HIDE DEF it
<1> QED BY <1>1, <1>3, <1>4, FoldIs DEF TextsOf

LEMMA EventsAreFold ==
  ASSUME NEW t, NEW events, IsList(events)
  PROVE  AgentEventsToChatDeltas(t, events) = Processed(t, events)
<1> DEFINE Process(turn0, e) == ProcessAgentEvent(turn0, e)
           Is(f) == f = [s \in SUBSET DOMAIN events |->
                           IF s = {} THEN t ELSE Process(f[s \ {Max(s)}], events[Max(s)])]
           it == CHOOSE f : Is(f)
<1>1. AgentEventsToChatDeltas(t, events) = it[DOMAIN events]
  BY DEF AgentEventsToChatDeltas, FoldLeft, MapThenFoldSet
<1>2. \A turn0, e : Folded(Fold("events"), turn0, e) = Process(turn0, e)
  BY DEF Folded, Fold
<1> HIDE DEF Process
<1>3. \A f : FoldsOver(f, Fold("events"), t, events) <=> Is(f)
  BY <1>2 DEF FoldsOver
<1> HIDE DEF Is
<1>4. Is(it)  BY <1>3, FoldFound, Zenon
<1> HIDE DEF it
<1> QED BY <1>1, <1>3, <1>4, FoldIs DEF Processed

LEMMA FoldOfLike ==
  ASSUME NEW fold, NEW base, NEW s, NEW t, NEW k \in Nat,
         \A i \in 1..k : \A r : Folded(fold, r, s[i]) = Folded(fold, r, t[i])
  PROVE  FoldOf(fold, base, s, k) = FoldOf(fold, base, t, k)
<1> DEFINE Good == {j \in 0..k : FoldOf(fold, base, s, j) = FoldOf(fold, base, t, j)}
<1>1. 0 \in Good  BY FoldOfNone
<1>2. ASSUME NEW j \in 1..k, j - 1 \in Good PROVE j \in Good
  <2>1. j - 1 \in Nat /\ j = j - 1 + 1  OBVIOUS
  <2>2. /\ FoldOf(fold, base, s, j) = Folded(fold, FoldOf(fold, base, s, j - 1), s[j])
        /\ FoldOf(fold, base, t, j) = Folded(fold, FoldOf(fold, base, t, j - 1), t[j])
    BY <2>1, FoldOfNext
  <2> QED BY <1>2, <2>2
<1>3. k \in Good
  <2> HIDE DEF Good
  <2> QED BY <1>1, <1>2, UpTo
<1> QED BY <1>3

LEMMA SameConcat ==
  ASSUME NEW u, NEW s, NEW t, IsList(u), IsList(s), IsList(t), Len(u) = Len(s) + Len(t),
         \A i \in 1..Len(s) : u[i] = s[i],
         \A i \in 1..Len(t) : u[Len(s) + i] = t[i]
  PROVE  u = s \o t
<1> DEFINE n == Len(s)
           m == Len(t)
           v == s \o t
<1>1. /\ n \in Nat /\ m \in Nat /\ IsList(v) /\ Len(v) = n + m
      /\ \A i \in 1..n : v[i] = s[i]
      /\ \A i \in 1..m : v[n + i] = t[i]
  BY ConcatList, ListDomain
<1>2. Len(u) = n + m /\ (\A i \in 1..n : u[i] = s[i]) /\ (\A i \in 1..m : u[n + i] = t[i])
  OBVIOUS
<1> HIDE DEF n, m, v
<1>3. ASSUME NEW i \in 1..n + m PROVE u[i] = v[i]
  <2>1. CASE i \in 1..n
    BY <1>1, <1>2, <2>1
  <2>2. CASE i \notin 1..n
    <3> DEFINE j == i - n
    <3>1. j \in 1..m /\ i = n + j  BY <1>1, <2>2
    <3> HIDE DEF j
    <3> QED BY <1>1, <1>2, <3>1
  <2> QED BY <2>1, <2>2
<1>4. u = v  BY <1>1, <1>2, <1>3, SameList
<1> QED BY <1>4 DEF v

-----------------------------------------------------------------------------
(* Words without the separator.                                            *)

LEMMA WordsAreKept ==
  ASSUME NEW base, IsList(base), NEW words, Spelled(words)
  PROVE  FoldOf(Fold("unseparated"), base, words, Len(words)) = base \o words
<1> DEFINE n == Len(words)
           b == Len(base)
           Kept0(k) == FoldOf(Fold("unseparated"), base, words, k)
           Good == {k \in 0..n : /\ IsList(Kept0(k)) /\ Len(Kept0(k)) = b + k
                                 /\ \A i \in 1..b : Kept0(k)[i] = base[i]
                                 /\ \A i \in 1..k : Kept0(k)[b + i] = words[i]}
<1>1. IsList(words) /\ n \in Nat /\ b \in Nat /\ \A i \in 1..n : words[i] # Break
  BY ListDomain DEF Spelled
<1>2. 0 \in Good  BY <1>1, FoldOfNone
<1>3. ASSUME NEW k \in 1..n, k - 1 \in Good PROVE k \in Good
  <2>1. k - 1 \in Nat /\ k = k - 1 + 1 /\ words[k] # Break  BY <1>1
  <2>2. Kept0(k) = Folded(Fold("unseparated"), Kept0(k - 1), words[k])
    BY <2>1, FoldOfNext
  <2>3. Kept0(k) = Append(Kept0(k - 1), words[k])  BY <2>1, <2>2 DEF Folded, Fold
  <2> DEFINE u == Kept0(k - 1)
             v == Kept0(k)
  <2>4. /\ IsList(u) /\ Len(u) = b + (k - 1)
        /\ \A i \in 1..b : u[i] = base[i]
        /\ \A i \in 1..k - 1 : u[b + i] = words[i]
    BY <1>3
  <2>5. v = Append(u, words[k])  BY <2>3
  <2> HIDE DEF u, v, b, n
  <2>6. /\ IsList(v) /\ Len(v) = Len(u) + 1 /\ v[Len(u) + 1] = words[k]
        /\ \A i \in 1..Len(u) : v[i] = u[i]
    BY <2>4, <2>5, AppendList
  <2>7. Len(v) = b + k /\ v[b + k] = words[k]  BY <1>1, <2>1, <2>4, <2>6
  <2>8. \A i \in 1..b : v[i] = base[i]  BY <1>1, <2>1, <2>4, <2>6
  <2>9. ASSUME NEW i \in 1..k PROVE v[b + i] = words[i]
    <3>1. CASE i = k
      BY <2>7, <3>1
    <3>2. CASE i # k
      <4>1. i \in 1..k - 1 /\ b + i \in 1..Len(u)  BY <1>1, <2>1, <2>4, <3>2
      <4> QED BY <2>4, <2>6, <4>1
    <3> QED BY <3>1, <3>2
  <2> QED BY <2>6, <2>7, <2>8, <2>9 DEF v, n
<1>4. n \in Good
  <2> HIDE DEF Good
  <2> QED BY <1>1, <1>2, <1>3, UpTo
<1> DEFINE all == Kept0(n)
<1>5. /\ IsList(all) /\ Len(all) = b + n
      /\ \A i \in 1..b : all[i] = base[i]
      /\ \A i \in 1..n : all[b + i] = words[i]
  BY <1>4
<1> HIDE DEF all
<1>6. all = base \o words  BY <1>1, <1>5, SameConcat
<1> QED BY <1>6 DEF all

LEMMA ResumedIs ==
  ASSUME NEW words, Spelled(words), NEW separated
  PROVE  /\ IsList(words) /\ Len(words) \in Nat
         /\ IsList(Resumed(separated, words))
         /\ separated => /\ Len(Resumed(separated, words)) = Len(words) + 1
                         /\ Resumed(separated, words)[1] = Break
                         /\ \A i \in 1..Len(words) : Resumed(separated, words)[i + 1] = words[i]
<1>1. IsList(words) /\ Len(words) \in Nat  BY ListDomain DEF Spelled
<1>2. CASE ~separated
  BY <1>1, <1>2 DEF Resumed
<1>3. CASE separated
  <2> DEFINE one == <<Break>>
  <2>1. IsList(one) /\ Len(one) = 1 /\ one[1] = Break  BY EmptyList, AppendConcat
  <2>2. Resumed(separated, words) = one \o words  BY <1>3 DEF Resumed
  <2> HIDE DEF one
  <2>3. /\ IsList(one \o words) /\ Len(one \o words) = Len(one) + Len(words)
        /\ \A i \in 1..Len(one) : (one \o words)[i] = one[i]
        /\ \A i \in 1..Len(words) : (one \o words)[Len(one) + i] = words[i]
    <3>1. IsList(one) /\ IsList(words)  BY <1>1, <2>1
    <3> QED BY <3>1, ConcatList
  <2> DEFINE whole == one \o words
             n == Len(words)
  <2>4. /\ IsList(whole) /\ Len(whole) = 1 + n /\ whole[1] = Break
        /\ \A i \in 1..n : whole[1 + i] = words[i]
    BY <2>1, <2>3
  <2>5. n \in Nat /\ whole = Resumed(separated, words)  BY <1>1, <2>2
  <2> HIDE DEF whole, n
  <2>6. Len(whole) = n + 1 /\ \A i \in 1..n : whole[i + 1] = words[i]  BY <2>4, <2>5
  <2> QED BY <1>1, <2>4, <2>5, <2>6 DEF n
<1> QED BY <1>2, <1>3

LEMMA PlainMore ==
  ASSUME NEW heard, IsList(heard), IsList(Plain(heard)), NEW words, Spelled(words), NEW separated
  PROVE  Plain(heard \o Resumed(separated, words)) = Plain(heard) \o words
<1> DEFINE fold == Fold("unseparated")
           known == Plain(heard)
           more == Resumed(separated, words)
<1>1. IsList(words) /\ IsList(more)  BY ResumedIs
<1>2. Plain(heard \o more) = FoldOf(fold, known, more, Len(more))
  <2> HIDE DEF more, fold, known
  <2> QED BY <1>1, FoldOfConcat DEF Plain, known, fold
<1> HIDE DEF known
<1>3. FoldOf(fold, known, more, Len(more)) = known \o words
  <2>1. CASE ~separated
    <3>1. more = words  BY <2>1 DEF Resumed
    <3> HIDE DEF more
    <3> QED BY <3>1, WordsAreKept DEF known
  <2>2. CASE separated
    <3> DEFINE one == <<Break>>
    <3>1. IsList(one) /\ Len(one) = 1 /\ one[1] = Break  BY EmptyList, AppendConcat
    <3>2. more = one \o words  BY <2>2 DEF Resumed
    <3> HIDE DEF one, more
    <3>3. FoldOf(fold, known, more, Len(more))
            = FoldOf(fold, FoldOf(fold, known, one, Len(one)), words, Len(words))
      <4> HIDE DEF fold
      <4>1. FoldOf(fold, known, one \o words, Len(one \o words))
              = FoldOf(fold, FoldOf(fold, known, one, Len(one)), words, Len(words))
        <5>1. IsList(one) /\ IsList(words)  BY <1>1, <3>1
        <5> QED BY <5>1, FoldOfConcat
      <4> QED BY <3>2, <4>1
    <3>4. FoldOf(fold, known, one, 1) = known
      <4>1. FoldOf(fold, known, one, 1) = Folded(fold, FoldOf(fold, known, one, 0), one[1])
        <5>1. 0 \in Nat /\ 1 = 0 + 1  OBVIOUS
        <5> HIDE DEF fold
        <5> QED BY <5>1, FoldOfNext
      <4>2. FoldOf(fold, known, one, 0) = known  BY FoldOfNone
      <4> QED BY <3>1, <4>1, <4>2 DEF Folded, Fold
    <3>5. FoldOf(fold, known, words, Len(words)) = known \o words
      BY WordsAreKept DEF known
    <3> HIDE DEF fold
    <3> QED BY <3>1, <3>3, <3>4, <3>5
  <2> QED BY <2>1, <2>2
<1> QED BY <1>2, <1>3 DEF known

LEMMA PlainIs ==
  ASSUME NEW words, Spelled(words), NEW separated
  PROVE  Plain(Resumed(separated, words)) = words
<1>1. Plain(<<>>) = <<>> /\ IsList(<<>>) /\ IsList(words) /\ IsList(Resumed(separated, words))
  BY FoldOfNone, EmptyList, ResumedIs DEF Plain
<1>2. Plain(<<>> \o Resumed(separated, words)) = <<>> \o words  BY <1>1, PlainMore
<1> QED BY <1>1, <1>2, ConcatLists

-----------------------------------------------------------------------------
(* The texts, thoughts and calls of parts as they grow.                    *)

LEMMA NoParts ==
  /\ PartsOK(<<>>)
  /\ TextIn(<<>>) = <<>> /\ ThoughtIn(<<>>) = <<>> /\ CallsIn(<<>>) = <<>>
<1>1. Len(<<>>) = 0 /\ IsList(<<>>) /\ 1..0 = {}  BY EmptyList
<1>2. TextIn(<<>>) = <<>> /\ ThoughtIn(<<>>) = <<>> /\ CallsIn(<<>>) = <<>>
  BY <1>1, FoldOfNone DEF TextIn, ThoughtIn, CallsIn, Gathered
<1>3. Spelled(<<>>)  BY <1>1 DEF Spelled
<1>4. CallsOK(<<>>)  BY <1>1 DEF CallsOK
<1> QED BY <1>1, <1>2, <1>3, <1>4 DEF PartsOK

LEMMA SpelledMore ==
  ASSUME NEW text, Spelled(text), NEW words, Spelled(words)
  PROVE  Spelled(text \o words)
<1> DEFINE n == Len(text)
           m == Len(words)
           all == text \o words
<1>1. /\ IsList(text) /\ IsList(words) /\ n \in Nat /\ m \in Nat
      /\ \A i \in 1..n : text[i] # Break
      /\ \A i \in 1..m : words[i] # Break
  BY ListDomain DEF Spelled
<1>2. /\ IsList(all) /\ Len(all) = n + m
      /\ \A i \in 1..n : all[i] = text[i]
      /\ \A i \in 1..m : all[n + i] = words[i]
  BY <1>1, ConcatList
<1> HIDE DEF n, m, all
<1>3. ASSUME NEW i \in 1..n + m PROVE all[i] # Break
  <2>1. CASE i \in 1..n
    BY <1>1, <1>2, <2>1
  <2>2. CASE i \notin 1..n
    <3> DEFINE j == i - n
    <3>1. j \in 1..m /\ i = n + j  BY <1>1, <2>2
    <3> HIDE DEF j
    <3> QED BY <1>1, <1>2, <3>1
  <2> QED BY <2>1, <2>2
<1>4. Spelled(all)  BY <1>2, <1>3 DEF Spelled
<1> QED BY <1>4 DEF all

\* Whatever adds words to parts leaves them as they should be.
LEMMA PartsGathered ==
  ASSUME NEW parts, PartsOK(parts), NEW more, IsList(more), more # <<>>,
         \A i \in 1..Len(more) :
           {"kind", "words", "call"} \subseteq DOMAIN more[i] /\ PartFits(more[i]),
         NEW kind, NEW words, IsList(words), kind = "text" => Spelled(words),
         Gathers(parts, more, kind, words),
         \/ CallsIn(more) = CallsIn(parts)
         \/ \E call : call # 0 /\ CallsIn(more) = Append(CallsIn(parts), call)
  PROVE  PartsOK(more) /\ Extends(parts, more, kind, words)
<1>1. /\ TextIn(more) = IF kind = "text" THEN TextIn(parts) \o words ELSE TextIn(parts)
      /\ ThoughtIn(more) = IF kind = "thinking" THEN ThoughtIn(parts) \o words ELSE ThoughtIn(parts)
  BY DEF Gathers, TextIn, ThoughtIn
<1>2. Extends(parts, more, kind, words)  BY <1>1 DEF Extends
<1>3. Spelled(TextIn(more))  BY <1>1, SpelledMore DEF PartsOK
<1>4. IsList(ThoughtIn(more))
  <2>1. IsList(ThoughtIn(parts))  BY DEF PartsOK
  <2> QED BY <1>1, <2>1, ConcatList
<1>5. CallsOK(CallsIn(more))
  <2> DEFINE old == CallsIn(parts)
             new == CallsIn(more)
  <2>1. CallsOK(old)  BY DEF PartsOK
  <2>2. new = old \/ \E call : call # 0 /\ new = Append(old, call)  OBVIOUS
  <2> HIDE DEF old, new
  <2>3. ASSUME NEW call, call # 0, new = Append(old, call) PROVE CallsOK(new)
    <3> DEFINE n == Len(old)
    <3>1. IsList(old) /\ n \in Nat /\ \A i \in 1..n : old[i] # 0
      BY <2>1, ListDomain DEF CallsOK
    <3>2. IsList(new) /\ Len(new) = n + 1 /\ new[n + 1] = call /\ \A i \in 1..n : new[i] = old[i]
      BY <2>3, <3>1, AppendList
    <3> HIDE DEF n
    <3>3. \A i \in 1..n + 1 : i \in 1..n \/ i = n + 1  BY <3>1
    <3> QED BY <2>3, <3>1, <3>2, <3>3 DEF CallsOK
  <2>4. CallsOK(new)  BY <2>1, <2>2, <2>3
  <2> QED BY <2>4 DEF new
<1> QED BY <1>2, <1>3, <1>4, <1>5 DEF PartsOK

LEMMA NewPartGathered ==
  ASSUME NEW parts, PartsOK(parts), NEW key, NEW part, PartFits(part),
         NEW more, more = Append(parts, Keyed(part, key))
  PROVE  PartsOK(more) /\ Extends(parts, more, part.kind, part.words)
<1> DEFINE n == Len(parts)
           new == Keyed(part, key)
<1>1. /\ {"kind", "words", "call"} \subseteq DOMAIN new
      /\ new.kind = part.kind /\ new.words = part.words /\ new.call = part.call
  BY DEF Keyed
<1>2. PartFits(new)  BY <1>1 DEF PartFits
<1>3. more = Append(parts, new)  OBVIOUS
<1> HIDE DEF new
<1>4. /\ IsList(parts) /\ n \in Nat /\ IsList(more) /\ Len(more) = n + 1
      /\ more[n + 1] = new /\ \A i \in 1..n : more[i] = parts[i]
  BY <1>3, ListDomain, AppendList DEF PartsOK
<1>5. more # <<>>
  <2>1. Len(more) # 0 /\ Len(<<>>) = 0  BY <1>4
  <2> QED BY <2>1
<1>6. \A fold : FoldOf(fold, <<>>, more, Len(more)) = Folded(fold, FoldOf(fold, <<>>, parts, Len(parts)), new)
  <2> TAKE fold
  <2>1. FoldOf(fold, <<>>, Append(parts, new), Len(parts) + 1)
          = Folded(fold, FoldOf(fold, <<>>, parts, Len(parts)), new)
    BY <1>4, FoldOfAppend
  <2> QED BY <1>3, <1>4, <2>1
<1>7. Gathers(parts, more, part.kind, part.words)
  <2>1. ASSUME NEW kind \in {"text", "thinking"}
        PROVE  Gathered(more, kind) = IF part.kind = kind THEN Gathered(parts, kind) \o part.words
                                      ELSE Gathered(parts, kind)
    <3>1. Gathered(more, kind) = Folded(Kinded(kind), Gathered(parts, kind), new)
      BY <1>6 DEF Gathered
    <3> QED BY <1>1, <3>1 DEF Folded, Kinded
  <2> QED BY <2>1 DEF Gathers
<1>8. \/ CallsIn(more) = CallsIn(parts)
      \/ \E call : call # 0 /\ CallsIn(more) = Append(CallsIn(parts), call)
  <2>1. CallsIn(more) = Folded(Fold("calls"), CallsIn(parts), new)
    BY <1>6 DEF CallsIn
  <2>2. CallsIn(more) = IF new.kind = "call" THEN Append(CallsIn(parts), new.call) ELSE CallsIn(parts)
    BY <2>1 DEF Folded, Fold
  <2>3. new.kind = "call" => new.call # 0  BY <1>2 DEF PartFits
  <2> QED BY <2>2, <2>3, Zenon
<1>9. \A i \in 1..Len(more) : {"kind", "words", "call"} \subseteq DOMAIN more[i] /\ PartFits(more[i])
  <2>1. \A i \in 1..n : {"kind", "words", "call"} \subseteq DOMAIN parts[i] /\ PartFits(parts[i])
    BY DEF PartsOK
  <2> HIDE DEF n
  <2>2. \A i \in 1..n + 1 : i \in 1..n \/ i = n + 1  BY <1>4
  <2> QED BY <1>1, <1>2, <1>4, <2>1, <2>2
<1>10. IsList(part.words) /\ (part.kind = "text" => Spelled(part.words))
  BY DEF PartFits
<1> QED BY <1>4, <1>5, <1>7, <1>8, <1>9, <1>10, PartsGathered

LEMMA GatheredList ==
  ASSUME NEW parts, NEW n \in Nat, \A i \in 1..n : IsList(parts[i].words), NEW kind
  PROVE  \A k \in 0..n : IsList(FoldOf(Kinded(kind), <<>>, parts, k))
<1> TAKE k \in 0..n
<1> DEFINE Good == {j \in 0..k : IsList(FoldOf(Kinded(kind), <<>>, parts, j))}
<1>1. 0 \in Good  BY FoldOfNone, EmptyList
<1>2. ASSUME NEW j \in 1..k, j - 1 \in Good PROVE j \in Good
  <2>1. j - 1 \in Nat /\ j = j - 1 + 1 /\ IsList(parts[j].words)  OBVIOUS
  <2> DEFINE before == FoldOf(Kinded(kind), <<>>, parts, j - 1)
             after == FoldOf(Kinded(kind), <<>>, parts, j)
  <2>2. after = Folded(Kinded(kind), before, parts[j]) /\ IsList(before)
    BY <1>2, <2>1, FoldOfNext
  <2> HIDE DEF before, after
  <2>3. after = IF parts[j].kind = kind THEN before \o parts[j].words ELSE before
    BY <2>2 DEF Folded, Kinded
  <2>4. IsList(after)  BY <2>1, <2>2, <2>3, ConcatList
  <2> QED BY <2>4 DEF after
<1>3. k \in Good
  <2> HIDE DEF Good
  <2> QED BY <1>1, <1>2, UpTo
<1> QED BY <1>3

LEMMA LongerPartIs ==
  ASSUME NEW parts, PartsOK(parts), NEW i \in DOMAIN parts,
         NEW words, IsList(words), parts[i].kind = "text" => Spelled(words),
         NEW more, more = Longer(parts, i, words)
  PROVE  /\ IsList(more) /\ Len(more) = Len(parts) /\ more # <<>>
         /\ i \in 1..Len(parts) /\ Len(parts) \in Nat
         /\ \A j \in 1..Len(parts) :
              /\ {"kind", "words", "call"} \subseteq DOMAIN more[j] /\ PartFits(more[j])
              /\ more[j].kind = parts[j].kind /\ more[j].call = parts[j].call
              /\ more[j].words = IF j = i THEN parts[j].words \o words ELSE parts[j].words
<1> DEFINE n == Len(parts)
           old == parts[i]
           new == [old EXCEPT !.words = @ \o words]
<1>1. /\ IsList(parts) /\ n \in Nat /\ i \in 1..n
      /\ \A j \in 1..n : {"kind", "words", "call"} \subseteq DOMAIN parts[j] /\ PartFits(parts[j])
  BY ListDomain DEF PartsOK
<1>2. more = Replaced(parts, i, new)  BY DEF Longer, Replaced
<1>3. /\ {"kind", "words", "call"} \subseteq DOMAIN new
      /\ new.kind = old.kind /\ new.call = old.call /\ new.words = old.words \o words
  BY <1>1
<1> HIDE DEF new
<1>4. PartFits(new)
  <2>1. PartFits(old) /\ (old.kind = "text" => Spelled(words))  BY <1>1
  <2> HIDE DEF old
  <2>2. IsList(old.words \o words)  BY <2>1, ConcatList DEF PartFits
  <2>3. old.kind = "text" => Spelled(old.words \o words)
    BY <2>1, SpelledMore DEF PartFits
  <2>4. old.kind = "call" => old.call # 0  BY <2>1 DEF PartFits
  <2> QED BY <1>3, <2>2, <2>3, <2>4 DEF PartFits
<1>5. IsList(more) /\ Len(more) = n /\ \A j \in 1..n : more[j] = IF j = i THEN new ELSE parts[j]
  <2> HIDE DEF n
  <2>1. IsList(parts) /\ i \in 1..Len(parts)  BY <1>1 DEF n
  <2> QED BY <1>2, <2>1, ExceptAt DEF n
<1>6. more # <<>>
  <2>1. Len(more) # 0 /\ Len(<<>>) = 0  BY <1>1, <1>5
  <2> QED BY <2>1
<1> QED BY <1>1, <1>3, <1>4, <1>5, <1>6

LEMMA MoreGathered ==
  ASSUME NEW parts, PartsOK(parts), NEW i \in DOMAIN parts, NEW part, PartFits(part),
         part.kind = "call" \/ part.words = <<>> \/ i = Len(parts), parts[i].kind = part.kind,
         NEW more, more = Longer(parts, i, part.words)
  PROVE  PartsOK(more) /\ Extends(parts, more, part.kind, part.words)
<1> DEFINE n == Len(parts)
           words == part.words
           kind == part.kind
<1>1. IsList(words) /\ (kind = "text" => Spelled(words))  BY DEF PartFits
<1>2. /\ IsList(more) /\ Len(more) = n /\ more # <<>> /\ i \in 1..n /\ n \in Nat
      /\ \A j \in 1..n :
           /\ {"kind", "words", "call"} \subseteq DOMAIN more[j] /\ PartFits(more[j])
           /\ more[j].kind = parts[j].kind /\ more[j].call = parts[j].call
           /\ more[j].words = IF j = i THEN parts[j].words \o words ELSE parts[j].words
  BY <1>1, LongerPartIs
<1>3. \A j \in 1..n : IsList(parts[j].words)  BY DEF PartsOK, PartFits
<1> HIDE DEF n, words, kind
<1>4. CallsIn(more) = CallsIn(parts)
  <2>1. \A j \in 1..n : \A r : Folded(Fold("calls"), r, more[j]) = Folded(Fold("calls"), r, parts[j])
    BY <1>2 DEF Folded, Fold
  <2>2. FoldOf(Fold("calls"), <<>>, more, n) = FoldOf(Fold("calls"), <<>>, parts, n)
    BY <1>2, <2>1, FoldOfLike
  <2> QED BY <1>2, <2>2 DEF CallsIn, n
<1>5. ASSUME NEW k \in {"text", "thinking"}
      PROVE  Gathered(more, k) = IF kind = k THEN Gathered(parts, k) \o words ELSE Gathered(parts, k)
  <2> DEFINE fold == Kinded(k)
             Said(s, m) == FoldOf(fold, <<>>, s, m)
  <2>1. Gathered(more, k) = Said(more, n) /\ Gathered(parts, k) = Said(parts, n)
    BY <1>2 DEF Gathered, n
  <2>2. \A j \in 1..n : \A r :
          Folded(fold, r, more[j]) =
            IF parts[j].kind = k THEN r \o more[j].words ELSE r
    BY <1>2 DEF Folded, Kinded
  <2>3. \A j \in 1..n : \A r :
          Folded(fold, r, parts[j]) =
            IF parts[j].kind = k THEN r \o parts[j].words ELSE r
    BY DEF Folded, Kinded
  <2>4. IsList(Said(parts, n)) /\ IsList(Said(parts, n - 1))
    <3>1. n \in 0..n /\ n - 1 \in 0..n  BY <1>2
    <3> QED BY <1>2, <1>3, <3>1, GatheredList
  <2>5. CASE kind # k \/ words = <<>>
    <3>1. ASSUME NEW j \in 1..n, NEW r PROVE Folded(fold, r, more[j]) = Folded(fold, r, parts[j])
      <4>1. CASE parts[j].kind # k
        BY <2>2, <2>3, <4>1
      <4>2. CASE parts[j].kind = k
        <5>1. j # i \/ words = <<>>  BY <2>5, <4>2 DEF kind
        <5>2. parts[j].words \o <<>> = parts[j].words
          BY <1>3, EmptyList, ConcatLists
        <5>3. more[j].words = parts[j].words  BY <1>2, <5>1, <5>2
        <5> QED BY <2>2, <2>3, <5>3
      <4> QED BY <4>1, <4>2
    <3>2. Said(more, n) = Said(parts, n)
      <4> HIDE DEF fold
      <4> QED BY <1>2, <3>1, FoldOfLike
    <3>3. words = <<>> => Said(parts, n) \o words = Said(parts, n)
      <4> HIDE DEF Said
      <4> QED BY <2>4, EmptyList, ConcatLists
    <3> HIDE DEF Said
    <3> QED BY <2>1, <2>5, <3>2, <3>3
  <2>6. CASE kind = k /\ words # <<>>
    <3>1. i = n  BY <2>6 DEF kind, words, n
    <3>2. n - 1 \in Nat /\ n = n - 1 + 1 /\ n \in 1..n  BY <1>2
    <3>3. /\ Said(more, n) = Folded(fold, Said(more, n - 1), more[n])
          /\ Said(parts, n) = Folded(fold, Said(parts, n - 1), parts[n])
      BY <3>2, FoldOfNext
    <3>4. Said(more, n - 1) = Said(parts, n - 1)
      <4>1. ASSUME NEW j \in 1..n - 1, NEW r PROVE Folded(fold, r, more[j]) = Folded(fold, r, parts[j])
        <5>1. j \in 1..n /\ more[j].words = parts[j].words  BY <1>2, <3>1, <3>2
        <5> QED BY <2>2, <2>3, <5>1
      <4> HIDE DEF fold
      <4> QED BY <3>2, <4>1, FoldOfLike
    <3> DEFINE before == Said(parts, n - 1)
               last == parts[n].words
    <3>5. parts[n].kind = k /\ more[n].words = last \o words
      BY <1>2, <2>6, <3>1, <3>2 DEF kind
    <3>6. Said(more, n) = before \o (last \o words) /\ Said(parts, n) = before \o last
      BY <2>2, <2>3, <3>2, <3>3, <3>4, <3>5
    <3>7. IsList(before) /\ IsList(last) /\ IsList(words)  BY <1>1, <1>3, <2>4, <3>2
    <3> HIDE DEF Said, before, last
    <3>8. (before \o last) \o words = before \o (last \o words)
      BY <3>7, ConcatLists
    <3> QED BY <2>1, <2>6, <3>6, <3>8
  <2> QED BY <2>5, <2>6
<1>6. Gathers(parts, more, kind, words)  BY <1>5 DEF Gathers
<1> QED BY <1>1, <1>2, <1>4, <1>6, PartsGathered DEF kind, words

\* Parts that differ in their ids only say the same.
LEMMA UntrackedSays ==
  ASSUME NEW parts, PartsOK(parts), NEW key, NEW new, new = Untracked(parts, key)
  PROVE  /\ PartsOK(new) /\ (new = <<>> <=> parts = <<>>)
         /\ TextIn(new) = TextIn(parts) /\ ThoughtIn(new) = ThoughtIn(parts)
<1> DEFINE n == Len(parts)
<1>1. /\ IsList(parts) /\ n \in Nat /\ DOMAIN parts = 1..n
      /\ \A i \in 1..n : {"kind", "words", "call"} \subseteq DOMAIN parts[i] /\ PartFits(parts[i])
  BY ListDomain DEF PartsOK
<1>2. IsList(new) /\ DOMAIN new = 1..n  BY <1>1, UntrackedList DEF Untracked
<1>3. Len(new) = n  BY <1>1, <1>2, ListDomain
<1>4. \A i \in 1..n : /\ {"kind", "words", "call"} \subseteq DOMAIN new[i]
                      /\ new[i].kind = parts[i].kind /\ new[i].words = parts[i].words
                      /\ new[i].call = parts[i].call
  BY <1>1 DEF Untracked
<1> HIDE DEF n
<1>5. \A i \in 1..n : PartFits(new[i])  BY <1>1, <1>4 DEF PartFits
<1>6. ASSUME NEW kind PROVE Gathered(new, kind) = Gathered(parts, kind)
  <2>1. \A i \in 1..n : \A r : Folded(Kinded(kind), r, new[i]) = Folded(Kinded(kind), r, parts[i])
    BY <1>4 DEF Folded, Kinded
  <2>2. FoldOf(Kinded(kind), <<>>, new, n) = FoldOf(Kinded(kind), <<>>, parts, n)
    BY <1>1, <2>1, FoldOfLike
  <2> QED BY <1>3, <2>2 DEF Gathered, n
<1>7. CallsIn(new) = CallsIn(parts)
  <2>1. \A i \in 1..n : \A r : Folded(Fold("calls"), r, new[i]) = Folded(Fold("calls"), r, parts[i])
    BY <1>4 DEF Folded, Fold
  <2>2. FoldOf(Fold("calls"), <<>>, new, n) = FoldOf(Fold("calls"), <<>>, parts, n)
    BY <1>1, <2>1, FoldOfLike
  <2> QED BY <1>3, <2>2 DEF CallsIn, n
<1>8. TextIn(new) = TextIn(parts) /\ ThoughtIn(new) = ThoughtIn(parts)
  BY <1>6 DEF TextIn, ThoughtIn
<1>9. PartsOK(new)  BY <1>2, <1>3, <1>4, <1>5, <1>7, <1>8 DEF PartsOK
<1>10. new = <<>> <=> parts = <<>>
  <2>1. IsList(<<>>) /\ Len(<<>>) = 0  BY EmptyList
  <2>2. \A list : IsList(list) /\ Len(list) = 0 => list = <<>>  BY <2>1, SameList
  <2> QED BY <1>1, <1>2, <1>3, <2>1, <2>2 DEF n
<1> QED BY <1>8, <1>9, <1>10

-----------------------------------------------------------------------------
(* What an event shows.                                                    *)

LEMMA RecordLooks ==
  ASSUME NEW t, NEW open, NEW needs, NEW seen, NEW pending, NEW log, NEW heard,
         Looks(t, open, needs, seen, pending, log, heard), NEW run
  PROVE  /\ Looks(RecordEvent(t), open, needs, seen, pending, log, heard)
         /\ Looks([t EXCEPT !.run = run], open, needs, seen, pending, log, heard)
         /\ Looks(Flush(t), open, needs, seen, Blank, Flushed(log, pending), heard)
BY DEF Looks, TurnFields, RecordEvent, Flush, Flushed

LEMMA DeltaLooks ==
  ASSUME NEW t, NEW open, NEW needs, NEW seen, NEW pending, NEW log, NEW heard,
         Looks(t, open, needs, seen, pending, log, heard), NEW result
  PROVE  /\ Looks(Emit(t, [type |-> "assistant"]), open, needs, seen, Blank, Flushed(log, pending), heard)
         /\ Looks(Emit(t, [type |-> "tool_result", result |-> result]),
                  open, needs, seen, Blank, Append(Flushed(log, pending), result), heard)
<1> DEFINE u == [t EXCEPT !.emitted = TRUE,
                          !.deltas = Record(@, "chat_delta"), !.run = Record(@, "chat_delta")]
           opening == [type |-> "assistant"]
           resulting == [type |-> "tool_result", result |-> result]
<1>1. Looks(u, open, needs, seen, pending, log, heard)  BY DEF Looks, TurnFields
<1>2. \A delta : Emit(t, delta) = AddDelta(u, delta)  BY DEF Emit
<1> HIDE DEF u
<1>3. Looks(Flush(u), open, needs, seen, Blank, Flushed(log, pending), heard)
  BY <1>1, RecordLooks
<1>4. Looks(Emit(t, opening), open, needs, seen, Blank, Flushed(log, pending), heard)
  <2>1. AddDelta(u, opening) = Flush(u)  BY DEF AddDelta
  <2> QED BY <1>2, <1>3, <2>1
<1>5. Looks(Emit(t, resulting), open, needs, seen, Blank, Append(Flushed(log, pending), result), heard)
  <2> DEFINE v == Flush(u)
  <2>1. AddDelta(u, resulting) = [v EXCEPT !.log = Append(@, result)]
    BY DEF AddDelta
  <2>2. Looks(v, open, needs, seen, Blank, Flushed(log, pending), heard)  BY <1>3
  <2> HIDE DEF v
  <2>3. Looks([v EXCEPT !.log = Append(@, result)],
              open, needs, seen, Blank, Append(Flushed(log, pending), result), heard)
    BY <2>2 DEF Looks, TurnFields
  <2> QED BY <1>2, <2>1, <2>3
<1> QED BY <1>4, <1>5

\* Words and calls go into the message that is being built.
LEMMA ContentLooks ==
  ASSUME NEW t, NEW open, NEW needs, NEW seen, NEW text, NEW thinking, NEW calls, NEW log, NEW heard,
         Looks(t, open, needs, seen, Assistant(text, thinking, calls), log, heard),
         NEW words, NEW call
  PROVE  /\ Looks(Emit(t, [type |-> "content", words |-> words]),
                  open, needs, seen, Assistant(text \o words, thinking, calls), log, heard \o words)
         /\ Looks(Emit(t, [type |-> "thinking", words |-> words]),
                  open, needs, seen, Assistant(text, thinking \o words, calls), log, heard)
         /\ Looks(Emit(t, [type |-> "call", call |-> call]),
                  open, needs, seen, Assistant(text, thinking, Append(calls, call)), log, heard)
<1> DEFINE u == [t EXCEPT !.emitted = TRUE,
                          !.deltas = Record(@, "chat_delta"), !.run = Record(@, "chat_delta")]
           pending == Assistant(text, thinking, calls)
<1>1. Looks(u, open, needs, seen, pending, log, heard)  BY DEF Looks, TurnFields
<1>2. \A delta : Emit(t, delta) = AddDelta(u, delta)  BY DEF Emit
<1> HIDE DEF u
<1>3. /\ [pending EXCEPT !.text = @ \o words] = Assistant(text \o words, thinking, calls)
      /\ [pending EXCEPT !.thinking = @ \o words] = Assistant(text, thinking \o words, calls)
      /\ [pending EXCEPT !.calls = Append(@, call)] = Assistant(text, thinking, Append(calls, call))
  <2>1. /\ pending.text = text /\ pending.thinking = thinking /\ pending.calls = calls
        /\ \A x : /\ [pending EXCEPT !.text = x] = Assistant(x, thinking, calls)
                 /\ [pending EXCEPT !.thinking = x] = Assistant(text, x, calls)
                 /\ [pending EXCEPT !.calls = x] = Assistant(text, thinking, x)
    BY DEF Assistant
  <2> HIDE DEF pending
  <2> QED BY <2>1
<1> HIDE DEF pending
<1>4. ASSUME NEW delta, delta = [type |-> "content", words |-> words]
      PROVE  Looks(Emit(t, delta), open, needs, seen, Assistant(text \o words, thinking, calls),
                   log, heard \o words)
  <2>1. AddDelta(u, delta) =
          [u EXCEPT !.pending = [u.pending EXCEPT !.text = @ \o words], !.heard = @ \o words]
    BY <1>4 DEF AddDelta
  <2>2. u.pending = pending /\ u.heard = heard  BY <1>1 DEF Looks
  <2>3. AddDelta(u, delta) =
          [u EXCEPT !.pending = Assistant(text \o words, thinking, calls), !.heard = heard \o words]
    BY <1>3, <2>1, <2>2
  <2> QED BY <1>1, <1>2, <2>3 DEF Looks, TurnFields
<1>5. ASSUME NEW delta, delta = [type |-> "thinking", words |-> words]
      PROVE  Looks(Emit(t, delta), open, needs, seen, Assistant(text, thinking \o words, calls),
                   log, heard)
  <2>1. AddDelta(u, delta) = [u EXCEPT !.pending = [u.pending EXCEPT !.thinking = @ \o words]]
    BY <1>5 DEF AddDelta
  <2>2. u.pending = pending  BY <1>1 DEF Looks
  <2>3. AddDelta(u, delta) = [u EXCEPT !.pending = Assistant(text, thinking \o words, calls)]
    BY <1>3, <2>1, <2>2
  <2> QED BY <1>1, <1>2, <2>3 DEF Looks, TurnFields
<1>6. ASSUME NEW delta, delta = [type |-> "call", call |-> call]
      PROVE  Looks(Emit(t, delta), open, needs, seen, Assistant(text, thinking, Append(calls, call)),
                   log, heard)
  <2>1. AddDelta(u, delta) = [u EXCEPT !.pending = [u.pending EXCEPT !.calls = Append(@, call)]]
    BY <1>6 DEF AddDelta
  <2>2. u.pending = pending  BY <1>1 DEF Looks
  <2>3. AddDelta(u, delta) = [u EXCEPT !.pending = Assistant(text, thinking, Append(calls, call))]
    BY <1>3, <2>1, <2>2
  <2> QED BY <1>1, <1>2, <2>3 DEF Looks, TurnFields
<1> QED BY <1>4, <1>5, <1>6

-----------------------------------------------------------------------------
(* The answer as it is shown.                                              *)

LEMMA OpenLooks ==
  ASSUME NEW t, NEW open, NEW needs, NEW seen, NEW pending, NEW log, NEW heard,
         Looks(t, open, needs, seen, pending, log, heard)
  PROVE  Looks(OpenAssistant(t), TRUE, needs, seen, Blank, Flushed(log, pending), heard)
<1> DEFINE u == Emit(t, [type |-> "assistant"])
<1>1. Looks(u, open, needs, seen, Blank, Flushed(log, pending), heard)
  BY DeltaLooks
<1>2. OpenAssistant(t) = [u EXCEPT !.open = TRUE]  BY DEF OpenAssistant
<1> HIDE DEF u
<1> QED BY <1>1, <1>2 DEF Looks, TurnFields

LEMMA ResultLooks ==
  ASSUME NEW t, NEW open, NEW needs, NEW seen, NEW pending, NEW log, NEW heard,
         Looks(t, open, needs, seen, pending, log, heard), NEW e
  PROVE  Looks(HandleToolResult(t, e), FALSE, needs \/ seen, FALSE, Blank,
               Append(Flushed(log, pending), ToolResult(e.call)), heard)
<1> DEFINE result == ToolResult(e.call)
           u == Emit(t, [type |-> "tool_result", result |-> result])
<1>1. HandleToolResult(t, e) =
        [u EXCEPT !.open = FALSE, !.needsSeparator = @ \/ t.textSeen, !.textSeen = FALSE]
  BY DEF HandleToolResult
<1> HIDE DEF result
<1>2. Looks(u, open, needs, seen, Blank, Append(Flushed(log, pending), result), heard)
  BY DeltaLooks
<1>3. t.textSeen = seen  BY DEF Looks
<1> HIDE DEF u
<1>4. Looks(HandleToolResult(t, e), FALSE, needs \/ seen, FALSE, Blank,
            Append(Flushed(log, pending), result), heard)
  BY <1>1, <1>2, <1>3 DEF Looks, TurnFields
<1> QED BY <1>4 DEF result

LEMMA OpenShows ==
  ASSUME NEW t, NEW had \in BOOLEAN, NEW log, NEW heard, IsList(heard), Before(t, had, log, heard)
  PROVE  Shows(OpenAssistant(t), had, <<>>, <<>>, log, heard)
<1>1. PICK open, thinking, known :
        /\ Looks(t, open, had, FALSE, Assistant(<<>>, thinking, <<>>), known, heard)
        /\ log = Flushed(known, Assistant(<<>>, thinking, <<>>))
  BY DEF Before
<1>2. Looks(OpenAssistant(t), TRUE, had, FALSE, Blank, log, heard)
  BY <1>1, OpenLooks
<1>3. Sep(had, <<>>) = <<>> /\ heard \o <<>> = heard
  BY EmptyList, ConcatLists DEF Sep
<1> QED BY <1>2, <1>3 DEF Shows, Blank, Looks

LEMMA SepMore ==
  ASSUME NEW had \in BOOLEAN, NEW text, IsList(text), NEW words, IsList(words), words # <<>>
  PROVE  /\ Sep(had, text \o words) = Sep(had, text) \o Resumed(text = <<>> /\ had, words)
         /\ text \o words # <<>>
         /\ IsList(Sep(had, text)) /\ IsList(Resumed(text = <<>> /\ had, words))
<1> DEFINE one == <<Break>>
           all == text \o words
<1>1. IsList(one) /\ IsList(<<>>)  BY EmptyList, AppendConcat
<1> HIDE DEF one
<1>2. all # <<>>
  <2> DEFINE n == Len(text)
             m == Len(words)
  <2>1. n \in Nat /\ m \in Nat /\ Len(all) = n + m  BY ListDomain, ConcatList
  <2>2. m # 0
    <3>1. words # <<>> /\ IsList(words) /\ IsList(<<>>) /\ Len(<<>>) = 0
      BY EmptyList
    <3>2. m = 0 => words = <<>>  BY <3>1, SameList
    <3> QED BY <3>1, <3>2
  <2>3. Len(all) # 0
    <3> HIDE DEF n, m, all
    <3> QED BY <2>1, <2>2
  <2>4. Len(<<>>) = 0  OBVIOUS
  <2> QED BY <2>3, <2>4
<1>3. \A separated : \A x : Resumed(separated, x) = IF separated THEN one \o x ELSE x
  BY DEF Resumed, one
<1>4. CASE text = <<>>
  <2>1. all = words  BY <1>4, ConcatLists
  <2>2. Sep(had, text) = <<>> /\ Sep(had, words) = Resumed(had, words)
    BY <1>4 DEF Sep
  <2>3. IsList(Resumed(had, words))  BY <1>1, <1>3, ConcatList
  <2> HIDE DEF all
  <2>4. <<>> \o Resumed(had, words) = Resumed(had, words)
    BY <1>1, <2>3, ConcatLists
  <2>5. Resumed(text = <<>> /\ had, words) = Resumed(had, words)
    BY <1>4 DEF Resumed
  <2> QED BY <1>1, <1>2, <2>1, <2>2, <2>3, <2>4, <2>5 DEF all
<1>5. CASE text # <<>>
  <2>1. Sep(had, text) = Resumed(had, text) /\ Sep(had, all) = Resumed(had, all)
    BY <1>2, <1>5 DEF Sep
  <2>2. Resumed(text = <<>> /\ had, words) = words  BY <1>5 DEF Resumed
  <2>3. (one \o text) \o words = one \o all /\ IsList(one \o text)
    BY <1>1, ConcatLists, ConcatList
  <2> HIDE DEF all
  <2>4. Resumed(had, all) = Resumed(had, text) \o words
    <3>1. CASE had
      BY <1>3, <2>3, <3>1
    <3>2. CASE ~had
      BY <1>3, <3>2 DEF all
    <3> QED BY <3>1, <3>2
  <2>5. IsList(Resumed(had, text))  BY <1>3, <2>3
  <2> QED BY <1>2, <2>1, <2>2, <2>4, <2>5 DEF all
<1> QED BY <1>4, <1>5

LEMMA EmitShows ==
  ASSUME NEW t, NEW had \in BOOLEAN, NEW text, IsList(text), NEW thinking, IsList(thinking),
         NEW log, NEW heard, IsList(heard), Shows(t, had, text, thinking, log, heard),
         NEW kind, NEW words, IsList(words)
  PROVE  Shows(EmitPart(t, kind, words), had,
               IF kind = "text" THEN text \o words ELSE text,
               IF kind = "thinking" THEN thinking \o words ELSE thinking, log, heard)
<1> DEFINE needs == text = <<>> /\ had
           seen == text # <<>>
           shown == Sep(had, text)
           more == Resumed(needs, words)
<1>1. Looks(t, TRUE, needs, seen, Assistant(shown, thinking, <<>>), log, heard \o shown)
  BY DEF Shows
<1>2. CASE kind = "text" /\ words # <<>>
  <2> DEFINE u == Emit(t, [type |-> "content", words |-> more])
  <2>1. ResumedTextSeparator(t, words) = more
    <3>1. t.needsSeparator = needs  BY <1>1 DEF Looks
    <3> QED BY <3>1 DEF ResumedTextSeparator, Resumed
  <2>2. EmitPart(t, kind, words) = [u EXCEPT !.textSeen = TRUE, !.needsSeparator = FALSE]
    BY <1>2, <2>1 DEF EmitPart
  <2> HIDE DEF needs, seen, shown, more
  <2>3. Looks(u, TRUE, needs, seen, Assistant(shown \o more, thinking, <<>>), log, (heard \o shown) \o more)
    BY <1>1, ContentLooks
  <2> HIDE DEF u
  <2>4. Looks(EmitPart(t, kind, words), TRUE, FALSE, TRUE, Assistant(shown \o more, thinking, <<>>), log,
              (heard \o shown) \o more)
    BY <2>2, <2>3 DEF Looks, TurnFields
  <2>5. /\ Sep(had, text \o words) = shown \o more /\ text \o words # <<>>
        /\ IsList(shown) /\ IsList(more)
    BY <1>2, SepMore DEF shown, more, needs
  <2>6. (heard \o shown) \o more = heard \o (shown \o more)  BY <2>5, ConcatLists
  <2>7. Looks(EmitPart(t, kind, words), TRUE, FALSE, TRUE, Assistant(Sep(had, text \o words), thinking, <<>>),
              log, heard \o Sep(had, text \o words))
    BY <2>4, <2>5, <2>6
  <2>8. Shows(EmitPart(t, kind, words), had, text \o words, thinking, log, heard)
    BY <2>5, <2>7 DEF Shows, Looks
  <2> QED BY <1>2, <2>8
<1>3. CASE kind = "thinking" /\ words # <<>>
  <2>1. EmitPart(t, kind, words) = Emit(t, [type |-> "thinking", words |-> words])
    BY <1>3 DEF EmitPart
  <2>2. Looks(EmitPart(t, kind, words), TRUE, needs, seen, Assistant(shown, thinking \o words, <<>>),
              log, heard \o shown)
    <3> HIDE DEF needs, seen, shown
    <3> QED BY <1>1, <2>1, ContentLooks
  <2>3. Shows(EmitPart(t, kind, words), had, text, thinking \o words, log, heard)
    BY <2>2 DEF Shows
  <2> QED BY <1>3, <2>3
<1>4. CASE kind \notin {"text", "thinking"} \/ words = <<>>
  <2>1. EmitPart(t, kind, words) = t  BY <1>4 DEF EmitPart
  <2>2. words = <<>> => text \o words = text /\ thinking \o words = thinking
    BY ConcatLists
  <2> QED BY <1>4, <2>1, <2>2
<1> QED BY <1>2, <1>3, <1>4

LEMMA RecordShows ==
  ASSUME NEW t, NEW had, NEW parts, NEW log, NEW heard, Showing(t, had, parts, log, heard)
  PROVE  Showing(RecordEvent(t), had, parts, log, heard)
<1>1. CASE parts = <<>>
  <2>1. Before(t, had, log, heard)  BY <1>1 DEF Showing
  <2>2. PICK open, thinking, known :
          /\ Looks(t, open, had, FALSE, Assistant(<<>>, thinking, <<>>), known, heard)
          /\ log = Flushed(known, Assistant(<<>>, thinking, <<>>))
    BY <2>1 DEF Before
  <2>3. Looks(RecordEvent(t), open, had, FALSE, Assistant(<<>>, thinking, <<>>), known, heard)
    BY <2>2, RecordLooks
  <2>4. Before(RecordEvent(t), had, log, heard)  BY <2>2, <2>3, Zenon DEF Before
  <2> QED BY <1>1, <2>4 DEF Showing
<1>2. CASE parts # <<>>
  <2> DEFINE text == TextIn(parts)
             thinking == ThoughtIn(parts)
             pending == Assistant(Sep(had, text), thinking, <<>>)
             said == heard \o Sep(had, text)
             needs == text = <<>> /\ had
             seen == text # <<>>
  <2>1. Looks(t, TRUE, needs, seen, pending, log, said)  BY <1>2 DEF Showing, Shows
  <2> HIDE DEF pending, said, needs, seen
  <2>2. Looks(RecordEvent(t), TRUE, needs, seen, pending, log, said)
    BY <2>1, RecordLooks
  <2> QED BY <1>2, <2>2 DEF Showing, Shows, pending, said, needs, seen
<1> QED BY <1>1, <1>2

LEMMA EventShows ==
  ASSUME NEW t, NEW had \in BOOLEAN, NEW parts, PartsOK(parts), NEW log, NEW heard, IsList(heard),
         Showing(t, had, parts, log, heard), NEW e, NEW more, Brings(parts, e, more)
  PROVE  Showing(ProcessAgentEvent(t, e), had, more, log, heard)
<1> DEFINE r == RecordEvent(t)
           opened == OpenAssistant(r)
           ready == IF parts = <<>> THEN opened ELSE r
           text == TextIn(parts)
           thinking == ThoughtIn(parts)
<1>1. Showing(r, had, parts, log, heard)  BY RecordShows
<1>2. IsList(parts) /\ IsList(text) /\ IsList(thinking)  BY DEF PartsOK, Spelled
<1>3. Len(parts) = 0 <=> parts = <<>>
  <2>1. IsList(<<>>) /\ Len(<<>>) = 0  BY EmptyList
  <2>2. Len(parts) = 0 => parts = <<>>  BY <1>2, <2>1, SameList
  <2> QED BY <2>1, <2>2
<1> HIDE DEF r
<1>4. ProcessAgentEvent(t, e) = EmitPart(ready, e.kind, e.words)
  <2>1. CASE e.type = "start"
    <3>1. ProcessAgentEvent(t, e) = HandlePartStart(r, e)
      BY <2>1 DEF ProcessAgentEvent, r
    <3>2. e.index = 0 <=> parts = <<>>  BY <1>3, <2>1 DEF Brings
    <3> QED BY <3>1, <3>2 DEF HandlePartStart
  <2>2. CASE e.type = "delta"
    <3>1. ProcessAgentEvent(t, e) = HandlePartDelta(r, e)
      BY <2>2 DEF ProcessAgentEvent, r
    <3>2. parts # <<>>  BY <2>2 DEF Brings
    <3>3. r.open = TRUE  BY <1>1, <3>2 DEF Showing, Shows, Looks
    <3> QED BY <3>1, <3>2, <3>3 DEF HandlePartDelta
  <2> QED BY <2>1, <2>2 DEF Brings
<1>5. Shows(ready, had, text, thinking, log, heard)
  <2>1. CASE parts = <<>>
    <3>1. Before(r, had, log, heard)  BY <1>1, <2>1 DEF Showing
    <3>2. Shows(opened, had, <<>>, <<>>, log, heard)  BY <3>1, OpenShows
    <3>3. text = <<>> /\ thinking = <<>>  BY <2>1, NoParts
    <3> HIDE DEF opened
    <3> QED BY <2>1, <3>2, <3>3
  <2>2. CASE parts # <<>>
    BY <1>1, <2>2 DEF Showing
  <2> QED BY <2>1, <2>2
<1> HIDE DEF ready
<1>6. /\ IsList(e.words) /\ more # <<>>
      /\ TextIn(more) = IF e.kind = "text" THEN text \o e.words ELSE text
      /\ ThoughtIn(more) = IF e.kind = "thinking" THEN thinking \o e.words ELSE thinking
  BY DEF Brings, Extends
<1> HIDE DEF text, thinking
<1>7. Shows(EmitPart(ready, e.kind, e.words), had,
            IF e.kind = "text" THEN text \o e.words ELSE text,
            IF e.kind = "thinking" THEN thinking \o e.words ELSE thinking, log, heard)
  BY <1>2, <1>5, <1>6, EmitShows
<1> QED BY <1>4, <1>6, <1>7 DEF Showing

\* No event, and one.
LEMMA FewEvents ==
  ASSUME NEW t, NEW e
  PROVE  /\ AgentEventsToChatDeltas(t, <<>>) = t
         /\ AgentEventsToChatDeltas(t, <<e>>) = ProcessAgentEvent(t, e)
<1>1. AgentEventsToChatDeltas(t, <<>>) = t
  <2>1. Processed(t, <<>>) = t
    <3>1. Len(<<>>) = 0  OBVIOUS
    <3> QED BY <3>1, FoldOfNone DEF Processed
  <2> QED BY <2>1, EmptyList, EventsAreFold
<1>2. AgentEventsToChatDeltas(t, <<e>>) = ProcessAgentEvent(t, e)
  <2> DEFINE one == <<e>>
  <2>1. IsList(one) /\ Len(one) = 1 /\ one[1] = e  BY OneIsList
  <2> HIDE DEF one
  <2>2. FoldOf(Fold("events"), t, one, 1) = ProcessAgentEvent(t, e)
    <3>1. 0 \in Nat /\ 1 = 0 + 1  OBVIOUS
    <3>2. FoldOf(Fold("events"), t, one, 1) = Folded(Fold("events"), FoldOf(Fold("events"), t, one, 0), one[1])
      BY <3>1, FoldOfNext
    <3>3. FoldOf(Fold("events"), t, one, 0) = t  BY FoldOfNone
    <3> QED BY <2>1, <3>2, <3>3 DEF Folded, Fold
  <2>3. AgentEventsToChatDeltas(t, one) = FoldOf(Fold("events"), t, one, Len(one))
    BY <2>1, EventsAreFold DEF Processed
  <2> QED BY <2>1, <2>2, <2>3 DEF one
<1> QED BY <1>1, <1>2

LEMMA UpdateShows ==
  ASSUME NEW t, NEW had \in BOOLEAN, NEW parts, PartsOK(parts), NEW log, NEW heard, IsList(heard),
         Showing(t, had, parts, log, heard), NEW update, Tells(parts, update), update.ok
  PROVE  /\ PartsOK(update.parts)
         /\ Showing(AgentEventsToChatDeltas(t, update.out), had, update.parts, log, heard)
<1>1. CASE update.parts = parts /\ update.out = <<>>
  BY <1>1, FewEvents
<1>2. ASSUME NEW e, NEW more, update.out = <<e>>, update.parts = more, PartsOK(more), Brings(parts, e, more)
      PROVE  /\ PartsOK(update.parts)
             /\ Showing(AgentEventsToChatDeltas(t, update.out), had, update.parts, log, heard)
  <2>1. Showing(ProcessAgentEvent(t, e), had, more, log, heard)  BY <1>2, EventShows
  <2> QED BY <1>2, <2>1, FewEvents
<1>3. ASSUME NEW key, NEW part, TellsOfNew(parts, update, key, part)
      PROVE  \E e, more : /\ update.out = <<e>> /\ update.parts = more
                          /\ PartsOK(more) /\ Brings(parts, e, more)
  <2> DEFINE e == Started(Len(parts) + 1, part)
             more == Append(parts, Keyed(part, key))
  <2>1. PartFits(part) /\ update.parts = more /\ update.out = <<e>>
    BY <1>3 DEF TellsOfNew
  <2>2. PartsOK(more) /\ Extends(parts, more, part.kind, part.words)
    BY <2>1, NewPartGathered
  <2>3. e.type = "start" /\ e.index = Len(parts) /\ e.kind = part.kind /\ e.words = part.words
    <3>1. Len(parts) \in Nat  BY ListDomain DEF PartsOK
    <3> QED BY <3>1 DEF Started
  <2> HIDE DEF e, more
  <2>4. Brings(parts, e, more)  BY <2>2, <2>3 DEF Brings
  <2> QED BY <2>1, <2>2, <2>4, Zenon
<1>4. ASSUME NEW i, NEW part, TellsOfMore(parts, update, i, part)
      PROVE  \E e, more : /\ update.out = <<e>> /\ update.parts = more
                          /\ PartsOK(more) /\ Brings(parts, e, more)
  <2> DEFINE e == Extended(i, part.kind, part.words)
             more == Longer(parts, i, part.words)
  <2>1. /\ i \in DOMAIN parts /\ PartFits(part) /\ update.parts = more /\ update.out = <<e>>
        /\ part.kind = "call" \/ part.words = <<>> \/ i = Len(parts)
        /\ parts[i].kind = part.kind
    BY <1>4 DEF TellsOfMore
  <2>2. PartsOK(more) /\ Extends(parts, more, part.kind, part.words)
    BY <2>1, MoreGathered
  <2>3. e.type = "delta" /\ parts # <<>> /\ e.kind = part.kind /\ e.words = part.words
    BY <2>1 DEF Extended
  <2> HIDE DEF e, more
  <2>4. Brings(parts, e, more)  BY <2>2, <2>3 DEF Brings
  <2> QED BY <2>1, <2>2, <2>4, Zenon
<1> QED BY <1>1, <1>2, <1>3, <1>4 DEF Tells

-----------------------------------------------------------------------------
(* Calls and their results.                                                *)

\* Only the event of a call adds to the ids.
LEMMA IdsKept ==
  ASSUME NEW t, TurnFields \subseteq DOMAIN t, NEW delta, delta.type = "call"
  PROVE  RecordEvent(t).callIds = t.callIds /\ Emit(t, delta).callIds = t.callIds
<1>1. RecordEvent(t).callIds = t.callIds  BY DEF RecordEvent, TurnFields
<1> DEFINE u == [t EXCEPT !.emitted = TRUE,
                          !.deltas = Record(@, "chat_delta"), !.run = Record(@, "chat_delta")]
<1>2. u.callIds = t.callIds /\ TurnFields \subseteq DOMAIN u  BY DEF TurnFields
<1>3. Emit(t, delta) = AddDelta(u, delta)  BY DEF Emit
<1> HIDE DEF u
<1>4. AddDelta(u, delta) = [u EXCEPT !.pending.calls = Append(@, delta.call)]
  BY DEF AddDelta
<1>5. AddDelta(u, delta).callIds = u.callIds  BY <1>2, <1>4 DEF TurnFields
<1> QED BY <1>1, <1>2, <1>3, <1>5

LEMMA CallLooks ==
  ASSUME NEW t, NEW needs, NEW seen, NEW text, NEW thinking, NEW calls, NEW log, NEW heard,
         CallsLook(t, needs, seen, text, thinking, calls, log, heard), NEW call,
         NEW id, id \notin t.callIds
  PROVE  /\ CallsLook(ProcessAgentEvent(t, CallEvent(call, id)),
                      needs, seen, text, thinking, Append(calls, call), log, heard)
         /\ ProcessAgentEvent(t, CallEvent(call, id)).callIds = t.callIds \cup {id}
<1> DEFINE r == RecordEvent(t)
           e == CallEvent(call, id)
           delta == [type |-> "call", call |-> call]
           u == Emit(r, delta)
           pending == Assistant(text, thinking, Append(calls, call))
<1>1. Looks(r, TRUE, needs, seen, Assistant(text, thinking, calls), log, heard)
  BY RecordLooks DEF CallsLook
<1>2. ProcessAgentEvent(t, e) = HandleToolCall(r, e) /\ e.id = id /\ e.call = call
  BY DEF ProcessAgentEvent, CallEvent
<1>3. r.callIds = t.callIds
  <2>1. TurnFields \subseteq DOMAIN t /\ delta.type = "call"
    BY DEF CallsLook, Looks
  <2> HIDE DEF delta
  <2> QED BY <2>1, IdsKept
<1>4. r.open = TRUE /\ TurnFields \subseteq DOMAIN r  BY <1>1 DEF Looks
<1> HIDE DEF r, e
<1>5. Looks(u, TRUE, needs, seen, pending, log, heard)  BY <1>1, ContentLooks
<1>6. u.callIds = r.callIds
  <2>1. delta.type = "call"  OBVIOUS
  <2> HIDE DEF delta
  <2> QED BY <1>4, <2>1, IdsKept
<1>7. HandleToolCall(r, e) = [u EXCEPT !.callIds = u.callIds \cup {id}]
  BY <1>2, <1>3, <1>4 DEF HandleToolCall, ToolCallToDelta
<1> HIDE DEF u, pending
<1>8. Looks([u EXCEPT !.callIds = u.callIds \cup {id}], TRUE, needs, seen, pending, log, heard)
      /\ [u EXCEPT !.callIds = u.callIds \cup {id}].callIds = u.callIds \cup {id}
  BY <1>5 DEF Looks, TurnFields
<1> QED BY <1>2, <1>3, <1>6, <1>7, <1>8 DEF CallsLook, e, pending

LEMMA CallsShown ==
  ASSUME NEW t, NEW needs, NEW seen, NEW text, NEW thinking, NEW log, NEW heard,
         CallsLook(t, needs, seen, text, thinking, <<>>, log, heard), NEW calls, IsList(calls),
         NEW given, AllNew(t.callIds, given, Len(calls)),
         NEW events, events = [i \in DOMAIN calls |-> CallEvent(calls[i], given[i])]
  PROVE  CallsLook(AgentEventsToChatDeltas(t, events), needs, seen, text, thinking, calls, log, heard)
<1> DEFINE n == Len(calls)
           After(k) == FoldOf(Fold("events"), t, events, k)
           Begin(some, k) == /\ IsList(some) /\ Len(some) = k
                             /\ \A i \in 1..k : some[i] = calls[i]
                             /\ CallsLook(After(k), needs, seen, text, thinking, some, log, heard)
                             /\ IdsOf(After(k), t.callIds, given, k)
           Good == {k \in 0..n : \E some : Begin(some, k)}
<1>1. n \in Nat /\ DOMAIN calls = 1..n  BY ListDomain
<1>2. IsList(events) /\ Len(events) = n /\ \A i \in 1..n : events[i] = CallEvent(calls[i], given[i])
  <2> HIDE DEF n
  <2>1. /\ DOMAIN events = 1..n /\ events = [i \in 1..n |-> events[i]]
        /\ \A i \in 1..n : events[i] = CallEvent(calls[i], given[i])
    BY <1>1
  <2> QED BY <1>1, <2>1, MappedList
<1>3. 0 \in Good
  <2>1. After(0) = t  BY FoldOfNone
  <2>2. IdsOf(t, t.callIds, given, 0)  BY DEF IdsOf
  <2>3. Begin(<<>>, 0)  BY <2>1, <2>2, EmptyList
  <2> HIDE DEF Begin
  <2> QED BY <1>1, <2>3
<1>4. AllNew(t.callIds, given, n)  OBVIOUS
<1> HIDE DEF n
<1>5. ASSUME NEW k \in 1..n, k - 1 \in Good PROVE k \in Good
  <2>1. k - 1 \in Nat /\ k = k - 1 + 1  BY <1>1
  <2>2. PICK some : Begin(some, k - 1)  BY <1>5
  <2>3. After(k) = ProcessAgentEvent(After(k - 1), CallEvent(calls[k], given[k]))
    <3>1. After(k) = Folded(Fold("events"), After(k - 1), events[k])
      BY <2>1, FoldOfNext
    <3> QED BY <1>2, <3>1 DEF Folded, Fold
  <2> DEFINE more == Append(some, calls[k])
             before == After(k - 1)
             after == After(k)
  <2>4. /\ IsList(some) /\ Len(some) = k - 1 /\ \A i \in 1..k - 1 : some[i] = calls[i]
        /\ CallsLook(before, needs, seen, text, thinking, some, log, heard)
        /\ IdsOf(before, t.callIds, given, k - 1)
    BY <2>2
  <2>5. after = ProcessAgentEvent(before, CallEvent(calls[k], given[k]))  BY <2>3
  <2> HIDE DEF before, after
  <2>6. given[k] \notin before.callIds
    <3>1. \A i \in 1..k - 1 : i \in 1..n /\ i # k  BY <1>1, <2>1
    <3> QED BY <1>4, <1>5, <2>4, <3>1 DEF AllNew, IdsOf
  <2>7. /\ CallsLook(after, needs, seen, text, thinking, more, log, heard)
        /\ after.callIds = before.callIds \cup {given[k]}
    BY <2>4, <2>5, <2>6, CallLooks
  <2>8. IdsOf(after, t.callIds, given, k)
    <3>1. k \in 1..k /\ \A i \in 1..k - 1 : i \in 1..k  BY <1>1, <2>1
    <3> QED BY <2>4, <2>7, <3>1 DEF IdsOf
  <2>9. IsList(more) /\ Len(more) = k /\ \A i \in 1..k : more[i] = calls[i]
    <3>1. /\ IsList(more) /\ Len(more) = Len(some) + 1 /\ more[Len(some) + 1] = calls[k]
          /\ \A i \in 1..Len(some) : more[i] = some[i]
      BY <2>4, AppendList
    <3> HIDE DEF more
    <3>2. \A i \in 1..k : i \in 1..k - 1 \/ i = k  BY <2>1
    <3>3. Len(some) = k - 1 /\ Len(some) + 1 = k  BY <2>1, <2>4
    <3> QED BY <2>4, <3>1, <3>2, <3>3
  <2>10. Begin(more, k)  BY <2>7, <2>8, <2>9 DEF after
  <2> HIDE DEF Begin, more
  <2> QED BY <2>10
<1>6. n \in Good
  <2> HIDE DEF Good
  <2> QED BY <1>1, <1>3, <1>5, UpTo
<1>7. PICK some : Begin(some, n)  BY <1>6
<1>8. some = calls
  <2>1. IsList(some) /\ Len(some) = n /\ \A i \in 1..n : some[i] = calls[i]  BY <1>7
  <2> QED BY <2>1, SameList DEF n
<1>9. CallsLook(After(n), needs, seen, text, thinking, calls, log, heard)
  BY <1>7, <1>8
<1>10. AgentEventsToChatDeltas(t, events) = After(n)
  BY <1>2, EventsAreFold DEF Processed
<1> QED BY <1>9, <1>10

LEMMA ResultShown ==
  ASSUME NEW t, NEW open, NEW needs, NEW seen, NEW pending, NEW log, NEW heard,
         Looks(t, open, needs, seen, pending, log, heard), NEW run, NEW call
  PROVE  Looks(ProcessAgentEvent([t EXCEPT !.run = run], [type |-> "result", call |-> call]),
               FALSE, needs \/ seen, FALSE, Blank,
               Append(Flushed(log, pending), ToolResult(call)), heard)
<1> DEFINE u == [t EXCEPT !.run = run]
           r == RecordEvent(u)
           e == [type |-> "result", call |-> call]
<1>1. Looks(u, open, needs, seen, pending, log, heard)  BY RecordLooks
<1> HIDE DEF u
<1>2. Looks(r, open, needs, seen, pending, log, heard)  BY <1>1, RecordLooks
<1>3. ProcessAgentEvent(u, e) = HandleToolResult(r, e) /\ e.call = call
  BY DEF ProcessAgentEvent
<1> HIDE DEF r, e
<1>4. Looks(HandleToolResult(r, e), FALSE, needs \/ seen, FALSE, Blank,
            Append(Flushed(log, pending), ToolResult(e.call)), heard)
  BY <1>2, ResultLooks
<1> QED BY <1>3, <1>4 DEF u, e

-----------------------------------------------------------------------------
(* Rounds of the log.                                                      *)

LEMMA LastReplaced ==
  ASSUME NEW s, IsList(s), NEW x, NEW y
  PROVE  /\ IsList(Append(s, x)) /\ Append(s, x)[Len(Append(s, x))] = x
         /\ Replaced(Append(s, x), Len(Append(s, x)), y) = Append(s, y)
<1> DEFINE old == Append(s, x)
           new == Append(s, y)
           n == Len(s)
           m == n + 1
           it == Replaced(old, m, y)
<1>1. /\ n \in Nat /\ m = n + 1 /\ IsList(old) /\ Len(old) = m /\ old[m] = x
      /\ \A i \in 1..n : old[i] = s[i]
      /\ IsList(new) /\ Len(new) = m /\ new[m] = y
      /\ \A i \in 1..n : new[i] = s[i]
  BY AppendList, ListDomain
<1>2. it = Replaced(old, m, y)  OBVIOUS
<1> HIDE DEF old, new, n, m, it
<1>3. m \in 1..Len(old)  BY <1>1
<1>4. IsList(it) /\ Len(it) = Len(old) /\ \A j \in 1..Len(old) : it[j] = IF j = m THEN y ELSE old[j]
  BY <1>1, <1>2, <1>3, ExceptAt
<1>5. it = new
  <2>1. \A j \in 1..m : j \in 1..n \/ j = m  BY <1>1
  <2>2. \A j \in 1..n : j # m  BY <1>1
  <2>3. \A j \in 1..Len(it) : it[j] = new[j]  BY <1>1, <1>4, <2>1, <2>2
  <2> QED BY <1>1, <1>4, <2>3, SameList
<1> QED BY <1>1, <1>2, <1>5 DEF old, new

LEMMA RoundMore ==
  ASSUME NEW rounds, IsList(rounds), NEW content, NEW results, NEW call, call # 0
  PROVE  /\ IsList(Append(rounds, OneRound(content, results)))
         /\ Round(Append(rounds, OneRound(content, results)), ToolResult(call))
              = Append(rounds, OneRound(content, results \cup {ToolResult(call)}))
<1> DEFINE last == OneRound(content, results)
           old == Append(rounds, last)
           result == ToolResult(call)
           grown == OneRound(content, results \cup {result})
<1>1. ~IsAssistant(result) /\ result.calls # <<0>>
  <2>1. result.calls[1] = call /\ <<0>>[1] = 0 /\ result.calls = <<call>>
    BY DEF ToolResult
  <2> QED BY <2>1 DEF IsAssistant, ToolResult
<1>2. Round(old, result) = [old EXCEPT ![Len(old)].results = @ \cup {result}]
  <2> HIDE DEF old, result
  <2> QED BY <1>1 DEF Round
<1>3. [last EXCEPT !.results = @ \cup {result}] = grown
  <2>1. last.results = results /\ \A x : [last EXCEPT !.results = x] = OneRound(content, x)
    BY DEF OneRound
  <2> HIDE DEF last
  <2> QED BY <2>1
<1> HIDE DEF result, last, grown
<1>4. IsList(old) /\ old[Len(old)] = last /\ Replaced(old, Len(old), grown) = Append(rounds, grown)
  BY LastReplaced
<1> HIDE DEF old
<1>5. Round(old, result) = Replaced(old, Len(old), grown)
  BY <1>2, <1>3, <1>4 DEF Replaced
<1> QED BY <1>4, <1>5 DEF old, last, grown, result

\* An answer begins a round.
LEMMA RoundBegins ==
  ASSUME NEW rounds, NEW shown, NEW text, NEW thinking, NEW calls, IsList(shown), Plain(shown) = text
  PROVE  Round(rounds, Assistant(shown, thinking, calls))
           = Append(rounds, OneRound(Assistant(text, thinking, calls), {}))
<1> DEFINE content == Assistant(shown, thinking, calls)
<1>1. IsAssistant(content) /\ content.text = shown  BY DEF IsAssistant, Assistant
<1>2. [content EXCEPT !.text = Unseparated(@)] = Assistant(text, thinking, calls)
  <2>1. Unseparated(shown) = text  BY UnseparatedIsFold
  <2>2. [content EXCEPT !.text = Unseparated(@)] = Assistant(Unseparated(shown), thinking, calls)
    BY DEF Assistant
  <2> QED BY <2>1, <2>2
<1> HIDE DEF content
<1> QED BY <1>1, <1>2 DEF Round, OneRound, content

\* The log with one more content.
LEMMA LogMore ==
  ASSUME NEW log, IsList(log), NEW content
  PROVE  /\ IsList(Append(log, content))
         /\ RoundsOf(Append(log, content)) = Round(RoundsOf(log), content)
         /\ SpeechOf(Append(log, content)) =
              IF IsAssistant(content) THEN MergeSpeech(SpeechOf(log), content) ELSE SpeechOf(log)
<1> DEFINE n == Len(log)
           more == Append(log, content)
<1>1. IsList(more) /\ Len(more) = n + 1  BY AppendList
<1>2. FoldOf(Fold("rounds"), <<>>, more, n + 1) = Folded(Fold("rounds"), RoundsOf(log), content)
  BY FoldOfAppend DEF RoundsOf
<1>3. FoldOf(Fold("speech"), <<>>, more, n + 1) = Folded(Fold("speech"), SpeechOf(log), content)
  BY FoldOfAppend DEF SpeechOf
<1>4. RoundsOf(more) = Round(RoundsOf(log), content)
  BY <1>1, <1>2 DEF RoundsOf, Folded, Fold
<1>5. SpeechOf(more) = IF IsAssistant(content) THEN MergeSpeech(SpeechOf(log), content) ELSE SpeechOf(log)
  BY <1>1, <1>3 DEF SpeechOf, Folded, Fold
<1> QED BY <1>1, <1>4, <1>5

-----------------------------------------------------------------------------
(* Messages.                                                               *)

LEMMA AnswerHolds ==
  ASSUME NEW parts, PartsOK(parts), NEW m, m = Response(parts)
  PROVE  /\ m.role = "response" /\ m.parts = parts /\ MessageOK(m)
         /\ TextOf(m) = TextIn(parts) /\ CallsOf(m) = CallsIn(parts)
         /\ DeltasOf(m) = LET content == Assistant(TextIn(parts), ThoughtIn(parts), CallsIn(parts))
                          IN  IF content = Blank THEN <<>> ELSE <<content>>
<1>1. m.role = "response" /\ m.parts = parts /\ IsList(m.parts)
  BY DEF Response, PartsOK
<1>2. TextOf(m) = TextIn(parts) /\ WordsIn(m, "thinking") = ThoughtIn(parts)
  BY <1>1, WordsInAreFold DEF TextOf, TextIn, ThoughtIn
<1>3. CallsOf(m) = CallsIn(parts)  BY <1>1, CallsAreFold
<1> QED BY <1>1, <1>2, <1>3 DEF MessageOK, DeltasOf, ResponseMessageToDeltas

LEMMA DeltasAreList ==
  ASSUME NEW message, MessageOK(message)
  PROVE  /\ IsList(DeltasOf(message))
         /\ message.role # "response" =>
              /\ Len(DeltasOf(message)) = Len(message.parts)
              /\ \A i \in 1..Len(message.parts) :
                   DeltasOf(message)[i] = ToolResult(message.parts[i].call)
<1>1. CASE message.role = "response"
  <2>1. DeltasOf(message) = <<>> \/ \E x : DeltasOf(message) = <<x>>
    BY <1>1 DEF DeltasOf, ResponseMessageToDeltas
  <2>2. IsList(DeltasOf(message))  BY <2>1, EmptyList, OneIsList
  <2> QED BY <1>1, <2>2
<1>2. CASE message.role # "response"
  <2> DEFINE n == Len(message.parts)
             f == [i \in DOMAIN message.parts |-> ToolResult(message.parts[i].call)]
  <2>1. DeltasOf(message) = f  BY <1>2 DEF DeltasOf, RequestMessageToDeltas
  <2>2. n \in Nat /\ DOMAIN message.parts = 1..n  BY ListDomain DEF MessageOK
  <2>3. /\ DOMAIN f = 1..n /\ f = [i \in 1..n |-> f[i]]
        /\ \A i \in 1..n : f[i] = ToolResult(message.parts[i].call)
    <3> HIDE DEF n
    <3> QED BY <2>2
  <2> HIDE DEF f, n
  <2>4. IsList(f) /\ Len(f) = n  BY <2>2, <2>3, MappedList
  <2> QED BY <1>2, <2>1, <2>3, <2>4 DEF n
<1> QED BY <1>1, <1>2

\* The log that messages make is that of all but the last with the deltas of this one.
LEMMA LogOfMore ==
  ASSUME NEW told, IsList(told), \A i \in 1..Len(told) : MessageOK(told[i])
  PROVE  /\ IsList(LogOf(told)) /\ AppendAgentMessages(told) = LogOf(told)
         /\ \A m : LogOf(Append(told, m)) = LogOf(told) \o DeltasOf(m)
<1> DEFINE n == Len(told)
           deltas == [i \in DOMAIN told |-> DeltasOf(told[i])]
<1>1. n \in Nat /\ DOMAIN told = 1..n  BY ListDomain
<1>2. /\ DOMAIN deltas = 1..n /\ deltas = [i \in 1..n |-> deltas[i]]
      /\ \A i \in 1..n : deltas[i] = DeltasOf(told[i])
  <2> HIDE DEF n
  <2> QED BY <1>1
<1>3. AppendAgentMessages(told) = FlattenSeq(deltas)
  BY DEF AppendAgentMessages, DeltasOf
<1>4. LogOf(told) = Flat(deltas, n)  BY DEF LogOf
<1> HIDE DEF deltas
<1>5. IsList(deltas) /\ Len(deltas) = n
  <2> HIDE DEF n
  <2> QED BY <1>1, <1>2, MappedList
<1>6. \A i \in 1..n : IsList(deltas[i])  BY <1>2, DeltasAreList
<1> HIDE DEF n
<1>7. IsList(Flat(deltas, n))
  <2>1. n \in 0..n  BY <1>1
  <2> QED BY <1>1, <1>6, <2>1, FlatList
<1>8. FlattenSeq(deltas) = Flat(deltas, n)  BY <1>5, <1>6, FlattenIsFlat
<1>9. ASSUME NEW m PROVE LogOf(Append(told, m)) = LogOf(told) \o DeltasOf(m)
  <2> DEFINE more == Append(told, m)
             all == [i \in DOMAIN more |-> DeltasOf(more[i])]
  <2>1. /\ IsList(more) /\ Len(more) = n + 1 /\ more[n + 1] = m
        /\ \A i \in 1..n : more[i] = told[i]
    BY AppendList DEF n
  <2> HIDE DEF more
  <2>2. DOMAIN more = 1..n + 1  BY <2>1, ListDomain
  <2>3. all[n + 1] = DeltasOf(m) /\ \A i \in 1..n : all[i] = deltas[i]
    <3>1. n + 1 \in 1..n + 1 /\ \A i \in 1..n : i \in 1..n + 1  BY <1>1
    <3> QED BY <1>2, <2>1, <2>2, <3>1
  <2>4. LogOf(more) = Flat(all, n + 1)  BY <2>1 DEF LogOf
  <2> HIDE DEF all
  <2>5. Flat(all, n) = Flat(deltas, n)  BY <1>1, <2>3, FlatSame
  <2>6. Flat(all, n + 1) = Flat(all, n) \o all[n + 1]
    <3> DEFINE k == n + 1
    <3>1. k \in Nat \ {0} /\ k - 1 = n  BY <1>1
    <3> HIDE DEF k
    <3>2. Flat(all, k) = Flat(all, k - 1) \o all[k]  BY <3>1, FlatNext
    <3> QED BY <3>1, <3>2 DEF k
  <2> QED BY <1>4, <2>3, <2>4, <2>5, <2>6 DEF more
<1> QED BY <1>3, <1>4, <1>7, <1>8, <1>9

LEMMA RoundsOfMore ==
  ASSUME NEW told, IsList(told), \A i \in 1..Len(told) : MessageOK(told[i]), NEW m, MessageOK(m)
  PROVE  RoundsOf(LogOf(Append(told, m))) = RoundsAfter(RoundsOf(LogOf(told)), DeltasOf(m))
<1> DEFINE log == LogOf(told)
           more == DeltasOf(m)
<1>1. IsList(log) /\ IsList(more) /\ LogOf(Append(told, m)) = log \o more
  BY LogOfMore, DeltasAreList
<1> HIDE DEF log, more
<1>2. FoldOf(Fold("rounds"), <<>>, log \o more, Len(log \o more))
        = FoldOf(Fold("rounds"), FoldOf(Fold("rounds"), <<>>, log, Len(log)), more, Len(more))
  BY <1>1, FoldOfConcat
<1> QED BY <1>1, <1>2 DEF RoundsOf, RoundsAfter, log, more

LEMMA RoundsAfterFew ==
  ASSUME NEW rounds, NEW content
  PROVE  RoundsAfter(rounds, <<>>) = rounds /\ RoundsAfter(rounds, <<content>>) = Round(rounds, content)
<1>1. RoundsAfter(rounds, <<>>) = rounds
  <2>1. Len(<<>>) = 0  OBVIOUS
  <2> QED BY <2>1, FoldOfNone DEF RoundsAfter
<1>2. RoundsAfter(rounds, <<content>>) = Round(rounds, content)
  <2> DEFINE one == <<content>>
  <2>1. Len(one) = 1 /\ one[1] = content  BY OneIsList
  <2> HIDE DEF one
  <2>2. FoldOf(Fold("rounds"), rounds, one, 1) = Round(rounds, content)
    <3>1. 0 \in Nat /\ 1 = 0 + 1  OBVIOUS
    <3>2. FoldOf(Fold("rounds"), rounds, one, 1)
            = Folded(Fold("rounds"), FoldOf(Fold("rounds"), rounds, one, 0), one[1])
      BY <3>1, FoldOfNext
    <3>3. FoldOf(Fold("rounds"), rounds, one, 0) = rounds  BY FoldOfNone
    <3> QED BY <2>1, <3>2, <3>3 DEF Folded, Fold
  <2> QED BY <2>1, <2>2 DEF RoundsAfter, one
<1> QED BY <1>1, <1>2

LEMMA RoundsOfResults ==
  ASSUME NEW rounds, IsList(rounds), NEW content, NEW contents, NEW n \in Nat, Len(contents) = n,
         NEW calls, \A i \in 1..n : calls[i] # 0 /\ contents[i] = ToolResult(calls[i])
  PROVE  RoundsAfter(Append(rounds, OneRound(content, {})), contents)
           = Append(rounds, OneRound(content, ResultsOf(calls, n)))
<1> DEFINE begun == Append(rounds, OneRound(content, {}))
           After(k) == FoldOf(Fold("rounds"), begun, contents, k)
           SoFar(k) == {ToolResult(calls[i]) : i \in 1..k}
           Good == {k \in 0..n : After(k) = Append(rounds, OneRound(content, SoFar(k)))}
<1>1. 0 \in Good
  <2>1. After(0) = begun  BY FoldOfNone
  <2>2. SoFar(0) = {}  OBVIOUS
  <2> QED BY <2>1, <2>2
<1>2. ASSUME NEW k \in 1..n, k - 1 \in Good PROVE k \in Good
  <2>1. k - 1 \in Nat /\ k = k - 1 + 1 /\ calls[k] # 0 /\ contents[k] = ToolResult(calls[k])
    OBVIOUS
  <2>2. After(k) = Folded(Fold("rounds"), After(k - 1), contents[k])
    BY <2>1, FoldOfNext
  <2>3. After(k) = Round(After(k - 1), ToolResult(calls[k]))
    BY <2>1, <2>2 DEF Folded, Fold
  <2>4. SoFar(k) = SoFar(k - 1) \cup {ToolResult(calls[k])}
    <3>1. \A i : i \in 1..k <=> i \in 1..k - 1 \/ i = k  BY <2>1
    <3> QED BY <3>1
  <2> DEFINE before == After(k - 1)
             after == After(k)
             some == SoFar(k - 1)
             all == SoFar(k)
  <2>5. before = Append(rounds, OneRound(content, some))  BY <1>2
  <2>6. after = Round(before, ToolResult(calls[k])) /\ all = some \cup {ToolResult(calls[k])}
    BY <2>3, <2>4
  <2> HIDE DEF before, after, some, all
  <2>7. Round(Append(rounds, OneRound(content, some)), ToolResult(calls[k]))
          = Append(rounds, OneRound(content, some \cup {ToolResult(calls[k])}))
    <3> DEFINE call == calls[k]
    <3>1. call # 0  BY <2>1
    <3> HIDE DEF call
    <3>2. Round(Append(rounds, OneRound(content, some)), ToolResult(call))
            = Append(rounds, OneRound(content, some \cup {ToolResult(call)}))
      BY <3>1, RoundMore
    <3> QED BY <3>2 DEF call
  <2>8. after = Append(rounds, OneRound(content, all))  BY <2>5, <2>6, <2>7
  <2> QED BY <2>8 DEF after, all
<1>3. n \in Good
  <2> HIDE DEF Good
  <2> QED BY <1>1, <1>2, UpTo
<1> QED BY <1>3 DEF RoundsAfter, ResultsOf

-----------------------------------------------------------------------------
(* Prefixes.                                                               *)

LEMMA PartOfList ==
  ASSUME NEW s, IsList(s), NEW m \in 0..Len(s)
  PROVE  /\ IsList(EndOf(s, m)) /\ Len(EndOf(s, m)) = Len(s) - m
         /\ \A i \in 1..Len(s) - m : EndOf(s, m)[i] = s[m + i]
<1> DEFINE n == Len(s) - m
           u == EndOf(s, m)
<1>0. m \in Nat /\ n \in Nat /\ m + n = Len(s) /\ u = EndOf(s, m)  BY ListDomain
<1> HIDE DEF n, u
<1> DEFINE a == m + 1
           b == Len(s)
<1>1. PICK S : s \in Seq(S)  BY DEF IsList
<1>2. a \in Int /\ b \in Int /\ b = m + n /\ u = SubSeq(s, a, b)  BY <1>0 DEF EndOf
<1>3. \A i \in a..b : s[i] \in S
  <2>1. \A i \in 1..b : s[i] \in S  BY <1>1, LenProperties, ElementOfSeq
  <2> QED BY <1>2, <2>1
<1> HIDE DEF a, b
<1>4. /\ SubSeq(s, a, b) \in Seq(S)
      /\ Len(SubSeq(s, a, b)) = IF a <= b THEN b - a + 1 ELSE 0
      /\ \A i \in 1..b - a + 1 : SubSeq(s, a, b)[i] = s[a + i - 1]
  BY <1>2, <1>3, SubSeqProperties
<1>5. u \in Seq(S) /\ (Len(u) = IF a <= b THEN b - a + 1 ELSE 0) /\ \A i \in 1..b - a + 1 : u[i] = s[a + i - 1]
  BY <1>2, <1>4
<1>6. b - a + 1 = n /\ (a <= b <=> n > 0) /\ \A i \in 1..n : a + i - 1 = m + i
  BY <1>0, <1>2 DEF a
<1>7. Len(u) = n /\ \A i \in 1..n : u[i] = s[m + i]
  <2> HIDE DEF a, b
  <2>1. \A i \in 1..n : u[i] = s[a + i - 1]  BY <1>5, <1>6
  <2>2. n = 0 \/ n > 0  BY <1>0
  <2>3. Len(u) = n  BY <1>5, <1>6, <2>2
  <2> QED BY <1>6, <2>1, <2>3
<1>8. IsList(u)  BY <1>5, Zenon DEF IsList
<1> QED BY <1>7, <1>8 DEF n, u

LEMMA PrefixIs ==
  ASSUME NEW p, IsList(p), NEW q, IsList(q)
  PROVE  IsPrefix(p, q) <=> Len(p) <= Len(q) /\ \A i \in 1..Len(p) : p[i] = q[i]
<1> DEFINE n == Len(p)
           begin == SubSeq(q, 1, n)
<1>1. SubSeq(p, 1, n) = p /\ n \in Nat /\ Len(q) \in Nat
  <2>1. PICK S : p \in Seq(S)  BY DEF IsList
  <2> QED BY <2>1, SubSeqFull, ListDomain
<1>2. ASSUME n <= Len(q) PROVE IsList(begin) /\ Len(begin) = n /\ \A i \in 1..n : begin[i] = q[i]
  <2>1. PICK S : q \in Seq(S)  BY DEF IsList
  <2>2. \A i \in 1..n : q[i] \in S
    <3>1. \A i \in 1..Len(q) : q[i] \in S  BY <2>1, LenProperties, ElementOfSeq
    <3> HIDE DEF n
    <3> QED BY <1>1, <1>2, <3>1
  <2> HIDE DEF n
  <2>3. n \in Int /\ 1 \in Int  BY <1>1
  <2>4. /\ begin \in Seq(S) /\ Len(begin) = IF 1 <= n THEN n - 1 + 1 ELSE 0
        /\ \A i \in 1..n - 1 + 1 : begin[i] = q[1 + i - 1]
    BY <2>2, <2>3, SubSeqProperties
  <2> HIDE DEF begin
  <2>5. Len(begin) = n /\ \A i \in 1..n : begin[i] = q[i]  BY <1>1, <2>4
  <2> QED BY <2>4, <2>5, Zenon DEF IsList
<1>3. IsPrefix(p, q) <=> n <= Len(q) /\ p = begin  BY <1>1 DEF IsPrefix
<1> HIDE DEF begin
<1>4. ASSUME n <= Len(q) PROVE p = begin <=> \A i \in 1..n : p[i] = q[i]
  <2>1. IsList(begin) /\ Len(begin) = n /\ \A i \in 1..n : begin[i] = q[i]
    BY <1>2, <1>4
  <2>2. (\A i \in 1..n : p[i] = q[i]) => p = begin  BY <2>1, SameList
  <2> QED BY <2>1, <2>2
<1> QED BY <1>3, <1>4

LEMMA PrefixRemoved ==
  ASSUME NEW p, IsList(p), NEW t, IsList(t)
  PROVE  IsPrefix(p, p \o t) /\ RemovePrefix(p \o t, p) = t
<1> DEFINE m == Len(p)
           n == Len(t)
           s == p \o t
           u == SubSeq(s, m + 1, Len(s))
<1>1. /\ m \in Nat /\ n \in Nat /\ IsList(s) /\ Len(s) = m + n
      /\ \A i \in 1..m : s[i] = p[i]
      /\ \A i \in 1..n : s[m + i] = t[i]
  BY ConcatList, ListDomain
<1>2. RemovePrefix(s, p) = IF IsPrefix(p, s) THEN u ELSE s  BY DEF RemovePrefix
<1>3. u = EndOf(s, m)  BY DEF EndOf
<1> HIDE DEF s, u
<1>4. IsPrefix(p, s)
  <2>1. Len(p) <= Len(s)  BY <1>1
  <2>2. \A i \in 1..Len(p) : p[i] = s[i]  BY <1>1
  <2> QED BY <1>1, <2>1, <2>2, PrefixIs
<1> HIDE DEF m, n
<1>5. IsList(u) /\ Len(u) = n /\ \A i \in 1..n : u[i] = s[m + i]
  <2>1. IsList(s) /\ m \in 0..Len(s) /\ Len(s) - m = n  BY <1>1
  <2> QED BY <1>3, <2>1, PartOfList
<1>6. \A i \in 1..Len(u) : u[i] = t[i]  BY <1>1, <1>5
<1>7. u = t
  <2>1. Len(u) = Len(t)  BY <1>5 DEF n
  <2> QED BY <1>5, <1>6, <2>1, SameList
<1> QED BY <1>2, <1>4, <1>7 DEF s

\* The separator is at the beginning where it was put, and nowhere else.
LEMMA SeparatorRemoved ==
  ASSUME NEW text, Spelled(text), NEW whole, whole = <<Break>> \o text
  PROVE  /\ IsList(whole) /\ IsPrefix(<<Break>>, whole) /\ RemovePrefix(whole, <<Break>>) = text
         /\ ~IsPrefix(<<Break>>, text) /\ RemovePrefix(text, <<Break>>) = text
         /\ ~IsPrefix(whole, text) /\ whole # <<>> /\ whole # text
         /\ RemovePrefix(whole, <<>>) = whole /\ RemovePrefix(text, <<>>) = text
         /\ RemovePrefix(text, text) = <<>> /\ IsPrefix(text, text)
<1> DEFINE one == <<Break>>
           n == Len(text)
<1>1. /\ IsList(one) /\ Len(one) = 1 /\ one[1] = Break /\ IsList(text) /\ n \in Nat
      /\ \A i \in 1..n : text[i] # Break
  BY OneIsList, ListDomain DEF Spelled
<1>2. whole = one \o text  OBVIOUS
<1> HIDE DEF one
<1>3. IsPrefix(one, whole) /\ RemovePrefix(whole, one) = text
  BY <1>1, <1>2, PrefixRemoved
<1>4. IsList(whole) /\ Len(whole) = n + 1
  <2>1. IsList(one) /\ IsList(text)  BY <1>1
  <2>2. IsList(one \o text) /\ Len(one \o text) = Len(one) + Len(text)
    BY <2>1, ConcatList
  <2>3. Len(one) = 1 /\ n \in Nat /\ n = Len(text)  BY <1>1
  <2> HIDE DEF n
  <2>4. IsList(whole) /\ Len(whole) = 1 + n  BY <1>2, <2>2, <2>3
  <2> QED BY <2>3, <2>4
<1>5. ~IsPrefix(one, text)
  <2>1. SUFFICES ASSUME IsPrefix(one, text) PROVE FALSE
    OBVIOUS
  <2>2. Len(one) <= Len(text) /\ \A i \in 1..Len(one) : one[i] = text[i]
    BY <1>1, <2>1, PrefixIs
  <2>3. 1 \in 1..n /\ text[1] = Break  BY <1>1, <2>2
  <2> QED BY <1>1, <2>3
<1>6. RemovePrefix(text, one) = text  BY <1>5 DEF RemovePrefix
<1>7. ~IsPrefix(whole, text)
  <2>1. ~(Len(whole) <= Len(text))  BY <1>1, <1>4
  <2> QED BY <1>1, <1>4, <2>1, PrefixIs
<1>8. whole # <<>> /\ whole # text
  <2>1. Len(whole) # 0 /\ Len(whole) # Len(text) /\ Len(<<>>) = 0  BY <1>1, <1>4
  <2> QED BY <2>1
<1>9. RemovePrefix(whole, <<>>) = whole /\ RemovePrefix(text, <<>>) = text
  <2>1. IsList(<<>>) /\ <<>> \o whole = whole /\ <<>> \o text = text
    BY <1>1, <1>4, EmptyList, ConcatLists
  <2>2. RemovePrefix(<<>> \o whole, <<>>) = whole /\ RemovePrefix(<<>> \o text, <<>>) = text
    BY <1>1, <1>4, <2>1, PrefixRemoved
  <2> QED BY <2>1, <2>2
<1>10. RemovePrefix(text, text) = <<>> /\ IsPrefix(text, text)
  <2>1. IsList(<<>>) /\ text \o <<>> = text  BY <1>1, EmptyList, ConcatLists
  <2>2. IsPrefix(text, text \o <<>>) /\ RemovePrefix(text \o <<>>, text) = <<>>
    BY <1>1, <2>1, PrefixRemoved
  <2> QED BY <2>1, <2>2
<1> QED BY <1>3, <1>4, <1>5, <1>6, <1>7, <1>8, <1>9, <1>10 DEF one

-----------------------------------------------------------------------------
(* Speech.                                                                 *)

LEMMA SaidInLonger ==
  ASSUME NEW text, IsList(text), NEW speech, IsList(speech), NEW more, IsList(more),
         Len(speech) <= Len(more), \A i \in 1..Len(speech) : more[i] = speech[i],
         SaidIn(text, speech)
  PROVE  SaidIn(text, more)
<1> DEFINE n == Len(text)
           m == Len(speech)
           l == Len(more)
<1>1. n \in Nat /\ m \in Nat /\ l \in Nat /\ m <= l /\ DOMAIN text = 1..n
  BY ListDomain
<1>2. PICK i \in 0..m - n : \A k \in 1..n : speech[i + k] = text[k]
  BY <1>1 DEF SaidIn
<1>3. \A k \in 1..m : more[k] = speech[k]  OBVIOUS
<1>4. SaidIn(text, more) <=> \E j \in 0..l - n : \A k \in 1..n : more[j + k] = text[k]
  BY <1>1 DEF SaidIn
<1> HIDE DEF n, m, l
<1>5. i \in 0..l - n  BY <1>1, <1>2
<1>6. ASSUME NEW k \in 1..n PROVE more[i + k] = text[k]
  <2>1. i + k \in 1..m  BY <1>1, <1>2
  <2> QED BY <1>2, <1>3, <2>1
<1> QED BY <1>4, <1>5, <1>6

LEMMA SaidInConcat ==
  ASSUME NEW speech, IsList(speech), NEW text, IsList(text)
  PROVE  /\ SaidIn(text, speech \o text) /\ SaidIn(<<>>, speech)
         /\ \A x : IsList(x) /\ SaidIn(x, speech) => SaidIn(x, speech \o text)
<1> DEFINE n == Len(text)
           m == Len(speech)
           more == speech \o text
<1>1. /\ n \in Nat /\ m \in Nat /\ DOMAIN text = 1..n /\ IsList(more) /\ Len(more) = m + n
      /\ \A i \in 1..m : more[i] = speech[i]
      /\ \A i \in 1..n : more[m + i] = text[i]
  BY ConcatList, ListDomain
<1>2. SaidIn(<<>>, speech)
  <2>1. 0 \in 0..m - Len(<<>>) /\ DOMAIN <<>> = {}  BY <1>1
  <2> QED BY <2>1 DEF SaidIn
<1> HIDE DEF more
<1>3. SaidIn(text, more)
  <2>1. m \in 0..Len(more) - n
    <3> HIDE DEF m, n
    <3> QED BY <1>1
  <2> QED BY <1>1, <2>1 DEF SaidIn
<1>4. ASSUME NEW x, IsList(x), SaidIn(x, speech) PROVE SaidIn(x, more)
  <2>1. Len(speech) <= Len(more)
    <3> HIDE DEF n
    <3> QED BY <1>1
  <2> QED BY <1>1, <1>4, <2>1, SaidInLonger
<1> QED BY <1>2, <1>3, <1>4 DEF more

LEMMA MergeSays ==
  ASSUME NEW speech, IsList(speech), NEW text, Spelled(text), text # <<>>,
         NEW separated, speech # <<>> => separated,
         NEW content, content.text = Resumed(separated, text)
  PROVE  Says(speech, text, MergeSpeech(speech, content))
<1> DEFINE whole == <<Break>> \o text
           shown == Resumed(separated, text)
           more == MergeSpeech(speech, content)
<1>1. /\ IsList(text) /\ IsList(whole) /\ IsPrefix(<<Break>>, whole) /\ RemovePrefix(whole, <<Break>>) = text
      /\ whole # <<>>
  BY SeparatorRemoved DEF Spelled
<1>2. (separated => shown = whole) /\ (~separated => shown = text) /\ shown # <<>>
  <2>1. (separated => shown = whole) /\ (~separated => shown = text)  BY DEF Resumed
  <2> QED BY <1>1, <2>1
<1>3. SaidIn(text, text)
  <2>1. IsList(<<>>) /\ <<>> \o text = text  BY <1>1, EmptyList, ConcatLists
  <2> QED BY <1>1, <2>1, SaidInConcat
<1>4. SaidIn(text, whole)
  <2>1. IsList(<<Break>>)  BY OneIsList
  <2> QED BY <1>1, <2>1, SaidInConcat
<1>5. CASE speech = <<>>
  <2>1. more = shown  BY <1>2, <1>5 DEF MergeSpeech
  <2>2. IsList(shown) /\ SaidIn(text, shown)  BY <1>1, <1>2, <1>3, <1>4
  <2>3. ASSUME NEW x, IsList(x), SaidIn(x, speech) PROVE SaidIn(x, shown)
    <3>1. Len(speech) = 0 /\ 1..0 = {}  BY <1>5
    <3>2. Len(speech) <= Len(shown)
      <4>1. Len(shown) \in Nat  BY <2>2, ListDomain
      <4> HIDE DEF shown
      <4> QED BY <3>1, <4>1
    <3>3. \A i \in 1..Len(speech) : shown[i] = speech[i]  BY <3>1
    <3> HIDE DEF shown
    <3> QED BY <2>2, <2>3, <3>2, <3>3, SaidInLonger
  <2> HIDE DEF more, shown
  <2> QED BY <1>2, <2>1, <2>2, <2>3 DEF Says, more
<1>6. CASE speech # <<>>
  <2>1. content.text = whole  BY <1>2, <1>6
  <2> HIDE DEF whole
  <2>2. more = IF IsPrefix(speech, text) THEN text ELSE speech \o whole
    BY <1>1, <1>6, <2>1 DEF MergeSpeech
  <2> HIDE DEF more
  <2>3. CASE IsPrefix(speech, text)
    <3>1. more = text  BY <2>2, <2>3
    <3>2. Len(speech) <= Len(text) /\ \A i \in 1..Len(speech) : text[i] = speech[i]
      BY <1>1, <2>3, PrefixIs
    <3>3. ASSUME NEW x, IsList(x), SaidIn(x, speech) PROVE SaidIn(x, text)
      BY <1>1, <3>2, <3>3, SaidInLonger
    <3> QED BY <1>1, <1>3, <3>1, <3>3 DEF Says, more
  <2>4. CASE ~IsPrefix(speech, text)
    <3>1. more = speech \o whole  BY <2>2, <2>4
    <3>2. /\ IsList(more) /\ \A x : IsList(x) /\ SaidIn(x, speech) => SaidIn(x, more)
      BY <1>1, <3>1, ConcatList, SaidInConcat
    <3>3. SaidIn(text, more)
      <4> DEFINE before == speech \o <<Break>>
      <4>1. IsList(<<Break>>)  BY OneIsList
      <4>2. before \o text = speech \o (<<Break>> \o text) /\ IsList(before)
        BY <1>1, <4>1, ConcatLists, ConcatList
      <4> HIDE DEF before
      <4>3. SaidIn(text, before \o text)  BY <1>1, <4>2, SaidInConcat
      <4> QED BY <3>1, <4>2, <4>3 DEF whole
    <3>4. more # <<>>
      <4>1. Len(whole) \in Nat /\ Len(whole) # 0 /\ Len(speech) \in Nat /\ Len(more) = Len(speech) + Len(whole)
        <5>1. Len(whole) = 0 => whole = <<>>  BY <1>1, EmptyList, SameList
        <5> QED BY <1>1, <3>1, <5>1, ListDomain, ConcatList
      <4>2. Len(more) # 0 /\ Len(<<>>) = 0  BY <4>1
      <4> QED BY <4>2
    <3> QED BY <3>2, <3>3, <3>4 DEF Says, more
  <2> QED BY <2>3, <2>4
<1> QED BY <1>5, <1>6

-----------------------------------------------------------------------------
(* One message more.                                                       *)

LEMMA FoldsOfMore ==
  ASSUME NEW told, IsList(told), NEW m
  PROVE  /\ IsList(Append(told, m)) /\ Len(Append(told, m)) = Len(told) + 1
         /\ Append(told, m)[Len(told) + 1] = m /\ \A i \in 1..Len(told) : Append(told, m)[i] = told[i]
         /\ TextsOf(Append(told, m)) =
              IF m.role = "response" THEN TextsOf(told) \o TextOf(m) ELSE TextsOf(told)
         /\ AnswersOf(Append(told, m)) =
              IF m.role = "response" THEN Append(AnswersOf(told), m) ELSE AnswersOf(told)
<1> DEFINE n == Len(told)
           more == Append(told, m)
<1>1. /\ IsList(more) /\ Len(more) = n + 1 /\ more[n + 1] = m /\ \A i \in 1..n : more[i] = told[i]
  BY AppendList
<1>2. FoldOf(Fold("texts"), <<>>, more, n + 1) = Folded(Fold("texts"), TextsOf(told), m)
  BY FoldOfAppend DEF TextsOf
<1>3. FoldOf(Fold("answers"), <<>>, more, n + 1) = Folded(Fold("answers"), AnswersOf(told), m)
  BY FoldOfAppend DEF AnswersOf
<1>4. TextsOf(more) = IF m.role = "response" THEN TextsOf(told) \o TextOf(m) ELSE TextsOf(told)
  BY <1>1, <1>2 DEF TextsOf, Folded, Fold
<1>5. AnswersOf(more) = IF m.role = "response" THEN Append(AnswersOf(told), m) ELSE AnswersOf(told)
  BY <1>1, <1>3 DEF AnswersOf, Folded, Fold
<1> HIDE DEF more
<1> QED BY <1>1, <1>4, <1>5 DEF more

LEMMA AllOfMore ==
  ASSUME NEW told, IsList(told), \A i \in 1..Len(told) : MessageOK(told[i]), NEW m, MessageOK(m)
  PROVE  IsList(Append(told, m)) /\ \A i \in 1..Len(Append(told, m)) : MessageOK(Append(told, m)[i])
<1> DEFINE n == Len(told)
           more == Append(told, m)
<1>1. n \in Nat /\ IsList(more) /\ Len(more) = n + 1 /\ more[n + 1] = m /\ \A i \in 1..n : more[i] = told[i]
  BY AppendList, ListDomain
<1> HIDE DEF more
<1>2. \A i \in 1..n : MessageOK(more[i])  BY <1>1
<1> HIDE DEF n
<1>3. \A i \in 1..n + 1 : i \in 1..n \/ i = n + 1  BY <1>1
<1> QED BY <1>1, <1>2, <1>3 DEF more

LEMMA AnswerMore ==
  ASSUME NEW told, MessagesOK(told), NEW parts, PartsOK(parts)
  PROVE  LET more == Answered(told, parts) IN
         /\ MessagesOK(more) /\ Last(more) = Response(parts)
         /\ TextsOf(more) = TextsOf(told) \o TextIn(parts)
         /\ AnswersOf(more) = Append(AnswersOf(told), Response(parts))
         /\ LastText(more) <=> TextIn(parts) # <<>>
         /\ TextIn(parts) # <<>> => TextsOf(more) # <<>>
         /\ TextIn(parts) = <<>> => TextsOf(more) = TextsOf(told)
<1> DEFINE m == Response(parts)
           more == Append(told, m)
           n == Len(told)
           text == TextIn(parts)
           before == TextsOf(told)
           after == TextsOf(more)
           known == AnswersOf(told)
           now == AnswersOf(more)
           k == Len(known)
<1>1. m.role = "response" /\ MessageOK(m) /\ TextOf(m) = text  BY AnswerHolds
<1>2. IsList(text) /\ IsList(before) /\ IsList(known) /\ IsList(told) /\ \A i \in 1..n : MessageOK(told[i])
  BY DEF PartsOK, Spelled, MessagesOK
<1>3. before # <<>> => \E i \in 1..k : HasText(known[i])  BY DEF MessagesOK
<1> HIDE DEF m, text
<1>4. /\ IsList(more) /\ Len(more) = n + 1 /\ more[n + 1] = m
      /\ after = before \o text /\ now = Append(known, m)
  BY <1>1, <1>2, FoldsOfMore
<1>5. \A i \in 1..Len(more) : MessageOK(more[i])  BY <1>1, <1>2, AllOfMore
<1> HIDE DEF more, before, after, known, now, n
<1>6. /\ k \in Nat /\ IsList(now) /\ Len(now) = k + 1 /\ now[k + 1] = m
      /\ \A i \in 1..k : now[i] = known[i]
  BY <1>2, <1>4, AppendList, ListDomain
<1>7. IsList(after)  BY <1>2, <1>4, ConcatList
<1>8. HasText(m) <=> text # <<>>  BY <1>1 DEF HasText
<1>9. text = <<>> => after = before  BY <1>2, <1>4, ConcatLists
<1>10. text # <<>> => after # <<>>
  <2>1. SUFFICES ASSUME text # <<>>, after = <<>> PROVE FALSE
    OBVIOUS
  <2>2. Len(after) = Len(before) + Len(text) /\ Len(before) \in Nat /\ Len(text) \in Nat
    BY <1>2, <1>4, ConcatList, ListDomain
  <2>3. Len(after) = 0  BY <2>1
  <2>4. Len(text) = 0  BY <2>2, <2>3
  <2>5. text = <<>>  BY <1>2, <2>4, EmptyList, SameList
  <2> QED BY <2>1, <2>5
<1>11. after # <<>> => \E i \in 1..Len(now) : HasText(now[i])
  <2>1. ASSUME after # <<>> PROVE \E i \in 1..Len(now) : HasText(now[i])
    <3>1. CASE text # <<>>
      <4>1. k + 1 \in 1..Len(now) /\ HasText(now[k + 1])
        <5> HIDE DEF k
        <5> QED BY <1>6, <1>8, <3>1
      <4> QED BY <4>1
    <3>2. CASE text = <<>>
      <4>1. PICK i \in 1..k : HasText(known[i])  BY <1>3, <1>9, <2>1, <3>2
      <4>2. i \in 1..Len(now) /\ HasText(now[i])
        <5> HIDE DEF k
        <5> QED BY <1>6, <4>1
      <4> QED BY <4>2
    <3> QED BY <3>1, <3>2
  <2> QED BY <2>1
<1>12. MessagesOK(more)  BY <1>4, <1>5, <1>6, <1>7, <1>11 DEF MessagesOK, after, now
<1>13. LastText(more) <=> text # <<>>
  <2>1. now # <<>> /\ Last(now) = m
    <3>1. Len(now) # 0 /\ Len(<<>>) = 0
      <4> HIDE DEF k
      <4> QED BY <1>6
    <3>2. now[Len(now)] = m  BY <1>6
    <3> QED BY <3>1, <3>2 DEF Last
  <2> QED BY <1>8, <2>1 DEF LastText, now
<1>14. Last(more) = m  BY <1>4 DEF Last
<1> QED
  BY <1>4, <1>9, <1>10, <1>12, <1>13, <1>14 DEF Answered, more, before, after, known, now, m, text

LEMMA ReplyMore ==
  ASSUME NEW told, MessagesOK(told), NEW parts, IsList(parts)
  PROVE  LET more == Replied(told, parts) IN
         /\ MessagesOK(more) /\ TextsOf(more) = TextsOf(told) /\ (LastText(more) <=> LastText(told))
<1> DEFINE m == [role |-> "request", parts |-> parts]
           more == Append(told, m)
<1>1. m.role # "response" /\ MessageOK(m)  BY DEF MessageOK
<1>2. IsList(told) /\ \A i \in 1..Len(told) : MessageOK(told[i])  BY DEF MessagesOK
<1> HIDE DEF m
<1>3. IsList(more) /\ TextsOf(more) = TextsOf(told) /\ AnswersOf(more) = AnswersOf(told)
  BY <1>1, <1>2, FoldsOfMore
<1>4. \A i \in 1..Len(more) : MessageOK(more[i])  BY <1>1, <1>2, AllOfMore
<1> HIDE DEF more
<1> QED BY <1>3, <1>4 DEF MessagesOK, LastText, Replied, more, m

\* The final text is that of the last answer.
LEMMA FinalText ==
  ASSUME NEW told, MessagesOK(told), NEW parts, PartsOK(parts)
  PROVE  FinalTextFromMessages(Answered(told, parts)) = TextIn(parts)
<1> DEFINE m == Response(parts)
           more == Append(told, m)
           n == Len(told) + 1
           responses == {i \in DOMAIN more : more[i].role = "response"}
<1>1. m.role = "response" /\ TextOf(m) = TextIn(parts)  BY AnswerHolds
<1> HIDE DEF m
<1>2. n \in Nat \ {0} /\ IsList(more) /\ Len(more) = n /\ more[n] = m /\ DOMAIN more = 1..n
  BY AppendList, ListDomain DEF MessagesOK
<1> HIDE DEF more, n
<1>3. n \in responses /\ \A i \in responses : i <= n  BY <1>1, <1>2
<1>4. \A i \in responses : (\A j \in responses : j <= i) => i = n  BY <1>2, <1>3
<1>5. (CHOOSE i \in responses : \A j \in responses : j <= i) = n  BY <1>3, <1>4
<1>6. FinalTextFromMessages(more) = TextOf(more[n])
  BY <1>3, <1>5 DEF FinalTextFromMessages
<1> QED BY <1>1, <1>2, <1>6 DEF Answered, more, m

-----------------------------------------------------------------------------
(* What is shown of messages.                                              *)

LEMMA SaidOfAll ==
  ASSUME NEW told, MessagesOK(told), NEW m, NEW more,
         m.role = "response" => SaidIn(TextIn(m.parts), more), SaidOf(told, more)
  PROVE  SaidOf(Append(told, m), more)
<1> DEFINE all == Append(told, m)
           n == Len(told)
<1>1. n \in Nat /\ Len(all) = n + 1 /\ all[n + 1] = m /\ \A i \in 1..n : all[i] = told[i]
  BY AppendList, ListDomain DEF MessagesOK
<1>2. \A i \in 1..n : told[i].role = "response" => SaidIn(TextIn(told[i].parts), more)
  BY DEF SaidOf
<1> HIDE DEF all, n
<1>3. \A i \in 1..n + 1 : i \in 1..n \/ i = n + 1  BY <1>1
<1>4. SaidOf(all, more)  BY <1>1, <1>2, <1>3 DEF SaidOf
<1> QED BY <1>4 DEF all

LEMMA SaidOfMore ==
  ASSUME NEW told, MessagesOK(told), NEW parts, PartsOK(parts), NEW speech, NEW more,
         SaidOf(told, speech), Says(speech, TextIn(parts), more)
  PROVE  SaidOf(Answered(told, parts), more)
<1>1. SaidOf(told, more)
  <2>1. ASSUME NEW i \in 1..Len(told), told[i].role = "response"
        PROVE  SaidIn(TextIn(told[i].parts), more)
    <3>1. SaidIn(TextIn(told[i].parts), speech)  BY <2>1 DEF SaidOf
    <3>2. PartsOK(told[i].parts)  BY <2>1 DEF MessagesOK, MessageOK
    <3>3. IsList(TextIn(told[i].parts))  BY <3>2 DEF PartsOK, Spelled
    <3> QED BY <3>1, <3>3 DEF Says
  <2> QED BY <2>1 DEF SaidOf
<1> DEFINE m == Response(parts)
<1>2. m.parts = parts /\ SaidIn(TextIn(parts), more)  BY DEF Response, Says
<1> HIDE DEF m
<1>3. SaidOf(Append(told, m), more)  BY <1>1, <1>2, SaidOfAll
<1> QED BY <1>3 DEF Answered, m

LEMMA SaysNothing ==
  ASSUME NEW speech, IsList(speech), NEW told, MessagesOK(told), SaidOf(told, speech),
         NEW parts, PartsOK(parts)
  PROVE  /\ TextIn(parts) = <<>> => SaidOf(Answered(told, parts), speech)
         /\ \A some : SaidOf(Replied(told, some), speech)
<1>1. ASSUME TextIn(parts) = <<>> PROVE SaidOf(Answered(told, parts), speech)
  <2> DEFINE m == Response(parts)
  <2>1. m.parts = parts /\ SaidIn(<<>>, speech)
    BY EmptyList, SaidInConcat DEF Response
  <2> HIDE DEF m
  <2>2. SaidOf(Append(told, m), speech)  BY <1>1, <2>1, SaidOfAll
  <2> QED BY <2>2 DEF Answered, m
<1>2. ASSUME NEW some PROVE SaidOf(Replied(told, some), speech)
  <2> DEFINE m == [role |-> "request", parts |-> some]
  <2>1. m.role # "response"  OBVIOUS
  <2> HIDE DEF m
  <2>2. SaidOf(Append(told, m), speech)  BY <2>1, SaidOfAll
  <2> QED BY <2>2 DEF Replied, m
<1> QED BY <1>1, <1>2

LEMMA PriorOfMore ==
  ASSUME NEW log, IsList(log), NEW content
  PROVE  /\ PriorText(log) => TextLastIn(log)
         /\ IsAssistant(content) /\ content.text # <<>> => TextLastIn(Append(log, content))
         /\ ~IsAssistant(content) /\ TextLastIn(log) => PriorText(Append(log, content))
<1> DEFINE n == Len(log)
           more == Append(log, content)
<1>1. n \in Nat /\ IsList(more) /\ Len(more) = n + 1 /\ more[n + 1] = content /\ \A i \in 1..n : more[i] = log[i]
  BY AppendList, ListDomain
<1> HIDE DEF more
<1>2. PriorText(log) => TextLastIn(log)  BY DEF PriorText, TextLastIn
<1>3. ASSUME IsAssistant(content), content.text # <<>> PROVE TextLastIn(more)
  <2> HIDE DEF n
  <2>1. n + 1 \in 1..n + 1 /\ \A j \in 1..n + 1 : ~(j > n + 1)  BY <1>1
  <2> QED BY <1>1, <1>3, <2>1 DEF TextLastIn, LastSaid
<1>4. ASSUME ~IsAssistant(content), TextLastIn(log) PROVE PriorText(more)
  <2>1. PICK p \in 1..n : LastSaid(log, p)  BY <1>4 DEF TextLastIn
  <2>2. /\ IsAssistant(log[p]) /\ log[p].text # <<>>
        /\ \A j \in 1..n : j > p => ~IsAssistant(log[j])
    BY <2>1 DEF LastSaid
  <2> HIDE DEF n
  <2>3. p \in 1..n + 1 /\ p # n + 1 /\ \A j \in 1..n + 1 : j \in 1..n \/ j = n + 1
    BY <1>1
  <2>4. \A j \in 1..n + 1 : j > p => ~IsAssistant(more[j])
    BY <1>1, <1>4, <2>2, <2>3
  <2>5. LastSaid(more, p)  BY <1>1, <2>2, <2>4 DEF LastSaid
  <2> QED BY <1>1, <2>3, <2>5 DEF PriorText
<1> QED BY <1>2, <1>3, <1>4 DEF more

LEMMA BlankIs ==
  ASSUME NEW text, NEW thinking, NEW calls
  PROVE  Assistant(text, thinking, calls) = Blank <=> text = <<>> /\ thinking = <<>> /\ calls = <<>>
<1>1. /\ Assistant(text, thinking, calls).text = text /\ Assistant(text, thinking, calls).thinking = thinking
      /\ Assistant(text, thinking, calls).calls = calls
  BY DEF Assistant
<1>2. Blank.text = <<>> /\ Blank.thinking = <<>> /\ Blank.calls = <<>> /\ Blank = Assistant(<<>>, <<>>, <<>>)
  BY DEF Blank, Assistant
<1> QED BY <1>1, <1>2

LEMMA AnswerRounds ==
  ASSUME NEW told, MessagesOK(told), NEW parts, PartsOK(parts)
  PROVE  LET content == Assistant(TextIn(parts), ThoughtIn(parts), CallsIn(parts))
             rounds == RoundsOf(LogOf(told))
         IN  RoundsOf(LogOf(Answered(told, parts))) =
               IF content = Blank THEN rounds ELSE Append(rounds, OneRound(content, {}))
<1> DEFINE m == Response(parts)
           text == TextIn(parts)
           content == Assistant(text, ThoughtIn(parts), CallsIn(parts))
           rounds == RoundsOf(LogOf(told))
<1>1. MessageOK(m) /\ DeltasOf(m) = IF content = Blank THEN <<>> ELSE <<content>>
  BY AnswerHolds
<1>2. Round(rounds, content) = Append(rounds, OneRound(content, {}))
  <2>1. Spelled(text)  BY DEF PartsOK
  <2>2. IsList(text) /\ Plain(text) = text
    <3>1. Resumed(FALSE, text) = text  BY DEF Resumed
    <3>2. Plain(Resumed(FALSE, text)) = text  BY <2>1, PlainIs
    <3> QED BY <2>1, <3>1, <3>2 DEF Spelled
  <2> HIDE DEF text, rounds
  <2> QED BY <2>2, RoundBegins
<1> HIDE DEF m, content
<1>3. RoundsOf(LogOf(Append(told, m))) = RoundsAfter(rounds, DeltasOf(m))
  BY <1>1, RoundsOfMore DEF MessagesOK
<1> HIDE DEF rounds
<1>4. RoundsAfter(rounds, DeltasOf(m)) = IF content = Blank THEN rounds ELSE Append(rounds, OneRound(content, {}))
  BY <1>1, <1>2, RoundsAfterFew
<1> QED BY <1>3, <1>4 DEF Answered, m, content, text, rounds

\* What an answer shows is closed with its message, if there is any.
LEMMA ClosingShown ==
  ASSUME NEW told, MessagesOK(told), NEW parts, PartsOK(parts), NEW log, NEW heard, Base(log, heard, told),
         NEW had, had = (TextsOf(told) # <<>>),
         NEW content, content = Assistant(Sep(had, TextIn(parts)), ThoughtIn(parts), CallsIn(parts))
  PROVE  Closed(Flushed(log, content), heard \o Sep(had, TextIn(parts)), Answered(told, parts),
                RoundsOf(LogOf(Answered(told, parts))))
<1> DEFINE text == TextIn(parts)
           thinking == ThoughtIn(parts)
           calls == CallsIn(parts)
           sep == Sep(had, text)
           all == Answered(told, parts)
           rounds == RoundsOf(LogOf(told))
           before == TextsOf(told)
           speech == SpeechOf(log)
           said == Assistant(text, thinking, calls)
<1>1. /\ IsList(log) /\ IsList(heard) /\ IsList(rounds) /\ RoundsOf(log) = rounds /\ Plain(heard) = before
      /\ IsList(speech) /\ SaidOf(told, speech) /\ (speech # <<>> => had)
  BY DEF Base, Closed, Voiced
<1>2. /\ TextsOf(all) = before \o text /\ (LastText(all) <=> text # <<>>)
      /\ (text # <<>> => TextsOf(all) # <<>>) /\ (text = <<>> => TextsOf(all) = before)
  BY AnswerMore
<1>3. RoundsOf(LogOf(all)) = IF said = Blank THEN rounds ELSE Append(rounds, OneRound(said, {}))
  BY AnswerRounds
<1>4. Spelled(text) /\ IsList(text) /\ IsList(before)
  BY DEF PartsOK, Spelled, MessagesOK
<1>5. content = Assistant(sep, thinking, calls) /\ content.text = sep /\ IsAssistant(content)
  BY DEF Assistant, IsAssistant
<1>6. sep = IF text = <<>> THEN <<>> ELSE Resumed(had, text)  BY DEF Sep
<1>7. SaidOf(all, speech) \/ text # <<>>  BY <1>1, SaysNothing
<1>8. ASSUME NEW more, Says(speech, text, more) PROVE SaidOf(all, more)
  BY <1>1, <1>8, SaidOfMore
<1> HIDE DEF text, thinking, calls, all, rounds, before, speech
<1>9. IsList(sep) /\ (sep = <<>> <=> text = <<>>)
  <2>1. text # <<>> => Resumed(had, text) # <<>>
    BY <1>4, SeparatorRemoved DEF Resumed
  <2> QED BY <1>4, <1>6, <2>1, EmptyList, ResumedIs
<1>10. IsList(heard \o sep) /\ Plain(heard \o sep) = TextsOf(all)
  <2>1. IsList(heard \o sep)  BY <1>1, <1>9, ConcatList
  <2>2. CASE text = <<>>
    <3>1. heard \o sep = heard  BY <1>1, <1>9, <2>2, ConcatLists
    <3> QED BY <1>1, <1>2, <2>1, <2>2, <3>1
  <2>3. CASE text # <<>>
    <3>1. Plain(heard \o Resumed(had, text)) = Plain(heard) \o text
      <4>1. IsList(Plain(heard))  BY <1>1, <1>4
      <4> QED BY <1>1, <1>4, <4>1, PlainMore
    <3> QED BY <1>1, <1>2, <1>6, <2>1, <2>3, <3>1
  <2> QED BY <2>2, <2>3
<1>11. content = Blank <=> said = Blank  BY <1>5, <1>9, BlankIs
<1>12. CASE content = Blank
  <2>1. text = <<>> /\ Flushed(log, content) = log
    BY <1>5, <1>9, <1>12, BlankIs DEF Flushed
  <2>2. SaidOf(all, speech) /\ TextsOf(all) = before /\ ~LastText(all)
    BY <1>2, <1>7, <2>1
  <2>3. Voiced(all, log)
    <3>1. had <=> before # <<>>  BY DEF before
    <3> QED BY <1>1, <2>2, <3>1 DEF Voiced, speech
  <2>4. RoundsOf(LogOf(all)) = rounds  BY <1>3, <1>11, <1>12
  <2> HIDE DEF sep
  <2> QED BY <1>1, <1>10, <2>1, <2>2, <2>3, <2>4 DEF Closed, sep, text, all
<1>13. CASE content # Blank
  <2> DEFINE more == Append(log, content)
             now == RoundsOf(LogOf(all))
  <2>1. Flushed(log, content) = more  BY <1>13 DEF Flushed
  <2>2. /\ IsList(more) /\ RoundsOf(more) = Round(rounds, content)
        /\ SpeechOf(more) = MergeSpeech(speech, content)
    BY <1>1, <1>5, LogMore DEF speech
  <2>3. now = Append(rounds, OneRound(said, {}))  BY <1>3, <1>11, <1>13
  <2> HIDE DEF more, said, now
  <2>4. Round(rounds, content) = Append(rounds, OneRound(said, {}))
    <3>1. Plain(sep) = text
      <4>1. CASE text = <<>>
        <5>1. Len(<<>>) = 0 /\ sep = <<>>  BY <1>6, <4>1
        <5> QED BY <4>1, <5>1, FoldOfNone DEF Plain
      <4>2. CASE text # <<>>
        BY <1>4, <1>6, <4>2, PlainIs
      <4> QED BY <4>1, <4>2
    <3> HIDE DEF sep
    <3> QED BY <1>5, <1>9, <3>1, RoundBegins DEF said
  <2>5. IsList(now)  BY <1>1, <2>3, AppendList
  <2>6. IsList(SpeechOf(more)) /\ SaidOf(all, SpeechOf(more)) /\ (SpeechOf(more) # <<>> => TextsOf(all) # <<>>)
    <3>1. CASE text = <<>>
      <4>1. SpeechOf(more) = speech  BY <1>5, <1>9, <2>2, <3>1 DEF MergeSpeech
      <4>2. had <=> before # <<>>  BY DEF before
      <4> QED BY <1>1, <1>2, <1>7, <3>1, <4>1, <4>2
    <3>2. CASE text # <<>>
      <4>1. content.text = Resumed(had, text)  BY <1>5, <1>6, <3>2
      <4>2. Says(speech, text, MergeSpeech(speech, content))
        BY <1>1, <1>4, <3>2, <4>1, MergeSays
      <4>3. Says(speech, text, SpeechOf(more))  BY <2>2, <4>2
      <4> QED BY <1>2, <1>8, <3>2, <4>3 DEF Says
    <3> QED BY <3>1, <3>2
  <2>7. LastText(all) => TextLastIn(more)
    BY <1>1, <1>2, <1>5, <1>9, PriorOfMore DEF more
  <2> HIDE DEF sep
  <2>8. Closed(more, heard \o sep, all, now)
    BY <1>10, <2>2, <2>3, <2>4, <2>5, <2>6, <2>7 DEF Closed, Voiced
  <2> QED BY <2>1, <2>8 DEF sep, text, all, now
<1> QED BY <1>12, <1>13

-----------------------------------------------------------------------------
(* Results and prompts.                                                    *)

\* A result makes the last round of the log longer, and has no speech.
LEMMA ResultClosed ==
  ASSUME NEW log, NEW heard, NEW told, NEW rounds, IsList(rounds), NEW content, NEW results,
         Closed(log, heard, told, Append(rounds, OneRound(content, results))), NEW call, call # 0
  PROVE  /\ Closed(Append(log, ToolResult(call)), heard, told,
                   Append(rounds, OneRound(content, results \cup {ToolResult(call)})))
         /\ LastText(told) => PriorText(Append(log, ToolResult(call)))
<1> DEFINE result == ToolResult(call)
           more == Append(log, result)
           old == Append(rounds, OneRound(content, results))
           new == Append(rounds, OneRound(content, results \cup {result}))
<1>1. ~IsAssistant(result)  BY DEF ToolResult, IsAssistant
<1>2. /\ IsList(log) /\ IsList(heard) /\ RoundsOf(log) = old /\ Plain(heard) = TextsOf(told)
      /\ Voiced(told, log) /\ (LastText(told) => TextLastIn(log))
  BY DEF Closed
<1>3. IsList(new) /\ Round(old, result) = new
  <2>1. Round(old, result) = new  BY RoundMore
  <2>2. IsList(new)
    <3> HIDE DEF result
    <3> QED BY AppendList
  <2> QED BY <2>1, <2>2
<1> HIDE DEF result, old, new
<1>4. IsList(more) /\ RoundsOf(more) = new /\ SpeechOf(more) = SpeechOf(log)
  BY <1>1, <1>2, <1>3, LogMore
<1>5. /\ (LastText(told) => PriorText(more)) /\ (PriorText(more) => TextLastIn(more))
  BY <1>1, <1>2, <1>4, PriorOfMore
<1> HIDE DEF more
<1>6. Closed(more, heard, told, new)  BY <1>2, <1>3, <1>4, <1>5 DEF Closed, Voiced
<1> QED BY <1>5, <1>6 DEF more, new, result

\* A request tells nothing of the assistant but the results.
LEMMA ReplyClosed ==
  ASSUME NEW log, NEW heard, NEW told, MessagesOK(told), NEW rounds, Closed(log, heard, told, rounds),
         NEW parts, IsList(parts)
  PROVE  Closed(log, heard, Replied(told, parts), rounds)
<1> DEFINE more == Replied(told, parts)
<1>1. /\ IsList(log) /\ IsList(heard) /\ IsList(rounds) /\ RoundsOf(log) = rounds
      /\ Plain(heard) = TextsOf(told) /\ (LastText(told) => TextLastIn(log))
      /\ IsList(SpeechOf(log)) /\ SaidOf(told, SpeechOf(log))
      /\ SpeechOf(log) # <<>> => TextsOf(told) # <<>>
  BY DEF Closed, Voiced
<1>2. TextsOf(more) = TextsOf(told) /\ (LastText(more) <=> LastText(told))
  BY ReplyMore
<1>3. SaidOf(more, SpeechOf(log))  BY <1>1, NoParts, SaysNothing
<1> HIDE DEF more
<1>4. Closed(log, heard, more, rounds)  BY <1>1, <1>2, <1>3 DEF Closed, Voiced
<1> QED BY <1>4 DEF more

\* Neither an empty request nor a retry prompt changes the rounds.
LEMMA PromptRounds ==
  ASSUME NEW told, MessagesOK(told)
  PROVE  /\ RoundsOf(LogOf(Replied(told, <<>>))) = RoundsOf(LogOf(told))
         /\ RoundsOf(LogOf(Replied(told, <<Retry>>))) = RoundsOf(LogOf(told))
<1> DEFINE rounds == RoundsOf(LogOf(told))
           Deltas(parts) == DeltasOf([role |-> "request", parts |-> parts])
<1>1. ASSUME NEW parts, IsList(parts)
      PROVE  /\ RoundsOf(LogOf(Replied(told, parts))) = RoundsAfter(rounds, Deltas(parts))
             /\ IsList(Deltas(parts)) /\ Len(Deltas(parts)) = Len(parts)
             /\ \A i \in 1..Len(parts) : Deltas(parts)[i] = ToolResult(parts[i].call)
  <2> DEFINE m == [role |-> "request", parts |-> parts]
  <2>1. MessageOK(m) /\ m.role # "response" /\ m.parts = parts
    BY <1>1 DEF MessageOK
  <2> HIDE DEF m
  <2>2. RoundsOf(LogOf(Append(told, m))) = RoundsAfter(rounds, DeltasOf(m))
    BY <2>1, RoundsOfMore DEF MessagesOK
  <2>3. /\ IsList(DeltasOf(m)) /\ Len(DeltasOf(m)) = Len(parts)
        /\ \A i \in 1..Len(parts) : DeltasOf(m)[i] = ToolResult(parts[i].call)
    BY <2>1, DeltasAreList
  <2> QED BY <2>2, <2>3 DEF Replied, m
<1> HIDE DEF Deltas
<1>2. RoundsOf(LogOf(Replied(told, <<>>))) = rounds
  <2>1. IsList(<<>>) /\ Len(<<>>) = 0  BY EmptyList
  <2>2. IsList(Deltas(<<>>)) /\ Len(Deltas(<<>>)) = 0  BY <1>1, <2>1
  <2>3. Deltas(<<>>) = <<>>  BY <2>1, <2>2, SameList
  <2> QED BY <1>1, <2>1, <2>3, RoundsAfterFew
<1>3. RoundsOf(LogOf(Replied(told, <<Retry>>))) = rounds
  <2> DEFINE one == <<Retry>>
             result == ToolResult(0)
  <2>1. IsList(one) /\ Len(one) = 1 /\ one[1] = Retry /\ Retry.call = 0
    BY OneIsList DEF Retry
  <2> HIDE DEF one
  <2>2. IsList(Deltas(one)) /\ Len(Deltas(one)) = 1 /\ Deltas(one)[1] = result
    <3>1. 1 \in 1..Len(one)  BY <2>1
    <3> QED BY <1>1, <2>1, <3>1
  <2>3. Deltas(one) = <<result>>
    <3> HIDE DEF result
    <3>1. IsList(<<result>>) /\ Len(<<result>>) = 1 /\ <<result>>[1] = result
      BY OneIsList
    <3>2. \A i \in 1..1 : i = 1  OBVIOUS
    <3> QED BY <2>2, <3>1, <3>2, SameList
  <2>4. Round(rounds, result) = rounds  BY DEF Round, ToolResult, IsAssistant
  <2> HIDE DEF result, rounds
  <2> QED BY <1>1, <2>1, <2>3, <2>4, RoundsAfterFew DEF one
<1> QED BY <1>2, <1>3

-----------------------------------------------------------------------------
(* The end of an answer.                                                   *)

\* An answer without text and calls leaves the turn as between two answers.
LEMMA QuietAnswer ==
  ASSUME NEW t, NEW had \in BOOLEAN, NEW parts, NEW log, NEW heard, IsList(heard),
         Showing(t, had, parts, log, heard), TextIn(parts) = <<>>
  PROVE  Before(t, had, Flushed(log, Assistant(<<>>, ThoughtIn(parts), <<>>)), heard)
<1> DEFINE thinking == ThoughtIn(parts)
           content == Assistant(<<>>, thinking, <<>>)
<1>1. CASE parts = <<>>
  <2>1. thinking = <<>> /\ content = Blank  BY <1>1, NoParts DEF Blank
  <2>2. Flushed(log, content) = log /\ Before(t, had, log, heard)
    BY <1>1, <2>1 DEF Flushed, Showing
  <2> QED BY <2>2
<1>2. CASE parts # <<>>
  <2>1. Shows(t, had, <<>>, thinking, log, heard)  BY <1>2 DEF Showing
  <2>2. heard \o <<>> = heard  BY EmptyList, ConcatLists
  <2>3. Looks(t, TRUE, had, FALSE, content, log, heard)
    BY <2>1, <2>2 DEF Shows, Sep
  <2> QED BY <2>3 DEF Before
<1> QED BY <1>1, <1>2

\* One with text, or with calls, is in the message that is being built.
LEMMA ShownAnswer ==
  ASSUME NEW t, NEW had \in BOOLEAN, NEW parts, parts # <<>>, NEW log, NEW heard,
         Showing(t, had, parts, log, heard)
  PROVE  CallsLook(t, TextIn(parts) = <<>> /\ had, TextIn(parts) # <<>>, Sep(had, TextIn(parts)),
                   ThoughtIn(parts), <<>>, log, heard \o Sep(had, TextIn(parts)))
BY DEF Showing, Shows, CallsLook

\* Which separator the final text gets: always one where a text was followed by the
\* results of its answer.
LEMMA PrefixFound ==
  ASSUME NEW log, IsList(log), NEW content, IsAssistant(content), NEW prefix,
         prefix = ToolResumeSeparatorPrefix(Append(log, content))
  PROVE  /\ prefix = <<>> \/ prefix = <<Break>>
         /\ PriorText(log) => prefix = <<Break>>
<1> DEFINE n == Len(log)
           more == Append(log, content)
           before == {i \in 1..n : IsAssistant(more[i])}
           prior == CHOOSE i \in before : \A j \in before : j <= i
<1>1. n \in Nat /\ Len(more) = n + 1 /\ more[n + 1] = content /\ \A i \in 1..n : more[i] = log[i]
  BY AppendList, ListDomain
<1>2. Last(more) = content  BY <1>1 DEF Last
<1> HIDE DEF more
<1>3. prefix = IF before # {} /\ prior # n /\ more[prior].text # <<>> THEN <<Break>> ELSE <<>>
  <2>1. (IF IsAssistant(Last(more)) THEN Len(more) - 1 ELSE Len(more)) = n
    BY <1>1, <1>2
  <2> HIDE DEF n
  <2> QED BY <2>1 DEF ToolResumeSeparatorPrefix, more
<1>4. ASSUME PriorText(log) PROVE prefix = <<Break>>
  <2>1. PICK p \in 1..n : p # n /\ LastSaid(log, p)  BY <1>4 DEF PriorText
  <2>2. /\ IsAssistant(log[p]) /\ log[p].text # <<>>
        /\ \A j \in 1..n : j > p => ~IsAssistant(log[j])
    BY <2>1 DEF LastSaid
  <2>3. p \in before /\ \A j \in before : j <= p
    <3>1. \A j \in before : ~(j > p) /\ j \in 1..n  BY <1>1, <2>2
    <3> HIDE DEF before
    <3>2. \A j \in 1..n : ~(j > p) => j <= p  BY <1>1
    <3>3. p \in before  BY <1>1, <2>1, <2>2 DEF before
    <3> QED BY <3>1, <3>2, <3>3
  <2>4. before \subseteq Nat  BY <1>1
  <2> HIDE DEF before
  <2>5. prior = p
    <3>1. prior \in before /\ \A j \in before : j <= prior  BY <2>3
    <3> HIDE DEF prior
    <3>2. p <= prior /\ prior <= p  BY <2>3, <3>1
    <3> QED BY <2>3, <2>4, <3>1, <3>2
  <2> QED BY <1>1, <1>3, <2>1, <2>2, <2>3, <2>5
<1> QED BY <1>3, <1>4

LEMMA TextBefore ==
  ASSUME NEW past, MessagesOK(past), NEW parts, PartsOK(parts), TextsOf(past) # <<>>,
         ~Lost(Answered(past, parts))
  PROVE  LastText(past)
<1> DEFINE known == AnswersOf(past)
           k == Len(known)
           m == Response(parts)
           now == AnswersOf(Answered(past, parts))
<1>1. IsList(known) /\ \E i \in 1..k : HasText(known[i])  BY DEF MessagesOK
<1>2. now = Append(known, m)  BY AnswerMore
<1>3. ~(/\ Len(now) > 2 /\ ~HasText(now[Len(now) - 1])
        /\ \E i \in 1..Len(now) - 2 : HasText(now[i]))
  BY DEF Lost
<1> HIDE DEF m, known, now
<1>4. k \in Nat /\ Len(now) = k + 1 /\ \A i \in 1..k : now[i] = known[i]
  BY <1>1, <1>2, AppendList, ListDomain
<1> HIDE DEF k
<1>5. PICK i \in 1..k : HasText(known[i])  BY <1>1 DEF k
<1>6. k \in 1..k /\ k # 0  BY <1>4
<1>7. HasText(known[k])
  <2> SUFFICES ASSUME ~HasText(known[k]) PROVE FALSE
    OBVIOUS
  <2>1. i # k  BY <1>5
  <2>2. k + 1 > 2 /\ (k + 1) - 1 = k /\ i \in 1..(k + 1) - 2 /\ i \in 1..k
    BY <1>4, <1>5, <2>1
  <2>3. HasText(now[i]) /\ ~HasText(now[k])  BY <1>4, <1>5, <1>6
  <2> HIDE DEF HasText
  <2> QED BY <1>3, <1>4, <2>2, <2>3
<1>8. Last(known) = known[k]  BY DEF Last, k
<1>9. known # <<>>
  <2>1. Len(<<>>) = 0  OBVIOUS
  <2> QED BY <1>6, <2>1 DEF k
<1> QED BY <1>7, <1>8, <1>9 DEF LastText, known

\* The final text is heard once, whichever separator was heard and the log gets.
LEMMA NothingMissing ==
  ASSUME NEW text, Spelled(text), text # <<>>, NEW had, NEW prefix,
         prefix = <<>> \/ prefix = <<Break>>
  PROVE  LET whole == prefix \o text
             streamed == Resumed(had, text)
             normalized == RemovePrefix(streamed, prefix)
         IN  /\ whole = Resumed(prefix = <<Break>>, text)
             /\ streamed # whole =>
                  /\ normalized # <<>>
                  /\ IsPrefix(normalized, text) => RemovePrefix(text, normalized) = <<>>
<1> DEFINE long == <<Break>> \o text
           streamed == Resumed(had, text)
<1>1. /\ RemovePrefix(long, <<Break>>) = text /\ RemovePrefix(text, <<Break>>) = text
      /\ ~IsPrefix(long, text) /\ long # <<>> /\ long # text
      /\ RemovePrefix(long, <<>>) = long /\ RemovePrefix(text, <<>>) = text
      /\ RemovePrefix(text, text) = <<>> /\ IsPrefix(text, text)
  BY SeparatorRemoved
<1>2. <<>> \o text = text  BY ConcatLists, EmptyList DEF Spelled
<1>3. <<>> # << Break >>  OBVIOUS
<1>4. streamed = text \/ streamed = long  BY DEF Resumed
<1>5. Resumed(TRUE, text) = long /\ Resumed(FALSE, text) = text  BY DEF Resumed
<1>6. CASE prefix = <<>>
  <2>1. prefix # <<Break>> /\ prefix \o text = text  BY <1>2, <1>3, <1>6
  <2> HIDE DEF streamed, long
  <2>2. streamed # text => RemovePrefix(streamed, prefix) = long
    BY <1>1, <1>4, <1>6
  <2> QED BY <1>1, <1>4, <1>5, <2>1, <2>2 DEF streamed
<1>7. CASE prefix = <<Break>>
  <2>1. prefix \o text = long  BY <1>7
  <2> HIDE DEF streamed, long
  <2>2. streamed # long => RemovePrefix(streamed, prefix) = text
    BY <1>1, <1>4, <1>7
  <2> QED BY <1>1, <1>4, <1>5, <1>7, <2>1, <2>2 DEF streamed
<1> QED BY <1>6, <1>7

LEMMA FinalShown ==
  ASSUME NEW t, NEW log, IsList(log), NEW heard, IsList(heard), NEW content,
         Left(t, Append(log, content), heard),
         NEW had, NEW text, Spelled(text), text # <<>>, NEW thinking,
         content = Assistant(Resumed(had, text), thinking, <<>>),
         NEW told, FinalTextFromMessages(told) = text
  PROVE  \E separated : /\ PriorText(log) => separated
                        /\ Left(AppendMissingFinalText(t, told),
                                Append(log, Assistant(Resumed(separated, text), thinking, <<>>)), heard)
<1> DEFINE all == Append(log, content)
           n == Len(all)
           prefix == ToolResumeSeparatorPrefix(all)
           whole == prefix \o text
           streamed == Resumed(had, text)
           normalized == RemovePrefix(streamed, prefix)
           missing == CASE normalized = <<>> -> whole
                        [] normalized # <<>> /\ IsPrefix(normalized, text) -> RemovePrefix(text, normalized)
                        [] OTHER -> <<>>
           grown == IF streamed = whole THEN heard ELSE heard \o missing
           separated == prefix = <<Break>>
<1>1. IsAssistant(content) /\ content.text = streamed  BY DEF Assistant, IsAssistant
<1>2. /\ IsList(all) /\ all[n] = content /\ all # <<>> /\ Last(all) = content
      /\ \A y : Replaced(all, n, y) = Append(log, y)
  <2>1. IsList(all) /\ all[n] = content /\ \A y : Replaced(all, n, y) = Append(log, y)
    BY LastReplaced
  <2>2. all # <<>>
    <3>1. Len(all) = Len(log) + 1 /\ Len(log) \in Nat /\ Len(<<>>) = 0
      BY AppendList, ListDomain
    <3> HIDE DEF all
    <3> QED BY <3>1
  <2> QED BY <2>1, <2>2 DEF Last
<1>3. (prefix = <<>> \/ prefix = <<Break>>) /\ (PriorText(log) => separated)
  BY <1>1, PrefixFound
<1>4. /\ whole = Resumed(separated, text)
      /\ streamed # whole =>
           normalized # <<>> /\ (IsPrefix(normalized, text) => RemovePrefix(text, normalized) = <<>>)
  <2> HIDE DEF prefix
  <2> QED BY <1>3, NothingMissing
<1>5. grown = heard
  <2>1. heard \o <<>> = heard  BY EmptyList, ConcatLists
  <2> HIDE DEF streamed, whole, normalized
  <2>2. streamed # whole => missing = <<>>  BY <1>4
  <2> HIDE DEF missing
  <2> QED BY <2>1, <2>2
<1>6. t.log = all /\ t.heard = heard /\ TurnFields \subseteq DOMAIN t  BY DEF Left
<1>7. \A y, h : Left([t EXCEPT !.log = y, !.heard = h], y, h)
  BY <1>6 DEF Left, TurnFields
<1>8. [content EXCEPT !.text = whole] = Assistant(whole, thinking, <<>>)
  <2> HIDE DEF whole
  <2> QED BY DEF Assistant
<1> DEFINE end == Replaced(all, n, [content EXCEPT !.text = whole])
<1>9. AppendMissingFinalText(t, told) = [t EXCEPT !.log = end, !.heard = grown]
  <2> DEFINE final == FinalTextFromMessages(told)
  <2>1. final = text  OBVIOUS
  <2> HIDE DEF final
  <2>2. AppendMissingFinalText(t, told) =
          [t EXCEPT !.log[n].text = whole, !.heard = IF streamed = whole THEN @ ELSE @ \o missing]
    <3> HIDE DEF all, n, prefix
    <3>1. ToolResumeSeparatorPrefix(t.log) = prefix /\ Last(t.log).text = streamed
          /\ t.log # <<>> /\ IsAssistant(Last(t.log)) /\ Len(t.log) = n
      BY <1>1, <1>2, <1>6 DEF prefix, n
    <3> HIDE DEF streamed
    <3> QED BY <2>1, <3>1, Zenon DEF AppendMissingFinalText, final
  <2> HIDE DEF all, n, prefix, missing, streamed, whole
  <2>3. t.log = all /\ all[n] = content /\ t.heard = heard  BY <1>2, <1>6
  <2> QED BY <2>2, <2>3 DEF Replaced
<1>10. end = Append(log, Assistant(whole, thinking, <<>>))
  <2> HIDE DEF all, n, whole
  <2> QED BY <1>2, <1>8
<1> HIDE DEF end, grown, whole, separated, all, n, prefix, streamed
<1>11. Left(AppendMissingFinalText(t, told), end, heard)
  <2>1. Left([t EXCEPT !.log = end, !.heard = grown], end, grown)  BY <1>7
  <2> QED BY <1>5, <1>9, <2>1
<1>12. Left(AppendMissingFinalText(t, told), Append(log, Assistant(Resumed(separated, text), thinking, <<>>)), heard)
  BY <1>4, <1>10, <1>11
<1> QED BY <1>3, <1>12, Zenon

-----------------------------------------------------------------------------
(* The end of a run.                                                       *)

LEMMA FinishQuiet ==
  ASSUME NEW past, MessagesOK(past), NEW log, NEW heard, Base(log, heard, past),
         NEW had, had = (TextsOf(past) # <<>>), NEW t, Before(t, had, log, heard)
  PROVE  Whole(AppendMissingFinalText(Flush(t), Answered(past, <<>>)), Answered(past, <<>>))
<1> DEFINE told == Answered(past, <<>>)
<1>1. PICK open, thinking, known :
        /\ Looks(t, open, had, FALSE, Assistant(<<>>, thinking, <<>>), known, heard)
        /\ log = Flushed(known, Assistant(<<>>, thinking, <<>>))
  BY DEF Before
<1>2. Looks(Flush(t), open, had, FALSE, Blank, log, heard)  BY <1>1, RecordLooks
<1>3. Left(Flush(t), log, heard)  BY <1>2 DEF Looks, Left
<1>4. AppendMissingFinalText(Flush(t), told) = Flush(t)
  <2>1. FinalTextFromMessages(told) = <<>>  BY NoParts, FinalText
  <2> HIDE DEF told
  <2> QED BY <2>1 DEF AppendMissingFinalText
<1>5. Closed(log, heard, told, RoundsOf(LogOf(told)))
  <2>1. Sep(had, TextIn(<<>>)) = <<>> /\ Blank = Assistant(<<>>, ThoughtIn(<<>>), CallsIn(<<>>))
    BY NoParts DEF Sep, Blank
  <2>2. Closed(Flushed(log, Blank), heard \o Sep(had, TextIn(<<>>)), told, RoundsOf(LogOf(told)))
    BY <2>1, NoParts, ClosingShown
  <2>3. Flushed(log, Blank) = log /\ heard \o <<>> = heard
    BY EmptyList, ConcatLists DEF Flushed, Base, Closed
  <2> QED BY <2>1, <2>2, <2>3
<1> HIDE DEF told
<1>6. WholeLog(log, heard, told)  BY <1>5 DEF WholeLog, Closed, Voiced
<1>7. Whole(AppendMissingFinalText(Flush(t), told), told)
  BY <1>3, <1>4, <1>6, Zenon DEF Whole
<1> QED BY <1>7 DEF told

LEMMA FinishText ==
  ASSUME NEW past, MessagesOK(past), NEW log, NEW heard, Base(log, heard, past),
         NEW had, had = (TextsOf(past) # <<>>), NEW parts, PartsOK(parts), CallsIn(parts) = <<>>,
         TextIn(parts) # <<>>, NEW t, Showing(t, had, parts, log, heard)
  PROVE  Whole(AppendMissingFinalText(Flush(t), Answered(past, parts)), Answered(past, parts))
<1> DEFINE told == Answered(past, parts)
           text == TextIn(parts)
           thinking == ThoughtIn(parts)
           rounds == RoundsOf(LogOf(past))
           speech == SpeechOf(log)
           shown == Resumed(had, text)
           content == Assistant(shown, thinking, <<>>)
           said == Assistant(text, thinking, <<>>)
           all == heard \o shown
           end == AppendMissingFinalText(Flush(t), told)
<1>1. /\ IsList(log) /\ IsList(heard) /\ RoundsOf(log) = rounds
      /\ IsList(speech) /\ SaidOf(past, speech) /\ (speech # <<>> => TextsOf(past) # <<>>)
      /\ LastText(past) => PriorText(log)
  BY DEF Base, Closed, Voiced
<1>2. Spelled(text) /\ IsList(text) /\ text # <<>>  BY DEF PartsOK, Spelled
<1>3. Sep(had, text) = shown  BY DEF Sep
<1>4. IsList(shown) /\ shown # <<>>
  <2>1. Resumed(had, text) # <<>>  BY <1>2, SeparatorRemoved DEF Resumed
  <2>2. IsList(Resumed(had, text))  BY <1>2, ResumedIs
  <2> QED BY <2>1, <2>2
<1>5. content # Blank /\ said # Blank  BY <1>2, <1>4, BlankIs
<1>6. Left(Flush(t), Append(log, content), all)
  <2>1. parts # <<>>  BY NoParts
  <2>2. had \in BOOLEAN  OBVIOUS
  <2>3. Looks(t, TRUE, text = <<>> /\ had, text # <<>>, content, log, all)
    BY <1>3, <2>1, <2>2, ShownAnswer DEF CallsLook
  <2> HIDE DEF content, all, text
  <2>4. Looks(Flush(t), TRUE, text = <<>> /\ had, text # <<>>, Blank, Flushed(log, content), all)
    BY <2>3, RecordLooks
  <2> QED BY <1>5, <2>4 DEF Looks, Left, Flushed
<1>7. IsList(all) /\ Plain(all) = TextsOf(told)
  <2>1. /\ Closed(Flushed(log, Assistant(Sep(had, text), thinking, CallsIn(parts))), heard \o Sep(had, text),
                  told, RoundsOf(LogOf(told)))
    BY ClosingShown
  <2> QED BY <1>3, <2>1 DEF Closed
<1>8. FinalTextFromMessages(told) = text  BY FinalText
<1>9. RoundsOf(LogOf(told)) = Append(rounds, OneRound(said, {}))
  BY <1>5, AnswerRounds
<1>10. ASSUME NEW more, Says(speech, text, more) PROVE SaidOf(told, more)
  BY <1>1, <1>10, SaidOfMore
<1>11. ~Lost(told) /\ speech # <<>> => PriorText(log)  BY <1>1, TextBefore
<1> HIDE DEF told, text, thinking, rounds, speech, all
<1>12. PICK separated :
         /\ PriorText(log) => separated
         /\ Left(end, Append(log, Assistant(Resumed(separated, text), thinking, <<>>)), all)
  <2> HIDE DEF shown
  <2>1. content = Assistant(Resumed(had, text), thinking, <<>>)  BY DEF shown
  <2> HIDE DEF content
  <2> QED BY <1>1, <1>2, <1>6, <1>7, <1>8, <2>1, FinalShown DEF told
<1> DEFINE final == Resumed(separated, text)
           last == Assistant(final, thinking, <<>>)
           more == Append(log, last)
<1>13. IsList(final) /\ Plain(final) = text  BY <1>2, ResumedIs, PlainIs
<1>14. IsAssistant(last) /\ last.text = final  BY DEF Assistant, IsAssistant
<1>15. Round(rounds, last) = Append(rounds, OneRound(said, {}))
  <2> HIDE DEF final
  <2> QED BY <1>13, RoundBegins
<1> HIDE DEF last, said
<1>16. IsList(more) /\ RoundsOf(more) = RoundsOf(LogOf(told)) /\ SpeechOf(more) = MergeSpeech(speech, last)
  BY <1>1, <1>9, <1>14, <1>15, LogMore DEF speech
<1>17. ASSUME ~Lost(told) PROVE SaidOf(told, SpeechOf(more))
  <2>1. speech # <<>> => separated  BY <1>11, <1>12, <1>17
  <2>2. last.text = Resumed(separated, text)  BY <1>14
  <2>3. Says(speech, text, MergeSpeech(speech, last))
    BY <1>1, <1>2, <2>1, <2>2, MergeSays
  <2> QED BY <1>10, <1>16, <2>3
<1>18. WholeLog(more, all, told)  BY <1>7, <1>16, <1>17 DEF WholeLog
<1>19. Left(end, more, all)  BY <1>12 DEF last
<1>20. Whole(end, told)  BY <1>18, <1>19, Zenon DEF Whole
<1> QED BY <1>20 DEF end, told

-----------------------------------------------------------------------------
(* A turn between the steps of a run.                                      *)

LEMMA NoMessages ==
  MessagesOK(<<>>) /\ Waiting(NewTurn, <<>>)
<1>1. IsList(<<>>) /\ Len(<<>>) = 0 /\ \A i \in 1..0 : FALSE  BY EmptyList
<1>2. /\ TextsOf(<<>>) = <<>> /\ AnswersOf(<<>>) = <<>> /\ Plain(<<>>) = <<>>
      /\ RoundsOf(<<>>) = <<>> /\ SpeechOf(<<>>) = <<>> /\ LogOf(<<>>) = <<>>
  BY <1>1, FoldOfNone, FlatNone DEF TextsOf, AnswersOf, Plain, RoundsOf, SpeechOf, LogOf
<1>3. MessagesOK(<<>>)  BY <1>1, <1>2 DEF MessagesOK
<1>4. Base(<<>>, <<>>, <<>>)
  BY <1>1, <1>2 DEF Base, Closed, Voiced, SaidOf, LastText
<1>5. Looks(NewTurn, FALSE, FALSE, FALSE, Blank, <<>>, <<>>)
  BY DEF NewTurn, Looks, TurnFields
<1>6. Before(NewTurn, FALSE, <<>>, <<>>)
  <2>1. Blank = Assistant(<<>>, <<>>, <<>>) /\ Flushed(<<>>, Blank) = <<>>
    BY DEF Blank, Flushed
  <2> QED BY <1>5, <2>1 DEF Before
<1>7. Had(<<>>) = FALSE  BY <1>2 DEF Had
<1> QED BY <1>3, <1>4, <1>6, <1>7 DEF Waiting

LEMMA AnswerBegins ==
  ASSUME NEW t, NEW told, Waiting(t, told)
  PROVE  Answering(t, told, <<>>)
BY DEF Waiting, Answering, Showing

LEMMA AnswerGrows ==
  ASSUME NEW t, NEW told, NEW parts, PartsOK(parts), Answering(t, told, parts),
         NEW update, TellsOn(parts, update), update.ok
  PROVE  /\ PartsOK(update.parts)
         /\ Answering(AgentEventsToChatDeltas(t, update.out), told, update.parts)
<1>1. PICK log, heard : Showing(t, Had(told), parts, log, heard) /\ Base(log, heard, told)
  BY DEF Answering
<1>2. IsList(heard) /\ Had(told) \in BOOLEAN  BY <1>1 DEF Base, Closed, Had
<1>3. ASSUME NEW now, PartsOK(now), Showing(t, Had(told), now, log, heard), Tells(now, update)
      PROVE  /\ PartsOK(update.parts)
             /\ Showing(AgentEventsToChatDeltas(t, update.out), Had(told), update.parts, log, heard)
  BY <1>2, <1>3, UpdateShows
<1>4. ASSUME NEW key, NEW now, now = Untracked(parts, key)
      PROVE  PartsOK(now) /\ Showing(t, Had(told), now, log, heard)
  BY <1>1, <1>4, UntrackedSays DEF Showing
<1>5. /\ PartsOK(update.parts)
      /\ Showing(AgentEventsToChatDeltas(t, update.out), Had(told), update.parts, log, heard)
  <2>1. CASE Tells(parts, update)
    BY <1>1, <1>3, <2>1
  <2>2. ASSUME NEW key, Tells(Untracked(parts, key), update)
        PROVE  /\ PartsOK(update.parts)
               /\ Showing(AgentEventsToChatDeltas(t, update.out), Had(told), update.parts, log, heard)
    <3> DEFINE now == Untracked(parts, key)
    <3>1. Tells(now, update) /\ PartsOK(now) /\ Showing(t, Had(told), now, log, heard)
      BY <1>4, <2>2
    <3> HIDE DEF now
    <3> QED BY <1>3, <3>1
  <2> QED BY <2>1, <2>2, Zenon DEF TellsOn
<1> QED BY <1>1, <1>5, Zenon DEF Answering

LEMMA AnswerEnds ==
  ASSUME NEW t, NEW told, MessagesOK(told), NEW parts, PartsOK(parts), Answering(t, told, parts)
  PROVE  AnswerShown(t, Answered(told, parts), parts) /\ MessagesOK(Answered(told, parts))
<1>1. MessagesOK(Answered(told, parts))  BY AnswerMore
<1> QED BY <1>1, Zenon DEF AnswerShown

\* That a run has its result shows nothing.
LEMMA ResultKnown ==
  ASSUME NEW t, NEW told, NEW parts, AnswerShown(t, told, parts)
  PROVE  AnswerShown(ProcessAgentEvent(t, [type |-> "run_result"]), told, parts)
<1>1. PICK past : MessagesOK(past) /\ told = Answered(past, parts) /\ Answering(t, past, parts)
  BY DEF AnswerShown
<1>2. PICK log, heard : Showing(t, Had(past), parts, log, heard) /\ Base(log, heard, past)
  BY <1>1 DEF Answering
<1>3. ProcessAgentEvent(t, [type |-> "run_result"]) = RecordEvent(t)
  BY DEF ProcessAgentEvent
<1>4. Showing(RecordEvent(t), Had(past), parts, log, heard)  BY <1>2, RecordShows
<1>5. Answering(RecordEvent(t), past, parts)  BY <1>2, <1>4, Zenon DEF Answering
<1> QED BY <1>1, <1>3, <1>5, Zenon DEF AnswerShown

LEMMA RunFinishes ==
  ASSUME NEW t, NEW told, NEW parts, PartsOK(parts), AnswerShown(t, told, parts),
         CallsIn(parts) = <<>>, TextIn(parts) # <<>> \/ parts = <<>>, NEW run
  PROVE  Whole([AppendMissingFinalText(Flush(t), told) EXCEPT !.run = run], told)
<1> DEFINE u == AppendMissingFinalText(Flush(t), told)
<1>1. PICK past : MessagesOK(past) /\ told = Answered(past, parts) /\ Answering(t, past, parts)
  BY DEF AnswerShown
<1>2. PICK log, heard : Showing(t, Had(past), parts, log, heard) /\ Base(log, heard, past)
  BY <1>1 DEF Answering
<1>3. Whole(u, told)
  <2>1. CASE TextIn(parts) # <<>>
    BY <1>1, <1>2, <2>1, FinishText DEF Had
  <2>2. CASE parts = <<>>
    <3>1. Before(t, Had(past), log, heard)  BY <1>2, <2>2 DEF Showing
    <3> QED BY <1>1, <1>2, <2>2, <3>1, FinishQuiet DEF Had
  <2> QED BY <2>1, <2>2
<1> HIDE DEF u
<1>4. PICK last, all : Left(u, last, all) /\ WholeLog(last, all, told)
  BY <1>3 DEF Whole
<1>5. Left([u EXCEPT !.run = run], last, all)  BY <1>4 DEF Left, TurnFields
<1>6. Whole([u EXCEPT !.run = run], told)  BY <1>4, <1>5, Zenon DEF Whole
<1> QED BY <1>6 DEF u

\* Another answer is asked for.
LEMMA AnswerAskedAgain ==
  ASSUME NEW t, NEW told, NEW parts, PartsOK(parts), AnswerShown(t, told, parts),
         CallsIn(parts) = <<>>, TextIn(parts) = <<>>, NEW prompts, prompts \in {<<>>, <<Retry>>}
  PROVE  MessagesOK(Replied(told, prompts)) /\ Waiting(t, Replied(told, prompts))
<1> DEFINE content == Assistant(<<>>, ThoughtIn(parts), <<>>)
           asked == Replied(told, prompts)
<1>1. PICK past : MessagesOK(past) /\ told = Answered(past, parts) /\ Answering(t, past, parts)
  BY DEF AnswerShown
<1>2. PICK log, heard : Showing(t, Had(past), parts, log, heard) /\ Base(log, heard, past)
  BY <1>1 DEF Answering
<1>3. IsList(heard) /\ Had(past) \in BOOLEAN  BY <1>2 DEF Base, Closed, Had
<1>4. IsList(prompts)  BY EmptyList, OneIsList
<1>5. MessagesOK(told) /\ TextsOf(told) = TextsOf(past) /\ ~LastText(told)
  BY <1>1, AnswerMore
<1>6. MessagesOK(asked) /\ TextsOf(asked) = TextsOf(told) /\ ~LastText(asked)
  BY <1>4, <1>5, ReplyMore
<1>7. Before(t, Had(past), Flushed(log, content), heard)  BY <1>2, <1>3, QuietAnswer
<1>8. Closed(Flushed(log, content), heard, told, RoundsOf(LogOf(told)))
  <2>1. Sep(Had(past), TextIn(parts)) = <<>> /\ heard \o <<>> = heard
    BY <1>3, EmptyList, ConcatLists DEF Sep
  <2>2. Closed(Flushed(log, Assistant(Sep(Had(past), TextIn(parts)), ThoughtIn(parts), CallsIn(parts))),
               heard \o Sep(Had(past), TextIn(parts)), told, RoundsOf(LogOf(told)))
    BY <1>1, <1>2, ClosingShown DEF Had
  <2> QED BY <2>1, <2>2
<1>9. Closed(Flushed(log, content), heard, asked, RoundsOf(LogOf(told)))
  BY <1>4, <1>5, <1>8, ReplyClosed
<1>10. RoundsOf(LogOf(asked)) = RoundsOf(LogOf(told))  BY <1>5, PromptRounds
<1> HIDE DEF content, asked
<1>11. Base(Flushed(log, content), heard, asked)  BY <1>6, <1>9, <1>10 DEF Base
<1>12. Had(asked) = Had(past)  BY <1>5, <1>6 DEF Had
<1>13. Waiting(t, asked)  BY <1>7, <1>11, <1>12 DEF Waiting
<1> QED BY <1>6, <1>13 DEF asked

-----------------------------------------------------------------------------
(* Calls that are running.                                                 *)

LEMMA CallsBegin ==
  ASSUME NEW calls, IsList(calls), NEW called,
         called = [i \in DOMAIN calls |-> [kind |-> "return", call |-> calls[i], returned |-> FALSE]]
  PROVE  Made(called, calls) /\ Results(called) = {}
<1> DEFINE n == Len(calls)
<1>1. n \in Nat /\ DOMAIN calls = 1..n  BY ListDomain
<1> HIDE DEF n
<1>2. /\ DOMAIN called = 1..n /\ called = [i \in 1..n |-> called[i]]
      /\ \A i \in 1..n : called[i] = [kind |-> "return", call |-> calls[i], returned |-> FALSE]
  BY <1>1
<1>3. IsList(called) /\ Len(called) = n  BY <1>1, <1>2, MappedList
<1>4. \A i \in 1..n : /\ called[i].call = calls[i] /\ called[i].returned = FALSE
                      /\ "returned" \in DOMAIN called[i]
  BY <1>2
<1> QED BY <1>3, <1>4 DEF Made, Results, n

LEMMA ResultTaken ==
  ASSUME NEW called, NEW calls, Made(called, calls), NEW i \in DOMAIN called
  PROVE  /\ i \in 1..Len(called) /\ Made(Returned(called, i), calls)
         /\ Results(Returned(called, i)) = Results(called) \cup {ToolResult(called[i].call)}
         /\ called[i].call = calls[i]
<1> DEFINE n == Len(called)
           new == [called[i] EXCEPT !.returned = TRUE]
           more == Returned(called, i)
<1>1. IsList(called) /\ n \in Nat /\ i \in 1..n /\ n = Len(calls)
  BY ListDomain DEF Made
<1>2. \A j \in 1..n : /\ called[j].call = calls[j] /\ "returned" \in DOMAIN called[j]
                      /\ called[j].returned \in BOOLEAN
  BY DEF Made
<1>3. new.call = called[i].call /\ new.returned = TRUE /\ "returned" \in DOMAIN new
  BY <1>1, <1>2
<1>4. more = Replaced(called, i, new)  BY DEF Replaced, Returned
<1> HIDE DEF new, more
<1>5. /\ IsList(more) /\ Len(more) = n
      /\ \A j \in 1..n : more[j] = IF j = i THEN new ELSE called[j]
  BY <1>1, <1>4, ExceptAt
<1>6. \A j \in 1..n : /\ more[j].call = calls[j] /\ "returned" \in DOMAIN more[j]
                      /\ more[j].returned \in BOOLEAN
                      /\ more[j].call = called[j].call
                      /\ more[j].returned <=> (called[j].returned \/ j = i)
  BY <1>1, <1>2, <1>3, <1>5
<1>7. Made(more, calls)  BY <1>1, <1>5, <1>6 DEF Made
<1>8. Results(more) = Results(called) \cup {ToolResult(called[i].call)}
  <2> HIDE DEF n
  <2>1. \A r : r \in Results(more) <=> \E j \in 1..n : more[j].returned /\ r = ToolResult(more[j].call)
    BY <1>5 DEF Results
  <2>2. \A r : r \in Results(called) <=> \E j \in 1..n : called[j].returned /\ r = ToolResult(called[j].call)
    BY DEF Results, n
  <2>3. \A r : r \in Results(more) <=> r \in Results(called) \/ r = ToolResult(called[i].call)
    BY <1>1, <1>6, <2>1, <2>2
  <2> QED BY <2>3
<1> QED BY <1>1, <1>2, <1>7, <1>8 DEF more

LEMMA AllReturned ==
  ASSUME NEW called, NEW calls, Made(called, calls), ~\E i \in DOMAIN called : ~called[i].returned
  PROVE  Results(called) = ResultsOf(calls, Len(calls))
<1> DEFINE n == Len(called)
<1>1. n \in Nat /\ DOMAIN called = 1..n /\ n = Len(calls)  BY ListDomain DEF Made
<1>2. \A j \in 1..n : called[j].call = calls[j] /\ called[j].returned
  BY <1>1 DEF Made
<1> HIDE DEF n
<1>3. \A r : r \in Results(called) <=> \E j \in 1..n : called[j].returned /\ r = ToolResult(called[j].call)
  BY DEF Results, n
<1>4. \A r : r \in Results(called) <=> \E j \in 1..n : r = ToolResult(calls[j])
  BY <1>2, <1>3
<1> QED BY <1>1, <1>4 DEF ResultsOf

LEMMA CallsStart ==
  ASSUME NEW t, NEW told, NEW parts, PartsOK(parts), AnswerShown(t, told, parts),
         NEW calls, calls = CallsIn(parts), calls # <<>>,
         NEW given, AllNew(t.callIds, given, Len(calls)),
         NEW events, events = [i \in DOMAIN calls |-> CallEvent(calls[i], given[i])],
         NEW called,
         called = [i \in DOMAIN calls |-> [kind |-> "return", call |-> calls[i], returned |-> FALSE]],
         NEW run
  PROVE  CallsOpen([AgentEventsToChatDeltas(t, events) EXCEPT !.run = run], told, parts, called)
<1> DEFINE u == AgentEventsToChatDeltas(t, events)
           text == TextIn(parts)
           thinking == ThoughtIn(parts)
<1>1. PICK past : MessagesOK(past) /\ told = Answered(past, parts) /\ Answering(t, past, parts)
  BY DEF AnswerShown
<1>2. PICK log, heard : Showing(t, Had(past), parts, log, heard) /\ Base(log, heard, past)
  BY <1>1 DEF Answering
<1> DEFINE had == Had(past)
           sep == Sep(had, text)
           needs == text = <<>> /\ had
           seen == text # <<>>
           pending == Assistant(sep, thinking, calls)
           said == Assistant(text, thinking, calls)
           all == heard \o sep
           rounds == RoundsOf(LogOf(past))
<1>3. IsList(calls)  BY DEF PartsOK, CallsOK
<1>4. Made(called, calls) /\ Results(called) = {}  BY <1>3, CallsBegin
<1>5. had \in BOOLEAN /\ had = (TextsOf(past) # <<>>)  BY DEF Had
<1>6. CallsLook(t, needs, seen, sep, thinking, <<>>, log, all)
  <2>1. parts # <<>>  BY NoParts
  <2> HIDE DEF had
  <2> QED BY <1>2, <1>5, <2>1, ShownAnswer DEF had
<1>7. (needs \/ seen) = Had(told)  BY <1>1, AnswerMore DEF Had
<1>8. Closed(Flushed(log, pending), all, told, Append(rounds, OneRound(said, {})))
  <2>1. Closed(Flushed(log, pending), all, told, RoundsOf(LogOf(told)))
    <3> HIDE DEF had
    <3> QED BY <1>1, <1>2, <1>5, ClosingShown
  <2>2. said # Blank  BY BlankIs
  <2>3. RoundsOf(LogOf(told)) = Append(rounds, OneRound(said, {}))
    BY <1>1, <2>2, AnswerRounds
  <2> QED BY <2>1, <2>3
<1>9. needs \in BOOLEAN /\ seen \in BOOLEAN  BY <1>5
<1> HIDE DEF needs, seen, sep, all, had, text, thinking
<1>10. CallsLook(u, needs, seen, sep, thinking, calls, log, all)
  BY <1>3, <1>6, CallsShown
<1> HIDE DEF u
<1>11. Looks([u EXCEPT !.run = run], TRUE, needs, seen, pending, log, all)
  BY <1>10, RecordLooks DEF CallsLook
<1>12. LogOfCalls(Flushed(log, pending), all, told, past, parts, Results(called))
  <2>1. IsList(rounds)  BY <1>2 DEF Base, Closed
  <2> QED BY <1>4, <1>8, <2>1 DEF LogOfCalls, text, thinking
<1> HIDE DEF pending
<1>13. CallsRunning([u EXCEPT !.run = run], past, told, parts, called)
  BY <1>7, <1>9, <1>11, <1>12, Zenon DEF CallsRunning
<1> QED BY <1>1, <1>4, <1>13 DEF CallsOpen, u

\* What a result shows; and after the last, its message is there.
LEMMA CallReturns ==
  ASSUME NEW t, NEW told, MessagesOK(told), NEW parts, PartsOK(parts), NEW called,
         CallsOpen(t, told, parts, called), NEW i \in DOMAIN called, NEW run
  PROVE  LET u == ProcessAgentEvent([t EXCEPT !.run = run], [type |-> "result", call |-> called[i].call])
             more == Returned(called, i)
         IN  /\ CallsOpen(u, told, parts, more)
             /\ ~(\E j \in DOMAIN more : ~more[j].returned)
                => MessagesOK(Replied(told, more)) /\ Waiting(u, Replied(told, more))
<1> DEFINE call == called[i].call
           u == ProcessAgentEvent([t EXCEPT !.run = run], [type |-> "result", call |-> call])
           more == Returned(called, i)
           calls == CallsIn(parts)
           said == Assistant(TextIn(parts), ThoughtIn(parts), calls)
<1>1. PICK past : MessagesOK(past) /\ told = Answered(past, parts) /\ CallsRunning(t, past, told, parts, called)
  BY DEF CallsOpen
<1> DEFINE rounds == RoundsOf(LogOf(past))
<1>2. Made(called, calls) /\ calls # <<>> /\ CallsOK(calls)
  BY DEF CallsOpen, PartsOK
<1>3. /\ i \in 1..Len(called) /\ Made(more, calls) /\ call = calls[i]
      /\ Results(more) = Results(called) \cup {ToolResult(call)}
  BY <1>2, ResultTaken
<1>4. call # 0  BY <1>2, <1>3 DEF CallsOK, Made
<1>5. PICK open, needs, seen, pending, log, heard :
        /\ needs \in BOOLEAN /\ seen \in BOOLEAN
        /\ Looks(t, open, needs, seen, pending, log, heard)
        /\ (needs \/ seen) = Had(told)
        /\ LogOfCalls(Flushed(log, pending), heard, told, past, parts, Results(called))
  BY <1>1, Zenon DEF CallsRunning
<1> DEFINE last == Append(Flushed(log, pending), ToolResult(call))
           had == needs \/ seen
<1>6. Looks(u, FALSE, had, FALSE, Blank, last, heard)
  <2> HIDE DEF call
  <2> QED BY <1>5, ResultShown
<1> HIDE DEF u, more, call
<1>7. IsList(rounds) /\ Closed(Flushed(log, pending), heard, told, Append(rounds, OneRound(said, Results(called))))
  BY <1>5 DEF LogOfCalls
<1>8. /\ Closed(last, heard, told, Append(rounds, OneRound(said, Results(more))))
      /\ LastText(told) => PriorText(last)
  <2> HIDE DEF said, rounds
  <2>1. /\ Closed(last, heard, told, Append(rounds, OneRound(said, Results(called) \cup {ToolResult(call)})))
        /\ LastText(told) => PriorText(last)
    BY <1>4, <1>7, ResultClosed
  <2> QED BY <1>3, <2>1
<1>9. CallsOpen(u, told, parts, more)
  <2>1. LogOfCalls(last, heard, told, past, parts, Results(more))
    BY <1>7, <1>8 DEF LogOfCalls
  <2>2. Flushed(last, Blank) = last /\ (had \/ FALSE) = Had(told) /\ had \in BOOLEAN
    BY <1>5 DEF Flushed
  <2> HIDE DEF last, had
  <2>3. CallsRunning(u, past, told, parts, more)
    BY <1>6, <2>1, <2>2, Zenon DEF CallsRunning
  <2> QED BY <1>1, <1>2, <1>3, <2>3 DEF CallsOpen
<1>10. ASSUME ~\E j \in DOMAIN more : ~more[j].returned
       PROVE  MessagesOK(Replied(told, more)) /\ Waiting(u, Replied(told, more))
  <2> DEFINE all == Replied(told, more)
             now == RoundsOf(LogOf(all))
  <2>1. IsList(more)  BY <1>3 DEF Made
  <2>2. MessagesOK(all) /\ TextsOf(all) = TextsOf(told) /\ (LastText(all) <=> LastText(told))
    BY <2>1, ReplyMore
  <2>3. now = Append(rounds, OneRound(said, Results(more)))
    <3> DEFINE m == [role |-> "request", parts |-> more]
    <3>1. MessageOK(m) /\ m.role # "response" /\ m.parts = more
      BY <2>1 DEF MessageOK
    <3> HIDE DEF m
    <3>2. now = RoundsAfter(RoundsOf(LogOf(told)), DeltasOf(m))
      <4>1. RoundsOf(LogOf(Append(told, m))) = RoundsAfter(RoundsOf(LogOf(told)), DeltasOf(m))
        BY <3>1, RoundsOfMore DEF MessagesOK
      <4> QED BY <4>1 DEF Replied, m
    <3>3. RoundsOf(LogOf(told)) = Append(rounds, OneRound(said, {}))
      <4>1. said # Blank  BY <1>2, BlankIs
      <4> QED BY <1>1, <4>1, AnswerRounds
    <3> DEFINE contents == DeltasOf(m)
               n == Len(calls)
    <3>4. Len(more) = n /\ n \in Nat /\ \A j \in 1..n : more[j].call = calls[j] /\ calls[j] # 0
      BY <1>2, <1>3, ListDomain DEF Made, CallsOK
    <3>5. Len(contents) = n /\ \A j \in 1..n : calls[j] # 0 /\ contents[j] = ToolResult(calls[j])
      BY <3>1, <3>4, DeltasAreList
    <3> HIDE DEF contents, said, rounds, calls, n
    <3>6. RoundsAfter(Append(rounds, OneRound(said, {})), contents)
            = Append(rounds, OneRound(said, ResultsOf(calls, n)))
      <4>1. IsList(rounds) /\ n \in Nat  BY <1>7, <3>4
      <4> QED BY <3>5, <4>1, RoundsOfResults
    <3>7. Results(more) = ResultsOf(calls, n)  BY <1>3, <1>10, AllReturned DEF n
    <3> QED BY <3>2, <3>3, <3>6, <3>7 DEF contents
  <2>4. Closed(last, heard, all, now)  BY <1>8, <2>1, <2>3, ReplyClosed
  <2>5. Base(last, heard, all)  BY <1>8, <2>2, <2>4 DEF Base
  <2>6. Before(u, had, last, heard)
    <3>1. Blank = Assistant(<<>>, <<>>, <<>>) /\ Flushed(last, Blank) = last
      BY DEF Blank, Flushed
    <3> HIDE DEF last, had
    <3> QED BY <1>6, <3>1, Zenon DEF Before
  <2>7. Had(all) = had  BY <1>5, <2>2 DEF Had
  <2> HIDE DEF all, last, had
  <2>8. Waiting(u, all)  BY <2>5, <2>6, <2>7, Zenon DEF Waiting
  <2> QED BY <2>2, <2>8 DEF all
<1> QED BY <1>9, <1>10 DEF u, more, call

-----------------------------------------------------------------------------
(* What is shown, step by step.                                            *)

LEMMA ShownInitOK == Init => ShownInv
<1> SUFFICES ASSUME Init PROVE ShownInv
  OBVIOUS
<1>1. pc = "requesting" /\ assembly.parts = <<>> /\ messages = <<>> /\ turn = NewTurn
  BY DEF Init, NoAssembly
<1> QED BY <1>1, NoParts, NoMessages DEF ShownInv

LEMMA FailShown == ASSUME Fail PROVE ShownInv'
<1>1. pc' \in {"partial", "raw"} /\ assembly'.parts = <<>> /\ messages' = <<>>
  BY DEF Fail, NoAssembly
<1> QED BY <1>1, NoParts, NoMessages DEF ShownInv

\* An event that arrives is shown as it grows the parts.
LEMMA ArrivalShown == ASSUME PartsInv, ShownInv, Arrival PROVE ShownInv'
<1>1. pc = "receiving" /\ \E said, e : Arrives(said, e)  BY DEF Arrival
<1> PICK said, e : Arrives(said, e)
  BY <1>1
<1>2. /\ Deliver(said, e) /\ Delivered(api, ids, answer.items, assembly, e, said.items)
      /\ api = "chat" => ChatDelivered(ids, answer.items, assembly, e, said.items)
  BY DEF Arrives
<1> DEFINE update == Assemble(api, ids, assembly, e)
           items == said.items
<1>3. collided' = (collided \/ IdsCollide(said))  BY <1>2 DEF Deliver
<1>4. CASE ~update.ok
  <2>1. Fail  BY <1>2, <1>4 DEF Deliver
  <2> QED BY <2>1, FailShown
<1>5. CASE update.ok
  <2>1. /\ assembly'.parts = update.parts /\ turn' = AgentEventsToChatDeltas(turn, update.out)
        /\ UNCHANGED <<pc, messages>>
    BY <1>2, <1>5 DEF Deliver
  <2>2. ASSUME ~collided' PROVE TellsOn(assembly.parts, update)
    <3>1. CASE api = "chat"
      BY <1>2, <3>1 DEF PartsInv, ChatDelivered
    <3>2. CASE api # "chat"
      <4>1. ~collided /\ ~IdsCollide(said)  BY <1>3, <2>2
      <4>2. SaidOK(api, ids, items, ArgDeltaItemIds(ids, assembly, e))
        BY <1>2 DEF Delivered
      <4>3. Distinct(api, ids, items)
        BY <4>1, <4>2 DEF SaidOK, Distinct, IdsCollide
      <4>4. Distinct(api, ids, answer.items) /\ assembly.parts = PartsOf(api, ids, answer.items)
        BY <3>2, <4>1 DEF PartsInv
      <4>5. Tells(assembly.parts, update)  BY <1>2, <3>2, <4>3, <4>4 DEF Delivered
      <4> HIDE DEF update
      <4> QED BY <4>5 DEF TellsOn
    <3> QED BY <3>1, <3>2
  <2> HIDE DEF update
  <2>3. ASSUME ~collided'
        PROVE  /\ MessagesOK(messages) /\ PartsOK(update.parts)
               /\ Answering(AgentEventsToChatDeltas(turn, update.out), messages, update.parts)
    <3>1. MessagesOK(messages) /\ PartsOK(assembly.parts) /\ Answering(turn, messages, assembly.parts)
      BY <1>1, <1>3, <2>3 DEF ShownInv
    <3> QED BY <1>5, <2>2, <2>3, <3>1, AnswerGrows
  <2> QED BY <1>1, <2>1, <2>3 DEF ShownInv
<1> QED BY <1>4, <1>5

\* The last message is the answer.
LEMMA LastIsAnswer ==
  ASSUME StreamInv, PartsInv, pc = "answered"
  PROVE  /\ Last(messages).parts = assembly.parts
         /\ Calls = CallsIn(assembly.parts)
         /\ HasText(Last(messages)) <=> TextIn(assembly.parts) # <<>>
<1> DEFINE m == Last(messages)
<1>1. m.parts = assembly.parts /\ IsList(m.parts)  BY DEF PartsInv, StreamInv
<1> HIDE DEF m
<1>2. CallsOf(m) = CallsIn(m.parts)  BY <1>1, CallsAreFold
<1>3. TextOf(m) = TextIn(m.parts)  BY <1>1, WordsInAreFold DEF TextOf, TextIn
<1> QED BY <1>1, <1>2, <1>3 DEF Calls, HasText, m

LEMMA AnswerSteps ==
  ASSUME StreamInv, PartsInv, ShownInv
  PROVE  /\ OpenStream => ShownInv'
         /\ EndStream => ShownInv'
         /\ Succeed => ShownInv'
         /\ AskAgain => ShownInv'
         /\ Finish => ShownInv'
<1> DEFINE parts == assembly.parts
<1>1. ASSUME OpenStream PROVE ShownInv'
  <2>1. /\ pc = "requesting" /\ pc' = "receiving" /\ assembly'.parts = <<>>
        /\ UNCHANGED <<messages, turn, collided>>
    BY <1>1 DEF OpenStream, NoAssembly
  <2>2. ~collided => MessagesOK(messages) /\ Waiting(turn, messages)
    BY <2>1 DEF ShownInv
  <2>3. ~collided => Answering(turn, messages, <<>>)  BY <2>2, AnswerBegins
  <2> QED BY <2>1, <2>2, <2>3, NoParts DEF ShownInv
<1>2. ASSUME EndStream PROVE ShownInv'
  <2>1. /\ pc = "receiving" /\ pc' = "answered" /\ messages' = Answered(messages, parts)
        /\ UNCHANGED <<assembly, turn, collided>>
    BY <1>2 DEF EndStream, Answered, Response
  <2>2. ~collided => MessagesOK(messages) /\ PartsOK(parts) /\ Answering(turn, messages, parts)
    BY <2>1 DEF ShownInv
  <2> HIDE DEF parts
  <2>3. ~collided => /\ MessagesOK(Answered(messages, parts))
                     /\ AnswerShown(turn, Answered(messages, parts), parts)
    BY <2>2, AnswerEnds
  <2> QED BY <2>1, <2>2, <2>3 DEF ShownInv, parts
<1>3. ASSUME Succeed PROVE ShownInv'
  <2>1. /\ pc = "answered" /\ pc' = "finishing" /\ Calls = <<>>
        /\ HasText(Last(messages)) \/ Last(messages).parts = <<>>
        /\ turn' = ProcessAgentEvent(turn, [type |-> "run_result"])
        /\ UNCHANGED <<assembly, messages, collided>>
    BY <1>3 DEF Succeed, NothingNew
  <2>2. CallsIn(parts) = <<>> /\ (TextIn(parts) # <<>> \/ parts = <<>>)
    BY <2>1, LastIsAnswer
  <2>3. ~collided => MessagesOK(messages) /\ PartsOK(parts) /\ AnswerShown(turn, messages, parts)
    BY <2>1 DEF ShownInv
  <2> HIDE DEF parts
  <2>4. ~collided => AnswerShown(turn', messages, parts)  BY <2>1, <2>3, ResultKnown
  <2> QED BY <2>1, <2>2, <2>3, <2>4 DEF ShownInv, parts
<1>4. ASSUME AskAgain PROVE ShownInv'
  <2>1. pc = "answered" /\ Calls = <<>> /\ ~HasText(Last(messages)) /\ UNCHANGED collided
    BY <1>4 DEF AskAgain
  <2>2. CallsIn(parts) = <<>> /\ TextIn(parts) = <<>>  BY <2>1, LastIsAnswer
  <2>3. CASE Fail
    BY <2>3, FailShown
  <2>4. CASE ~Fail
    <3> DEFINE prompts == IF Last(messages).parts = <<>> THEN <<>> ELSE <<Retry>>
    <3>1. /\ pc' = "requesting" /\ messages' = Replied(messages, prompts)
          /\ UNCHANGED <<assembly, turn>>
      BY <1>4, <2>4 DEF AskAgain, Replied, Retry
    <3>2. prompts \in {<<>>, <<Retry>>}  OBVIOUS
    <3> HIDE DEF prompts, parts
    <3>3. ~collided => MessagesOK(messages) /\ PartsOK(parts) /\ AnswerShown(turn, messages, parts)
      BY <2>1 DEF ShownInv, parts
    <3>4. ~collided => MessagesOK(Replied(messages, prompts)) /\ Waiting(turn, Replied(messages, prompts))
      BY <2>2, <3>2, <3>3, AnswerAskedAgain
    <3> QED BY <2>1, <3>1, <3>3, <3>4 DEF ShownInv, parts
  <2> QED BY <2>3, <2>4
<1>5. ASSUME Finish PROVE ShownInv'
  <2> DEFINE finished == AppendMissingFinalText(Flush(turn), messages)
             run == Record(Record(finished.run, "output"), "llm_response")
  <2>1. /\ pc = "finishing" /\ pc' = "done" /\ turn' = [finished EXCEPT !.run = run]
        /\ UNCHANGED <<assembly, messages, collided>>
    BY <1>5 DEF Finish
  <2>2. ~collided => /\ MessagesOK(messages) /\ PartsOK(parts) /\ AnswerShown(turn, messages, parts)
                     /\ CallsIn(parts) = <<>> /\ (TextIn(parts) # <<>> \/ parts = <<>>)
    BY <2>1 DEF ShownInv
  <2> HIDE DEF run, parts
  <2>3. ~collided => Whole([finished EXCEPT !.run = run], messages)
    BY <2>2, RunFinishes
  <2> HIDE DEF finished
  <2> QED BY <2>1, <2>2, <2>3 DEF ShownInv, parts
<1> QED BY <1>1, <1>2, <1>3, <1>4, <1>5

LEMMA StartCallsShown == ASSUME StreamInv, PartsInv, ShownInv, StartCalls PROVE ShownInv'
<1> DEFINE parts == assembly.parts
           calls == CallsIn(parts)
           given == CallIds
           events == [i \in DOMAIN calls |-> CallEvent(calls[i], given[i])]
           called == [i \in DOMAIN calls |-> [kind |-> "return", call |-> calls[i], returned |-> FALSE]]
           shown == AgentEventsToChatDeltas(turn, events)
<1>1. pc = "answered" /\ Calls = calls  BY LastIsAnswer DEF StartCalls
<1>2. /\ calls # <<>> /\ pc' = "calling" /\ calling' = called
      /\ \E run : turn' = [shown EXCEPT !.run = run]
      /\ collided' = (collided \/ IdsRecur)
      /\ UNCHANGED <<assembly, messages>>
  <2> HIDE DEF calls
  <2> QED BY <1>1 DEF StartCalls, CallEvent
<1>3. ~collided => MessagesOK(messages) /\ PartsOK(parts) /\ AnswerShown(turn, messages, parts)
  BY <1>1 DEF ShownInv
<1>4. ~collided /\ ~IdsRecur => AllNew(turn.callIds, given, Len(calls))
  <2> SUFFICES ASSUME ~collided, ~IdsRecur PROVE AllNew(turn.callIds, given, Len(calls))
    OBVIOUS
  <2>1. DOMAIN calls = 1..Len(calls)  BY <1>3, ListDomain DEF PartsOK, CallsOK
  <2>2. DOMAIN given = 1..Len(calls)
    <3> HIDE DEF calls
    <3> QED BY <1>1, <2>1 DEF CallIds
  <2> HIDE DEF calls
  <2> QED BY <2>2 DEF IdsRecur, AllNew
<1> PICK run : turn' = [shown EXCEPT !.run = run]
  BY <1>2
<1>5. ~collided /\ ~IdsRecur => CallsOpen([shown EXCEPT !.run = run], messages, parts, called)
  <2> SUFFICES ASSUME ~collided, ~IdsRecur
               PROVE  CallsOpen([shown EXCEPT !.run = run], messages, parts, called)
    OBVIOUS
  <2>1. /\ PartsOK(parts) /\ AnswerShown(turn, messages, parts)
        /\ calls = CallsIn(parts) /\ calls # <<>> /\ AllNew(turn.callIds, given, Len(calls))
    BY <1>2, <1>3, <1>4
  <2>2. /\ events = [i \in DOMAIN calls |-> CallEvent(calls[i], given[i])]
        /\ called = [i \in DOMAIN calls |-> [kind |-> "return", call |-> calls[i], returned |-> FALSE]]
    OBVIOUS
  <2> HIDE DEF parts, given, calls, events, called
  <2> QED BY <2>1, <2>2, CallsStart
<1> HIDE DEF shown, called
<1>6. ~collided' => ~collided /\ CallsOpen(turn', messages, parts, calling')
  BY <1>2, <1>5
<1> QED BY <1>2, <1>3, <1>6 DEF ShownInv

LEMMA ReturnCallShown ==
  ASSUME ShownInv, NEW i \in DOMAIN calling, ReturnCall(i)
  PROVE  ShownInv'
<1> DEFINE parts == assembly.parts
           called == calling
           more == Returned(called, i)
           u(run) == ProcessAgentEvent([turn EXCEPT !.run = run],
                                       [type |-> "result", call |-> called[i].call])
           last == ~(\E j \in DOMAIN more : ~more[j].returned)
<1>1. /\ pc = "calling" /\ UNCHANGED <<assembly, collided>>
      /\ \E run : turn' = u(run)
      /\ ~last => calling' = more /\ UNCHANGED <<pc, messages>>
      /\ last => pc' = "requesting" /\ messages' = Replied(messages, more)
  <2>1. more = [calling EXCEPT ![i].returned = TRUE]  BY DEF Returned
  <2>2. /\ pc = "calling" /\ UNCHANGED <<assembly, collided>>
        /\ turn' = ProcessAgentEvent([turn EXCEPT !.run = Record(@, "tool_call")],
                                     [type |-> "result", call |-> calling[i].call])
    BY DEF ReturnCall
  <2>3. turn' = u(Record(turn.run, "tool_call"))  BY <2>2
  <2>4. /\ ~last => calling' = more /\ UNCHANGED <<pc, messages>>
        /\ last => pc' = "requesting" /\ messages' = Replied(messages, more)
    <3> HIDE DEF more
    <3> QED BY <2>1 DEF ReturnCall, Replied
  <2> HIDE DEF u
  <2> QED BY <2>2, <2>3, <2>4, Zenon
<1> PICK run : turn' = u(run)
  BY <1>1
<1>2. ~collided => MessagesOK(messages) /\ PartsOK(parts) /\ CallsOpen(turn, messages, parts, called)
  BY <1>1 DEF ShownInv
<1>3. ~collided => /\ CallsOpen(u(run), messages, parts, more)
                   /\ last => MessagesOK(Replied(messages, more)) /\ Waiting(u(run), Replied(messages, more))
  <2> HIDE DEF parts
  <2> QED BY <1>2, CallReturns
<1> HIDE DEF u, last, more
<1>4. ~collided /\ ~last => CallsOpen(turn', messages, parts, calling')
  BY <1>1, <1>3
<1>5. ~collided /\ last => MessagesOK(messages') /\ Waiting(turn', messages')
  BY <1>1, <1>3
<1>6. CASE last
  BY <1>1, <1>2, <1>5, <1>6 DEF ShownInv
<1>7. CASE ~last
  BY <1>1, <1>2, <1>4, <1>7 DEF ShownInv
<1> QED BY <1>6, <1>7

LEMMA ShownStepOK == StreamInv /\ PartsInv /\ ShownInv /\ [Next]_vars => ShownInv'
<1> SUFFICES ASSUME StreamInv, PartsInv, ShownInv, [Next]_vars PROVE ShownInv'
  OBVIOUS
<1>1. CASE UNCHANGED vars
  BY <1>1 DEF vars, ShownInv
<1>2. CASE RequestFails \/ StreamBreaks \/ ToolFails
  BY <1>2, FailShown DEF RequestFails, StreamBreaks, ToolFails
<1>3. CASE StartCalls
  BY <1>3, StartCallsShown
<1> QED BY <1>1, <1>2, <1>3, AnswerSteps, ReturnCallShown, SomethingArrives, ArrivalShown DEF Next

\* When the run is done, in the words of the properties.
LEMMA WholeIsAnswer == ASSUME ShownInv PROVE AnswerIsWhole
<1> SUFFICES ASSUME pc = "done", ~collided PROVE LogIsWhole /\ HeardIsWhole /\ SpeechIsWhole
  BY DEF AnswerIsWhole
<1>1. MessagesOK(messages) /\ Whole(turn, messages)  BY DEF ShownInv
<1> DEFINE log == turn.log
           heard == turn.heard
<1>2. WholeLog(log, heard, messages)  BY <1>1 DEF Whole, Left
<1>3. /\ IsList(log) /\ IsList(heard) /\ RoundsOf(log) = RoundsOf(LogOf(messages))
      /\ Plain(heard) = TextsOf(messages) /\ (~Lost(messages) => SaidOf(messages, SpeechOf(log)))
  BY <1>2 DEF WholeLog
<1>4. IsList(messages) /\ \A i \in 1..Len(messages) : MessageOK(messages[i])
  BY <1>1 DEF MessagesOK
<1> HIDE DEF log, heard
<1>5. LogIsWhole
  <2>1. IsList(LogOf(messages)) /\ AppendAgentMessages(messages) = LogOf(messages)
    BY <1>4, LogOfMore
  <2>2. Rounds(log) = RoundsOf(log) /\ Rounds(LogOf(messages)) = RoundsOf(LogOf(messages))
    BY <1>3, <2>1, RoundsAreFold
  <2> QED BY <1>3, <2>1, <2>2 DEF LogIsWhole, log
<1>6. HeardIsWhole
  BY <1>3, <1>4, UnseparatedIsFold, TextsAreFold DEF HeardIsWhole, heard
<1>7. SpeechIsWhole
  <2>1. Lost(messages) => SeparatorLost
    BY <1>4, AnswersAreFold DEF Lost, SeparatorLost
  <2>2. MergedAssistantSpeech(log) = SpeechOf(log)  BY <1>3, SpeechIsFold
  <2>3. ASSUME NEW i \in DOMAIN messages, messages[i].role = "response", ~SeparatorLost
        PROVE  SaidIn(TextOf(messages[i]), MergedAssistantSpeech(log))
    <3>1. i \in 1..Len(messages) /\ MessageOK(messages[i])  BY <1>4, ListDomain
    <3>2. TextOf(messages[i]) = TextIn(messages[i].parts)
      BY <3>1, WordsInAreFold DEF TextOf, TextIn, MessageOK
    <3>3. SaidIn(TextIn(messages[i].parts), SpeechOf(log))
      BY <1>3, <2>1, <2>3, <3>1 DEF SaidOf
    <3> QED BY <2>2, <3>2, <3>3
  <2> QED BY <2>3 DEF SpeechIsWhole, log
<1> QED BY <1>5, <1>6, <1>7

\* In every run that is done, of whichever API, with any number of answers, items, calls
\* and prompts, results in any order, and thinking tags in the text or not: the chat log
\* that was streamed tells round by round what the log made of the run's messages tells,
\* the listener heard every text once and in order, and no text is missing from what is
\* spoken (_ChatStreamState, append_missing_final_text, merged_assistant_speech), as long
\* as no two items of an answer and no two calls of the run had one id: a call whose id
\* was seen before is not shown (emitted_tool_call_ids).
THEOREM ShownIsWhole == Spec => []AnswerIsWhole
<1>1. Init => ShownInv  BY ShownInitOK
<1>2. StreamInv /\ PartsInv /\ ShownInv /\ [Next]_vars => ShownInv'  BY ShownStepOK
<1>3. ShownInv => AnswerIsWhole  BY WholeIsAnswer
<1> QED BY <1>1, <1>2, <1>3, RecordersInOrder, PartsInOrder, PTL DEF Spec
=============================================================================
