------------------------ MODULE MCPCallCache_proofs ------------------------
(***************************************************************************)
(* Theorems about MCPCallCache, for any calls, keys, lifetimes and size of *)
(* the cache.                                                              *)
(***************************************************************************)
EXTENDS MCPCallCache, FiniteSetTheorems, FunctionTheorems, TLAPS

-----------------------------------------------------------------------------
(* Sets of natural numbers, and the places of a sequence.                  *)

\* The least number principle.  (Stated for sets: the library's statement has an
\* operator as parameter.  A number is as large as the interval below it, and
\* strict inclusion of finite sets is well-founded.)
LEMMA LeastNumber ==
  ASSUME NEW S \in SUBSET Nat, S # {}
  PROVE  \E n \in S : \A m \in S : n <= m
<1> DEFINE Below(n) == 0..n-1
           intervals == {Below(n) : n \in S}
<1>1. \A n \in S : Below(n) \in FiniteSubsetsOf(Nat)
  <2> TAKE n \in S
  <2>1. IsFiniteSet(Below(n)) /\ Below(n) \subseteq Nat
    BY FS_Interval
  <2> QED
    BY <2>1, Zenon DEF FiniteSubsetsOf
<1>2. PICK n \in S : \A y \in intervals : <<y, Below(n)>> \notin StrictSubsetOrdering(Nat)
  <2>1. IsWellFoundedOn(StrictSubsetOrdering(Nat), FiniteSubsetsOf(Nat))
    BY FS_StrictSubsetOrderingWellFounded, Zenon
  <2>2. intervals \subseteq FiniteSubsetsOf(Nat) /\ intervals # {}
    BY <1>1, Zenon
  <2>3. \E x \in intervals : \A y \in intervals : <<y, x>> \notin StrictSubsetOrdering(Nat)
    <3> HIDE DEF intervals
    <3> QED
      BY <2>1, <2>2, WFMin, Zenon
  <2> QED
    BY <2>3, Zenon
<1>3. ASSUME NEW m \in S, m < n PROVE FALSE
  <2>1. <<Below(m), Below(n)>> \notin StrictSubsetOrdering(Nat)
    BY <1>2
  <2>2. Below(m) \subseteq Below(n) /\ Below(n) \subseteq Nat
    BY <1>3
  <2>3. m \in Below(n) /\ m \notin Below(m)
    BY <1>3
  <2> HIDE DEF Below
  <2>4. Below(m) # Below(n)
    BY <2>3
  <2> QED
    BY <2>1, <2>2, <2>4 DEF StrictSubsetOrdering
<1> QED
  BY <1>3

\* Among some places of a sequence there is an n-th one, for each n up to their number.
LEMMA NthPlace ==
  ASSUME NEW length \in Nat, NEW places \in SUBSET (1..length),
         NEW n \in 1..Cardinality(places)
  PROVE  \E i \in places : Cardinality({j \in places : j <= i}) = n
<1> DEFINE UpTo(i) == {j \in places : j <= i}
           enough == {i \in 0..length : Cardinality(UpTo(i)) >= n}
<1>1. \A j \in places : j \in Nat /\ 1 <= j /\ j <= length
  OBVIOUS
<1>2. IsFiniteSet(places) /\ Cardinality(places) \in Nat
  <2>1. IsFiniteSet(1..length)
    BY FS_Interval
  <2> QED
    BY <2>1, FS_Subset, FS_CardinalityType
<1>3. \A i \in 0..length : IsFiniteSet(UpTo(i)) /\ Cardinality(UpTo(i)) \in Nat
  <2> TAKE i \in 0..length
  <2>1. UpTo(i) \in SUBSET places
    OBVIOUS
  <2> HIDE DEF UpTo
  <2> QED
    BY <1>2, <2>1, FS_Subset, FS_CardinalityType
<1>4. UpTo(length) = places /\ UpTo(0) = {}
  <2>1. UpTo(length) = places
    BY <1>1
  <2>2. \A j \in places : ~ (j <= 0)
    BY <1>1
  <2>3. UpTo(0) = {}
    BY <2>2
  <2> QED
    BY <2>1, <2>3
<1>5. \A i \in 1..length :
        UpTo(i) = IF i \in places THEN UpTo(i - 1) \cup {i} ELSE UpTo(i - 1)
  <2> TAKE i \in 1..length
  <2>1. \A j \in places : j <= i <=> j <= i - 1 \/ j = i
    BY <1>1
  <2> QED
    BY <2>1
<1>6. \A i \in 1..length : i \notin UpTo(i - 1)
  BY <1>1
<1>7. \A i \in places : UpTo(i) = {j \in places : j <= i}
  OBVIOUS
<1> HIDE DEF UpTo
<1>8. length \in enough
  BY <1>2, <1>4
<1>9. PICK i \in enough : \A k \in enough : i <= k
  <2>1. enough \in SUBSET Nat /\ enough # {}
    BY <1>8
  <2> HIDE DEF enough
  <2> QED
    BY <2>1, LeastNumber
<1>10. i \in 0..length /\ Cardinality(UpTo(i)) >= n
  OBVIOUS
<1>11. i # 0
  <2>1. Cardinality(UpTo(0)) = 0
    BY <1>4, FS_EmptySet
  <2> QED
    BY <1>2, <1>10, <2>1
<1>12. i \in 1..length /\ i - 1 \in 0..length
  BY <1>10, <1>11
<1>13. Cardinality(UpTo(i - 1)) < n
  <2>1. i - 1 \notin enough
    BY <1>9, <1>12
  <2> QED
    BY <1>2, <1>3, <1>12, <2>1
<1>14. i \in places
  BY <1>2, <1>3, <1>5, <1>10, <1>12, <1>13
<1>15. Cardinality(UpTo(i)) = Cardinality(UpTo(i - 1)) + 1
  <2>1. UpTo(i) = UpTo(i - 1) \cup {i} /\ i \notin UpTo(i - 1)
    BY <1>5, <1>6, <1>12, <1>14
  <2>2. IsFiniteSet(UpTo(i - 1))
    BY <1>3, <1>12
  <2> QED
    BY <2>1, <2>2, FS_AddElement
<1>16. Cardinality(UpTo(i)) = n
  BY <1>2, <1>3, <1>10, <1>12, <1>13, <1>15
<1> QED
  BY <1>7, <1>14, <1>16

\* At answers the elements at these places and no others, each once.
LEMMA AtPlaces ==
  ASSUME NEW S, NEW s \in Seq(S), NEW places \in SUBSET DOMAIN s
  PROVE  /\ At(s, places) \in Seq(S)
         /\ Len(At(s, places)) <= Len(s)
         /\ \E place \in [DOMAIN At(s, places) -> places] :
              /\ \A n \in DOMAIN At(s, places) : At(s, places)[n] = s[place[n]]
              /\ \A m, n \in DOMAIN At(s, places) : place[m] = place[n] => m = n
              /\ \A i \in places : \E n \in DOMAIN At(s, places) : place[n] = i
<1> DEFINE Rank(i) == Cardinality({j \in places : j <= i})
           Nth(n) == CHOOSE i \in places : Rank(i) = n
           count == Cardinality(places)
           place == [n \in 1..count |-> Nth(n)]
<1>1. Len(s) \in Nat /\ DOMAIN s = 1..Len(s) /\ \A i \in DOMAIN s : s[i] \in S
  OBVIOUS
<1>2. IsFiniteSet(places) /\ count \in Nat /\ count <= Len(s)
  <2>1. IsFiniteSet(1..Len(s)) /\ Cardinality(1..Len(s)) = Len(s)
    <3>1. \A b \in Nat : IsFiniteSet(1..b) /\ Cardinality(1..b) = b
      BY FS_Interval
    <3> QED
      BY <1>1, <3>1
  <2>2. places \in SUBSET (1..Len(s))
    BY <1>1
  <2> QED
    BY <2>1, <2>2, FS_Subset, FS_CardinalityType
<1>3. \A n \in 1..count : Nth(n) \in places /\ Rank(Nth(n)) = n
  <2> TAKE n \in 1..count
  <2>1. \E i \in places : Rank(i) = n
    BY <1>1, NthPlace
  <2> QED
    BY <2>1
<1>4. At(s, places) = [n \in 1..count |-> s[Nth(n)]]
  BY DEF At
<1> HIDE DEF Rank, Nth
<1>5. place \in [1..count -> places]
  BY <1>3
<1>6. \A m, n \in 1..count : place[m] = place[n] => m = n
  BY <1>3
<1>7. \A n \in 1..count : place[n] = Nth(n)
  OBVIOUS
<1> HIDE DEF place
<1>8. \A i \in places : \E n \in 1..count : place[n] = i
  <2>1. place \in Injection(1..count, places)
    BY <1>5, <1>6, Fun_IsInj
  <2>2. IsFiniteSet(1..count) /\ Cardinality(1..count) = count
    BY <1>2, FS_Interval
  <2>3. place \in Surjection(1..count, places)
    BY <1>2, <2>1, <2>2, FS_Injection
  <2> QED
    BY <2>3 DEF Surjection
<1> HIDE DEF count
<1>9. At(s, places) \in Seq(S) /\ Len(At(s, places)) = count /\ DOMAIN At(s, places) = 1..count
  <2>1. \A n \in 1..count : s[Nth(n)] \in S
    BY <1>1, <1>3
  <2>2. At(s, places) \in [1..count -> S]
    BY <1>4, <2>1
  <2> QED
    BY <1>2, <2>2
<1>10. \A n \in 1..count : At(s, places)[n] = s[place[n]]
  BY <1>4, <1>7
<1>11. Len(At(s, places)) <= Len(s)
  BY <1>2, <1>9
<1>12. /\ place \in [DOMAIN At(s, places) -> places]
       /\ \A n \in DOMAIN At(s, places) : At(s, places)[n] = s[place[n]]
       /\ \A m, n \in DOMAIN At(s, places) : place[m] = place[n] => m = n
       /\ \A i \in places : \E n \in DOMAIN At(s, places) : place[n] = i
  BY <1>5, <1>6, <1>8, <1>9, <1>10
<1> QED
  BY <1>9, <1>11, <1>12, Zenon

-----------------------------------------------------------------------------
(* What pruning and storing do to a cache.                                 *)

OneEach(s) == \A i, j \in DOMAIN s : s[i].key = s[j].key => i = j

\* Pruning keeps exactly the results that have not expired.
LEMMA PruningKeepsTheLive ==
  ASSUME NEW s \in Seq(CacheEntry)
  PROVE  /\ Live(s) \in Seq(CacheEntry)
         /\ Len(Live(s)) <= Len(s)
         /\ \A n \in DOMAIN Live(s) :
              Live(s)[n].expires > now /\ \E i \in DOMAIN s : Live(s)[n] = s[i]
         /\ \A i \in DOMAIN s :
              s[i].expires > now => \E n \in DOMAIN Live(s) : Live(s)[n] = s[i]
         /\ OneEach(s) => OneEach(Live(s))
<1> DEFINE places == {i \in DOMAIN s : s[i].expires > now}
<1>1. Live(s) = At(s, places)
  BY DEF Live
<1>2. places \in SUBSET DOMAIN s
  OBVIOUS
<1>3. \A i \in DOMAIN s : i \in places <=> s[i].expires > now
  OBVIOUS
<1> HIDE DEF places
<1>4. /\ Live(s) \in Seq(CacheEntry)
      /\ Len(Live(s)) <= Len(s)
  BY <1>1, <1>2, AtPlaces
<1>5. PICK place \in [DOMAIN Live(s) -> places] :
        /\ \A n \in DOMAIN Live(s) : Live(s)[n] = s[place[n]]
        /\ \A m, n \in DOMAIN Live(s) : place[m] = place[n] => m = n
        /\ \A i \in places : \E n \in DOMAIN Live(s) : place[n] = i
  BY <1>1, <1>2, AtPlaces
<1>6. \A n \in DOMAIN Live(s) : place[n] \in places /\ place[n] \in DOMAIN s
  BY <1>2
<1> QED
  BY <1>2, <1>3, <1>4, <1>5, <1>6 DEF OneEach

\* Storing keeps the bound and one result for each key; the only results that it
\* drops are that of the same key, and the oldest of a full cache.
LEMMA StoringKeepsABoundedMap ==
  ASSUME NEW s \in Seq(CacheEntry), Len(s) <= MaxEntries, OneEach(s), NEW x \in CacheEntry
  PROVE  /\ Store(s, x) \in Seq(CacheEntry)
         /\ Len(Store(s, x)) <= MaxEntries
         /\ OneEach(Store(s, x))
         /\ \A n \in DOMAIN Store(s, x) :
              Store(s, x)[n] = x \/ \E i \in DOMAIN s : Store(s, x)[n] = s[i]
         /\ \A i \in DOMAIN s :
              s[i].key \in KeysIn(Store(s, x)) \/ Len(Store(s, x)) = MaxEntries
<1> DEFINE t == Append(s, x)
<1>1. MaxEntries \in Nat /\ MaxEntries >= 1
  BY MCPCallCacheAssumption
<1>2. Len(s) \in Nat /\ DOMAIN s = 1..Len(s) /\ \A i \in DOMAIN s : s[i] \in CacheEntry
  OBVIOUS
<1>3. CASE x.key \in KeysIn(s)
  <2> DEFINE w == [i \in DOMAIN s |-> IF s[i].key = x.key THEN x ELSE s[i]]
  <2>1. Store(s, x) = w
    BY <1>3 DEF Store
  <2>2. DOMAIN w = DOMAIN s /\ \A i \in DOMAIN s : w[i].key = s[i].key /\ w[i] \in {x, s[i]}
    OBVIOUS
  <2>3. w \in Seq(CacheEntry) /\ Len(w) = Len(s)
    BY <1>2, <2>2
  <2> HIDE DEF w
  <2> QED
    BY <2>1, <2>2, <2>3 DEF OneEach, KeysIn
<1>4. CASE x.key \notin KeysIn(s)
  <2>1. /\ t \in Seq(CacheEntry) /\ Len(t) = Len(s) + 1
        /\ \A i \in 1..Len(s) : t[i] = s[i]
        /\ t[Len(s) + 1] = x
    BY <1>2
  <2>2. \A i \in 1..Len(s) : s[i].key # x.key
    BY <1>2, <1>4 DEF KeysIn
  <2>3. \A i, j \in 1..Len(t) : t[i].key = t[j].key => i = j
    BY <1>2, <2>1, <2>2 DEF OneEach
  <2>4. CASE Len(t) <= MaxEntries
    <3>1. Store(s, x) = t
      BY <1>1, <1>2, <1>4, <2>1, <2>4 DEF Store
    <3> HIDE DEF t
    <3>2. \A i \in DOMAIN s : s[i].key \in KeysIn(t)
      BY <1>2, <2>1 DEF KeysIn
    <3> QED
      BY <1>2, <2>1, <2>3, <2>4, <3>1, <3>2 DEF OneEach
  <2>5. CASE Len(t) > MaxEntries
    <3> DEFINE w == SubSeq(t, 2, MaxEntries + 1)
    <3>1. Len(t) = MaxEntries + 1
      BY <1>1, <1>2, <2>1, <2>5
    <3>2. Store(s, x) = w
      BY <1>1, <1>4, <2>5, <3>1 DEF Store
    <3>3. /\ w \in Seq(CacheEntry) /\ Len(w) = MaxEntries
          /\ \A n \in 1..MaxEntries : w[n] = t[n + 1]
      BY <1>1, <2>1, <3>1
    <3> HIDE DEF w, t
    <3>4. \A m, n \in 1..MaxEntries : w[m].key = w[n].key => m = n
      BY <1>1, <2>3, <3>1, <3>3
    <3>5. \A n \in 1..MaxEntries : w[n] = x \/ \E i \in DOMAIN s : w[n] = s[i]
      <4> TAKE n \in 1..MaxEntries
      <4>1. CASE n + 1 = Len(s) + 1
        BY <2>1, <3>3, <4>1
      <4>2. CASE n + 1 # Len(s) + 1
        <5>1. n + 1 \in 1..Len(s)
          BY <1>1, <1>2, <2>1, <3>1, <4>2
        <5> QED
          BY <1>2, <2>1, <3>3, <5>1
      <4> QED
        BY <4>1, <4>2
    <3> QED
      BY <1>1, <3>2, <3>3, <3>4, <3>5 DEF OneEach
  <2> QED
    BY <1>1, <1>2, <2>1, <2>4, <2>5
<1> QED
  BY <1>3, <1>4

-----------------------------------------------------------------------------
(* The inductive invariant.                                                *)

\* A cache belongs to the load it is found in, and no result has more than its
\* time to live ahead.
StoredInv ==
  /\ TypeOK
  /\ ~loaded => cache = <<>> /\ load <= MaxReloads
  /\ CacheIsBoundedMap
  /\ \A i \in DOMAIN cache :
       cache[i].load = load /\ cache[i].expires <= now + TTL[cache[i].key]

\* A toolset built in this load was built from data as new as the load's.
BuiltInv ==
  \A c \in Calls : pc[c] # "idle" =>
    built[c] <= load /\ (built[c] = load => loadedVersion <= config[c])

\* A sensor that has missed nothing shows the record, even before it listens.
SensorInv ==
  sensor.stage # "none" /\ ~sensor.missed => sensor.shows = lastTool

CacheInv == StoredInv /\ BuiltInv /\ SensorInv

LEMMA CacheInvInit == Init => CacheInv
<1> SUFFICES ASSUME Init PROVE CacheInv
  OBVIOUS
<1>1. TypeOK
  <2>1. sensor = [stage |-> "added", shows |-> NoValue, missed |-> FALSE]
    BY DEF Init, AddedToHass, Create, NoSensor
  <2> QED
    BY <2>1, MCPCallCacheAssumption DEF Init, TypeOK, PCs
<1>2. SensorInv
  BY DEF Init, AddedToHass, Create, NoSensor, SensorInv
<1>3. loaded /\ cache = <<>> /\ \A c \in Calls : pc[c] = "idle"
  BY DEF Init
<1>4. CacheIsBoundedMap
  BY <1>3, MCPCallCacheAssumption DEF CacheIsBoundedMap
<1> QED
  BY <1>1, <1>2, <1>3, <1>4 DEF CacheInv, StoredInv, BuiltInv

\* What the steps of calls leave alone of the entry.
Steady == UNCHANGED <<now, loaded, load, version, loadedVersion>>

\* A step that leaves the entry and the clock alone keeps what is said of the
\* cache, if it only prunes or adds a result that is as it should be.
LEMMA StoredStep ==
  ASSUME StoredInv, TypeOK', Steady,
         ~loaded => cache' = cache,
         \A c \in Calls : pc[c] = "answered" => pc'[c] = "answered",
         Len(cache') <= MaxEntries, OneEach(cache'),
         \A n \in DOMAIN cache' :
           \/ \E i \in DOMAIN cache : cache'[n] = cache[i]
           \/ /\ pc'[cache'[n].by] = "answered"
              /\ KeyOf[cache'[n].by] = cache'[n].key
              /\ cache'[n].load = load
              /\ cache'[n].expires <= now + TTL[cache'[n].key]
  PROVE  StoredInv'
<1>1. \A i \in DOMAIN cache : cache[i].by \in Calls
  <2>1. cache \in Seq(CacheEntry)
    BY DEF StoredInv, TypeOK
  <2>2. \A i \in DOMAIN cache : cache[i] \in CacheEntry
    BY <2>1
  <2> QED
    BY <2>2 DEF CacheEntry
<1>2. \A n \in DOMAIN cache' :
        /\ pc'[cache'[n].by] = "answered"
        /\ KeyOf[cache'[n].by] = cache'[n].key
        /\ cache'[n].load = load
        /\ cache'[n].expires <= now + TTL[cache'[n].key]
  BY <1>1 DEF StoredInv, CacheIsBoundedMap
<1> QED
  BY <1>2 DEF StoredInv, CacheIsBoundedMap, OneEach, Steady

\* Signals change what a sensor shows and nothing else of it.
LEMMA SignalType ==
  ASSUME NEW value \in Tools \cup {NoValue}, TypeOK
  PROVE  /\ Signal(sensor, value) \in [stage : {"none", "created", "added"},
                                       shows : Tools \cup {NoValue}, missed : BOOLEAN]
         /\ Signal(sensor, value).stage = sensor.stage
         /\ sensor.stage # "none" /\ ~Signal(sensor, value).missed =>
              Signal(sensor, value).shows = value
<1>1. sensor \in [stage : {"none", "created", "added"},
                  shows : Tools \cup {NoValue}, missed : BOOLEAN]
  BY DEF TypeOK
<1>2. CASE sensor.stage = "none"
  BY <1>1, <1>2 DEF Signal
<1>3. CASE sensor.stage = "created"
  BY <1>1, <1>3 DEF Signal
<1>4. CASE sensor.stage = "added"
  BY <1>1, <1>4 DEF Signal, HandleMetricsUpdate
<1> QED
  BY <1>1, <1>2, <1>3, <1>4

\* Looking up.
LEMMA LookupKeepsInv ==
  ASSUME CacheInv, NEW c \in Calls, Lookup(c)
  PROVE  CacheInv'
<1>1. /\ Steady /\ UNCHANGED <<config, built>>
      /\ pc[c] = "ready"
      /\ pc' \in {[pc EXCEPT ![c] = s] : s \in {"raised", "hit", "waiting"}}
      /\ cache' \in {cache, Live(cache)}
      /\ ~loaded => cache' = cache /\ UNCHANGED metricVars
      /\ loaded => RecordMCPToolCall(ToolOf[KeyOf[c]])
  BY DEF Lookup, Steady, entryVars, metricVars
<1>2. cache \in Seq(CacheEntry) /\ pc \in [Calls -> PCs]
  BY DEF CacheInv, StoredInv, TypeOK
<1>3. ToolOf[KeyOf[c]] \in Tools
  BY MCPCallCacheAssumption
<1>4. answer' \in [Calls -> Calls \cup {NoCall}]
  <2>1. answer' = answer \/ \E i \in DOMAIN Live(cache) : answer' = [answer EXCEPT ![c] = Live(cache)[i].by]
    BY DEF Lookup
  <2>2. \A i \in DOMAIN Live(cache) : Live(cache)[i].by \in Calls
    <3>1. Live(cache) \in Seq(CacheEntry)
      BY <1>2, PruningKeepsTheLive
    <3>2. \A i \in DOMAIN Live(cache) : Live(cache)[i] \in CacheEntry
      BY <3>1
    <3> QED
      BY <3>2 DEF CacheEntry
  <2>3. answer \in [Calls -> Calls \cup {NoCall}]
    BY DEF CacheInv, StoredInv, TypeOK
  <2> QED
    BY <2>1, <2>2, <2>3
<1>5. /\ cache' \in Seq(CacheEntry)
      /\ Len(cache') <= MaxEntries
      /\ OneEach(cache')
      /\ \A n \in DOMAIN cache' : \E i \in DOMAIN cache : cache'[n] = cache[i]
  <2>1. Len(cache) <= MaxEntries /\ OneEach(cache)
    BY DEF CacheInv, StoredInv, CacheIsBoundedMap, OneEach
  <2>2. CASE cache' = cache
    BY <1>2, <2>1, <2>2
  <2>3. CASE cache' = Live(cache)
    <3>1. /\ Live(cache) \in Seq(CacheEntry)
          /\ Len(Live(cache)) <= Len(cache)
          /\ OneEach(Live(cache))
          /\ \A n \in DOMAIN Live(cache) : \E i \in DOMAIN cache : Live(cache)[n] = cache[i]
      BY <1>2, <2>1, PruningKeepsTheLive
    <3>2. Len(Live(cache)) \in Nat /\ Len(cache) \in Nat /\ MaxEntries \in Nat
      BY <1>2, <3>1, MCPCallCacheAssumption
    <3> QED
      BY <2>1, <2>3, <3>1, <3>2
  <2> QED
    BY <1>1, <2>2, <2>3
<1>6. pc' \in [Calls -> PCs] /\ \A d \in Calls : pc[d] \in {"answered", "idle"} <=> pc'[d] \in {"answered", "idle"}
  BY <1>1, <1>2 DEF PCs, Done
<1>7. /\ lastTool' \in Tools \cup {NoValue}
      /\ sensor' \in [stage : {"none", "created", "added"}, shows : Tools \cup {NoValue}, missed : BOOLEAN]
      /\ SensorInv'
  <2>1. CASE ~loaded
    BY <1>1, <2>1 DEF CacheInv, StoredInv, TypeOK, SensorInv, metricVars
  <2>2. CASE loaded
    <3>1. lastTool' = ToolOf[KeyOf[c]] /\ sensor' = Signal(sensor, ToolOf[KeyOf[c]])
      BY <1>1, <2>2 DEF RecordMCPToolCall
    <3> QED
      BY <1>3, <3>1, SignalType DEF CacheInv, StoredInv, SensorInv
  <2> QED
    BY <2>1, <2>2
<1>8. TypeOK'
  BY <1>1, <1>4, <1>5, <1>6, <1>7 DEF CacheInv, StoredInv, TypeOK, Steady
<1>9. StoredInv'
  <2>1. \A d \in Calls : pc[d] = "answered" => pc'[d] = "answered"
    BY <1>1, <1>2
  <2> QED
    BY <1>1, <1>5, <1>8, <2>1, StoredStep DEF CacheInv
<1>10. BuiltInv'
  <2>1. \A d \in Calls : pc'[d] # "idle" => pc[d] # "idle"
    BY <1>1, <1>2
  <2> QED
    BY <1>1, <2>1 DEF CacheInv, BuiltInv, Steady
<1> QED
  BY <1>7, <1>9, <1>10 DEF CacheInv

\* What a call that ends with an answer stores.
ResultOf(c) ==
  [key |-> KeyOf[c], expires |-> now + TTL[KeyOf[c]], by |-> c, load |-> load]

LEMMA ResultType ==
  ASSUME TypeOK, NEW c \in Calls
  PROVE  ResultOf(c) \in CacheEntry /\ ResultOf(c).expires > now
<1>1. now \in Nat /\ load \in Nat
  BY MCPCallCacheAssumption DEF TypeOK
<1>2. KeyOf[c] \in Keys /\ TTL[KeyOf[c]] \in Nat \ {0}
  BY MCPCallCacheAssumption
<1>3. now + TTL[KeyOf[c]] \in Nat /\ now + TTL[KeyOf[c]] > now
  BY <1>1, <1>2
<1> QED
  BY <1>1, <1>2, <1>3 DEF ResultOf, CacheEntry

\* The cache after a result was stored, related to the cache before.
LEMMA StoredResult ==
  ASSUME StoredInv, NEW c \in Calls, loaded, cache' = Store(Live(cache), ResultOf(c))
  PROVE  /\ cache' \in Seq(CacheEntry)
         /\ Len(cache') <= MaxEntries
         /\ OneEach(cache')
         /\ \A n \in DOMAIN cache' :
              /\ cache'[n].expires > now
              /\ cache'[n] = ResultOf(c) \/ \E i \in DOMAIN cache : cache'[n] = cache[i]
         /\ \A i \in DOMAIN cache :
              cache[i].expires > now => cache[i].key \in KeysIn(cache') \/ Len(cache') = MaxEntries
<1> DEFINE live == Live(cache)
<1>1. cache \in Seq(CacheEntry) /\ Len(cache) <= MaxEntries /\ OneEach(cache)
  BY DEF StoredInv, TypeOK, CacheIsBoundedMap, OneEach
<1>2. /\ live \in Seq(CacheEntry)
      /\ Len(live) <= Len(cache)
      /\ OneEach(live)
      /\ \A n \in DOMAIN live : live[n].expires > now /\ \E i \in DOMAIN cache : live[n] = cache[i]
      /\ \A i \in DOMAIN cache : cache[i].expires > now => \E n \in DOMAIN live : live[n] = cache[i]
  BY <1>1, PruningKeepsTheLive
<1>3. ResultOf(c) \in CacheEntry /\ ResultOf(c).expires > now
  BY ResultType DEF StoredInv
<1> HIDE DEF live
<1>4. Len(live) <= MaxEntries
  BY <1>1, <1>2, MCPCallCacheAssumption
<1>5. /\ cache' \in Seq(CacheEntry)
      /\ Len(cache') <= MaxEntries
      /\ OneEach(cache')
      /\ \A n \in DOMAIN cache' : cache'[n] = ResultOf(c) \/ \E i \in DOMAIN live : cache'[n] = live[i]
      /\ \A i \in DOMAIN live : live[i].key \in KeysIn(cache') \/ Len(cache') = MaxEntries
  BY <1>2, <1>3, <1>4, StoringKeepsABoundedMap DEF live
<1>6. \A n \in DOMAIN cache' :
        /\ cache'[n].expires > now
        /\ cache'[n] = ResultOf(c) \/ \E i \in DOMAIN cache : cache'[n] = cache[i]
  BY <1>2, <1>3, <1>5
<1>7. \A i \in DOMAIN cache :
        cache[i].expires > now => cache[i].key \in KeysIn(cache') \/ Len(cache') = MaxEntries
  BY <1>2, <1>5
<1> QED
  BY <1>5, <1>6, <1>7

\* Answering and failing.
LEMMA AnswerKeepsInv ==
  ASSUME CacheInv, NEW c \in Calls, Answer(c) \/ Fail(c)
  PROVE  CacheInv'
<1>1. /\ Steady /\ UNCHANGED <<config, built, metricVars>>
      /\ pc[c] = "waiting"
      /\ \E s \in {"answered", "raised"} : pc' = [pc EXCEPT ![c] = s]
      /\ answer' \in {answer, [answer EXCEPT ![c] = c]}
  BY DEF Answer, Fail, Steady, entryVars
<1>2. \/ cache' = cache
      \/ loaded /\ pc'[c] = "answered" /\ cache' = Store(Live(cache), ResultOf(c))
  BY DEF Answer, Fail, ResultOf, CacheInv, StoredInv, TypeOK
<1>3. cache \in Seq(CacheEntry) /\ pc \in [Calls -> PCs] /\ answer \in [Calls -> Calls \cup {NoCall}]
  BY DEF CacheInv, StoredInv, TypeOK
<1>4. /\ cache' \in Seq(CacheEntry)
      /\ Len(cache') <= MaxEntries
      /\ OneEach(cache')
      /\ \A n \in DOMAIN cache' :
           \/ \E i \in DOMAIN cache : cache'[n] = cache[i]
           \/ cache'[n] = ResultOf(c) /\ pc'[c] = "answered"
  <2>1. CASE cache' = cache
    BY <1>3, <2>1 DEF CacheInv, StoredInv, CacheIsBoundedMap, OneEach
  <2>2. CASE loaded /\ pc'[c] = "answered" /\ cache' = Store(Live(cache), ResultOf(c))
    BY <2>2, StoredResult DEF CacheInv
  <2> QED
    BY <1>2, <2>1, <2>2
<1>5. pc' \in [Calls -> PCs] /\ \A d \in Calls : pc[d] = "answered" => pc'[d] = "answered"
  BY <1>1, <1>3 DEF PCs, Done
<1>6. answer' \in [Calls -> Calls \cup {NoCall}]
  BY <1>1, <1>3
<1>7. TypeOK'
  BY <1>1, <1>4, <1>5, <1>6 DEF CacheInv, StoredInv, TypeOK, Steady, metricVars
<1>8. StoredInv'
  <2>1. now \in Nat /\ TTL[KeyOf[c]] \in Nat
    BY MCPCallCacheAssumption DEF CacheInv, StoredInv, TypeOK
  <2>2. /\ ResultOf(c).by = c /\ KeyOf[c] = ResultOf(c).key /\ ResultOf(c).load = load
        /\ ResultOf(c).expires <= now + TTL[ResultOf(c).key]
    BY <2>1 DEF ResultOf
  <2>3. ~loaded => cache' = cache
    BY <1>2
  <2>4. \A n \in DOMAIN cache' :
           \/ \E i \in DOMAIN cache : cache'[n] = cache[i]
           \/ /\ pc'[cache'[n].by] = "answered"
              /\ KeyOf[cache'[n].by] = cache'[n].key
              /\ cache'[n].load = load
              /\ cache'[n].expires <= now + TTL[cache'[n].key]
    BY <1>4, <2>2
  <2> QED
    BY <1>1, <1>4, <1>5, <1>7, <2>3, <2>4, StoredStep DEF CacheInv
<1>9. BuiltInv'
  <2>1. \A d \in Calls : pc'[d] # "idle" => pc[d] # "idle"
    BY <1>1, <1>3
  <2> QED
    BY <1>1, <2>1 DEF CacheInv, BuiltInv, Steady
<1>10. SensorInv'
  BY <1>1 DEF CacheInv, SensorInv, metricVars
<1> QED
  BY <1>8, <1>9, <1>10 DEF CacheInv

\* Building a toolset.
LEMMA BuildKeepsInv ==
  ASSUME CacheInv, NEW c \in Calls, BuildToolset(c)
  PROVE  CacheInv'
<1>1. /\ Steady /\ UNCHANGED <<cache, answer, metricVars>>
      /\ pc' = [pc EXCEPT ![c] = "ready"] /\ pc[c] = "idle"
      /\ config' = [config EXCEPT ![c] = version]
      /\ built' = [built EXCEPT ![c] = load]
  BY DEF BuildToolset, Steady, entryVars
<1>2. /\ load \in Nat /\ version \in Nat /\ loadedVersion <= version
      /\ pc \in [Calls -> PCs] /\ config \in [Calls -> Nat] /\ built \in [Calls -> Nat]
  BY MCPCallCacheAssumption DEF CacheInv, StoredInv, TypeOK
<1>3. TypeOK'
  BY <1>1, <1>2 DEF CacheInv, StoredInv, TypeOK, Steady, metricVars, PCs
<1>4. StoredInv'
  <2>1. \A d \in Calls : pc[d] = "answered" => pc'[d] = "answered"
    BY <1>1, <1>2
  <2>2. Len(cache') <= MaxEntries /\ OneEach(cache')
    BY <1>1 DEF CacheInv, StoredInv, CacheIsBoundedMap, OneEach
  <2> QED
    BY <1>1, <1>3, <2>1, <2>2, StoredStep DEF CacheInv
<1>5. BuiltInv'
  BY <1>1, <1>2 DEF CacheInv, BuiltInv, Steady
<1>6. SensorInv'
  BY <1>1 DEF CacheInv, SensorInv, metricVars
<1> QED
  BY <1>4, <1>5, <1>6 DEF CacheInv

\* The clock, edits, and the load's coming and going.
LEMMA EntryKeepsInv ==
  ASSUME CacheInv, Tick \/ EditServer \/ Unload \/ Setup
  PROVE  CacheInv'
<1> USE DEF CacheInv
<1>1. /\ now \in Nat /\ load \in Nat /\ version \in Nat /\ loadedVersion \in Nat
      /\ MaxTime \in Nat /\ MaxReloads \in Nat
      /\ cache \in Seq(CacheEntry)
  BY MCPCallCacheAssumption DEF StoredInv, TypeOK
<1>2. \A i \in DOMAIN cache : TTL[cache[i].key] \in Nat /\ cache[i].expires \in Nat
  <2>1. \A i \in DOMAIN cache : cache[i] \in CacheEntry
    BY <1>1
  <2> QED
    BY <2>1, MCPCallCacheAssumption DEF CacheEntry
<1>3. CASE Tick
  <2>1. /\ now' = now + 1 /\ now < MaxTime
        /\ UNCHANGED <<loaded, load, version, loadedVersion, cache, pc, config, built, answer, lastTool, sensor>>
    BY <1>3 DEF Tick, entryVars, metricVars
  <2>2. TypeOK'
    BY <1>1, <2>1 DEF StoredInv, TypeOK
  <2>3. \A i \in DOMAIN cache : cache[i].expires <= now + 1 + TTL[cache[i].key]
    BY <1>1, <1>2 DEF StoredInv
  <2>4. StoredInv'
    BY <2>1, <2>2, <2>3 DEF StoredInv, CacheIsBoundedMap
  <2> QED
    BY <2>1, <2>4 DEF BuiltInv, SensorInv
<1>4. CASE EditServer
  <2>1. /\ version' = version + 1 /\ version < MaxReloads
        /\ UNCHANGED <<now, loaded, load, loadedVersion, cache, pc, config, built, answer, lastTool, sensor>>
    BY <1>4 DEF EditServer, metricVars
  <2>2. TypeOK'
    BY <1>1, <2>1 DEF StoredInv, TypeOK
  <2>3. StoredInv'
    BY <2>1, <2>2 DEF StoredInv, CacheIsBoundedMap
  <2> QED
    BY <2>1, <2>3 DEF BuiltInv, SensorInv
<1>5. CASE Unload
  <2>1. /\ loaded' = FALSE /\ load <= MaxReloads /\ cache' = <<>>
        /\ lastTool' = NoValue /\ sensor' = NoSensor
        /\ UNCHANGED <<now, load, version, loadedVersion, pc, config, built, answer>>
    BY <1>5 DEF Unload
  <2>2. TypeOK'
    <3>1. cache' \in Seq(CacheEntry)
      BY <2>1
    <3>2. sensor' \in [stage : {"none", "created", "added"}, shows : Tools \cup {NoValue}, missed : BOOLEAN]
      BY <2>1 DEF NoSensor
    <3> QED
      BY <1>1, <2>1, <3>1, <3>2 DEF StoredInv, TypeOK
  <2>3. StoredInv'
    BY <1>1, <2>1, <2>2, MCPCallCacheAssumption DEF StoredInv, CacheIsBoundedMap
  <2> QED
    BY <2>1, <2>3 DEF BuiltInv, SensorInv, NoSensor
<1>6. CASE Setup
  <2>1. /\ ~loaded /\ loaded' = TRUE /\ load' = load + 1 /\ loadedVersion' = version
        /\ UNCHANGED <<now, version, cache, pc, config, built, answer, lastTool, sensor>>
    BY <1>6 DEF Setup, metricVars
  <2>2. cache = <<>> /\ load <= MaxReloads
    BY <2>1 DEF StoredInv
  <2>3. TypeOK'
    BY <1>1, <2>1, <2>2 DEF StoredInv, TypeOK
  <2>4. StoredInv'
    BY <2>1, <2>2, <2>3, MCPCallCacheAssumption DEF StoredInv, CacheIsBoundedMap
  <2>5. BuiltInv'
    BY <1>1, <2>1 DEF BuiltInv, StoredInv, TypeOK
  <2> QED
    BY <2>1, <2>4, <2>5 DEF SensorInv
<1> QED
  BY <1>3, <1>4, <1>5, <1>6

\* The sensor's own steps.
LEMMA SensorKeepsInv ==
  ASSUME CacheInv, SetupSensor \/ AddSensor \/ RunRecorded
  PROVE  CacheInv'
<1>1. /\ Steady /\ UNCHANGED <<cache, pc, config, built, answer, lastTool>>
      /\ \/ sensor.stage = "none" /\ sensor' = Create(lastTool)
         \/ sensor.stage = "created" /\ sensor' = AddedToHass(sensor)
         \/ sensor' = Signal(sensor, lastTool)
  BY DEF SetupSensor, AddSensor, RunRecorded, Steady, entryVars
<1>2. lastTool \in Tools \cup {NoValue} /\ TypeOK
  BY DEF CacheInv, StoredInv, TypeOK
<1>3. /\ sensor' \in [stage : {"none", "created", "added"}, shows : Tools \cup {NoValue}, missed : BOOLEAN]
      /\ SensorInv'
  <2>1. CASE sensor' = Create(lastTool)
    BY <1>1, <1>2, <2>1 DEF Create, NoSensor, SensorInv
  <2>2. CASE sensor.stage = "created" /\ sensor' = AddedToHass(sensor)
    BY <1>1, <1>2, <2>2 DEF AddedToHass, SensorInv, CacheInv, TypeOK
  <2>3. CASE sensor' = Signal(sensor, lastTool)
    BY <1>1, <1>2, <2>3, SignalType DEF SensorInv
  <2> QED
    BY <1>1, <2>1, <2>2, <2>3
<1>4. TypeOK'
  BY <1>1, <1>2, <1>3 DEF TypeOK, Steady
<1>5. StoredInv'
  <2>1. Len(cache') <= MaxEntries /\ OneEach(cache')
    BY <1>1 DEF CacheInv, StoredInv, CacheIsBoundedMap, OneEach
  <2> QED
    BY <1>1, <1>4, <2>1, StoredStep DEF CacheInv
<1>6. BuiltInv'
  BY <1>1 DEF CacheInv, BuiltInv, Steady
<1> QED
  BY <1>3, <1>5, <1>6 DEF CacheInv

LEMMA CacheInvStep == CacheInv /\ [Next]_vars => CacheInv'
<1> SUFFICES ASSUME CacheInv, [Next]_vars PROVE CacheInv'
  OBVIOUS
<1>1. CASE UNCHANGED vars
  BY <1>1 DEF vars, entryVars, metricVars, CacheInv, StoredInv, TypeOK, CacheIsBoundedMap,
              BuiltInv, SensorInv
<1> QED
  BY <1>1, LookupKeepsInv, AnswerKeepsInv, BuildKeepsInv, EntryKeepsInv, SensorKeepsInv DEF Next

LEMMA CacheInvAlways == Spec => []CacheInv
BY CacheInvInit, CacheInvStep, PTL DEF Spec

-----------------------------------------------------------------------------
(* The theorems.                                                           *)

\* The state of calls, cache and sensor has its type.
THEOREM TypeCorrect == Spec => []TypeOK
<1>1. CacheInv => TypeOK
  BY DEF CacheInv, StoredInv
<1> QED
  BY <1>1, CacheInvAlways, PTL

\* The cache is a bounded map of results of calls that succeeded, whatever calls
\* interleave, expire and overwrite one another.
THEOREM CacheStaysBounded == Spec => []CacheIsBoundedMap
<1>1. CacheInv => CacheIsBoundedMap
  BY DEF CacheInv, StoredInv
<1> QED
  BY <1>1, CacheInvAlways, PTL

\* What an older configuration of a server answered is cached only by a call that
\* outlived the reload.
THEOREM OldAnswersOutlive == Spec => []OldServerOnlyFromOutlivingCall
<1>1. CacheInv => OldServerOnlyFromOutlivingCall
  <2> SUFFICES ASSUME CacheInv, NEW i \in DOMAIN cache,
                      config[cache[i].by] < loadedVersion
               PROVE  built[cache[i].by] < cache[i].load
    BY DEF OldServerOnlyFromOutlivingCall
  <2>1. cache[i] \in CacheEntry
    <3>1. cache \in Seq(CacheEntry)
      BY DEF CacheInv, StoredInv, TypeOK
    <3> QED
      BY <3>1
  <2>2. cache[i].by \in Calls
    BY <2>1 DEF CacheEntry
  <2>3. pc[cache[i].by] = "answered" /\ cache[i].load = load
    BY DEF CacheInv, StoredInv, CacheIsBoundedMap
  <2>4. /\ config[cache[i].by] \in Nat /\ built[cache[i].by] \in Nat
        /\ load \in Nat /\ loadedVersion \in Nat
    BY <2>2, MCPCallCacheAssumption DEF CacheInv, StoredInv, TypeOK
  <2>5. built[cache[i].by] <= load /\ built[cache[i].by] # load
    BY <2>2, <2>3, <2>4 DEF CacheInv, BuiltInv
  <2> QED
    BY <2>3, <2>4, <2>5
<1> QED
  BY <1>1, CacheInvAlways, PTL

\* An added sensor that missed nothing shows the record of the last call.
THEOREM SensorsFollow == Spec => []SensorShowsLastCall
<1>1. CacheInv => SensorShowsLastCall
  BY DEF CacheInv, SensorInv, SensorShowsLastCall
<1> QED
  BY <1>1, CacheInvAlways, PTL

\* A hit serves an equal call's result, obtained less than a TTL ago in this load.
THEOREM HitsStayFresh == Spec => HitsAreFresh
<1> DEFINE Fresh(c) ==
      \E i \in DOMAIN cache :
        /\ cache[i].by = answer'[c]
        /\ cache[i].load = load
        /\ KeyOf[answer'[c]] = KeyOf[c]
        /\ cache[i].expires \in now + 1 .. now + TTL[KeyOf[c]]
<1>1. CacheInv /\ [Next]_vars => \A c \in Calls : pc[c] # "hit" /\ pc'[c] = "hit" => Fresh(c)
  <2> SUFFICES ASSUME CacheInv, [Next]_vars, NEW c \in Calls, pc[c] # "hit", pc'[c] = "hit"
               PROVE  Fresh(c)
    OBVIOUS
  <2>1. pc \in [Calls -> PCs] /\ answer \in [Calls -> Calls \cup {NoCall}] /\ cache \in Seq(CacheEntry)
    BY DEF CacheInv, StoredInv, TypeOK
  <2>2. Lookup(c)
    <3>1. CASE UNCHANGED pc
      BY <3>1
    <3>2. ASSUME NEW d \in Calls, BuildToolset(d) \/ Answer(d) \/ Fail(d)
          PROVE  FALSE
      BY <2>1, <3>2 DEF BuildToolset, Answer, Fail
    <3>3. ASSUME NEW d \in Calls, Lookup(d), d # c
          PROVE  FALSE
      BY <2>1, <3>3 DEF Lookup
    <3> QED
      BY <3>1, <3>2, <3>3
         DEF Next, Tick, EditServer, Unload, Setup, SetupSensor, AddSensor, RunRecorded, vars
  <2>3. PICK n \in DOMAIN Live(cache) :
          Live(cache)[n].key = KeyOf[c] /\ answer' = [answer EXCEPT ![c] = Live(cache)[n].by]
    BY <2>1, <2>2 DEF Lookup
  <2>4. PICK i \in DOMAIN cache : Live(cache)[n] = cache[i] /\ cache[i].expires > now
    BY <2>1, PruningKeepsTheLive
  <2>5. answer'[c] = cache[i].by /\ cache[i].key = KeyOf[c]
    BY <2>1, <2>3, <2>4
  <2>6. /\ KeyOf[cache[i].by] = cache[i].key
        /\ cache[i].load = load
        /\ cache[i].expires <= now + TTL[cache[i].key]
    BY DEF CacheInv, StoredInv, CacheIsBoundedMap
  <2>7. cache[i].expires \in Nat /\ now \in Nat /\ TTL[KeyOf[c]] \in Nat
    <3>1. cache[i] \in CacheEntry
      BY <2>1
    <3> QED
      BY <3>1, MCPCallCacheAssumption DEF CacheEntry, CacheInv, StoredInv, TypeOK
  <2> QED
    BY <2>4, <2>5, <2>6, <2>7
<1> QED
  BY <1>1, CacheInvAlways, PTL DEF Spec, HitsAreFresh

\* An unexpired result is lost only to a newer one of its key, or to one that found
\* the cache full of unexpired results.
THEOREM LiveResultsStay == Spec => LiveResultsSurvive
<1> DEFINE Survive ==
      loaded' => \A i \in DOMAIN cache :
        cache[i].expires > now' /\ cache[i].key \notin KeysIn(cache') =>
          /\ Len(cache') = MaxEntries
          /\ \A j \in DOMAIN cache' : cache'[j].expires > now'
<1>1. CacheInv /\ [Next]_vars => Survive
  <2> SUFFICES ASSUME CacheInv, [Next]_vars, loaded'
               PROVE  Survive
    OBVIOUS
  <2>1. cache \in Seq(CacheEntry)
    BY DEF CacheInv, StoredInv, TypeOK
  <2>2. CASE cache' = cache
    BY <2>2 DEF KeysIn
  <2>3. ASSUME NEW c \in Calls, Lookup(c), cache' # cache
        PROVE  Survive
    <3>1. cache' = Live(cache) /\ now' = now
      BY <2>3 DEF Lookup
    <3>2. \A i \in DOMAIN cache : cache[i].expires > now => cache[i].key \in KeysIn(Live(cache))
      BY <2>1, PruningKeepsTheLive DEF KeysIn
    <3> QED
      BY <3>1, <3>2
  <2>4. ASSUME NEW c \in Calls, Answer(c), cache' # cache
        PROVE  Survive
    <3>1. loaded /\ cache' = Store(Live(cache), ResultOf(c)) /\ now' = now
      BY <2>4 DEF Answer, ResultOf
    <3> QED
      BY <3>1, StoredResult DEF CacheInv
  <2>5. ~Unload
    BY DEF Unload
  <2> QED
    BY <2>2, <2>3, <2>4, <2>5
       DEF Next, Tick, EditServer, Setup, SetupSensor, AddSensor, RunRecorded, BuildToolset, Fail, vars
<1> QED
  BY <1>1, CacheInvAlways, PTL DEF Spec, LiveResultsSurvive
=============================================================================
