---------------------------- MODULE MCPCallCache ----------------------------
(***************************************************************************)
(* The results of MCP tool calls that a loaded entry remembers.  A call    *)
(* looks its key up, and after a miss awaits the server and stores what it *)
(* got; calls of concurrent runs interleave at that await, and so do edits *)
(* of the server's subentry and reloads of the entry.  The cache is the    *)
(* one of entry.runtime_data at the moment it is used.  Each call also     *)
(* leaves its tool's name in the agent's metrics, for a sensor to show.    *)
(***************************************************************************)
EXTENDS Naturals, Sequences, FiniteSets, MetricSensor

CONSTANTS
  Calls,       \* tool calls, each made once
  Keys,        \* _mcp_call_cache_key: server, tool and arguments
  KeyOf,       \* the key of a call
  Tools,       \* names of tools
  ToolOf,      \* the tool of a key
  Cached,      \* the calls whose server had call caching enabled
  TTL,         \* CONF_MCP_CALL_CACHE_TTL of the server of a key
  MaxEntries,  \* _MAX_MCP_CALL_CACHE_ENTRIES
  MaxTime,     \* bound on the clock
  MaxReloads   \* bound on reloads, and on the edits of the server between them

ASSUME MCPCallCacheAssumption ==
  /\ KeyOf \in [Calls -> Keys]
  /\ ToolOf \in [Keys -> Tools]
  /\ Cached \subseteq Calls
  /\ TTL \in [Keys -> Nat \ {0}]
  /\ MaxEntries \in Nat \ {0}
  /\ MaxTime \in Nat
  /\ MaxReloads \in Nat

VARIABLES
  now,      \* hass.loop.time()
  loaded,   \* entry.runtime_data exists
  load,     \* how many times the entry was loaded
  version,  \* the server subentry's data
  loadedVersion, \* history: that data when the entry was loaded
  cache,    \* runtime_data.mcp_call_cache, oldest insertion first
  pc,       \* control state of each call
  config,   \* the server data the call's toolset was built from
  built,    \* history: the load in which that toolset was built
  answer,   \* the call whose result a call returned
  lastTool, \* AgentRunMetrics.last_mcp_tool_call
  sensor    \* the sensor that shows it

entryVars == <<loaded, load, version, loadedVersion>>
metricVars == <<lastTool, sensor>>
vars == <<now, entryVars, cache, pc, config, built, answer, metricVars>>

Done == {"hit", "answered", "raised"}
PCs == {"idle", "ready", "waiting"} \cup Done

\* A cached result is named by the call that obtained it; load is when it was stored.
CacheEntry == [key : Keys, expires : Nat, by : Calls, load : Nat]
NoCall == "none"

TypeOK ==
  /\ now \in 0..MaxTime
  /\ loaded \in BOOLEAN
  /\ load \in 1..MaxReloads + 1
  /\ version \in 0..MaxReloads
  /\ loadedVersion \in 0..version
  /\ cache \in Seq(CacheEntry)
  /\ pc \in [Calls -> PCs]
  /\ config \in [Calls -> Nat]
  /\ built \in [Calls -> Nat]
  /\ answer \in [Calls -> Calls \cup {NoCall}]
  /\ lastTool \in Tools \cup {NoValue}
  /\ sensor \in [stage : {"none", "created", "added"}, shows : Tools \cup {NoValue}, missed : BOOLEAN]

Init ==
  /\ now = 0
  /\ loaded = TRUE
  /\ load = 1
  /\ version = 0
  /\ loadedVersion = 0
  /\ cache = <<>>
  /\ pc = [c \in Calls |-> "idle"]
  /\ config = [c \in Calls |-> 0]
  /\ built = [c \in Calls |-> 0]
  /\ answer = [c \in Calls |-> NoCall]
  /\ lastTool = NoValue
  /\ sensor = AddedToHass(Create(NoValue))

-----------------------------------------------------------------------------
(* The cache.                                                              *)

\* The results at some places of the cache, in their order.
At(s, places) ==
  LET Nth(n) == CHOOSE i \in places : Cardinality({j \in places : j <= i}) = n
  IN  [n \in 1..Cardinality(places) |-> s[Nth(n)]]

\* Mutant: a result is served in the instant in which it expires.
LiveAtExpiry(s) == At(s, {i \in DOMAIN s : s[i].expires >= now})

\* _prune_expired_mcp_tool_results
Live(s) == At(s, {i \in DOMAIN s : s[i].expires > now})

KeysIn(s) == {s[i].key : i \in DOMAIN s}

\* Mutants: one result too many is kept; room is made even when a key is overwritten.
StoreOneMore(s, x) ==
  IF x.key \in KeysIn(s)
    THEN [i \in DOMAIN s |-> IF s[i].key = x.key THEN x ELSE s[i]]
    ELSE LET t == Append(s, x) IN IF Len(t) > MaxEntries + 1 THEN Tail(t) ELSE t
StoreEvictsFirst(s, x) ==
  LET t == IF Len(s) >= MaxEntries THEN Tail(s) ELSE s
  IN  IF x.key \in KeysIn(t)
        THEN [i \in DOMAIN t |-> IF t[i].key = x.key THEN x ELSE t[i]]
        ELSE Append(t, x)

\* Overwriting keeps a key's place; a new key pushes the oldest ones out.
Store(s, x) ==
  IF x.key \in KeysIn(s)
    THEN [i \in DOMAIN s |-> IF s[i].key = x.key THEN x ELSE s[i]]
    ELSE LET t == Append(s, x)
         IN  IF Len(t) > MaxEntries THEN SubSeq(t, Len(t) - MaxEntries + 1, Len(t)) ELSE t

-----------------------------------------------------------------------------
(* A call.                                                                 *)

\* A run builds its toolsets from the subentry's data, which may be newer than
\* the load.
BuildToolset(c) ==
  /\ pc[c] = "idle"
  /\ loaded
  /\ pc' = [pc EXCEPT ![c] = "ready"]
  /\ config' = [config EXCEPT ![c] = version]
  /\ built' = [built EXCEPT ![c] = load]
  /\ UNCHANGED <<now, entryVars, cache, answer, metricVars>>

\* The name is recorded before the cache is asked; without runtime data that raises.
RecordMCPToolCall(tool) ==
  /\ lastTool' = tool
  /\ sensor' = Signal(sensor, tool)

\* The call up to its await.
Lookup(c) ==
  LET live == Live(cache)
      hits == {i \in DOMAIN live : live[i].key = KeyOf[c]}
  IN  /\ pc[c] = "ready"
      /\ \/ /\ ~loaded
            /\ pc' = [pc EXCEPT ![c] = "raised"]
            /\ UNCHANGED <<cache, answer, metricVars>>
         \/ /\ loaded
            /\ RecordMCPToolCall(ToolOf[KeyOf[c]])
            /\ c \in Cached
            /\ cache' = live
            /\ \E i \in hits : answer' = [answer EXCEPT ![c] = live[i].by]
            /\ pc' = [pc EXCEPT ![c] = "hit"]
         \/ /\ loaded
            /\ RecordMCPToolCall(ToolOf[KeyOf[c]])
            /\ c \in Cached => hits = {}
            /\ cache' = IF c \in Cached THEN live ELSE cache
            /\ pc' = [pc EXCEPT ![c] = "waiting"]
            /\ UNCHANGED answer
      /\ UNCHANGED <<now, entryVars, config, built>>

\* The server answered; storing the result needs the runtime data.
\* TTL is one number per key. The code takes it from the configuration that the
\* toolset copied when it was built, so a call that outlives an edit of the server
\* still stores with the old one; edits of the TTL itself are not modelled.
Answer(c) ==
  /\ pc[c] = "waiting"
  /\ IF loaded \/ c \notin Cached
       THEN /\ pc' = [pc EXCEPT ![c] = "answered"]
            /\ answer' = [answer EXCEPT ![c] = c]
       ELSE pc' = [pc EXCEPT ![c] = "raised"] /\ UNCHANGED answer
  /\ cache' = IF loaded /\ c \in Cached
                THEN Store(Live(cache), [key |-> KeyOf[c], expires |-> now + TTL[KeyOf[c]],
                                         by |-> c, load |-> load])
                ELSE cache
  /\ UNCHANGED <<now, entryVars, config, built, metricVars>>

\* A timeout becomes a ModelRetry, any other failure propagates; neither is kept.
Fail(c) ==
  /\ pc[c] = "waiting"
  /\ pc' = [pc EXCEPT ![c] = "raised"]
  /\ UNCHANGED <<now, entryVars, cache, config, built, answer, metricVars>>

-----------------------------------------------------------------------------
(* The entry and the clock.                                                *)

Tick ==
  /\ now < MaxTime
  /\ now' = now + 1
  /\ UNCHANGED <<entryVars, cache, pc, config, built, answer, metricVars>>

\* An edit of the server is followed by a reload, which may come later.
EditServer ==
  /\ version < load
  /\ version < MaxReloads
  /\ version' = version + 1
  /\ UNCHANGED <<now, loaded, load, loadedVersion, cache, pc, config, built, answer, metricVars>>

\* Mutant: the cache outlives the load.
UnloadKeepsCache ==
  /\ loaded
  /\ load <= MaxReloads
  /\ loaded' = FALSE
  /\ lastTool' = NoValue
  /\ sensor' = NoSensor
  /\ UNCHANGED <<now, load, version, loadedVersion, cache, pc, config, built, answer>>

Unload ==
  /\ loaded
  /\ load <= MaxReloads
  /\ loaded' = FALSE
  /\ cache' = <<>>
  /\ lastTool' = NoValue
  /\ sensor' = NoSensor
  /\ UNCHANGED <<now, load, version, loadedVersion, pc, config, built, answer>>

Setup ==
  /\ ~loaded
  /\ loaded' = TRUE
  /\ load' = load + 1
  /\ loadedVersion' = version
  /\ UNCHANGED <<now, version, cache, pc, config, built, answer, metricVars>>

\* The sensor platform is set up after the others have made the agent callable.
SetupSensor ==
  /\ loaded
  /\ sensor.stage = "none"
  /\ sensor' = Create(lastTool)
  /\ UNCHANGED <<now, entryVars, cache, pc, config, built, answer, lastTool>>

AddSensor ==
  /\ sensor.stage = "created"
  /\ sensor' = AddedToHass(sensor)
  /\ UNCHANGED <<now, entryVars, cache, pc, config, built, answer, lastTool>>

\* The end of a run of the agent sends the same signal.
RunRecorded ==
  /\ loaded
  /\ sensor' = Signal(sensor, lastTool)
  /\ UNCHANGED <<now, entryVars, cache, pc, config, built, answer, lastTool>>

Next ==
  \/ Tick \/ EditServer \/ Unload \/ Setup
  \/ SetupSensor \/ AddSensor \/ RunRecorded
  \/ \E c \in Calls : BuildToolset(c) \/ Lookup(c) \/ Answer(c) \/ Fail(c)

Spec == Init /\ [][Next]_vars

-----------------------------------------------------------------------------
(* Properties.                                                             *)

\* However calls, expiries and overwrites interleave, the cache holds at most
\* MaxEntries results, one for each key, and only of calls that succeeded.
CacheIsBoundedMap ==
  /\ Len(cache) <= MaxEntries
  /\ \A i, j \in DOMAIN cache : cache[i].key = cache[j].key => i = j
  /\ \A i \in DOMAIN cache :
       /\ pc[cache[i].by] = "answered"
       /\ KeyOf[cache[i].by] = cache[i].key

\* A call is served what an equal call obtained less than a TTL ago and this
\* load has stored: a hit never crosses a reload.
HitsAreFresh ==
  [][\A c \in Calls : pc[c] # "hit" /\ pc'[c] = "hit" =>
       \E i \in DOMAIN cache :
         /\ cache[i].by = answer'[c]
         /\ cache[i].load = load
         /\ KeyOf[answer'[c]] = KeyOf[c]
         /\ cache[i].expires \in now + 1 .. now + TTL[KeyOf[c]]]_vars

\* An unexpired result is lost only to a newer one: it is overwritten by its own
\* key, or pushed out of a cache that is full of unexpired results.
LiveResultsSurvive ==
  [][loaded' => \A i \in DOMAIN cache :
       cache[i].expires > now' /\ cache[i].key \notin KeysIn(cache') =>
         /\ Len(cache') = MaxEntries
         /\ \A j \in DOMAIN cache' : cache'[j].expires > now']_vars

\* The key does not name the server's address or headers, so what an older
\* configuration answered can be cached only by a call whose run outlived the
\* reload that brought the new one.
OldServerOnlyFromOutlivingCall ==
  \A i \in DOMAIN cache :
    config[cache[i].by] < loadedVersion => built[cache[i].by] < cache[i].load

\* Although the record is replaced by every load and written by calls that outlive
\* one, an added sensor shows what the record says, unless all signals since it was
\* constructed came before it listened.
SensorShowsLastCall ==
  sensor.stage = "added" /\ ~sensor.missed => sensor.shows = lastTool
=============================================================================
