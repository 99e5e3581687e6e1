-------------------------- MODULE LogfireOwnership --------------------------
(***************************************************************************)
(* Who may send traces: Logfire is configured once per process, so the     *)
(* config entries of the integration share one token.  The first entry to  *)
(* configure it owns it, entries with the same token join as owners, one   *)
(* with another token gets a repair issue, and when the last owner leaves  *)
(* the releasing entry promotes a loaded one.                              *)
(*                                                                         *)
(* Home Assistant runs one lifecycle operation per entry at a time, in an  *)
(* asyncio task of its own.  Tasks meet at LogfireState.configure_lock, a  *)
(* FIFO asyncio.Lock: what a task does under the lock and from there to    *)
(* its next await is one action.                                           *)
(***************************************************************************)
EXTENDS Naturals, Sequences, FiniteSets

CONSTANTS
  Entries,     \* config entries of the integration
  EntryOrder,  \* hass.config_entries.async_entries(DOMAIN)
  Tokens,      \* Logfire tokens a workspace may be given
  NoToken,
  FirstTokens, \* the token each entry is created with
  Editable,    \* bound: the entries whose token may be edited, once each
  Removable    \* bound: the entries that may be removed

ASSUME LogfireAssumption ==
  /\ EntryOrder \in Seq(Entries)
  /\ Entries = {EntryOrder[i] : i \in DOMAIN EntryOrder}
  /\ NoToken \notin Tokens
  /\ FirstTokens \in [Entries -> Tokens \cup {NoToken}]
  /\ Editable \subseteq Entries
  /\ Removable \subseteq Entries

VARIABLES
  token,       \* entry.data's Logfire token
  edited,      \* entries whose data changed since their setup began
  configured,  \* LogfireState.configured_token
  owners,      \* keys of LogfireState.owner_include_content_by_entry_id
  queue,       \* tasks at configure_lock: the holder, then those that wait
  conflicts,   \* entries with a logfire_token_conflict repair issue
  stage,       \* the entry's state, or where its lifecycle task is
  inner,       \* the Logfire call the task is in
  cursor,      \* promotion loop: position of the candidate, 0 outside it
  key,         \* the token that call read from its entry
  promoted,    \* promoted_token of the promotion loop
  failed       \* history: configuring the library has raised

shared == <<configured, owners, conflicts>>
local == <<stage, inner, cursor, key, promoted>>
vars == <<token, edited, queue, failed, shared, local>>

Stages == {"not_loaded", "setup1", "platforms", "setup2", "failing", "loaded", "unloading",
           "releasing", "failed_unload", "removing", "removed"}

TypeOK ==
  /\ token \in [Entries -> Tokens \cup {NoToken}]
  /\ edited \subseteq Entries
  /\ configured \in Tokens \cup {NoToken}
  /\ owners \subseteq Entries
  /\ queue \in Seq(Entries)
  /\ conflicts \subseteq Entries
  /\ stage \in [Entries -> Stages]
  /\ inner \in [Entries -> {"none", "configure", "executing", "release"}]
  /\ cursor \in [Entries -> 0..Len(EntryOrder)]
  /\ key \in [Entries -> Tokens \cup {NoToken}]
  /\ promoted \in [Entries -> Tokens \cup {NoToken}]
  /\ failed \in BOOLEAN

Init ==
  /\ token = FirstTokens
  /\ edited = {}
  /\ configured = NoToken
  /\ owners = {}
  /\ queue = <<>>
  /\ conflicts = {}
  /\ stage = [e \in Entries |-> "not_loaded"]
  /\ inner = [e \in Entries |-> "none"]
  /\ cursor = [e \in Entries |-> 0]
  /\ key = [e \in Entries |-> NoToken]
  /\ promoted = [e \in Entries |-> NoToken]
  /\ failed = FALSE

-----------------------------------------------------------------------------
(* Entering and leaving the lock.                                          *)

Loaded(e) == stage[e] = "loaded"
Holds(e) == queue # <<>> /\ Head(queue) = e

\* The entry a configure call is for: the task's own, or the candidate.
Target(e) == IF cursor[e] = 0 THEN e ELSE EntryOrder[cursor[e]]

\* The repair issue of an entry whose token is not the one in use.
CreateTokenConflictIssue(issues, e) == issues \cup {e}
DeleteTokenConflictIssue(issues, e) == issues \ {e}

\* async_configure_logfire for the task's own entry: without a token it releases.
StartConfigure(e) ==
  /\ inner' = [inner EXCEPT ![e] = IF token[e] = NoToken THEN "release" ELSE "configure"]
  /\ key' = [key EXCEPT ![e] = token[e]]
  /\ queue' = Append(queue, e)
  /\ UNCHANGED <<cursor, promoted>>

StartRelease(e) ==
  /\ inner' = [inner EXCEPT ![e] = "release"]
  /\ queue' = Append(queue, e)
  /\ UNCHANGED <<cursor, key, promoted>>

\* The Logfire call has returned to the entry's lifecycle task, which deletes the
\* conflict issue when the call released the entry.
Return(e, conflicting) ==
  LET released == inner[e] = "release" \/ cursor[e] # 0
      inSetup == stage[e] \in {"setup1", "setup2"}
      deletes == stage[e] \in {"releasing", "removing"} \/ (inSetup /\ released)
      next == CASE stage[e] = "setup1" -> "platforms"
                [] stage[e] = "setup2" -> "loaded"
                [] stage[e] = "removing" -> "removed"
                [] OTHER -> "not_loaded"
  IN  /\ stage' = [stage EXCEPT ![e] = next]
      /\ conflicts' = IF deletes THEN DeleteTokenConflictIssue(conflicting, e) ELSE conflicting
      /\ inner' = [inner EXCEPT ![e] = "none"]
      /\ cursor' = [cursor EXCEPT ![e] = 0]
      /\ promoted' = [promoted EXCEPT ![e] = NoToken]
      /\ key' = [key EXCEPT ![e] = NoToken]
      /\ queue' = Tail(queue)

\* The promotion loop after the position i: the next loaded entry with a token,
\* and with the promoted one once there is one.
Promote(e, i, winner, conflicting) ==
  LET eligible(j) == LET c == EntryOrder[j] IN
        /\ j > i /\ c # e /\ Loaded(c) /\ token[c] # NoToken
        /\ winner # NoToken => token[c] = winner
  IN  \/ /\ \A j \in DOMAIN EntryOrder : ~eligible(j)
         /\ Return(e, conflicting)
      \/ \E j \in DOMAIN EntryOrder :
           /\ eligible(j)
           /\ \A k \in DOMAIN EntryOrder : eligible(k) => j <= k
           /\ cursor' = [cursor EXCEPT ![e] = j]
           /\ key' = [key EXCEPT ![e] = token[EntryOrder[j]]]
           /\ promoted' = [promoted EXCEPT ![e] = winner]
           /\ inner' = [inner EXCEPT ![e] = "configure"]
           /\ queue' = Append(Tail(queue), e)
           /\ conflicts' = conflicting
           /\ UNCHANGED stage

\* Mutant: the promotion loop starts again after every candidate.
LeaveRestarts(e, conf, own, conflicting, ok) ==
  /\ configured' = conf
  /\ owners' = own
  /\ IF cursor[e] = 0
       THEN Return(e, conflicting)
       ELSE Promote(e, 0, IF ok THEN key[e] ELSE promoted[e], conflicting)
  /\ UNCHANGED <<token, edited>>

\* async_configure_logfire returns ok and gives up the lock.
Leave(e, conf, own, conflicting, ok) ==
  /\ configured' = conf
  /\ owners' = own
  /\ IF cursor[e] = 0
       THEN Return(e, conflicting)
       ELSE Promote(e, cursor[e], IF ok THEN key[e] ELSE promoted[e], conflicting)
  /\ UNCHANGED <<token, edited>>

\* Mutant: the conflict issue of an entry that became an owner stays.
ClaimKeepsIssue(e) == Leave(e, key[e], owners \cup {Target(e)}, conflicts, TRUE)

Claim(e) ==
  Leave(e, key[e], owners \cup {Target(e)}, DeleteTokenConflictIssue(conflicts, Target(e)), TRUE)

-----------------------------------------------------------------------------
(* Under the lock.                                                         *)

\* Mutant: the last token wins.
ConfigureLastWins(e) ==
  /\ Holds(e)
  /\ inner[e] = "configure"
  /\ IF key[e] = configured
       THEN Leave(e, configured, owners \cup {Target(e)}, conflicts \ {Target(e)}, TRUE)
       ELSE Leave(e, key[e], {Target(e)}, conflicts \ {Target(e)}, TRUE)
  /\ UNCHANGED failed

Configure(e) ==
  /\ Holds(e)
  /\ inner[e] = "configure"
  /\ IF configured = NoToken \/ owners = {}
       THEN /\ configured' = NoToken
            /\ inner' = [inner EXCEPT ![e] = "executing"]
            /\ UNCHANGED <<token, edited, owners, queue, conflicts,
                           stage, cursor, key, promoted>>
       ELSE \/ key[e] = configured /\ Claim(e)
            \/ /\ key[e] # configured
               /\ Leave(e, configured, owners, CreateTokenConflictIssue(conflicts, Target(e)), FALSE)
  /\ UNCHANGED failed

\* logfire.configure ran in the executor, while the lock was held.
Executed(e) ==
  /\ Holds(e)
  /\ inner[e] = "executing"
  /\ \/ Claim(e) /\ UNCHANGED failed
     \/ Leave(e, configured, owners, conflicts, FALSE) /\ failed' = TRUE

Release(e) ==
  LET rest == owners \ {e}
  IN  /\ Holds(e)
      /\ inner[e] = "release"
      /\ owners' = rest
      /\ IF rest # {}
           THEN Return(e, conflicts) /\ UNCHANGED configured
           ELSE Promote(e, 0, NoToken, conflicts) /\ configured' = NoToken
      /\ UNCHANGED <<token, edited, failed>>

-----------------------------------------------------------------------------
(* The entry's lifecycle, one operation at a time.                         *)

Move(e, s) == stage' = [stage EXCEPT ![e] = s]

BeginSetup(e) ==
  /\ stage[e] = "not_loaded"
  /\ Move(e, "setup1")
  /\ StartConfigure(e)
  /\ edited' = edited \ {e}
  /\ UNCHANGED <<token, failed, shared>>

\* Mutants: a failed setup does not release; Logfire is not configured again.
SetupPlatformsNoRelease(e) ==
  /\ stage[e] = "platforms"
  /\ \/ Move(e, "setup2") /\ StartConfigure(e)
     \/ Move(e, "not_loaded") /\ UNCHANGED <<queue, inner, cursor, key, promoted>>
  /\ UNCHANGED <<token, edited, failed, shared>>
SetupPlatformsOnce(e) ==
  /\ stage[e] = "platforms"
  /\ \/ Move(e, "loaded") /\ UNCHANGED <<queue, inner, cursor, key, promoted>>
     \/ Move(e, "failing") /\ StartRelease(e)
  /\ UNCHANGED <<token, edited, failed, shared>>

\* The platforms are set up, or raise and the setup is undone.
SetupPlatforms(e) ==
  /\ stage[e] = "platforms"
  /\ \/ Move(e, "setup2") /\ StartConfigure(e)
     \/ Move(e, "failing") /\ StartRelease(e)
  /\ UNCHANGED <<token, edited, failed, shared>>

BeginUnload(e) ==
  /\ Loaded(e)
  /\ Move(e, "unloading")
  /\ UNCHANGED <<token, edited, queue, failed, shared, inner, cursor, key, promoted>>

UnloadPlatforms(e) ==
  /\ stage[e] = "unloading"
  /\ \/ Move(e, "releasing") /\ StartRelease(e)
     \/ Move(e, "failed_unload") /\ UNCHANGED <<queue, inner, cursor, key, promoted>>
  /\ UNCHANGED <<token, edited, failed, shared>>

BeginRemove(e) ==
  /\ e \in Removable
  /\ stage[e] \in {"not_loaded", "failed_unload"}
  /\ Move(e, "removing")
  /\ StartRelease(e)
  /\ UNCHANGED <<token, edited, failed, shared>>

\* The workspace flow stores another token; the entry reloads later.
EditToken(e) ==
  /\ e \in Editable
  /\ token[e] = FirstTokens[e]
  /\ stage[e] # "removed"
  /\ \E t \in (Tokens \cup {NoToken}) \ {token[e]} : token' = [token EXCEPT ![e] = t]
  /\ edited' = edited \cup {e}
  /\ UNCHANGED <<queue, failed, shared, local>>

Continue(e) ==
  Configure(e) \/ Executed(e) \/ Release(e) \/ SetupPlatforms(e) \/ UnloadPlatforms(e)

Next == \E e \in Entries :
  Continue(e) \/ BeginSetup(e) \/ BeginUnload(e) \/ BeginRemove(e) \/ EditToken(e)

\* A lifecycle task that was started is scheduled until it is done.
Fairness == \A e \in Entries : WF_vars(Continue(e))

Spec == Init /\ [][Next]_vars /\ Fairness

-----------------------------------------------------------------------------
(* Properties.                                                             *)

\* The owners are who they should be: the token is set exactly while it has owners,
\* so that the repair at the head of async_configure_logfire (a token without owners)
\* never has work to do; they agree on the token, and one that sends traces to
\* somebody else's project has changed its token and waits for its reload; and an
\* entry that is not loaded is none of them once its task is done, although another
\* entry's promotion may have configured it while it was unloading.
OwnersAreRight ==
  /\ configured = NoToken <=> owners = {}
  /\ \A e \in owners :
       /\ token[e] = configured \/ e \in edited
       /\ stage[e] \notin {"not_loaded", "removed"}

\* While no task is at the lock and the library never refused a token, every
\* loaded entry with a token traces or is beaten by the token of an owner.
NoOrphanedTelemetry ==
  queue = <<>> /\ ~failed =>
    \A e \in Entries : Loaded(e) /\ token[e] # NoToken /\ e \notin edited =>
      /\ configured # NoToken
      /\ token[e] = configured => e \in owners

\* The repair warning is there for the loaded entries with a different token
\* and for no other loaded entry, through handovers in any order.
ConflictIssueIsRight ==
  queue = <<>> /\ ~failed =>
    \A e \in Entries : Loaded(e) /\ e \notin edited =>
      (e \in conflicts <=> token[e] \notin {NoToken, configured})

\* The first loaded workspace with a token wins: a token that has owners is
\* never replaced, it can only be given up by its last owner.
FirstTokenWins ==
  [][configured # NoToken /\ configured' # configured =>
       configured' = NoToken /\ owners' = {} /\ Cardinality(owners) = 1]_vars

\* Setup, unload and removal end: nobody waits for the lock for ever, and a
\* promotion loop cannot be kept going by the entries it promotes.
LifecycleEnds ==
  \A e \in Entries :
    (stage[e] \notin {"not_loaded", "loaded", "failed_unload", "removed"})
      ~> (stage[e] \in {"not_loaded", "loaded", "failed_unload", "removed"})
=============================================================================
