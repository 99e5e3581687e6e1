------------------------------ MODULE AgentRun ------------------------------
(***************************************************************************)
(* Agent runs of one config entry: the model profile fallback chain, the   *)
(* streaming of partial answers, and the accounting of every run in the    *)
(* entry's runtime data (metrics, last-run diagnostics, provider auth      *)
(* failures) and in Home Assistant's issue registry.                       *)
(*                                                                         *)
(* Runs are asyncio tasks on one event loop: an action is what a task does *)
(* between two awaits.  entry.runtime_data is read at each use, so a run   *)
(* that outlives a reload writes into the runtime data of the new load,    *)
(* and one that touches it while the entry is unloaded dies with an        *)
(* AttributeError.                                                         *)
(***************************************************************************)
EXTENDS Naturals, Sequences

CONSTANTS
  Agents,       \* conversation and AI task subentries
  Providers,    \* provider subentries the entry may have
  Profiles,     \* model profile references
  ProviderOf,   \* the provider that owns a profile
  ChainOf,      \* an agent's primary profile and its ordered fallbacks
  Runs,         \* runs, each executed at most once
  AgentOf,      \* the agent a run belongs to
  KindOf,       \* "conversation", "task" (plain text) or "structured"
  Streaming,    \* the runs that stream: conversations with streaming enabled
  CloseErrors,  \* errors that leaving `async with agent` may raise
  MaxReloads    \* bound on unloads of the entry

Kinds == {"conversation", "task", "structured"}

ASSUME AgentRunAssumption ==
  /\ ProviderOf \in [Profiles -> Providers]
  /\ ChainOf \in [Agents -> Seq(Profiles)]
  /\ \A a \in Agents : ChainOf[a] # <<>>
  /\ AgentOf \in [Runs -> Agents]
  /\ KindOf \in [Runs -> Kinds]
  /\ Streaming \subseteq {r \in Runs : KindOf[r] = "conversation"}
  /\ CloseErrors \subseteq {"retryable", "fatal"}
  /\ MaxReloads \in Nat

VARIABLES
  entry,         \* "unloaded", "starting", "loaded" or "removed"
  configured,    \* providers among the entry's subentries
  runtime,       \* the providers setup found; runtime_data.providers once loaded
  authFailures,  \* runtime_data.runtime_provider_auth_failures
  metrics,       \* runtime_data.metrics, one record per agent
  diagnostics,   \* status of runtime_data.latest_run_diagnostics
  issues,        \* providers with a provider_auth repair issue
  reloads,       \* unloads so far (bounded by MaxReloads)
  pc,            \* control state of each run
  chain,         \* the positions of ChainOf that resolved when the run started
  index,         \* the position the run is trying
  chat,          \* what the run's chat log ends with
  error,         \* the exception on its way out of an attempt
  ledger,        \* history: successes and failures recorded for the run
  shown,         \* history: the attempts that emitted stream deltas
  closeFailed    \* history: the attempts whose agent context failed to exit

entryVars == <<entry, configured, runtime, reloads>>
stores == <<authFailures, metrics, diagnostics, issues>>
runVars == <<pc, chain, index, chat, error, ledger, shown, closeFailed>>
vars == <<entryVars, stores, runVars>>

Finished == {"answered", "apologised", "raised"}
PCs == {"idle", "called", "preparing", "building", "attempting", "calling", "closing"} \cup Finished

\* An exception as the handlers see it: would _should_fallback retry it if it
\* were not partial, does its cause chain hold a 401 or 403, and is it an
\* _AgentRunFailed raised after deltas were emitted.
Errors == [kind : {"retryable", "fatal"}, auth : BOOLEAN, partial : BOOLEAN]
NoError == [kind |-> "none", auth |-> FALSE, partial |-> FALSE]

\* What an attempt may raise: a timeout, a 408/409/429/5xx, a usage limit or a
\* connection failure; a 401 or 403; anything else.
AttemptErrors == {e \in Errors : ~e.partial /\ (e.auth => e.kind = "fatal")}

FreshMetrics == [a \in Agents |-> [failures |-> 0, last |-> "none"]]

Positions(r) == DOMAIN ChainOf[AgentOf[r]]

TypeOK ==
  /\ entry \in {"unloaded", "starting", "loaded", "removed"}
  /\ configured \in SUBSET Providers
  /\ runtime \in SUBSET Providers
  /\ authFailures \in [Providers -> SUBSET Profiles]
  /\ metrics \in [Agents -> [failures : Nat, last : {"none", "success", "failure"}]]
  /\ diagnostics \in [Agents -> {"none", "success", "failed"}]
  /\ issues \in SUBSET Providers
  /\ reloads \in 0..MaxReloads
  /\ pc \in [Runs -> PCs]
  /\ chain \in [Runs -> SUBSET Nat]
  /\ index \in [Runs -> Nat]
  /\ \A r \in Runs : chain[r] \subseteq Positions(r) /\ index[r] \in Positions(r)
  /\ chat \in [Runs -> {"none", "assistant", "tool"}]
  /\ error \in [Runs -> Errors \cup {NoError}]
  /\ ledger \in [Runs -> [success : Nat, failure : Nat]]
  /\ shown \in [Runs -> SUBSET Nat]
  /\ closeFailed \in [Runs -> SUBSET Nat]

Init ==
  /\ entry = "unloaded"
  /\ configured = Providers
  /\ runtime = {}
  /\ authFailures = [p \in Providers |-> {}]
  /\ metrics = FreshMetrics
  /\ diagnostics = [a \in Agents |-> "none"]
  /\ issues = {}
  /\ reloads = 0
  /\ pc = [r \in Runs |-> "idle"]
  /\ chain = [r \in Runs |-> {}]
  /\ index = [r \in Runs |-> 1]
  /\ chat = [r \in Runs |-> "none"]
  /\ error = [r \in Runs |-> NoError]
  /\ ledger = [r \in Runs |-> [success |-> 0, failure |-> 0]]
  /\ shown = [r \in Runs |-> {}]
  /\ closeFailed = [r \in Runs |-> {}]

-----------------------------------------------------------------------------
(* The shared stores.                                                      *)

HasRuntime == entry = "loaded"

\* The repair issues, one per provider of the entry.
CreateProviderAuthIssue(p) == issues \cup {p}
DeleteProviderAuthIssue(p) == issues \ {p}
DeleteStaleProviderAuthIssues(current) == issues \cap current
DeleteEntryRepairIssues == {}

\* Mutant: the issue goes with the first failure that is cleared.
ClearAuthFailureAndIssue(f) ==
  /\ authFailures' = [authFailures EXCEPT ![ProviderOf[f]] = @ \ {f}]
  /\ issues' = DeleteProviderAuthIssue(ProviderOf[f])

ClearAuthFailure(f) ==
  LET p == ProviderOf[f]
  IN  /\ authFailures' = [authFailures EXCEPT ![p] = @ \ {f}]
      /\ issues' = IF authFailures[p] \ {f} = {} THEN DeleteProviderAuthIssue(p) ELSE issues

CreateAuthIssue(f) ==
  /\ authFailures' = [authFailures EXCEPT ![ProviderOf[f]] = @ \cup {f}]
  /\ issues' = CreateProviderAuthIssue(ProviderOf[f])

\* Mutant: a success keeps the failure count.
RecordSuccessKeepsCount(r) ==
  /\ metrics' = [metrics EXCEPT ![AgentOf[r]].last = "success"]
  /\ diagnostics' = [diagnostics EXCEPT ![AgentOf[r]] = "success"]
  /\ ledger' = [ledger EXCEPT ![r].success = @ + 1]

RecordSuccess(r) ==
  /\ metrics' = [metrics EXCEPT ![AgentOf[r]] = [failures |-> 0, last |-> "success"]]
  /\ diagnostics' = [diagnostics EXCEPT ![AgentOf[r]] = "success"]
  /\ ledger' = [ledger EXCEPT ![r].success = @ + 1]

\* Mutant: neither the handler nor its caller records a failure.
SkipFailure(r) == UNCHANGED <<metrics, diagnostics, ledger>>

RecordFailure(r) ==
  /\ metrics' = [metrics EXCEPT ![AgentOf[r]] =
                   [failures |-> @.failures + 1, last |-> "failure"]]
  /\ diagnostics' = [diagnostics EXCEPT ![AgentOf[r]] = "failed"]
  /\ ledger' = [ledger EXCEPT ![r].failure = @ + 1]

RecordNothing == UNCHANGED <<metrics, diagnostics, ledger>>

-----------------------------------------------------------------------------
(* The entry: setup, unload, removal, and edits of its subentries.         *)

\* The providers are taken before Logfire is awaited ...
BeginSetup ==
  /\ entry = "unloaded"
  /\ entry' = "starting"
  /\ runtime' = configured
  /\ UNCHANGED <<configured, reloads, stores, runVars>>

\* Mutant: setup keeps the issues of providers that are gone.
SetupKeepsIssues ==
  /\ entry = "starting"
  /\ entry' = "loaded"
  /\ authFailures' = [p \in Providers |-> {}]
  /\ metrics' = FreshMetrics
  /\ diagnostics' = [a \in Agents |-> "none"]
  /\ UNCHANGED <<configured, runtime, issues, reloads, runVars>>

\* ... and are what the new runtime data knows.
Setup ==
  /\ entry = "starting"
  /\ entry' = "loaded"
  /\ authFailures' = [p \in Providers |-> {}]
  /\ metrics' = FreshMetrics
  /\ diagnostics' = [a \in Agents |-> "none"]
  /\ issues' = DeleteStaleProviderAuthIssues(runtime)
  /\ UNCHANGED <<configured, runtime, reloads, runVars>>

\* The setup raises before it has made its runtime data.
SetupFails ==
  /\ entry = "starting"
  /\ entry' = "unloaded"
  /\ runtime' = {}
  /\ UNCHANGED <<configured, reloads, stores, runVars>>

Unload ==
  /\ entry = "loaded"
  /\ reloads < MaxReloads
  /\ entry' = "unloaded"
  /\ reloads' = reloads + 1
  /\ runtime' = {}
  /\ authFailures' = [p \in Providers |-> {}]
  /\ metrics' = FreshMetrics
  /\ diagnostics' = [a \in Agents |-> "none"]
  /\ UNCHANGED <<configured, issues, runVars>>

RemoveEntry ==
  /\ entry = "unloaded"
  /\ entry' = "removed"
  /\ issues' = DeleteEntryRepairIssues
  /\ UNCHANGED <<configured, runtime, reloads, authFailures, metrics, diagnostics, runVars>>

\* A provider subentry is added or deleted; the update listener reloads later.
EditProviders ==
  /\ entry # "removed"
  /\ \E p \in Providers :
       configured' = IF p \in configured THEN configured \ {p} ELSE configured \cup {p}
  /\ UNCHANGED <<entry, runtime, reloads, stores, runVars>>

-----------------------------------------------------------------------------
(* A run.                                                                  *)

Resolvable(f) ==
  /\ ProviderOf[f] \in configured
  /\ HasRuntime => ProviderOf[f] \in runtime

Profile(r) == ChainOf[AgentOf[r]][index[r]]
\* Mutants: the loop runs past the chain; it tries the failed profile again.
FallbacksPastEnd(r) == {index[r] + 1}
FallbacksAndCurrent(r) == {i \in chain[r] : i >= index[r]}

Fallbacks(r) == {i \in chain[r] : i > index[r]}
Goto(r, l) == pc' = [pc EXCEPT ![r] = l]

\* An exception nobody records: the caller sees it, the stores do not.
Escape(r) ==
  /\ Goto(r, "raised")
  /\ RecordNothing
  /\ UNCHANGED <<authFailures, issues>>

\* An entity exists, so the entry is loaded; it first awaits the LLM API data.
Call(r) ==
  /\ pc[r] = "idle"
  /\ HasRuntime
  /\ Goto(r, "called")
  /\ UNCHANGED <<entryVars, stores, chain, index, chat, ledger, shown, closeFailed, error>>

\* The primary profile must resolve and not be its own fallback; fallbacks that
\* do not resolve are skipped.
ResolveChain(r) ==
  LET profiles == ChainOf[AgentOf[r]]
      resolved == {i \in Positions(r) : Resolvable(profiles[i])}
  IN  /\ pc[r] = "called"
      /\ IF 1 \in resolved /\ \A i \in Positions(r) \ {1} : profiles[i] # profiles[1]
           THEN /\ chain' = [chain EXCEPT ![r] = resolved]
                /\ Goto(r, "preparing")
           ELSE /\ Goto(r, "raised")
                /\ UNCHANGED chain
      /\ UNCHANGED <<entryVars, stores, index, chat, ledger, shown, closeFailed, error>>

\* Converting the history, loading attachments and skills; any of them may raise.
Prepare(r) ==
  /\ pc[r] = "preparing"
  /\ Goto(r, "building") \/ Goto(r, "raised")
  /\ UNCHANGED <<entryVars, stores, chain, index, chat, ledger, shown, closeFailed, error>>

\* Mutant: a partial response does not stop the fallback.
ShouldFallbackAfterPartial(e) == e.kind = "retryable"

ShouldFallback(e) == ~e.partial /\ e.kind = "retryable"

\* The except clause around one attempt of the profile loop.  It looks at the runtime
\* data unless a 401 or 403 is retried.
HandleProfileError(r, e) ==
  LET terminal == Fallbacks(r) = {} \/ ~ShouldFallback(e)
  IN  /\ IF ~HasRuntime /\ (terminal \/ ~e.auth)
           THEN Escape(r) /\ UNCHANGED index
           ELSE
             /\ CASE ~e.auth -> ClearAuthFailure(Profile(r))
                  [] e.auth /\ terminal -> CreateAuthIssue(Profile(r))
                  [] OTHER -> UNCHANGED <<authFailures, issues>>
             /\ IF terminal
                  THEN /\ RecordFailure(r)
                       /\ Goto(r, IF KindOf[r] = "conversation" THEN "apologised" ELSE "raised")
                       /\ UNCHANGED index
                  ELSE /\ RecordNothing
                       /\ Goto(r, "building")
                       /\ \E i \in Fallbacks(r) :
                            /\ \A j \in Fallbacks(r) : i <= j
                            /\ index' = [index EXCEPT ![r] = i]
      /\ error' = [error EXCEPT ![r] = NoError]
      /\ UNCHANGED <<entryVars, chain, chat, shown>>

\* Connecting the MCP toolsets and building the model, outside `async with agent`.
Build(r) ==
  /\ pc[r] = "building"
  /\ \/ /\ HasRuntime
        /\ Goto(r, "attempting")
        /\ UNCHANGED <<entryVars, stores, chain, index, chat, ledger, shown, error>>
     \/ \E e \in AttemptErrors : HandleProfileError(r, e)
  /\ UNCHANGED closeFailed

\* A streamed event reaches the chat log.
EmitDelta(r) ==
  /\ pc[r] = "attempting"
  /\ r \in Streaming
  /\ shown' = [shown EXCEPT ![r] = @ \cup {index[r]}]
  /\ \E c \in {"assistant", "tool"} : chat' = [chat EXCEPT ![r] = c]
  /\ UNCHANGED <<entryVars, stores, pc, chain, index, ledger, closeFailed, error>>

\* The request or a tool raises.  A stream that breaks after its first delta is
\* marked partial; one that ends without a result, or cannot store its trace,
\* is not.
AttemptFails(r) ==
  /\ pc[r] = "attempting"
  /\ \/ \E e \in AttemptErrors :
          error' = [error EXCEPT ![r] = [e EXCEPT !.partial = index[r] \in shown[r]]]
     \/ /\ r \in Streaming
        /\ error' = [error EXCEPT ![r] = [kind |-> "fatal", auth |-> FALSE, partial |-> FALSE]]
  /\ Goto(r, "closing")
  /\ UNCHANGED <<entryVars, stores, chain, index, chat, ledger, shown, closeFailed>>

\* The model finished and its messages are in the chat log.  A streamed run
\* stores its trace in runtime_data; a structured one leaves assistant content.
AttemptReturns(r) ==
  /\ pc[r] = "attempting"
  /\ r \in Streaming => HasRuntime
  /\ \E c \in {"none", "assistant", "tool"} :
       /\ KindOf[r] = "structured" => c = "assistant"
       /\ c = "none" => chat[r] = "none"
       /\ chat' = [chat EXCEPT ![r] = c]
  /\ Goto(r, "closing")
  /\ UNCHANGED <<entryVars, stores, chain, index, ledger, shown, closeFailed, error>>

\* A tool of Home Assistant is awaited, without a timeout.
CallTool(r) ==
  /\ pc[r] = "attempting"
  /\ Goto(r, "calling")
  /\ UNCHANGED <<entryVars, stores, chain, index, chat, ledger, shown, closeFailed, error>>

ToolAnswers(r) ==
  /\ pc[r] = "calling"
  /\ Goto(r, "attempting")
  /\ UNCHANGED <<entryVars, stores, chain, index, chat, ledger, shown, closeFailed, error>>

\* Leaving `async with agent` raises: the new exception replaces the one on its
\* way out, whose 401 or 403 may still be found along the exception's context.
CloseFails(r) ==
  /\ pc[r] = "closing"
  /\ \E k \in CloseErrors, a \in BOOLEAN :
       /\ a => error[r].auth
       /\ HandleProfileError(r, [kind |-> k, auth |-> a, partial |-> FALSE])
  /\ closeFailed' = [closeFailed EXCEPT ![r] = @ \cup {index[r]}]

CloseAfterError(r) ==
  /\ pc[r] = "closing"
  /\ error[r] # NoError
  /\ HandleProfileError(r, error[r])
  /\ UNCHANGED closeFailed

\* The outcome leaves the agent; from here to the recording nothing awaits.
Succeeded(r) == pc[r] = "closing" /\ error[r] = NoError

\* conversation._async_handle_message after its run returned.
FinishConversation(r) ==
  /\ Succeeded(r)
  /\ KindOf[r] = "conversation"
  /\ CASE ~HasRuntime -> Escape(r)
       [] HasRuntime /\ chat[r] = "none" ->
            /\ RecordFailure(r)
            /\ Goto(r, "apologised")
            /\ UNCHANGED <<authFailures, issues>>
       [] HasRuntime /\ chat[r] # "none" ->
            /\ ClearAuthFailure(Profile(r))
            /\ RecordSuccess(r)
            /\ Goto(r, "answered")
  /\ UNCHANGED <<entryVars, chain, index, chat, shown, closeFailed, error>>

\* Mutant: the task awaits between recording its success and returning it.
FinishTaskInTwoSteps(r) ==
  /\ Succeeded(r)
  /\ KindOf[r] = "task"
  /\ HasRuntime
  /\ IF ledger[r].success = 0
       THEN RecordSuccess(r) /\ UNCHANGED pc
       ELSE RecordNothing /\ Goto(r, "answered")
  /\ UNCHANGED <<entryVars, authFailures, issues, chain, index, chat, shown, closeFailed, error>>

\* A plain AI task records its success before its last content is looked at.
FinishTask(r) ==
  /\ Succeeded(r)
  /\ KindOf[r] = "task"
  /\ IF ~HasRuntime
       THEN Escape(r)
       ELSE /\ ClearAuthFailure(Profile(r))
            /\ RecordSuccess(r)
            /\ Goto(r, IF chat[r] = "assistant" THEN "answered" ELSE "raised")
  /\ UNCHANGED <<entryVars, chain, index, chat, shown, closeFailed, error>>

\* A structured AI task records only once its data is validated.
FinishStructured(r) ==
  /\ Succeeded(r)
  /\ KindOf[r] = "structured"
  /\ IF ~HasRuntime
       THEN Escape(r)
       ELSE /\ ClearAuthFailure(Profile(r))
            /\ \/ RecordSuccess(r) /\ Goto(r, "answered")
               \/ RecordFailure(r) /\ Goto(r, "raised")
  /\ UNCHANGED <<entryVars, chain, index, chat, shown, closeFailed, error>>

Finish(r) == FinishConversation(r) \/ FinishTask(r) \/ FinishStructured(r)

\* The request to the provider is over.
AttemptEnds(r) == AttemptFails(r) \/ AttemptReturns(r)

\* What a started run does on its own.
Progress(r) ==
  \/ ResolveChain(r) \/ Prepare(r) \/ Build(r) \/ AttemptEnds(r)
  \/ CloseAfterError(r) \/ Finish(r)

RunStep(r) ==
  Call(r) \/ Progress(r) \/ EmitDelta(r) \/ CallTool(r) \/ ToolAnswers(r) \/ CloseFails(r)

Next ==
  \/ BeginSetup \/ Setup \/ SetupFails \/ Unload \/ RemoveEntry \/ EditProviders
  \/ \E r \in Runs : RunStep(r)

\* Requests to providers and MCP servers have timeouts, and the request limit ends an
\* attempt after finitely many tools.  Nothing makes a tool of Home Assistant answer,
\* a caller start a run, or the entry reload.
Fairness == \A r \in Runs : WF_vars(Progress(r)) /\ SF_vars(AttemptEnds(r))

Spec == Init /\ [][Next]_vars /\ Fairness

-----------------------------------------------------------------------------
(* Properties.                                                             *)

\* A run is accounted at most once, in metrics, event and diagnostics alike,
\* although four call sites record failures and three record successes.
AccountedOnce == \A r \in Runs : ledger[r].success + ledger[r].failure <= 1

\* What the caller was told is what the books say: an answer was recorded as a
\* success and an apology as a failure; an exception hides a recorded success
\* only for a plain task whose last content turned out not to be the assistant's.
CallerToldWhatWasRecorded ==
  \A r \in Runs :
    /\ pc[r] = "answered" => ledger[r] = [success |-> 1, failure |-> 0]
    /\ pc[r] = "apologised" => ledger[r] = [success |-> 0, failure |-> 1]
    /\ pc[r] = "raised" /\ ledger[r].success = 1 => KindOf[r] = "task" /\ chat[r] # "assistant"
    /\ pc[r] \notin Finished => ledger[r] = [success |-> 0, failure |-> 0]

\* Once the user saw part of an answer no other profile is tried, except when
\* the agent's own clean-up raised and so hid that the response was partial.
NoFallbackAfterPartialAnswer ==
  \A r \in Runs : \A i \in shown[r] : i < index[r] => i \in closeFailed[r]

\* A provider the runtime holds an auth failure for has a repair issue, through
\* every interleaving of runs that report and runs that clear failures.
AuthFailureHasIssue == \A p \in Providers : authFailures[p] # {} => p \in issues

\* While loaded, an issue is about a provider of this load, or about a removed one
\* whose failing profile the runtime still remembers; and a run that outlives its
\* entry cannot bring back an issue that async_remove_entry deleted.
IssueIsExplained ==
  /\ HasRuntime => \A p \in issues : p \in runtime \/ authFailures[p] # {}
  /\ entry = "removed" => issues = {}

\* get_agent_metrics and get_agent_run_diagnostics never contradict each other.
DiagnosticsMatchMetrics ==
  \A a \in Agents :
    /\ diagnostics[a] = "failed" <=> metrics[a].failures > 0
    /\ diagnostics[a] = "success" <=> metrics[a].last = "success"

\* Every run that was called ends, whatever its providers, the other runs and the entry
\* do, unless a tool of Home Assistant never answers it.
EveryRunEnds ==
  \A r \in Runs : ((pc[r] = "called") ~> (pc[r] \in Finished)) \/ <>[](pc[r] = "calling")

\* The run as its caller and the books see it.
PlainTasks == {r \in Runs : KindOf[r] = "task"}
RunPhase == [r \in Runs |-> IF pc[r] \in Finished THEN pc[r] ELSE "open"]
Accounting == INSTANCE RunAccounting WITH
                Plain <- PlainTasks, phase <- RunPhase, book <- ledger

\* AgentRun implements RunAccounting: a run is booked in the very step that
\* decides what its caller sees, so no reload, concurrent run or clean-up error
\* can come between the two.
ImplementsAccounting == Accounting!Spec

\* async_delete_provider_auth_issue's docstring: an issue is deleted "after
\* successful validation", that is, when a profile of the provider answered
\* (or by setup and removal).
IssueDeletedOnlyAfterValidation ==
  [][\A p \in issues \ issues' :
       entry' # entry \/ \E r \in Runs : /\ Succeeded(r)
                                       /\ pc'[r] # pc[r]
                                       /\ ProviderOf[Profile(r)] = p]_vars
=============================================================================
