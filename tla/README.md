# Pydantic AI Agent for Home Assistant: TLA+ models and proofs

TLA+ modules for `custom_components/pydantic_ai_agent`, a Home Assistant
integration that gives conversations and AI tasks to language models. Paths
below are relative to that directory unless they start with `docs-site/` or
`README.md`. The code is asyncio on one event loop: nothing is preempted, but
every `await` is a point where any other run, any reload of the config entry, and
any user may act. Most of what is modelled here is about those points.

## The system

A config entry is a *workspace*. Its subentries are providers (with model
profiles), conversation agents, AI task agents, MCP servers and skills.

| Component | State it keeps | Operations | Talks to |
| --- | --- | --- | --- |
| Entry lifecycle (`__init__.py`) | `entry.runtime_data`, entry state | setup, unload, remove, migrate, reload on update | all of the below |
| Profile fallback loop (`entity.py`, `agent/_entity_runner.py`, `agent/_entity_run_results.py`, `agent/_entity_auth.py`) | local to a run; `errors` | resolve the chain, attempt, stream, handle an error, record | metrics, diagnostics, issues, MCP, chat log |
| Conversation and AI task entities (`conversation.py`, `ai_task.py`) | chat log | handle a message, generate data, validate structured data, merge what is spoken | the loop, the to-do workspace |
| Run metrics, run diagnostics (`observability/`) | `AgentRunMetrics` per agent, last payload per agent, bounded timelines | record success / failure / MCP call, record an event, page | sensors, debug services |
| Sensors (`sensor.py`, `binary_sensor.py`) | the value they show | construct, subscribe, update on a signal | metrics, dispatcher |
| Repair issues (`repair_issues.py`) | Home Assistant's issue registry | create, delete one, delete stale, delete all of an entry | runs, setup, removal, Logfire |
| Logfire ownership (`observability/logfire_support.py`) | one `LogfireState` per process | configure, release, promote | every entry's lifecycle |
| MCP calls (`mcp/runtime.py`) | `mcp_call_cache` in runtime data | call a tool through the cache | runs, server subentries |
| MCP catalog (`mcp/discovery.py`, `mcp/services.py`) | `mcp_tool_cache` in runtime data | discover, list, refresh | services, the server dialog |
| To-do workspace (`agent/ha_todo_tools.py`) | a Home Assistant list, a weak registry of locks | lock, clear, read, five tools | AI tasks, users |
| Stream deltas (`agent/chat_deltas.py`, `agent/_stream_trace.py`) | `_StreamRunState` | map agent events to chat deltas, backfill the final text | the loop, chat log |
| Prompt preparation (`agent/history.py`) | none | log to messages, split the prompt | the loop, the adapter |
| OpenAI-compatible adapter and client (`openai_compatible_adapter/`, `openai_compatible_client/`) | the assembly of one answer | open a stream, assemble parts, map messages to request items | Pydantic AI, the provider |
| Home Assistant tools (`agent/ha_toolset.py`) | none (the library counts retries) | call, retry, give up | the loop |
| Virtual workspace (`virtual_workspace/`) | an in-memory file system per attempt | files, bash, patches | the loop |
| Config flows (`config_flows/`) | form state, copies of subentry data | create and edit subentries, validate, wizard | the entry (updates reload it) |
| Wizard catalog (`config_flows/provider_wizard/catalog_cache.py`) | one cached models.dev catalog, one in-flight task | load, share, expire | provider dialogs |
| Migration, settings, redaction, debug services | none that others decide on | | |

What is hard about it:

* **Runs outlive loads.** A run keeps its entity and its `entry`; `runtime_data`
  is looked up at each use. After a reload a run writes into the *new* load's
  metrics, diagnostics, failures and cache; while the entry is unloaded it dies
  with an `AttributeError`.
* **Partial answers.** Deltas that reached the chat log cannot be taken back, so
  a fallback must not run after them; the fact travels inside an exception that
  other exceptions can replace.
* **Books kept in several stores.** A run's end is recorded by four call sites
  for failures and three for successes, in metrics, an event, diagnostics, a list
  of auth failures and the issue registry.
* **One process-wide resource, many entries.** Logfire's token changes owner
  while entries are being set up, unloaded, removed and edited.
* **Shared outside state.** A to-do list is edited by users while a run works on it.
* **Dialogs on copies.** A config flow looks at a subentry when a step runs, keeps
  the copy between steps and awaits (a catalog, a list of models, a server) before it
  writes the whole record; several flows may be open, and agents come to refer to
  what a flow is about to remove.
* **One answer, three representations.** What a provider streams is assembled to
  parts, shown as deltas, kept as log and told to a provider again in the next turn;
  each step has its own rules for order, separators and identities.

For each component, what makes it correct: a run is booked once and as its
caller was told; repair issues say what the runtime knows and disappear with
their entry; every run and lifecycle operation ends; one token, its owners and
its warnings agree after every handover; cached results are fresh, bounded and of
this load; one run at a time works on a list, among its own items; a patch
happens completely or not at all; a save of a dialog takes nothing away that it did
not show; hidden secrets come back as they were; a streamed answer is shown, kept and
retold as the whole answer would be; diagnostics say what they dropped.

## Modules

| Module | Models | Runs |
| --- | --- | --- |
| `AgentRun` | the runs of one entry, from the call to what the caller sees, with the entry's reloads, removal and provider edits | talk, tasks, issues |
| `RunAccounting` | abstract: what runs promise callers and books | (refined in tasks) |
| `LogfireOwnership` | the Logfire token across entries | handover |
| `MCPCallCache` | the cache of MCP tool results of an entry, and the metric of the last call | calls |
| `MetricSensor` | a sensor that shows one metric | (used in calls) |
| `MCPServers` | the dialogs of MCP servers beside the tool catalog and its services | servers |
| `ProviderFlow` | the dialogs of providers and model profiles, the wizard's catalog, the agents that refer to profiles | provider_dialogs |
| `TodoWorkspace` | AI tasks that use a to-do list as a workspace | lists, prompt |
| `VirtualWorkspace` | the tools of one run on its in-memory file tree and shell | files, truncation |
| `AgentStream` | one streamed attempt, from the provider's events to the log; composes the next four | stream |
| `ResponseParts` | the assembly of an answer from a whole response or from the events of either API | (stream) |
| `ChatDeltas` | events and messages of the agent as chat log, and what is spoken of it | (stream) |
| `History` | the log as the messages and request items of the next turn | (stream) |
| `RunTimeline` | the bounded event sequences of diagnostics and trace, and their pages | (stream) |
| `StreamInvariants` | what the proofs about the stream speak of: folds, shapes, inductive invariants | |
| `*_proofs` | theorems about `AgentRun`, `LogfireOwnership`, `MCPCallCache`, `MCPServers`, `ProviderFlow`, `TodoWorkspace`, `VirtualWorkspace`, `AgentStream` | TLAPS |
| `MC*` | constants of the instances TLC checks | |

### AgentRun

`pc` follows `_async_handle_chat_log` and its callers; an action is what a run
does between two awaits.

| Action | Code |
| --- | --- |
| `BeginSetup`, `Setup`, `SetupFails` | `async_setup_entry`: the providers are looked up (`__init__.py:124`), Logfire is awaited, and then `runtime_data` is there and the issues of providers that are gone are deleted; or it raises before that |
| `Unload`, `RemoveEntry` | `async_unload_entry`, `async_remove_entry`; Home Assistant drops `runtime_data` at unload, removal deletes all issues |
| `EditProviders` | a subentry added or deleted by a flow; the update listener's reload is a later `Unload`, `Setup` |
| `Call`, `ResolveChain`, `Prepare` | the entity method up to the profile loop; the chain is resolved against live subentries and the runtime's providers |
| `Build` | `run_model_profile` up to `async with agent`: MCP servers are contacted, the model is built |
| `EmitDelta` | a stream event in the chat log |
| `CallTool`, `ToolAnswers` | a Home Assistant tool inside the request, which is awaited without a timeout (`ha_toolset.py:89`) |
| `AttemptFails`, `AttemptReturns` | the request inside `async with agent`; a broken stream with deltas becomes a partial `_AgentRunFailed` |
| `CloseAfterError`, `CloseFails` | leaving `async with agent`, quietly or by another exception, into `handle_profile_error` |
| `FinishConversation`, `FinishTask`, `FinishStructured` | what the callers do with an outcome: record, apologise, validate |

Exceptions are abstracted to what the handlers ask of them: would
`_should_fallback` retry it, does its chain hold a 401 or 403, is it partial.
Building and failing are one action each because nothing awaits between the
`raise` and the recording. `ledger`, `shown` and `closeFailed` are history
variables; `ledger` changes only where `record_agent_run_success` or
`record_agent_run_failure` is called. Two simplifications: a setup that fails after
`runtime_data` was set is left out; and while the entry is unloaded a run whose 401 or
403 has a fallback left dies at once, where the code, which does not touch
`runtime_data` for it, goes on to the next profile and dies there.

### LogfireOwnership

`stage` is the entry's lifecycle and `inner` the Logfire call its task is in.
`Configure`, `Executed` and `Release` are the bodies under `configure_lock`
together with what the task does until its next await: `Leave` gives up the lock,
`Promote` goes on with the promotion loop, `Return` goes back to the lifecycle,
where unload and a setup that released delete the conflict issue. The lock is Home
Assistant's FIFO `asyncio.Lock` (`queue`). Taking a free lock is a step of its own,
which adds interleavings the event loop does not have and removes none. Left out:
cancellation of lifecycle tasks; include_content, which is written and reported but
decides nothing; `runtime_data.logfire_enabled`, a snapshot that setup takes and
that stays false when a promotion makes the entry trace; spans.

### MCPCallCache, MetricSensor

`Lookup` is `_process_cached_mcp_tool_call` up to its await, `Answer` the rest of
it, `BuildToolset` the moment where a run copies the server's configuration.
`cache` is the dict of `runtime_data` in insertion order. A cached result is named
by the call that obtained it. A key has one TTL for good; the code stores with the TTL
the toolset copied, so after an edit of the TTL an outliving call still uses the old one.

The sensor of the last MCP tool is constructed from the metrics (`SetupSensor`),
added by Home Assistant in a later task (`AddSensor`) and from then on follows the
dispatcher's signal, which every recorded call and the end of every run send. What
is recorded between construction and subscription shows only with the next signal
(`missed` names that window). The other metric sensors are alike. That a sensor exists
only for agents whose primary profile resolves is not modelled.

### ProviderFlow

A dialog is a record: its step, the subentry it edits, the copy of its data, and what
it has chosen so far. Each action is one `async_step_*` with what it calls up to the
next form or await; `CatalogWaits` and `ServerWaits` are the progress steps. `Save` is
the end of a flow, which overwrites the provider's whole record and is followed by a
reload. `AgentForm` is the model selection of the agent forms (the AI task form is like
the conversation form). The catalog is loaded by one task for all dialogs (`fetching`),
expires at any time (its lifetimes are left open), and may fail; `CatalogMatch`,
`NeedsFilters` and `Offered` are `_managed_models_for_selection` and its helpers,
`SyncBlocked` and `Synced` the synchronisation of profiles with a selection. A
connection stands for mode, key, URL and headers, what the key of a kept model list
compares; the extra body, which that key leaves out, is not tracked. A rejected form
changes nothing unless it is modelled as a step. Left out: removal of subentries,
unexpected exceptions, prices and thinking levels, and the clearing of the catalog when
the last entry unloads (`CatalogExpires` covers what follows from it).

### MCPServers

`BeginSetup` and `EndSetup` are the two ends of `async_setup_entry`: `runtime_data` is
there from the first (line 129), the update listener from the second (line 158), and
what is saved between them is followed by no reload (`unheard` names those servers).
Setups that fail are in `LogfireOwnership` and `AgentRun`.

`SubmitServer` to `FinishServer` are the server form: placeholders of hidden secrets
are exchanged for the stored values at submission, the server is then asked for its
tools, and the save looks again at duplicates and at the allowlist. `ManageTools` to
`SubmitTools` are the allowlist form, which copies the server's data first and writes
the copy back. `ListMCPTools` and `RefreshMCPTools` are the services; one that covers
all servers is a sequence of requests. A catalog entry carries the data it was
discovered with (`from`) and the data it is filed under (`key`), as the code computes
its fingerprint after the await. A dialog whose discovery ends while the entry is not
loaded goes on here, where the code aborts: the model has more behaviours. Left out:
removal of servers; what makes a URL or a header name invalid.

### The stream: AgentStream and what it is made of

`answer` is what the provider has said, `assembly` what the adapter has made of it,
`messages` what Pydantic AI keeps, `turn` the generator of deltas with the chat log,
the listener and the two recorders. One server-sent event is one step: `Deliver`
assembles it (`ProcessResponseEvent` or `ProcessChunk`), passes what the parts manager
emits to `AgentEventsToChatDeltas`, and fails the run if the part changes its kind.
Provider events are produced by actions of the provider (`AddItem`, `AddPiece`,
`AddCall`, `FinishCall`, `SignReasoning`, `Refuse`, `EndStream`), tools by `StartCalls`
and `ReturnCall`, and everything may fail. Text is a sequence of words, so that order
and loss show; the blank line between texts before and after tools is the word
`Break`.

*Thinking tags*: a streamed text delta that is exactly a tag begins or ends a thought
(`HandleTaggedText`); the whole answer keeps the tags as text. The tags are two words of
their own, and a tag reaches the parts manager as a delta of its own or not at all.
*Arguments told early*: a call may be added with arguments already in it
(`AddCall(TRUE)`); if no delta follows, the finished call repeats them, as the code does.
*Call ids*: `ToolCallToDelta` is the guard on ids that were emitted before in the run.
`named` says whether the ids of calls differ between answers; if not, a call is known by
its place, as in the fallback `call_id or item_id`. Raw reasoning
(`response.reasoning_text.delta`), which the code keeps in `provider_details` and shows
nowhere, is left out.

Taken from outside `src/`: Pydantic AI's parts manager (parts found again by vendor
id) and agent graph (calls after an answer, retry prompts, when an answer is a
result), and Home Assistant's `ChatLog`; they are marked external in `PROJECT.json`.
`RunTimeline` is the head-and-tail recorder of diagnostics and trace. `History` turns
the finished log into the next turn's request, for both APIs.

### TodoWorkspace

`Start` to `Finalize` follow `_async_generate_data`; `GetItems`, `RemoveItems`
and `ReadInitialState` are the awaited service calls of `prepare_run` and
`read_items`, the tools are the methods of `TodoWorkspace` (`update_item` renames
an item, which no variable records). A lock object is named by the run that made
it; the weak registry knows it while a run refers to it. A tool of a run may start
another run and wait for it (`caller`, `calling`; `MayStart` says which), on any list,
also the caller's own, or wait for a service (`asking`). Items without a uid are
left out, since no service call of the code can name them. The lists themselves
are Home Assistant's and are modelled as `add_item`, `remove_item` and
`update_item` are used.

### VirtualWorkspace

The tree is a function from paths, which are sequences of names, to directories
and files; a file is a sequence of lines and its size is their number. The
operators of the section on Bashkit say what `BashTool` is taken to do (a failing
operation changes nothing; a parent must be a directory; a snapshot holds the tree
and not the directory of the shell). Above them there is an operator per method of
`VirtualWorkspace` and per function of `patch.py`, which answers a tree and whether
the call succeeded, so that a patch uses the same `WriteFile`, `RemovePath` and
`Move` as the tools.

The toolset is sequential and a run has a workspace of its own, so calls do not
overlap. Most are one action. A command is `StartCommand`, any number (up to
`MaxSteps`) of `CommandEffect`, then `CommandReturns` or `CommandRaises`. A command that
returns within the size limit ran to its end (`Exit`): it is reported as `ok` or not by
its exit status, and what it did stays in either case (`workspace.py:109`). A patch is
`StartPatch`, one `PatchOperation` per file, `EndPatch`. An exception, wherever it
comes, is what puts `saved` back. The directory in which Bashkit starts its shell is
not visible in the code, so `start` is either. Files end in a newline and are
truncated between lines; modes, times and symbolic links are left out.

## Runs

| Run | Instance | Shows |
| --- | --- | --- |
| talk | a streaming conversation (chain of two profiles on two providers) and a plain task (a profile of the first provider), one unload | what callers are told, partial answers, repair issues |
| tasks | a structured and a plain task of one agent, whose tools need not answer, one unload | `DiagnosticsMatchMetrics`, refinement of `RunAccounting`, termination unless a tool never answers |
| issues | as talk | expected violation, below |
| handover | three entries, two of which share a token, one whose token is edited once, another that may be removed | owners, warnings and telemetry after every handover, `FirstTokenWins`, `LifecycleEnds` |
| calls | four calls on three keys, room for two results, TTLs 1 and 2, clock to 2, one reload | freshness, bound and eviction of the cache; the sensor shows the last call |
| lists | four runs on two lists, which start one another on the other list, on their own and crosswise, one item, two attempts | one run per list, no foreign items, a prompt that explains what is there, and that a run waits for ever only behind a service that does not answer or a circle of runs |
| prompt | three of these runs, two items | expected violation, below |
| files | three calls on `/workspace`, `/workspace/a`, `/workspace/a/b`, `/home` and a path above the root, two steps each | failed (but for commands that exited nonzero) and unconfirmed calls, size, `/workspace` |
| truncation | `/workspace` and `/workspace/a`, a file of four lines, a read limit of two | expected violation, below |
| provider_dialogs | two dialogs, three providers, six profile ids, two connections, three models, a catalog of three providers, an agent | saves keep profiles in use and do what was selected, no twins, no stale model list, no endless wait |
| servers | two dialogs, one service call, setups with saves in them, three servers, two URLs, six forms of the header rows | hidden secrets, allowlists, twins, freshness of the catalog |
| stream | both APIs, with and without item labels and recurring call ids, three answers, five pieces, two tags, two items of an answer, edges of three events | a streamed answer is whole, its parts, its history and its timeline |

Why the bounds are enough. *AgentRun*: what runs share is the provider's failure list
and the agent's records, so two runs that share a provider and differ in profile
(talk), or share the agent (tasks), meet in every way; a chain of two has a first, a
last and a skipped fallback; one reload puts a run before, across and after it.
*LogfireOwnership*: a handover needs the entry that leaves, one that is promoted and
one that comes or goes meanwhile; two tokens give agreement and conflict (317,274
states). *MCPCallCache*: three keys overflow a cache of two, two equal calls overwrite,
TTL 1 expires while TTL 2 lives (3,668,005 states; equal calls, and the other two, are
symmetric). *TodoWorkspace*: competitors for a list, one of which is started on its
caller's own, and two pairs of runs that start one another crosswise, which needs four
runs and two lists; one item tells whether it is a user's, the run's or left by another
(208,260 states). *VirtualWorkspace*: a call to make a state, one to disturb it, one to
show it; the paths contain an ancestor, a descendant and a protected one of each other,
a second way to write `/workspace` and one that escapes; two steps give a patch or a
command that fails half way; the limit of three lines is met by two writes and exceeded
by one command. *ProviderFlow*: a race has two dialogs, both may create (hence three
providers); the catalog's providers have one mode, several, and none that is supported;
the filters hide a model and the threshold of three separates the sizes of the lists;
two connections differ in mode and URL (129,585 states). *MCPServers*: as there; the
rows are a placeholder left alone, beside another row, renamed, no longer secret, and a
new value (460,577 states). *AgentStream*: three answers are needed for a text, a round
without text and another text; five pieces fill two items with a second content and
parallel calls; two edges of three are overflowed by a run of this size; two tags open
and close a thought; item added/done of messages and reasoning, which the adapter
ignores, are folded away; a call told with arguments counts two of `MaxSize`; only an
answer without text and calls is refused (1,804,995 states).

`MaxCalls`, `MaxSteps`, `MaxReloads`, `MaxTime`, `Editable`, `Removable`, `MaxRefs`,
`FormRows`, `MaxAnswers`, `MaxSize`, `MaxItems`, `MaxSub`, `MaxTags`, `MayStart`,
`Attempts`, and the sizes of `Uids`, `Flows`, `Providers`, `ProfileIds`, `Dialogs`,
`Requests` and `Servers` are the only bounds; `Attempts` is the length of the chain in
the code, `Edge` and `Threshold` stand for its constants.

`CHECK_DEADLOCK FALSE` in all runs: runs, calls, dialogs and entries end, and then
nothing has to happen.

### Fairness

* `AgentRun`: weak fairness of each started run's next step. Requests to providers (60 s
  by default, `model_profiles.py:256`) and MCP servers have timeouts. Home Assistant's
  tools have none, so nothing obliges a tool to answer, and `EveryRunEnds` exempts a run
  that waits in one for ever. Strong fairness of the end of an attempt: deltas and tools
  interrupt it, and the request limit (`UsageLimits`) ends it after finitely many.
  Nothing obliges callers, users or Home Assistant to act.
* `LogfireOwnership`: weak fairness of a started lifecycle task; the lock is FIFO,
  so this is enough.
* `TodoWorkspace`: weak fairness of a run's own steps, and strong fairness of `EndRun`:
  it is interrupted by the tools that await, and the request limit (30 for AI
  tasks) ends the run after finitely many of them. Services need not answer, which
  `Stuck` names.
* `ProviderFlow`: weak fairness of the end of the catalog's request and of a model
  list's (both have a timeout), and of the steps that Home Assistant takes when a
  progress task is done. Users need not submit anything.
* `MCPCallCache`, `MCPServers`, `VirtualWorkspace`, `AgentStream`: none; their
  properties are safety.

### Divergences

* **issues**: `async_delete_provider_auth_issue` says it deletes the issue "after
  successful validation". `handle_profile_error` reaches it for every failure
  that is not a 401 or 403. With an issue from before a reload, a run that cannot
  connect to its MCP server deletes the issue without having asked the provider.
* **prompt**: the instructions of a task with a to-do workspace are made once,
  before the fallback loop. A second attempt is told that the list was cleared
  and shown its "Current Todo Workspace" as of before the first attempt, although
  the first attempt's items are in the list.
* **truncation**: an update reads the file through `read_file`, which stops at 256
  KiB, does not look at `truncated`, and writes the edited beginning back: a
  confirmed update of a longer file succeeds and loses the rest.

Met while modelling and stated by no document that a run could refute, hence no
finding:

* *Runs*: leaving `async with agent` may raise and hide that a stream was partial
  (`NoFallbackAfterPartialAnswer` names this exception). An AI task that a tool
  starts on its caller's list waits for ever, and so do two that are started crosswise
  on two lists (`Stuck` names both).
* *Logfire*: a failing `logfire.configure` is not retried (`failed` exempts what
  follows); `runtime_data.logfire_enabled` stays false after a promotion.
* *Virtual workspace*: a command that exits nonzero is reported as failed and keeps its
  changes, unlike every other failed call (`exited`); a hunk that removes every line
  leaves one empty line (`ApplyHunks`); a shell that starts outside `/workspace` may
  remove `/workspace` or put a file there, and a later command whose own directory is
  gone then cannot go back (`WorkspaceStays` is about a shell that starts there).
* *Provider dialogs*: a typed model name that the catalog knows and the filters hide is
  passed over without a word (exempted in `SelectionIsHonoured`); a dialog that works
  on a copy which another save made stale can disable a profile in use (`SawCurrent`).
* *MCP server dialogs*: a form shown again after an error hides the secrets typed into
  it; sent again it stores the literal placeholder for a new server, and the old secret
  for an existing one (`again`). The allowlist form writes a stale copy over a
  concurrent edit (`seen`). After a failed discovery it shows a form whose submission
  fails, because `_pending_manage_tools_data` was never set (`manage_tools_failed`). A
  placeholder whose switch is turned off in the form is stored as it is. A server saved
  while the entry is being set up is followed by no reload, and a refresh that crosses
  it lists old tools under the new data (`unheard`).
* *Stream*: after a text, a round without text and another text, the log loses the
  separator that was streamed, and what is spoken loses the first text
  (`SeparatorLost`). Without item labels the second content of the first item gets the
  id of the second item, since output index 0 is falsy in `_event_item_id`
  (`collided`). A streamed refusal keeps the parts before it, a whole one clears them
  (refused answers are exempt). An end of the body without a completed event counts as
  a complete answer. Text that was pending when a run failed was heard and is not in
  the log. A retry prompt that answers no call becomes a tool result of the log when
  the run is not streamed, which the next turn replays as an output without a call
  (call 0 is exempt). A partial run leaves calls without output in the log, which later
  turns tell the provider (`HistoryTellsTheTurn` demands outputs only of whole runs).
  Signed reasoning without text is dropped from the log. Arguments that came whole with
  an added call are taken again from the finished one (`told`), and a thinking tag
  makes a thought of a streamed answer only (`Tagged`); `PartsSurviveStreaming` exempts
  both. `_tool_call_event_to_chat_deltas` compares a call's id with those of the whole
  run: a call with the id of one in an earlier answer is executed and not shown, its
  result is, and the next turn tells the provider an output without its call. A server
  of the Responses API that labels neither items nor calls gives the first call of
  every answer the id `response` (`_responses_streamed_response.py:236`); runs in which
  ids of items or calls recur are exempt from what log and history tell.
  `README.md:114-116` says that conversations with tools are answered without
  streaming, `conversation.py:115` streams whenever it is enabled.

## Proofs

All theorems are for any value of the constants, from the named assumptions of the
modules (`AgentRunAssumption`, `LogfireAssumption`, `MCPCallCacheAssumption`,
`TodoAssumption`, `ProviderFlowAssumption`, `MCPServersAssumption`,
`FirstDataAssumption`, `WorkspaceAssumption`, `TextAssumption`, `EdgeAssumption`,
`AgentStreamAssumption`), which TLC evaluates in the runs. Two theorems about profile
ids state one more hypothesis each, below.

`AgentRun_proofs`:

* `TypeCorrect`: `Spec => []TypeOK`.
* `IssuesAreRight`: `AuthFailureHasIssue` and `IssueIsExplained` (which says too that a
  removed entry has no issue). Neither is inductive: the invariant adds that the stores
  are empty while the entry is not loaded, which is what makes `Setup` and
  `RemoveEntry` safe for runs still in flight.
* `AccountingCorrect`: `AccountedOnce` and `CallerToldWhatWasRecorded`. The
  second is nearly inductive; the invariant adds that a run that has not finished
  has an empty ledger, from which the first follows.
* `RunsImplementAccounting`: `Spec => Accounting!Spec` under the refinement
  mapping of `AgentRun` (`RunPhase`, `ledger`): every step of a run closes it with
  its booking, or stutters.
* `NoSecondAnswer`: `NoFallbackAfterPartialAnswer`. The invariant says that what an
  attempt has shown, its error knows on every way out, unless closing failed.
* `DiagnosticsAgree`: `DiagnosticsMatchMetrics`, inductive with the types: both stores
  are written in one step and dropped together.

`LogfireOwnership_proofs`:

* `OwnersStayRight` and `TokenIsNeverReplaced`. The invariant (`OwnerInv`) says what
  each task at the lock may rely on: a task is in the queue once and exactly while it
  is in a Logfire call; the token it read is its target's unless that was edited since;
  while it executes, nobody owns anything; and a candidate that has begun to unload
  since it was chosen releases *behind* the task that promotes it (`CandidateOK`), so
  that no entry that is gone stays an owner. This is where the FIFO lock is needed.
* `NobodyIsOrphaned` and `WarningsAreRight`. `TelemetryInv` adds that a loaded entry that
  could trace and does not is still ahead of a promotion that will not skip it
  (`Covered`), whatever other promotions run, and that every loaded entry has a
  warning exactly if it has a token and is no owner; while nobody is at the lock no
  promotion is under way.

`MCPCallCache_proofs`:

* `CacheStaysBounded`: the cache is a map of at most `MaxEntries` results of calls that
  succeeded. Dropping what expired and what is too much are statements about which
  positions of a sequence are kept, and the bound is a statement about cardinalities.
* `HitsStayFresh` and `LiveResultsStay`, the action properties: what a lookup serves, and
  what an answer may take out of the cache.
* `OldAnswersOutlive`: what a call asked of, and the load it began in, do not change
  after its lookup; a toolset that is not current was built in an earlier load.
* `SensorsFollow`: the sensor shows the metric once it is added and nothing was missed
  between its construction and its subscription.

`TodoWorkspace_proofs`:

* `RunsExcludeEachOther`: `OneRunPerList`. Runs of one list that refer to a lock refer to
  the same one, although the registry forgets it between them; a run is in the queue
  of its lock only, and at its head once it is inside.
* `ItemsAreOwn`: `NoForeignItems`. Until the list is cleared, what is not the run's or a
  user's is among what it is about to remove; mutual exclusion keeps other runs from
  adding to it.
* `PromptsExplain`: `PromptExplainsItems`, from both: while a run reads its list nobody
  else but a user changes it, so what it has read is what it will show.

`ProviderFlow_proofs`:

* `SavesKeepUsedProfiles`, `TwinsComeFromRaces` and `ListsBelongToConnections`. The
  invariant `CopyInv` says that the copy in a dialog is the stored record until another
  dialog saves, although catalogs, lists and agents change meanwhile; then
  `SyncBlocked` speaks of the profiles agents refer to.
* `SelectionsAreHonoured`: `SelectionIsHonoured`, in the behaviours in which there is
  an unused id for every new profile (`[]UuidsSuffice`). New profiles are named by a
  `CHOOSE` over injections, and only an injection that exists is chosen. TLC finds
  `UuidsSuffice` true in every state of the instance.
* `SelectionsAlwaysHonoured`: the same of every behaviour if the supply of ids is
  unlimited and models, providers, dialogs and agents are finitely many
  (`UuidsAreUnlimited`, which stands for 122 random bits per id). `IdsInv`: only
  finitely many ids are in use, in the stored records, in the copies of the dialogs and
  in what agents refer to.

`MCPServers_proofs`: `HiddenSecretsSurvive` (with `DialogInv`: a dialog's rows show what
is stored, and what was submitted restores it, until another saves; the lemma
`RestoredSecrets` is about `Restored`), `EditsKeepAllowlists`,
`TwinsComeFromStaleCopies`, and `CatalogsAreCurrent` (with `CatalogInv`: a catalog entry
that differs from its key was begun in an earlier load, or its server was saved in this one
before anybody listened). What is proved of secrets is about forms that are not shown
again, saves that no other crosses, and placeholders still marked secret.

`VirtualWorkspace_proofs`:

* `FailedCallsChangeNothing`: `Spec => FailedCallChangesNothing`. Every operation is
  all or nothing (`AllOrNothing`, one lemma per layer), and the only others that
  report an error put `saved` back, but for a command that ran to its end and exited
  nonzero, which the statement excepts; no invariant is needed.
* `WorkspaceAlwaysStays`: `Spec => []WorkspaceStays`. The inductive invariant
  `StaysInv` says where `/workspace` has to be while a command is free to remove it:
  in the snapshot, with the shell's way back to it. The lemmas below it are that no
  operation removes it (`OnlyProtectedAbove`: what is above it is protected) and that
  nothing copied or moved lands on it (`RebasedElsewhere`).
* `TreeStaysATree`: `TypeOK`, which says that the root stays and that everything else is
  in a directory that exists. `TreeInv` says the same of the snapshots that may come
  back. The work is in the arithmetic of paths: what a copy or a move brings has its
  parent below the destination, or is the destination.
* `UnconfirmedCallsKeepFiles`: from the tree, as only a leaf or what is below a removed
  directory goes, and a patch stops at the first operation that needs `confirm`.
* `SizeStaysBounded`: `SizeInv` says that the snapshot is within the limit too. The size
  is the number of pairs of a file and a line in it, which makes the accounting of an
  overwritten file one of cardinalities.

They rest on `TextAssumption`, that `Normalize` and the edits of a patch answer
sequences of names and of lines; both are folds over inputs from outside, and TLC
evaluates the assumption for the inputs of the runs.

`AgentStream_proofs` (with its definitions and invariants in `StreamInvariants`):
`ReadersLearnOfGaps`, `Spec => []TimelineTellsItsGaps`. However long the run, the pages
of the timeline and the trace of the stream have the first and the last events in order
and once, and `truncated`, the numbers and the counts tell what is missing.

* `RecorderOK`: head and tail are the first and the last `Edge` of what was recorded,
  numbered without a hole; `RecordOK` says that recording keeps it so. `StreamInv` has it
  of both recorders, and that what reaches them are events the streaming knows, because
  answers have items of the three kinds and parts are lists.
* One answer of the provider may give any number of deltas, hence events, at once: the
  turn is a fold over events. `FoldExists` and `FoldStays` say what any step preserves, a
  fold preserves; `StepOK` has one step per action above them.
* `PagesAreComplete`: whatever the limit, following the pages from the start gives every
  kept event once; by induction over the rest of the timeline.

`StreamedIsWhole`, `Spec => []PartsSurviveStreaming`: the parts that the deltas of an
answer were assembled to are those of the same answer received whole, unless items had
one id, the text held thinking tags, or a call was added with its arguments.

* `PartsInv` says what the assembly is at every moment, not only at the end: unless two
  items had one id or there are tags, its parts are `PartsOf(api, ids, answer.items)`,
  the parts of what was said so far in the order of the items, each with the id it is
  found by. `SaidOK` is what makes that inductive: the ids whose arguments came in
  deltas are those of the open calls that have words, so that a finished call neither
  repeats nor loses them; in Chat Completions there is one text and one thought; and
  the words of a text or a thought are those of its contents, one after the other.
* `KeysDiffer`: while `Distinct` holds, two parts have two ids. That is what the `or`
  of `_event_item_id` and the bare `content_index` put at risk; without it the deltas
  of one part would go into another (`collided`).
* `PieceDelivered` and its siblings, one for each event: the event takes the answer and
  the parts on together, whether its words go to a part that exists (`WordsAreHandled`),
  make a part of a new content (`ContentIsHandled`) or of a new item (`ItemIsHandled`).
* `AnswerJoined`: with their texts joined, the streamed parts and those of
  `ProcessResponse` are the same, by induction over the items and, for a message that
  is streamed as one part but received as several, over its contents
  (`MessageJoined`). The proof needs neither that the answer ended with `[DONE]` nor
  that its calls are finished.

`ShownIsWhole`, `Spec => []AnswerIsWhole`: when a run is done in which no ids of items or
calls recurred, its streamed log tells
round by round what the log made of its messages tells, every text was heard once and
in order, and no text is missing from what is spoken (except where `SeparatorLost`
says the code loses it).

* `ShownInv` says at every moment what the turn shows. Between two answers it is the
  messages (`Waiting`); during one, `Base`, the messages before, and in the message
  being built `Showing`, the text and thoughts of the parts so far, with a separator
  before the text if there was text before (`Answering`); while calls run, the last
  round has those results that are there, in whatever order (`CallsOpen`).
* `needsSeparator` or `textSeen` is set exactly when an earlier answer had text; that is
  what makes the separator come once, and it is not visible in any one handler.
* `AnswerGrows` is the step of the provider: what `PartsInv` says an event tells of the
  parts (`Tells`) is what the deltas add to the log, one part or one piece at a time.
  `CallReturns`, `AnswerAskedAgain` and `RunFinishes` are those of the agent.
* With thinking tags the parts are not those of `PartsOf`, and nothing needs them to be:
  `TellsOn` says what a delta tells whatever the parts are, and `UntrackedSays` that a
  part the adapter no longer follows still says what it said.
* `CallsShown`: as long as the ids are new (`AllNew`), every call of an answer is emitted.
* `FinalShown` is about `append_missing_final_text`: which separator the log gets may
  differ from the one that was heard, and still nothing is heard twice; `PrefixFound`
  that a separator heard after a text and its results is kept (`PriorText`), from which
  `MergeSays` has that speech loses nothing. `TextBefore` shows where that argument ends:
  a text followed by a round without one, which is `SeparatorLost`.

It rests on `AgentStreamAssumption` saying that words and tags are numbers and neither is
the separator.

Induction. The library's theorems of induction take an operator as parameter, which the
installed provers cannot instantiate. Where a proof needs induction, it is over a
*set*: the set of counterexamples has a least element, a number (`LeastNumber`) or a
finite set (`EnoughIds`), because strict inclusion of finite sets is well-founded. For
folds the lemmas name the step (`Folded`) rather than take it as an operator. What stays
out of reach are `RECURSIVE` operators and `SelectSeq`.

Each preservation proof has one step per action of `Next`, or per shape that several
actions share (`LockShape`, `OutsideShape`, `StepsOfALock`); shared facts are lemmas.

Only model-checked: liveness (`EveryRunEnds`, `LifecycleEnds`, `RunsEnd`, `WaitsEnd`),
which needs ENABLED, and one invariant of the stream, `HistoryTellsTheTurn`, which reads
the log back with `SelectSeq` and with folds that look at the contents around an item.

## Plan

Done: the runs and their books, ownership, caches, workspaces, provider and MCP
server dialogs, the stream with its history and diagnostics. Left, in this order:

1. `HistoryTellsTheTurn` as a theorem, from `ShownInv`: the log is what the messages make,
   and left is that `History` maps both to the same request.
2. Removal of subentries while dialogs, runs and agents refer to them.
3. `complete_item`'s description, which it reads, awaits and writes back.
4. Token and cost totals against the sum over the runs.
5. Which sensors exist: the primary profile at setup and the registry clean-up.

## Not modelled

* *Schema migration*: `async_migrate_entry` does not await, changes the entry as a
  whole, and each step is idempotent, so no task and no crash sees it half done.
* *Models and settings* (request settings, provider construction, prices, parsing of
  forms), *attachments, skills and instructions*, *redaction* and the classification
  of errors: functions of data, on which no state depends. Images are prepared once
  for the chain, with what its first profile supports.
* *HTTP and server-sent events*: I/O; an open stream delivers, ends or breaks. A client
  that has not entered a stream closes it only for a status error.
* *Debug services and diagnostics download*: read-only, but for the pages of a
  timeline, which `RunTimeline` has (`total_count` of tool calls counts only what was
  kept, unlike that of the timeline).
* *Tool retries* are counted by Pydantic AI; the tools only read the counter.

`PROJECT.json` lists every part and its status.
