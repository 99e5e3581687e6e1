--------------------------- MODULE TodoWorkspace ---------------------------
(***************************************************************************)
(* AI task runs that use a Home Assistant to-do list as their scratch      *)
(* workspace.  A run takes the lock of the list, clears the list, puts     *)
(* what it then reads into the model's instructions, and works on the list *)
(* with five tools until it gives the lock up.  Every access is an awaited *)
(* service call, and nothing keeps users and other integrations away from  *)
(* the list.  Items without a uid, which no service call can name, stay    *)
(* where they are and are left out.                                        *)
(***************************************************************************)
EXTENDS Naturals, Sequences, FiniteSets

CONSTANTS
  Runs,
  Lists,
  ListOf,    \* the list an AI task is bound to
  MayStart,  \* the runs that tools of a run may start
  NoRun,
  Uids,      \* the uids a list gives to its items, each at most once
  Shared,    \* lists that users and other integrations edit as well
  Attempts   \* profiles of the fallback chain

\* An item's owner is the run whose tool added it, or a user.
User == "user"

ASSUME TodoAssumption ==
  /\ User \notin Runs
  /\ ListOf \in [Runs -> Lists]
  /\ MayStart \in [Runs -> SUBSET Runs]
  /\ NoRun \notin Runs
  /\ Attempts \in Nat \ {0}
  /\ Shared \subseteq Lists

VARIABLES
  items,    \* the items of each list that have a uid
  used,     \* uids each list has given out
  pc,       \* control state of each run
  caller,   \* the run whose tool started it, or NoRun
  lock,     \* the lock object a run refers to, named by the run that made it
  queue,    \* per lock object: its holder, then those that wait
  seen,     \* what the run last read: the uids of the list
  prompt,   \* the workspace shown in the instructions of the run
  attempt,  \* which profile is being tried
  touched   \* history: lists a user edited since their run read the prompt

world == <<items, used>>
vars == <<world, pc, caller, lock, queue, seen, prompt, attempt, touched>>

Item == [by : Runs \cup {User}, done : BOOLEAN]

InsideLock == {"getting", "removing", "reading", "working", "completing", "calling", "asking"}
PCs == {"idle", "waiting", "finishing", "done"} \cup InsideLock
Working == {"working", "completing", "calling", "asking"}
Referring == {"waiting", "finishing"} \cup InsideLock

TypeOK ==
  /\ \A l \in Lists : DOMAIN items[l] \subseteq used[l] /\ \A u \in DOMAIN items[l] : items[l][u] \in Item
  /\ \A l \in Lists : used[l] \subseteq Uids[l]
  /\ pc \in [Runs -> PCs]
  /\ caller \in [Runs -> Runs \cup {NoRun}]
  /\ lock \in [Runs -> Runs \cup {NoRun}]
  /\ queue \in [Runs -> Seq(Runs)]
  /\ \A r \in Runs : seen[r] \subseteq Uids[ListOf[r]] /\ prompt[r] \subseteq Uids[ListOf[r]]
  /\ attempt \in [Runs -> 1..Attempts]
  /\ touched \subseteq Lists

Init ==
  /\ items = [l \in Lists |-> <<>>]
  /\ used = [l \in Lists |-> {}]
  /\ pc = [r \in Runs |-> "idle"]
  /\ caller = [r \in Runs |-> NoRun]
  /\ lock = [r \in Runs |-> NoRun]
  /\ queue = [r \in Runs |-> <<>>]
  /\ seen = [r \in Runs |-> {}]
  /\ prompt = [r \in Runs |-> {}]
  /\ attempt = [r \in Runs |-> 1]
  /\ touched = {}

-----------------------------------------------------------------------------
(* The to-do services, as Home Assistant answers them.                     *)

UidsOf(l) == DOMAIN items[l]
Goto(r, s) == pc' = [pc EXCEPT ![r] = s]

AddTo(l, who) ==
  \E u \in Uids[l] \ used[l] :
    /\ used' = [used EXCEPT ![l] = @ \cup {u}]
    /\ items' = [items EXCEPT ![l] = [v \in UidsOf(l) \cup {u} |->
                   IF v = u THEN [by |-> who, done |-> FALSE] ELSE @[v]]]

RemoveFrom(l, uids) ==
  items' = [items EXCEPT ![l] = [v \in UidsOf(l) \ uids |-> @[v]]]

Complete(l, u) == items' = [items EXCEPT ![l][u] = [by |-> @.by, done |-> TRUE]]

-----------------------------------------------------------------------------
(* A run.                                                                  *)

\* A run is started from outside, or by a tool of a run, also of one on its own list.
Asked(r) ==
  \/ UNCHANGED caller
  \/ \E c \in Runs : /\ pc[c] = "calling"
                     /\ r \in MayStart[c]
                     /\ caller' = [caller EXCEPT ![r] = c]

\* Mutant: every run makes a lock of its own.
StartWithOwnLock(r) ==
  /\ pc[r] = "idle"
  /\ Asked(r)
  /\ Goto(r, "waiting")
  /\ lock' = [lock EXCEPT ![r] = r]
  /\ queue' = [queue EXCEPT ![r] = Append(@, r)]
  /\ UNCHANGED <<world, seen, prompt, attempt, touched>>

\* todo_workspace_lock: the registry keeps a lock only while a run refers to it.
Start(r) ==
  LET known == {lock[s] : s \in {t \in Runs : ListOf[t] = ListOf[r] /\ pc[t] \in Referring}}
      mine == IF known = {} THEN r ELSE CHOOSE k \in known : TRUE
  IN  /\ pc[r] = "idle"
      /\ Asked(r)
      /\ Goto(r, "waiting")
      /\ lock' = [lock EXCEPT ![r] = mine]
      /\ queue' = [queue EXCEPT ![mine] = Append(@, r)]
      /\ UNCHANGED <<world, seen, prompt, attempt, touched>>

Acquire(r) ==
  /\ pc[r] = "waiting"
  /\ Head(queue[lock[r]]) = r
  /\ Goto(r, "getting")
  /\ UNCHANGED <<world, caller, lock, queue, seen, prompt, attempt, touched>>

\* Mutant: a run that fails keeps the lock.
ReleaseNothing(r) ==
  /\ Goto(r, "finishing")
  /\ UNCHANGED <<caller, lock, queue, seen, prompt, attempt, touched>>

\* Leaving `async with lock`, however the block ends.
ReleaseLock(r) ==
  /\ Goto(r, "finishing")
  /\ queue' = [queue EXCEPT ![lock[r]] = Tail(@)]
  /\ seen' = [seen EXCEPT ![r] = {}]
  /\ prompt' = [prompt EXCEPT ![r] = {}]
  /\ attempt' = [attempt EXCEPT ![r] = 1]
  /\ UNCHANGED <<caller, lock, touched>>

\* Mutant: what was read is not removed.
GetItemsOnly(r) ==
  /\ pc[r] = "getting"
  /\ Goto(r, "reading")
  /\ UNCHANGED <<world, caller, lock, queue, seen, prompt, attempt, touched>>

\* prepare_run reads all items, remembers those with a uid ...
GetItems(r) ==
  /\ pc[r] = "getting"
  /\ \/ /\ seen' = [seen EXCEPT ![r] = UidsOf(ListOf[r])]
        /\ Goto(r, IF UidsOf(ListOf[r]) = {} THEN "reading" ELSE "removing")
        /\ UNCHANGED <<world, caller, lock, queue, prompt, attempt, touched>>
     \/ ReleaseLock(r) /\ UNCHANGED world

\* ... and removes them in one call, which raises if one of them is gone.
RemoveItems(r) ==
  /\ pc[r] = "removing"
  /\ \/ /\ seen[r] \subseteq UidsOf(ListOf[r])
        /\ RemoveFrom(ListOf[r], seen[r])
        /\ Goto(r, "reading")
        /\ seen' = [seen EXCEPT ![r] = {}]
        /\ UNCHANGED <<used, caller, lock, queue, prompt, attempt, touched>>
     \/ ReleaseLock(r) /\ UNCHANGED world

\* Mutant: the list is taken to be empty once it was cleared.
AssumeEmpty(r) ==
  /\ pc[r] = "reading"
  /\ prompt' = [prompt EXCEPT ![r] = {}]
  /\ touched' = touched \ {ListOf[r]}
  /\ Goto(r, "working")
  /\ UNCHANGED <<world, caller, lock, queue, seen, attempt>>

\* The list as read now goes into the instructions of every attempt.
ReadInitialState(r) ==
  /\ pc[r] = "reading"
  /\ \/ /\ prompt' = [prompt EXCEPT ![r] = UidsOf(ListOf[r])]
        /\ touched' = touched \ {ListOf[r]}
        /\ Goto(r, "working")
        /\ UNCHANGED <<world, caller, lock, queue, seen, attempt>>
     \/ ReleaseLock(r) /\ UNCHANGED world

ToolAdd(r) ==
  /\ pc[r] = "working"
  /\ AddTo(ListOf[r], r)
  /\ UNCHANGED <<pc, caller, lock, queue, seen, prompt, attempt, touched>>

\* A uid that is not there, like any error of the service, is reported to the model.
ToolRemove(r) ==
  /\ pc[r] = "working"
  /\ \E uids \in SUBSET UidsOf(ListOf[r]) \ {{}} : RemoveFrom(ListOf[r], uids)
  /\ UNCHANGED <<used, pc, caller, lock, queue, seen, prompt, attempt, touched>>

\* complete_item reads the list first, then updates the item it found there.
ToolCompleteRead(r) ==
  /\ pc[r] = "working"
  /\ \E u \in UidsOf(ListOf[r]) : seen' = [seen EXCEPT ![r] = {u}]
  /\ Goto(r, "completing")
  /\ UNCHANGED <<world, caller, lock, queue, prompt, attempt, touched>>

ToolCompleteWrite(r) ==
  /\ pc[r] = "completing"
  /\ Goto(r, "working")
  /\ \/ \E u \in seen[r] \cap UidsOf(ListOf[r]) : Complete(ListOf[r], u)
     \/ seen[r] \cap UidsOf(ListOf[r]) = {} /\ UNCHANGED items
  /\ seen' = [seen EXCEPT ![r] = {}]
  /\ UNCHANGED <<used, caller, lock, queue, prompt, attempt, touched>>

\* Home Assistant's tools: one that starts AI tasks and waits for them, and one
\* that waits for something else.  No timeout ends either.
ToolCalls(r) ==
  /\ pc[r] = "working"
  /\ Goto(r, "calling") \/ Goto(r, "asking")
  /\ UNCHANGED <<world, caller, lock, queue, seen, prompt, attempt, touched>>

CallReturns(r) ==
  /\ pc[r] = "calling"
  /\ \A s \in Runs : caller[s] = r => pc[s] = "done"
  /\ Goto(r, "working")
  /\ UNCHANGED <<world, caller, lock, queue, seen, prompt, attempt, touched>>

ServiceAnswers(r) ==
  /\ pc[r] = "asking"
  /\ Goto(r, "working")
  /\ UNCHANGED <<world, caller, lock, queue, seen, prompt, attempt, touched>>

\* The attempt failed and the next profile runs, inside the same lock.
FallBack(r) ==
  /\ pc[r] = "working"
  /\ attempt[r] < Attempts
  /\ attempt' = [attempt EXCEPT ![r] = @ + 1]
  /\ UNCHANGED <<world, pc, caller, lock, queue, seen, prompt, touched>>

\* The run returned or raised.
EndRun(r) == pc[r] = "working" /\ ReleaseLock(r) /\ UNCHANGED world

\* Structured output is validated after the lock was given up.
Finalize(r) ==
  /\ pc[r] = "finishing"
  /\ Goto(r, "done")
  /\ lock' = [lock EXCEPT ![r] = NoRun]
  /\ UNCHANGED <<world, caller, queue, seen, prompt, attempt, touched>>

-----------------------------------------------------------------------------
(* Everybody else.                                                         *)

UserEdit(l) ==
  /\ \/ AddTo(l, User)
     \/ \E u \in UidsOf(l) : (RemoveFrom(l, {u}) \/ Complete(l, u)) /\ UNCHANGED used
  /\ touched' = touched \cup {l}
  /\ UNCHANGED <<pc, caller, lock, queue, seen, prompt, attempt>>

\* What a run does on its own.
Progress(r) == Acquire(r) \/ CallReturns(r) \/ EndRun(r) \/ Finalize(r)

\* What it does once a service has answered.
Answered(r) ==
  \/ GetItems(r) \/ RemoveItems(r) \/ ReadInitialState(r) \/ ToolCompleteWrite(r)
  \/ ServiceAnswers(r)

Next ==
  \/ \E l \in Shared : UserEdit(l)
  \/ \E r \in Runs :
       \/ Start(r) \/ Progress(r) \/ Answered(r)
       \/ ToolAdd(r) \/ ToolRemove(r) \/ ToolCompleteRead(r) \/ ToolCalls(r) \/ FallBack(r)

\* The request limit ends a run after finitely many tools; nothing makes a service answer.
Fairness == \A r \in Runs : WF_vars(Progress(r)) /\ SF_vars(EndRun(r))

Spec == Init /\ [][Next]_vars /\ Fairness

-----------------------------------------------------------------------------
(* Properties.                                                             *)

\* Two runs never use a list at the same time, although the registry of locks
\* forgets a lock as soon as no run refers to it.
OneRunPerList ==
  \A r, s \in Runs :
    r # s /\ ListOf[r] = ListOf[s] => ~(pc[r] \in InsideLock /\ pc[s] \in InsideLock)

\* A run never works among the items another run left behind, even when that
\* one failed half way, or a user edits the list during the clearing.
NoForeignItems ==
  \A r \in Runs : pc[r] \in Working =>
    \A u \in UidsOf(ListOf[r]) : items[ListOf[r]][u].by \in {r, User}

\* What is not its own, a run was shown, unless a user put it there later.
PromptExplainsItems ==
  \A r \in Runs : pc[r] \in Working /\ ListOf[r] \notin touched =>
    \A u \in UidsOf(ListOf[r]) : items[ListOf[r]][u].by = User => u \in prompt[r]

\* Who waits for whom: for the holder of the lock, or for runs its tool started.
WaitsFor(r) ==
  {s \in Runs : \/ pc[r] = "waiting" /\ s = Head(queue[lock[r]]) /\ s # r
                \/ pc[r] = "calling" /\ caller[s] = r /\ pc[s] # "done"}

\* Everybody r waits for in the end.
Behind(r) ==
  {s \in Runs : \A C \in SUBSET Runs :
     WaitsFor(r) \subseteq C /\ (\A t \in C : WaitsFor(t) \subseteq C) => s \in C}

AwaitsService(r) == pc[r] \in {"getting", "removing", "reading", "completing", "asking"}

Stuck(r) == \E s \in Behind(r) \cup {r} : AwaitsService(s) \/ s \in Behind(s)

\* A run that waits for its list gets done, unless it waits for ever behind a service
\* that does not answer, or behind runs that wait for one another: a tool that starts
\* a task on the list of its caller, or two that start one on the list of the other.
\* No failure of a run, no fallback and no lock made anew keeps it waiting.
RunsEnd ==
  \A r \in Runs : ((pc[r] = "waiting") ~> (pc[r] = "done")) \/ <>[]Stuck(r)

\* The instructions end with "## Current Todo Workspace": an attempt starts with
\* the list as it is, unless a user edited it.
PromptIsCurrent ==
  [][\A r \in Runs : attempt'[r] > attempt[r] /\ ListOf[r] \notin touched =>
       UidsOf(ListOf[r]) = prompt[r]]_vars
=============================================================================
