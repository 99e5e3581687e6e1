--------------------------- MODULE AgentRun_proofs ---------------------------
(***************************************************************************)
(* Proofs about AgentRun, for every set of runs, agents, profiles and      *)
(* chains and every number of reloads.                                     *)
(***************************************************************************)
EXTENDS AgentRun, TLAPS

\* The part of TypeOK that HandleProfileError can disturb.
HandlerTypes ==
  /\ authFailures \in [Providers -> SUBSET Profiles]
  /\ metrics \in [Agents -> [failures : Nat, last : {"none", "success", "failure"}]]
  /\ diagnostics \in [Agents -> {"none", "success", "failed"}]
  /\ issues \in SUBSET Providers
  /\ pc \in [Runs -> PCs]
  /\ index \in [Runs -> Nat]
  /\ \A r \in Runs : index[r] \in Positions(r)
  /\ error \in [Runs -> Errors \cup {NoError}]
  /\ ledger \in [Runs -> [success : Nat, failure : Nat]]

\* A run's current profile is a profile, and its provider a provider.
LEMMA ProfileType ==
  ASSUME TypeOK, NEW r \in Runs
  PROVE  Profile(r) \in Profiles /\ ProviderOf[Profile(r)] \in Providers
<1>1. ChainOf[AgentOf[r]] \in Seq(Profiles) /\ index[r] \in Positions(r)
  BY AgentRunAssumption DEF TypeOK
<1> QED
  BY <1>1, AgentRunAssumption DEF Profile, Positions

LEMMA ClearTypes ==
  ASSUME TypeOK, NEW r \in Runs, ClearAuthFailure(Profile(r))
  PROVE  /\ authFailures' \in [Providers -> SUBSET Profiles]
         /\ issues' \in SUBSET Providers
BY ProfileType DEF TypeOK, ClearAuthFailure, DeleteProviderAuthIssue

LEMMA CreateTypes ==
  ASSUME TypeOK, NEW r \in Runs, CreateAuthIssue(Profile(r))
  PROVE  /\ authFailures' \in [Providers -> SUBSET Profiles]
         /\ issues' \in SUBSET Providers
BY ProfileType DEF TypeOK, CreateAuthIssue, CreateProviderAuthIssue

LEMMA RecordTypes ==
  ASSUME TypeOK, NEW r \in Runs, RecordSuccess(r) \/ RecordFailure(r) \/ RecordNothing
  PROVE  /\ metrics' \in [Agents -> [failures : Nat, last : {"none", "success", "failure"}]]
         /\ diagnostics' \in [Agents -> {"none", "success", "failed"}]
         /\ ledger' \in [Runs -> [success : Nat, failure : Nat]]
<1>0. AgentOf[r] \in Agents
  BY AgentRunAssumption
<1>1. CASE RecordSuccess(r)
  BY <1>0, <1>1 DEF TypeOK, RecordSuccess
<1>2. CASE RecordFailure(r)
  <2>1. metrics[AgentOf[r]].failures + 1 \in Nat
    BY <1>0 DEF TypeOK
  <2>2. [failures |-> metrics[AgentOf[r]].failures + 1, last |-> "failure"]
          \in [failures : Nat, last : {"none", "success", "failure"}]
    BY <2>1
  <2>3. metrics' \in [Agents -> [failures : Nat, last : {"none", "success", "failure"}]]
    BY <1>0, <1>2, <2>2 DEF TypeOK, RecordFailure
  <2>4. diagnostics' \in [Agents -> {"none", "success", "failed"}]
    BY <1>2 DEF TypeOK, RecordFailure
  <2>5. ledger' \in [Runs -> [success : Nat, failure : Nat]]
    BY <1>2 DEF TypeOK, RecordFailure
  <2> QED
    BY <2>3, <2>4, <2>5
<1>3. CASE RecordNothing
  BY <1>3 DEF TypeOK, RecordNothing
<1> QED
  BY <1>1, <1>2, <1>3

LEMMA HandlerPreservesTypes ==
  ASSUME TypeOK, NEW r \in Runs, NEW e, HandleProfileError(r, e)
  PROVE  HandlerTypes'
<1> DEFINE terminal == Fallbacks(r) = {} \/ ~ShouldFallback(e)
<1>1. /\ authFailures' \in [Providers -> SUBSET Profiles]
      /\ issues' \in SUBSET Providers
  BY ClearTypes, CreateTypes DEF HandleProfileError, Escape, TypeOK
<1>2. RecordFailure(r) \/ RecordNothing
  BY DEF HandleProfileError, Escape
<1>3. pc' \in [Runs -> PCs]
  BY DEF HandleProfileError, Escape, Goto, TypeOK, PCs, Finished
<1>4. \A i \in Fallbacks(r) : i \in Positions(r) /\ i \in Nat
  BY DEF Fallbacks, TypeOK
<1>5. index' = index \/ \E i \in Fallbacks(r) : index' = [index EXCEPT ![r] = i]
  BY DEF HandleProfileError
<1>6. index' \in [Runs -> Nat] /\ \A s \in Runs : index'[s] \in Positions(s)
  BY <1>4, <1>5 DEF TypeOK
<1>7. error' \in [Runs -> Errors \cup {NoError}]
  BY DEF HandleProfileError, TypeOK
<1> QED
  BY <1>1, <1>2, <1>3, <1>6, <1>7, RecordTypes DEF HandlerTypes, Positions

LEMMA InitTypes ==
  ASSUME Init PROVE TypeOK
<1>1. \A r \in Runs : 1 \in Positions(r)
  BY AgentRunAssumption DEF Positions
<1>2. entry \in {"loaded", "unloaded", "removed"} /\ reloads \in 0..MaxReloads
  BY AgentRunAssumption DEF Init
<1>3. NoError \in Errors \cup {NoError}
  OBVIOUS
<1> QED
  BY <1>1, <1>2, <1>3 DEF Init, TypeOK, FreshMetrics, PCs

\* Actions of the entry leave the runs alone.
LEMMA EntryPreservesTypes ==
  ASSUME TypeOK, BeginSetup \/ Setup \/ SetupFails \/ Unload \/ RemoveEntry \/ EditProviders
  PROVE  TypeOK'
<1>1. CASE Setup
  BY <1>1 DEF TypeOK, Setup, FreshMetrics, runVars, Positions, DeleteStaleProviderAuthIssues
<1>2. CASE Unload
  BY <1>2, AgentRunAssumption DEF TypeOK, Unload, FreshMetrics, runVars, Positions
<1>3. CASE RemoveEntry
  BY <1>3 DEF TypeOK, RemoveEntry, runVars, Positions, DeleteEntryRepairIssues
<1>4. CASE EditProviders
  <2>1. configured' \in SUBSET Providers
    BY <1>4 DEF EditProviders, TypeOK
  <2> QED
    BY <1>4, <2>1 DEF TypeOK, EditProviders, stores, runVars, Positions
<1>5. CASE BeginSetup \/ SetupFails
  BY <1>5 DEF TypeOK, BeginSetup, SetupFails, stores, runVars, Positions
<1> QED
  BY <1>1, <1>2, <1>3, <1>4, <1>5

LEMMA FinishPreservesTypes ==
  ASSUME TypeOK, NEW r \in Runs, Finish(r)
  PROVE  TypeOK'
<1>1. /\ authFailures' \in [Providers -> SUBSET Profiles]
      /\ issues' \in SUBSET Providers
  BY ClearTypes
     DEF Finish, FinishConversation, FinishTask, FinishStructured, Escape, TypeOK
<1>2. RecordSuccess(r) \/ RecordFailure(r) \/ RecordNothing
  BY DEF Finish, FinishConversation, FinishTask, FinishStructured, Escape
<1>3. pc' \in [Runs -> PCs]
  BY DEF Finish, FinishConversation, FinishTask, FinishStructured, Escape, Goto, TypeOK,
         PCs, Finished
<1>4. UNCHANGED <<entryVars, chain, index, chat, shown, closeFailed, error>>
  BY DEF Finish, FinishConversation, FinishTask, FinishStructured
<1> QED
  BY <1>1, <1>2, <1>3, <1>4, RecordTypes DEF TypeOK, entryVars, Positions

LEMMA RunPreservesTypes ==
  ASSUME TypeOK, NEW r \in Runs, RunStep(r)
  PROVE  TypeOK'
<1>1. CASE Call(r)
  BY <1>1 DEF TypeOK, Call, Goto, PCs, entryVars, stores, Positions
<1>2. CASE ResolveChain(r)
  <2> DEFINE resolved == {i \in Positions(r) : Resolvable(ChainOf[AgentOf[r]][i])}
  <2>1. resolved \in SUBSET Nat /\ resolved \subseteq Positions(r)
    BY AgentRunAssumption DEF Positions
  <2>2. chain' = [chain EXCEPT ![r] = resolved] \/ chain' = chain
    BY <1>2 DEF ResolveChain
  <2>3. Goto(r, "preparing") \/ Goto(r, "raised")
    BY <1>2 DEF ResolveChain
  <2>4. UNCHANGED <<entryVars, stores, index, chat, ledger, shown, closeFailed, error>>
    BY <1>2 DEF ResolveChain
  <2> HIDE DEF resolved
  <2>5. chain' \in [Runs -> SUBSET Nat] /\ \A s \in Runs : chain'[s] \subseteq Positions(s)
    BY <2>1, <2>2 DEF TypeOK
  <2>6. pc' \in [Runs -> PCs]
    BY <2>3 DEF Goto, TypeOK, PCs, Finished
  <2> QED
    BY <2>4, <2>5, <2>6 DEF TypeOK, entryVars, stores, Positions
<1>3. CASE Prepare(r)
  BY <1>3 DEF TypeOK, Prepare, Goto, PCs, Finished, entryVars, stores, Positions
<1>4. CASE Build(r)
  <2>1. CASE \E e \in AttemptErrors : HandleProfileError(r, e)
    <3>1. UNCHANGED <<entryVars, chain, chat, shown, closeFailed>>
      BY <1>4, <2>1 DEF Build, HandleProfileError
    <3> QED
      BY <2>1, <3>1, HandlerPreservesTypes DEF TypeOK, HandlerTypes, entryVars, Positions
  <2>2. CASE Goto(r, "attempting") /\
             UNCHANGED <<entryVars, stores, chain, index, chat, ledger, shown, error>>
    BY <1>4, <2>2 DEF Build, TypeOK, Goto, PCs, entryVars, stores, Positions
  <2> QED
    BY <1>4, <2>1, <2>2 DEF Build
<1>5. CASE AttemptFails(r)
  <2>1. ASSUME NEW e \in AttemptErrors
        PROVE  [e EXCEPT !.partial = index[r] \in shown[r]] \in Errors
    <3>1. e \in Errors /\ (index[r] \in shown[r]) \in BOOLEAN
      BY DEF AttemptErrors
    <3> QED
      BY <3>1 DEF Errors
  <2>2. [kind |-> "fatal", auth |-> FALSE, partial |-> FALSE] \in Errors
    BY DEF Errors
  <2>3. error' \in [Runs -> Errors \cup {NoError}]
    <3> DEFINE marked(e) == [e EXCEPT !.partial = index[r] \in shown[r]]
    <3>1. \E x \in Errors : error' = [error EXCEPT ![r] = x]
      <4>1. CASE \E e \in AttemptErrors : error' = [error EXCEPT ![r] = marked(e)]
        BY <4>1, <2>1
      <4>2. CASE error' = [error EXCEPT ![r] = [kind |-> "fatal", auth |-> FALSE, partial |-> FALSE]]
        BY <4>2, <2>2
      <4> QED
        BY <1>5, <4>1, <4>2 DEF AttemptFails
    <3> QED
      BY <3>1 DEF TypeOK
  <2> QED
    BY <1>5, <2>3 DEF TypeOK, AttemptFails, Goto, PCs, entryVars, stores, Positions
<1>6. CASE AttemptReturns(r)
  BY <1>6 DEF TypeOK, AttemptReturns, Goto, PCs, entryVars, stores, Positions
<1>7. CASE EmitDelta(r)
  BY <1>7 DEF TypeOK, EmitDelta, entryVars, stores, Positions
<1>8. CASE CloseFails(r) \/ CloseAfterError(r)
  <2>1. \E e : HandleProfileError(r, e)
    BY <1>8 DEF CloseFails, CloseAfterError
  <2>2. HandlerTypes'
    BY <2>1, HandlerPreservesTypes
  <2>3. UNCHANGED <<entryVars, chain, chat, shown>>
    BY <2>1 DEF HandleProfileError
  <2>4. closeFailed' \in [Runs -> SUBSET Nat]
    BY <1>8 DEF CloseFails, CloseAfterError, TypeOK
  <2> QED
    BY <2>2, <2>3, <2>4 DEF TypeOK, HandlerTypes, entryVars, Positions
<1>9. CASE Finish(r)
  BY <1>9, FinishPreservesTypes
<1>10. CASE CallTool(r) \/ ToolAnswers(r)
  BY <1>10 DEF TypeOK, CallTool, ToolAnswers, Goto, PCs, entryVars, stores, Positions
<1> QED
  BY <1>1, <1>2, <1>3, <1>4, <1>5, <1>6, <1>7, <1>8, <1>9, <1>10 DEF RunStep, Progress, AttemptEnds

\* Type correctness: the stores and every run stay in their declared ranges; in
\* particular a run never tries a profile outside its agent's chain.
THEOREM TypeCorrect == Spec => []TypeOK
<1>1. Init => TypeOK
  BY InitTypes
<1>2. TypeOK /\ [Next]_vars => TypeOK'
  <2> SUFFICES ASSUME TypeOK, [Next]_vars PROVE TypeOK'
    OBVIOUS
  <2>1. CASE UNCHANGED vars
    BY <2>1 DEF vars, entryVars, stores, runVars, TypeOK, Positions
  <2>2. CASE Next
    BY <2>2, EntryPreservesTypes, RunPreservesTypes DEF Next
  <2> QED
    BY <2>1, <2>2
<1> QED
  BY <1>1, <1>2, PTL DEF Spec

-----------------------------------------------------------------------------
(* Auth failures and repair issues.                                        *)

\* The issue properties are inductive once it is known that an entry that is
\* not loaded holds no auth failures: RemoveEntry deletes every issue.
NoRuntimeNoFailures == ~HasRuntime => \A p \in Providers : authFailures[p] = {}

IssueInv ==
  /\ AuthFailureHasIssue
  /\ IssueIsExplained
  /\ NoRuntimeNoFailures

\* A step of a run touches failures and issues only while the entry is loaded,
\* and only by clearing or creating those of the profile it is trying.
LEMMA RunTouchesIssues ==
  ASSUME NEW r \in Runs, RunStep(r)
  PROVE  /\ UNCHANGED entryVars
         /\ \/ UNCHANGED <<authFailures, issues>>
            \/ HasRuntime /\ (ClearAuthFailure(Profile(r)) \/ CreateAuthIssue(Profile(r)))
<1>1. CASE Call(r) \/ ResolveChain(r) \/ Prepare(r) \/ AttemptFails(r)
           \/ AttemptReturns(r) \/ EmitDelta(r) \/ CallTool(r) \/ ToolAnswers(r)
  BY <1>1 DEF Call, ResolveChain, Prepare, AttemptFails, AttemptReturns, EmitDelta, CallTool,
              ToolAnswers, stores
<1>2. CASE \E e : HandleProfileError(r, e)
  BY <1>2 DEF HandleProfileError, Escape
<1>3. CASE Finish(r)
  BY <1>3 DEF Finish, FinishConversation, FinishTask, FinishStructured, Escape
<1>4. Build(r) => UNCHANGED <<entryVars, stores>> \/ \E e : HandleProfileError(r, e)
  BY DEF Build
<1>5. CloseFails(r) \/ CloseAfterError(r) => \E e : HandleProfileError(r, e)
  BY DEF CloseFails, CloseAfterError
<1> QED
  BY <1>1, <1>2, <1>3, <1>4, <1>5 DEF RunStep, Progress, AttemptEnds, stores

LEMMA RunPreservesIssueInv ==
  ASSUME TypeOK, IssueInv, NEW r \in Runs, RunStep(r)
  PROVE  IssueInv'
<1> DEFINE p == ProviderOf[Profile(r)]
<1>1. p \in Providers
  BY ProfileType
<1>2. UNCHANGED <<entry, runtime>>
  BY RunTouchesIssues DEF entryVars
<1>3. CASE UNCHANGED <<authFailures, issues>>
  BY <1>2, <1>3 DEF IssueInv, AuthFailureHasIssue, IssueIsExplained,
                    NoRuntimeNoFailures, HasRuntime
<1>4. CASE HasRuntime /\ ClearAuthFailure(Profile(r))
  <2>1. /\ authFailures' = [authFailures EXCEPT ![p] = authFailures[p] \ {Profile(r)}]
        /\ issues' = IF authFailures[p] \ {Profile(r)} = {} THEN issues \ {p} ELSE issues
    BY <1>4 DEF ClearAuthFailure, DeleteProviderAuthIssue
  <2>2. \A q \in Providers : authFailures'[q] \subseteq authFailures[q]
    BY <2>1 DEF TypeOK
  <2>3. \A q \in Providers : q # p => authFailures'[q] = authFailures[q] /\ (q \in issues' <=> q \in issues)
    BY <2>1 DEF TypeOK
  <2> HIDE DEF p
  <2>4. authFailures'[p] = authFailures[p] \ {Profile(r)}
    BY <1>1, <2>1 DEF TypeOK
  <2>5. authFailures[p] # {} => p \in issues
    BY <1>1 DEF IssueInv, AuthFailureHasIssue
  <2>6. authFailures'[p] # {} <=> p \in issues'
    <3>1. CASE authFailures[p] \ {Profile(r)} = {}
      <4>1. issues' = issues \ {p}
        BY <2>1, <3>1
      <4> QED
        BY <2>4, <3>1, <4>1
    <3>2. CASE authFailures[p] \ {Profile(r)} # {}
      <4>1. authFailures[p] # {}
        BY <3>2
      <4>2. issues' = issues
        BY <2>1, <3>2
      <4> QED
        BY <2>4, <2>5, <3>2, <4>1, <4>2
    <3> QED
      BY <3>1, <3>2
  <2>7. \A q \in Providers : authFailures'[q] # {} => q \in issues'
    BY <2>3, <2>6 DEF IssueInv, AuthFailureHasIssue
  <2>8. HasRuntime' /\ entry' # "removed"
    BY <1>2, <1>4 DEF HasRuntime
  <2>9. \A q \in issues' : q \in runtime' \/ authFailures'[q] # {}
    <3> SUFFICES ASSUME NEW q \in issues' PROVE q \in runtime' \/ authFailures'[q] # {}
      OBVIOUS
    <3>1. CASE q = p
      BY <2>6, <3>1
    <3>2. CASE q # p
      <4>1. q \in issues /\ issues \subseteq Providers
        BY <2>1, <3>2 DEF TypeOK
      <4> QED
        BY <1>2, <1>4, <2>3, <3>2, <4>1 DEF IssueInv, IssueIsExplained
    <3> QED
      BY <3>1, <3>2
  <2> QED
    BY <2>7, <2>8, <2>9
       DEF IssueInv, AuthFailureHasIssue, IssueIsExplained,
           NoRuntimeNoFailures
<1>5. CASE HasRuntime /\ CreateAuthIssue(Profile(r))
  <2>1. /\ authFailures' = [authFailures EXCEPT ![p] = authFailures[p] \cup {Profile(r)}]
        /\ issues' = issues \cup {p}
    BY <1>5 DEF CreateAuthIssue, CreateProviderAuthIssue
  <2>2. \A q \in Providers : q # p => authFailures'[q] = authFailures[q]
    BY <2>1 DEF TypeOK
  <2>3. authFailures'[p] # {} /\ p \in issues'
    BY <1>1, <2>1 DEF TypeOK
  <2> HIDE DEF p
  <2> QED
    BY <1>1, <1>2, <1>5, <2>1, <2>2, <2>3
       DEF IssueInv, AuthFailureHasIssue, IssueIsExplained,
           NoRuntimeNoFailures, HasRuntime, TypeOK
<1> QED
  BY <1>3, <1>4, <1>5, RunTouchesIssues

LEMMA IssueInvAlways == Spec => []IssueInv
<1>1. Init => IssueInv
  BY DEF Init, IssueInv, AuthFailureHasIssue, IssueIsExplained,
         NoRuntimeNoFailures, HasRuntime
<1>2. TypeOK /\ IssueInv /\ [Next]_vars => IssueInv'
  <2> SUFFICES ASSUME TypeOK, IssueInv, [Next]_vars PROVE IssueInv'
    OBVIOUS
  <2> USE DEF IssueInv, AuthFailureHasIssue, IssueIsExplained,
              NoRuntimeNoFailures, HasRuntime
  <2>1. CASE UNCHANGED vars
    BY <2>1 DEF vars, entryVars, stores
  <2>2. CASE Setup
    BY <2>2 DEF Setup, DeleteStaleProviderAuthIssues
  <2>3. CASE Unload
    BY <2>3 DEF Unload
  <2>4. CASE RemoveEntry
    BY <2>4 DEF RemoveEntry, DeleteEntryRepairIssues
  <2>5. CASE EditProviders
    BY <2>5 DEF EditProviders, stores
  <2>6. CASE \E r \in Runs : RunStep(r)
    BY <2>6, RunPreservesIssueInv
  <2>7. CASE BeginSetup \/ SetupFails
    BY <2>7 DEF BeginSetup, SetupFails, stores
  <2> QED
    BY <2>1, <2>2, <2>3, <2>4, <2>5, <2>6, <2>7 DEF Next
<1> QED
  BY <1>1, <1>2, TypeCorrect, PTL DEF Spec

\* Runs that report and runs that clear failures, reloads and removal can
\* interleave in any way: a remembered auth failure has its repair issue.
THEOREM IssuesAreRight == Spec => []AuthFailureHasIssue
<1>1. IssueInv => AuthFailureHasIssue
  BY DEF IssueInv
<1> QED
  BY <1>1, IssueInvAlways, PTL

\* While the entry is loaded an issue is about a provider of this load or about a failure
\* still remembered, and a run that outlives its entry brings no issue back.
THEOREM IssuesAreExplained == Spec => []IssueIsExplained
<1>1. IssueInv => IssueIsExplained
  BY DEF IssueInv
<1> QED
  BY <1>1, IssueInvAlways, PTL

-----------------------------------------------------------------------------
(* Accounting.                                                             *)

BooksInv == AccountedOnce /\ CallerToldWhatWasRecorded

\* A step of one run leaves every other run as it was.
LEMMA RunsAreSeparate ==
  ASSUME TypeOK, NEW r \in Runs, RunStep(r), NEW s \in Runs, s # r
  PROVE  /\ pc'[s] = pc[s] /\ ledger'[s] = ledger[s] /\ chat'[s] = chat[s]
         /\ index'[s] = index[s] /\ error'[s] = error[s]
         /\ shown'[s] = shown[s] /\ closeFailed'[s] = closeFailed[s]
<1>1. \A e : HandleProfileError(r, e) =>
        /\ pc'[s] = pc[s] /\ ledger'[s] = ledger[s] /\ chat'[s] = chat[s]
        /\ index'[s] = index[s] /\ error'[s] = error[s] /\ shown'[s] = shown[s]
  <2> SUFFICES ASSUME NEW e, HandleProfileError(r, e)
               PROVE  /\ pc'[s] = pc[s] /\ ledger'[s] = ledger[s] /\ chat'[s] = chat[s]
                      /\ index'[s] = index[s] /\ error'[s] = error[s] /\ shown'[s] = shown[s]
    OBVIOUS
  <2>1. pc'[s] = pc[s]
    BY DEF HandleProfileError, Escape, Goto, TypeOK
  <2>2. ledger'[s] = ledger[s]
    BY DEF HandleProfileError, Escape, RecordFailure, RecordNothing, TypeOK
  <2>3. index'[s] = index[s]
    BY DEF HandleProfileError, TypeOK
  <2>4. chat' = chat /\ shown' = shown /\ error'[s] = error[s]
    BY DEF HandleProfileError, TypeOK
  <2> QED
    BY <2>1, <2>2, <2>3, <2>4
<1>2. CASE Call(r) \/ ResolveChain(r) \/ Prepare(r)
  BY <1>2 DEF Call, ResolveChain, Prepare, Goto, TypeOK
<1>3. CASE AttemptFails(r) \/ AttemptReturns(r) \/ EmitDelta(r) \/ CallTool(r) \/ ToolAnswers(r)
  BY <1>3 DEF AttemptFails, AttemptReturns, EmitDelta, CallTool, ToolAnswers, Goto, TypeOK
<1>4. CASE Build(r)
  BY <1>1, <1>4 DEF Build, Goto, TypeOK
<1>5. CASE CloseFails(r) \/ CloseAfterError(r)
  BY <1>1, <1>5 DEF CloseFails, CloseAfterError, TypeOK
<1>6. CASE Finish(r)
  <2>1. pc'[s] = pc[s]
    BY <1>6 DEF Finish, FinishConversation, FinishTask, FinishStructured, Escape, Goto, TypeOK
  <2>2. ledger'[s] = ledger[s]
    BY <1>6 DEF Finish, FinishConversation, FinishTask, FinishStructured, Escape,
                RecordSuccess, RecordFailure, RecordNothing, TypeOK
  <2>3. UNCHANGED <<index, chat, shown, closeFailed, error>>
    BY <1>6 DEF Finish, FinishConversation, FinishTask, FinishStructured
  <2> QED
    BY <2>1, <2>2, <2>3
<1> QED
  BY <1>2, <1>3, <1>4, <1>5, <1>6 DEF RunStep, Progress, AttemptEnds

\* The books of the run that takes the step: it is not finished and has no entry
\* yet, and it gets one exactly when it finishes in a way that is recorded.
LEMMA StepKeepsBooks ==
  ASSUME TypeOK, BooksInv, NEW r \in Runs, RunStep(r)
  PROVE  /\ pc[r] \notin Finished
         /\ ledger'[r] \in {[success |-> 0, failure |-> 0], [success |-> 1, failure |-> 0],
                            [success |-> 0, failure |-> 1]}
         /\ pc'[r] = "answered" => ledger'[r] = [success |-> 1, failure |-> 0]
         /\ pc'[r] = "apologised" => ledger'[r] = [success |-> 0, failure |-> 1]
         /\ pc'[r] = "raised" /\ ledger'[r].success = 1 => KindOf[r] = "task" /\ chat'[r] # "assistant"
         /\ pc'[r] \notin Finished => ledger'[r] = [success |-> 0, failure |-> 0]
<1>1. pc[r] \notin Finished
  BY DEF RunStep, Progress, AttemptEnds, Call, ResolveChain, Prepare, Build, EmitDelta, CallTool,
         ToolAnswers, AttemptFails, AttemptReturns, CloseFails, CloseAfterError, Finish, FinishConversation, FinishTask,
         FinishStructured, Succeeded, Finished
<1>2. ledger[r] = [success |-> 0, failure |-> 0]
  BY <1>1 DEF BooksInv, CallerToldWhatWasRecorded
<1>3. RecordSuccess(r) => ledger'[r] = [success |-> 1, failure |-> 0]
  BY <1>2 DEF RecordSuccess, TypeOK
<1>4. RecordFailure(r) => ledger'[r] = [success |-> 0, failure |-> 1]
  BY <1>2 DEF RecordFailure, TypeOK
<1>5. RecordNothing => ledger'[r] = [success |-> 0, failure |-> 0]
  BY <1>2 DEF RecordNothing
<1>6. \A l : Goto(r, l) => pc'[r] = l
  BY DEF Goto, TypeOK
<1>7. CASE \E e : HandleProfileError(r, e)
  <2>1. \/ Goto(r, "raised") /\ RecordNothing
        \/ Goto(r, "apologised") /\ RecordFailure(r)
        \/ Goto(r, "raised") /\ RecordFailure(r)
        \/ Goto(r, "building") /\ RecordNothing
    BY <1>7 DEF HandleProfileError, Escape
  <2> QED
    BY <1>1, <1>3, <1>4, <1>5, <1>6, <2>1 DEF Finished
<1>8. CASE Finish(r)
  <2>1. \/ Goto(r, "raised") /\ RecordNothing
        \/ Goto(r, "apologised") /\ RecordFailure(r)
        \/ Goto(r, "raised") /\ RecordFailure(r)
        \/ Goto(r, "answered") /\ RecordSuccess(r)
        \/ /\ Goto(r, "raised") /\ RecordSuccess(r)
           /\ KindOf[r] = "task" /\ chat[r] # "assistant" /\ chat' = chat
    BY <1>8 DEF Finish, FinishConversation, FinishTask, FinishStructured, Escape
  <2> QED
    BY <1>1, <1>3, <1>4, <1>5, <1>6, <2>1 DEF Finished
<1>9. CASE UNCHANGED ledger /\ pc'[r] \notin (Finished \ {"raised"})
  BY <1>1, <1>2, <1>9 DEF Finished
<1>10. CASE Call(r) \/ ResolveChain(r) \/ Prepare(r) \/ AttemptFails(r) \/ AttemptReturns(r)
  BY <1>6, <1>9, <1>10
     DEF Call, ResolveChain, Prepare, AttemptFails, AttemptReturns, stores, Finished
<1>11. CASE EmitDelta(r) \/ CallTool(r) \/ ToolAnswers(r)
  BY <1>1, <1>6, <1>9, <1>11 DEF EmitDelta, CallTool, ToolAnswers, stores, Finished
<1>12. Build(r) \/ CloseFails(r) \/ CloseAfterError(r) =>
         \/ \E e : HandleProfileError(r, e)
         \/ Goto(r, "attempting") /\ UNCHANGED ledger
  BY DEF Build, CloseFails, CloseAfterError
<1>13. CASE Goto(r, "attempting") /\ UNCHANGED ledger
  BY <1>6, <1>9, <1>13 DEF Finished
<1> QED
  BY <1>7, <1>8, <1>10, <1>11, <1>12, <1>13 DEF RunStep, Progress, AttemptEnds

LEMMA RunPreservesBooks ==
  ASSUME TypeOK, BooksInv, NEW r \in Runs, RunStep(r)
  PROVE  BooksInv'
<1>1. \A s \in Runs \ {r} : pc'[s] = pc[s] /\ ledger'[s] = ledger[s] /\ chat'[s] = chat[s]
  BY RunsAreSeparate
<1>2. \A s \in Runs : ledger'[s].success + ledger'[s].failure <= 1
  BY <1>1, StepKeepsBooks DEF BooksInv, AccountedOnce
<1> QED
  BY <1>1, <1>2, StepKeepsBooks DEF BooksInv, AccountedOnce, CallerToldWhatWasRecorded

LEMMA InitBooks ==
  ASSUME Init PROVE BooksInv
BY DEF Init, BooksInv, AccountedOnce, CallerToldWhatWasRecorded, Finished

LEMMA EntryKeepsRuns ==
  ASSUME BeginSetup \/ Setup \/ SetupFails \/ Unload \/ RemoveEntry \/ EditProviders
  PROVE  UNCHANGED runVars
BY DEF BeginSetup, Setup, SetupFails, Unload, RemoveEntry, EditProviders,
       DeleteStaleProviderAuthIssues, DeleteEntryRepairIssues

LEMMA NextPreservesBooks ==
  ASSUME TypeOK, BooksInv, [Next]_vars
  PROVE  BooksInv'
<1>1. CASE UNCHANGED runVars
  BY <1>1 DEF runVars, BooksInv, AccountedOnce, CallerToldWhatWasRecorded
<1>2. CASE \E r \in Runs : RunStep(r)
  BY <1>2, RunPreservesBooks
<1> QED
  BY <1>1, <1>2, EntryKeepsRuns DEF Next, vars

\* However runs, reloads, fallbacks and clean-up errors interleave, a run is
\* accounted at most once and the caller is told what was recorded.
THEOREM AccountingCorrect == Spec => [](AccountedOnce /\ CallerToldWhatWasRecorded)
<1>1. Init => BooksInv
  BY InitBooks
<1>2. TypeOK /\ BooksInv /\ [Next]_vars => BooksInv'
  BY NextPreservesBooks
<1>3. BooksInv => AccountedOnce /\ CallerToldWhatWasRecorded
  BY DEF BooksInv
<1> QED
  BY <1>1, <1>2, <1>3, TypeCorrect, PTL DEF Spec

-----------------------------------------------------------------------------
(* AgentRun implements RunAccounting.                                      *)

\* The step that ends a run, as RunAccounting sees it.
LEMMA RunStepRefines ==
  ASSUME TypeOK, BooksInv, NEW r \in Runs, RunStep(r)
  PROVE  [Accounting!Next]_(Accounting!vars)
<1> DEFINE blank == [success |-> 0, failure |-> 0]
           yes == [success |-> 1, failure |-> 0]
           no == [success |-> 0, failure |-> 1]
<1>1. pc[r] \notin Finished /\ ledger[r] = blank
  BY StepKeepsBooks DEF BooksInv, CallerToldWhatWasRecorded
<1>2. \A s \in Runs \ {r} : pc'[s] = pc[s] /\ ledger'[s] = ledger[s]
  BY RunsAreSeparate
<1>3. pc' \in [Runs -> PCs] /\ ledger' \in [Runs -> [success : Nat, failure : Nat]]
  BY RunPreservesTypes DEF TypeOK
<1>4. RunPhase[r] = "open" /\ RunPhase = [s \in Runs |-> RunPhase[s]]
  BY <1>1 DEF RunPhase
<1>5. RunPhase' = [RunPhase EXCEPT ![r] = IF pc'[r] \in Finished THEN pc'[r] ELSE "open"]
  BY <1>2 DEF RunPhase
<1>6. ledger' = [ledger EXCEPT ![r] = ledger'[r]]
  BY <1>2, <1>3 DEF TypeOK
<1>7. CASE pc'[r] \notin Finished
  <2>1. RunPhase' = RunPhase
    BY <1>4, <1>5, <1>7 DEF RunPhase
  <2>2. ledger' = ledger
    BY <1>1, <1>6, <1>7, StepKeepsBooks DEF TypeOK
  <2> QED
    BY <2>1, <2>2 DEF Accounting!vars
<1>8. CASE pc'[r] \in Finished
  <2>1. \A b : ledger'[r] = b => Accounting!Close(r, pc'[r], b)
    BY <1>4, <1>5, <1>6, <1>8 DEF Accounting!Close
  <2>2. CASE pc'[r] = "answered"
    BY <2>1, <2>2, StepKeepsBooks
       DEF Accounting!Next, Accounting!Answer, Accounting!Success
  <2>3. CASE pc'[r] = "apologised"
    BY <2>1, <2>3, StepKeepsBooks
       DEF Accounting!Next, Accounting!Apologise, Accounting!Failure
  <2>4. CASE pc'[r] = "raised"
    <3>1. ledger'[r] = yes => r \in PlainTasks
      BY <2>4, StepKeepsBooks DEF PlainTasks
    <3>2. Accounting!Raise(r)
      BY <2>1, <2>4, <3>1, StepKeepsBooks
         DEF Accounting!Raise, Accounting!Blank, Accounting!Failure, Accounting!Success
    <3> QED
      BY <3>2 DEF Accounting!Next
  <2> QED
    BY <1>8, <2>2, <2>3, <2>4 DEF Finished
<1> QED
  BY <1>7, <1>8

\* Every behaviour of the agent runs is one of the accounting the callers and
\* the sensors rely on: the booking and the ending of a run are one step.
THEOREM RunsImplementAccounting == Spec => ImplementsAccounting
<1>1. Init => Accounting!Init
  BY DEF Init, Accounting!Init, Accounting!Blank, RunPhase, Finished
<1>2. TypeOK /\ BooksInv /\ [Next]_vars => [Accounting!Next]_(Accounting!vars)
  <2> SUFFICES ASSUME TypeOK, BooksInv, [Next]_vars
               PROVE  [Accounting!Next]_(Accounting!vars)
    OBVIOUS
  <2>1. CASE UNCHANGED runVars
    BY <2>1 DEF runVars, Accounting!vars, RunPhase
  <2>2. CASE \E r \in Runs : RunStep(r)
    BY <2>2, RunStepRefines
  <2> QED
    BY <2>1, <2>2, EntryKeepsRuns DEF Next, vars
<1>3. BooksInv <=> AccountedOnce /\ CallerToldWhatWasRecorded
  BY DEF BooksInv
<1> QED
  BY <1>1, <1>2, <1>3, TypeCorrect, AccountingCorrect, PTL
     DEF Spec, ImplementsAccounting, Accounting!Spec
-----------------------------------------------------------------------------
(* Partial answers.                                                        *)

\* What has been shown of an attempt is what the exception that ends it knows: deltas
\* belong to attempts up to the current one, one that only starts has shown nothing,
\* and the error on its way out of one that has does not ask for a fallback.
PartialAnswer(r) ==
  /\ \A i \in shown[r] : i <= index[r] /\ (i < index[r] => i \in closeFailed[r])
  /\ pc[r] \in {"idle", "called", "preparing", "building"} => index[r] \notin shown[r]
  /\ pc[r] # "closing" => error[r] = NoError
  /\ index[r] \in shown[r] /\ error[r] # NoError => ~ShouldFallback(error[r])

PartialInv == \A r \in Runs : PartialAnswer(r)

\* The handler goes on to a later profile, or stays and ends the run.
LEMMA HandlerMovesOn ==
  ASSUME TypeOK, NEW r \in Runs, NEW e, HandleProfileError(r, e)
  PROVE  /\ shown' = shown /\ error'[r] = NoError
         /\ \/ index'[r] = index[r] /\ pc'[r] \in Finished
            \/ ShouldFallback(e) /\ index'[r] > index[r] /\ pc'[r] = "building"
<1>1. shown' = shown /\ error'[r] = NoError
  BY DEF HandleProfileError, TypeOK
<1>2. \A l : Goto(r, l) => pc'[r] = l
  BY DEF Goto, TypeOK
<1>3. \A i \in Fallbacks(r) : i > index[r]
  BY DEF Fallbacks
<1>4. \/ UNCHANGED index /\ \E l \in Finished : Goto(r, l)
      \/ /\ ShouldFallback(e) /\ Goto(r, "building")
         /\ \E i \in Fallbacks(r) : index' = [index EXCEPT ![r] = i]
  BY DEF HandleProfileError, Escape, Finished
<1>5. \A i : index' = [index EXCEPT ![r] = i] => index'[r] = i
  BY DEF TypeOK
<1> QED
  BY <1>1, <1>2, <1>3, <1>4, <1>5

\* The exception the handler gets shows nothing of its attempt, forbids the fallback,
\* or the failed clean-up is on record.
LEMMA HandlerKeepsPartial ==
  ASSUME TypeOK, PartialInv, NEW r \in Runs, NEW e, HandleProfileError(r, e),
         closeFailed[r] \subseteq closeFailed'[r],
         index[r] \in shown[r] => ~ShouldFallback(e) \/ index[r] \in closeFailed'[r]
  PROVE  PartialAnswer(r)'
<1>1. shown[r] \subseteq Nat /\ index[r] \in Nat /\ index'[r] \in Nat
  BY HandlerPreservesTypes DEF TypeOK, HandlerTypes
<1>2. \A i \in shown[r] : i <= index[r] /\ (i < index[r] => i \in closeFailed[r])
  BY DEF PartialInv, PartialAnswer
<1>3. shown' = shown /\ error'[r] = NoError
  BY HandlerMovesOn
<1>4. CASE index'[r] = index[r] /\ pc'[r] \in Finished
  BY <1>2, <1>3, <1>4 DEF PartialAnswer, Finished
<1>5. CASE ShouldFallback(e) /\ index'[r] > index[r] /\ pc'[r] = "building"
  <2>1. \A i \in shown[r] : i < index'[r] /\ i \in closeFailed'[r]
    BY <1>1, <1>2, <1>5
  <2>2. index'[r] \notin shown[r]
    BY <1>1, <2>1
  <2> QED
    BY <1>1, <1>3, <1>5, <2>1, <2>2 DEF PartialAnswer
<1> QED
  BY <1>4, <1>5, HandlerMovesOn

LEMMA RunKeepsPartial ==
  ASSUME TypeOK, PartialInv, NEW r \in Runs, RunStep(r)
  PROVE  PartialAnswer(r)'
<1>0. PartialAnswer(r)
  BY DEF PartialInv
<1>1. CASE Call(r) \/ ResolveChain(r) \/ Prepare(r)
  <2>1. UNCHANGED <<index, shown, closeFailed, error>>
    BY <1>1 DEF Call, ResolveChain, Prepare
  <2>2. pc[r] \in {"idle", "called", "preparing"} /\ pc'[r] # "closing"
    BY <1>1 DEF Call, ResolveChain, Prepare, Goto, TypeOK
  <2> QED
    BY <1>0, <2>1, <2>2 DEF PartialAnswer
<1>2. CASE Build(r)
  <2>1. pc[r] = "building" /\ closeFailed' = closeFailed
    BY <1>2 DEF Build
  <2>2. CASE \E e \in AttemptErrors : HandleProfileError(r, e)
    BY <1>0, <2>1, <2>2, HandlerKeepsPartial DEF PartialAnswer
  <2>3. CASE Goto(r, "attempting") /\ UNCHANGED <<index, shown, error>>
    <3>1. pc'[r] = "attempting"
      BY <2>3 DEF Goto, TypeOK
    <3> QED
      BY <1>0, <2>1, <2>3, <3>1 DEF PartialAnswer
  <2> QED
    BY <1>2, <2>2, <2>3 DEF Build
<1>3. CASE EmitDelta(r)
  <2>1. shown'[r] = shown[r] \cup {index[r]} /\ UNCHANGED <<pc, index, closeFailed, error>>
    BY <1>3 DEF EmitDelta, TypeOK
  <2>2. pc[r] = "attempting" /\ index[r] \in Nat
    BY <1>3 DEF EmitDelta, TypeOK
  <2> QED
    BY <1>0, <2>1, <2>2 DEF PartialAnswer
<1>4. CASE AttemptFails(r)
  <2>1. UNCHANGED <<index, shown, closeFailed>> /\ pc'[r] = "closing"
    BY <1>4 DEF AttemptFails, Goto, TypeOK
  <2>2. index[r] \in shown[r] => ~ShouldFallback(error'[r])
    <3>1. CASE \E e \in AttemptErrors :
                 error' = [error EXCEPT ![r] = [e EXCEPT !.partial = index[r] \in shown[r]]]
      <4>1. PICK e \in AttemptErrors :
                 error' = [error EXCEPT ![r] = [e EXCEPT !.partial = index[r] \in shown[r]]]
        BY <3>1
      <4>2. error'[r].partial = (index[r] \in shown[r])
        BY <4>1 DEF TypeOK, AttemptErrors, Errors
      <4> QED
        BY <4>2 DEF ShouldFallback
    <3>2. CASE error' = [error EXCEPT ![r] = [kind |-> "fatal", auth |-> FALSE, partial |-> FALSE]]
      BY <3>2 DEF TypeOK, ShouldFallback
    <3> QED
      BY <1>4, <3>1, <3>2 DEF AttemptFails
  <2> QED
    BY <1>0, <2>1, <2>2 DEF PartialAnswer
<1>5. CASE AttemptReturns(r)
  <2>1. UNCHANGED <<index, shown, closeFailed, error>> /\ pc'[r] = "closing"
    BY <1>5 DEF AttemptReturns, Goto, TypeOK
  <2> QED
    BY <1>0, <2>1 DEF PartialAnswer
<1>6. CASE CloseAfterError(r)
  BY <1>0, <1>6, HandlerKeepsPartial DEF CloseAfterError, PartialAnswer
<1>7. CASE CloseFails(r)
  <2>1. closeFailed'[r] = closeFailed[r] \cup {index[r]}
    BY <1>7 DEF CloseFails, TypeOK
  <2> QED
    BY <1>7, <2>1, HandlerKeepsPartial DEF CloseFails
<1>8. CASE Finish(r)
  <2>1. UNCHANGED <<index, shown, closeFailed, error>> /\ error[r] = NoError
    BY <1>8 DEF Finish, FinishConversation, FinishTask, FinishStructured, Succeeded
  <2>2. pc'[r] \in Finished
    BY <1>8 DEF Finish, FinishConversation, FinishTask, FinishStructured, Escape, Goto, TypeOK,
                Finished
  <2> QED
    BY <1>0, <2>1, <2>2 DEF PartialAnswer, Finished
<1>9. CASE CallTool(r) \/ ToolAnswers(r)
  <2>1. UNCHANGED <<index, shown, closeFailed, error>> /\ pc'[r] \in {"calling", "attempting"}
    BY <1>9 DEF CallTool, ToolAnswers, Goto, TypeOK
  <2>2. pc[r] \in {"calling", "attempting"}
    BY <1>9 DEF CallTool, ToolAnswers
  <2> QED
    BY <1>0, <2>1, <2>2 DEF PartialAnswer
<1> QED
  BY <1>1, <1>2, <1>3, <1>4, <1>5, <1>6, <1>7, <1>8, <1>9 DEF RunStep, Progress, AttemptEnds

\* Once the user has seen a part of an answer no fallback answers again, through every
\* error of the stream, the handler and the clean-up that is not itself on record.
THEOREM NoSecondAnswer == Spec => []NoFallbackAfterPartialAnswer
<1>1. Init => PartialInv
  BY DEF Init, PartialInv, PartialAnswer
<1>2. TypeOK /\ PartialInv /\ [Next]_vars => PartialInv'
  <2> SUFFICES ASSUME TypeOK, PartialInv, [Next]_vars PROVE PartialInv'
    OBVIOUS
  <2>1. CASE UNCHANGED runVars
    BY <2>1 DEF runVars, PartialInv, PartialAnswer
  <2>2. CASE \E r \in Runs : RunStep(r)
    <3>1. PICK r \in Runs : RunStep(r)
      BY <2>2
    <3>2. \A s \in Runs \ {r} : PartialAnswer(s)'
      BY <3>1, RunsAreSeparate DEF PartialInv, PartialAnswer
    <3> QED
      BY <3>1, <3>2, RunKeepsPartial DEF PartialInv
  <2> QED
    BY <2>1, <2>2, EntryKeepsRuns DEF Next, vars
<1>3. PartialInv => NoFallbackAfterPartialAnswer
  BY DEF PartialInv, PartialAnswer, NoFallbackAfterPartialAnswer
<1> QED
  BY <1>1, <1>2, <1>3, TypeCorrect, PTL DEF Spec

-----------------------------------------------------------------------------
(* Metrics and diagnostics.                                                *)

\* The two records of an agent are written together, whichever call site records.
LEMMA RecordingAgrees ==
  ASSUME TypeOK, DiagnosticsMatchMetrics, NEW r \in Runs,
         RecordSuccess(r) \/ RecordFailure(r) \/ RecordNothing
  PROVE  DiagnosticsMatchMetrics'
<1>0. AgentOf[r] \in Agents
  BY AgentRunAssumption
<1>1. CASE RecordSuccess(r)
  BY <1>0, <1>1 DEF RecordSuccess, DiagnosticsMatchMetrics, TypeOK
<1>2. CASE RecordFailure(r)
  <2>1. metrics[AgentOf[r]].failures + 1 > 0
    BY <1>0 DEF TypeOK
  <2> QED
    BY <1>0, <1>2, <2>1 DEF RecordFailure, DiagnosticsMatchMetrics, TypeOK
<1>3. CASE RecordNothing
  BY <1>3 DEF RecordNothing, DiagnosticsMatchMetrics
<1> QED
  BY <1>1, <1>2, <1>3

LEMMA RunRecords ==
  ASSUME NEW r \in Runs, RunStep(r)
  PROVE  RecordSuccess(r) \/ RecordFailure(r) \/ UNCHANGED <<metrics, diagnostics>>
<1>1. CASE \E e : HandleProfileError(r, e)
  BY <1>1 DEF HandleProfileError, Escape, RecordNothing
<1>2. CASE Finish(r)
  BY <1>2 DEF Finish, FinishConversation, FinishTask, FinishStructured, Escape, RecordNothing
<1>3. CASE Call(r) \/ ResolveChain(r) \/ Prepare(r) \/ AttemptFails(r) \/ AttemptReturns(r)
           \/ EmitDelta(r) \/ CallTool(r) \/ ToolAnswers(r)
  BY <1>3 DEF Call, ResolveChain, Prepare, AttemptFails, AttemptReturns, EmitDelta, CallTool,
              ToolAnswers, stores
<1>4. Build(r) \/ CloseFails(r) \/ CloseAfterError(r) =>
        UNCHANGED stores \/ \E e : HandleProfileError(r, e)
  BY DEF Build, CloseFails, CloseAfterError
<1> QED
  BY <1>1, <1>2, <1>3, <1>4 DEF RunStep, Progress, AttemptEnds, stores

\* The two reports of an agent never contradict each other, although runs that outlive
\* a reload write them (record_agent_run_success, record_agent_run_failure).
THEOREM DiagnosticsAgree == Spec => []DiagnosticsMatchMetrics
<1>1. Init => DiagnosticsMatchMetrics
  <2> SUFFICES ASSUME Init PROVE DiagnosticsMatchMetrics
    OBVIOUS
  <2>1. \A a \in Agents : metrics[a].failures = 0 /\ metrics[a].last = "none" /\ diagnostics[a] = "none"
    BY DEF Init, FreshMetrics
  <2>2. ~(0 > 0)
    OBVIOUS
  <2> QED
    BY <2>1, <2>2 DEF DiagnosticsMatchMetrics
<1>2. TypeOK /\ DiagnosticsMatchMetrics /\ [Next]_vars => DiagnosticsMatchMetrics'
  <2> SUFFICES ASSUME TypeOK, DiagnosticsMatchMetrics, [Next]_vars PROVE DiagnosticsMatchMetrics'
    OBVIOUS
  <2>1. CASE UNCHANGED <<metrics, diagnostics>>
    BY <2>1 DEF DiagnosticsMatchMetrics
  <2>2. CASE Setup \/ Unload
    BY <2>2 DEF Setup, Unload, DiagnosticsMatchMetrics, FreshMetrics
  <2>3. CASE BeginSetup \/ SetupFails \/ RemoveEntry \/ EditProviders
    BY <2>1, <2>3 DEF BeginSetup, SetupFails, RemoveEntry, EditProviders, stores
  <2>4. CASE \E r \in Runs : RunStep(r)
    BY <2>1, <2>4, RunRecords, RecordingAgrees
  <2> QED
    BY <2>1, <2>2, <2>3, <2>4 DEF Next, vars, stores
<1> QED
  BY <1>1, <1>2, TypeCorrect, PTL DEF Spec
=============================================================================
