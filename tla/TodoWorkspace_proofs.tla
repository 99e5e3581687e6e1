------------------------ MODULE TodoWorkspace_proofs ------------------------
(***************************************************************************)
(* Proofs about TodoWorkspace, for any runs, lists and numbers of          *)
(* attempts.                                                               *)
(***************************************************************************)
EXTENDS TodoWorkspace, TLAPS

-----------------------------------------------------------------------------
(* The queue of a lock.                                                    *)

InQueue(q, x) == \E i \in 1..Len(q) : q[i] = x
Distinct(q) == \A i, j \in 1..Len(q) : q[i] = q[j] => i = j

\* A run that comes is behind those that are there.
LEMMA AppendFact ==
  ASSUME NEW q \in Seq(Runs), NEW r \in Runs, Distinct(q), ~InQueue(q, r)
  PROVE  /\ Append(q, r) \in Seq(Runs) /\ Distinct(Append(q, r))
         /\ \A x : InQueue(Append(q, r), x) <=> InQueue(q, x) \/ x = r
         /\ \A x : InQueue(q, x) => Head(Append(q, r)) = Head(q)
<1> DEFINE p == Append(q, r)
<1>1. p \in Seq(Runs) /\ Len(p) = Len(q) + 1 /\ Len(q) \in Nat
  OBVIOUS
<1>2. (\A i \in 1..Len(q) : p[i] = q[i]) /\ p[Len(q) + 1] = r
  OBVIOUS
<1>3. q # <<>> => Head(p) = Head(q)
  OBVIOUS
<1>4. q = <<>> => Len(q) = 0
  OBVIOUS
<1> HIDE DEF p
<1>5. \A i \in 1..Len(p) : i \in 1..Len(q) \/ i = Len(q) + 1
  BY <1>1
<1>6. \A x : InQueue(p, x) <=> InQueue(q, x) \/ x = r
  BY <1>1, <1>2, <1>5 DEF InQueue
<1>7. Distinct(p)
  BY <1>1, <1>2, <1>5 DEF Distinct, InQueue
<1>8. \A x : InQueue(q, x) => q # <<>>
  BY <1>4 DEF InQueue
<1> QED
  BY <1>1, <1>3, <1>6, <1>7, <1>8 DEF p

\* The run that leaves was at the head.
LEMMA TailFact ==
  ASSUME NEW q \in Seq(Runs), NEW r, Distinct(q), InQueue(q, r), Head(q) = r
  PROVE  /\ Tail(q) \in Seq(Runs) /\ Distinct(Tail(q))
         /\ \A x : InQueue(Tail(q), x) <=> InQueue(q, x) /\ x # r
<1> DEFINE p == Tail(q)
<1>1. Len(q) \in Nat /\ Len(q) > 0 /\ q # <<>>
  BY DEF InQueue
<1>2. p \in Seq(Runs) /\ Len(p) = Len(q) - 1 /\ q[1] = r
  BY <1>1
<1>3. \A i \in 1..Len(p) : p[i] = q[i + 1]
  BY <1>1
<1> HIDE DEF p
<1>4. \A i \in 1..Len(p) : i + 1 \in 1..Len(q) /\ i + 1 # 1
  BY <1>1, <1>2
<1>5. \A i \in 1..Len(q) : i = 1 \/ (i - 1 \in 1..Len(p) /\ p[i - 1] = q[i])
  BY <1>1, <1>2, <1>3
<1>6. 1 \in 1..Len(q)
  BY <1>1
<1>7. Distinct(p)
  <2> SUFFICES ASSUME NEW i \in 1..Len(p), NEW j \in 1..Len(p), p[i] = p[j] PROVE i = j
    BY DEF Distinct
  <2>1. i + 1 = j + 1
    BY <1>3, <1>4 DEF Distinct
  <2> QED
    BY <2>1, <1>2
<1>8. ASSUME NEW x PROVE InQueue(p, x) <=> InQueue(q, x) /\ x # r
  <2>1. ASSUME NEW i \in 1..Len(p), p[i] = x PROVE InQueue(q, x) /\ x # r
    BY <1>2, <1>3, <1>4, <1>6, <2>1 DEF Distinct, InQueue
  <2>2. ASSUME NEW i \in 1..Len(q), q[i] = x, x # r PROVE InQueue(p, x)
    BY <1>2, <1>5, <2>2 DEF InQueue
  <2> QED
    BY <2>1, <2>2 DEF InQueue
<1> QED
  BY <1>2, <1>7, <1>8 DEF p

-----------------------------------------------------------------------------
(* The invariant.                                                          *)

InLine == {"waiting"} \cup InsideLock

LockTypes ==
  /\ pc \in [Runs -> PCs]
  /\ lock \in [Runs -> Runs \cup {NoRun}]
  /\ queue \in [Runs -> Seq(Runs)]

\* A lock object exists from the start of the run that names it; nobody is in its
\* queue twice.
LockOK(k) == Distinct(queue[k]) /\ (pc[k] = "idle" => queue[k] = <<>>)

\* Runs of one list that refer to a lock refer to the same one; a run is in the queue of
\* its lock and in no other, at its head once it is inside.
RunOK(r) ==
  /\ pc[r] \in Referring => lock[r] \in Runs /\ pc[lock[r]] # "idle"
  /\ \A s \in Runs :
       pc[r] \in Referring /\ pc[s] \in Referring /\ ListOf[r] = ListOf[s] => lock[r] = lock[s]
  /\ \A k \in Runs : InQueue(queue[k], r) <=> pc[r] \in InLine /\ lock[r] = k
  /\ pc[r] \in InsideLock => Head(queue[lock[r]]) = r

LockInv ==
  /\ LockTypes
  /\ \A r \in Runs : LockOK(r) /\ RunOK(r)

LEMMA LockInvInit == Init => LockInv
<1> SUFFICES ASSUME Init PROVE LockInv
  OBVIOUS
<1>1. <<>> \in Seq(Runs) /\ Distinct(<<>>) /\ \A x : ~InQueue(<<>>, x)
  BY DEF Distinct, InQueue
<1>2. LockTypes
  BY <1>1 DEF Init, LockTypes, PCs
<1>3. ASSUME NEW r \in Runs PROVE LockOK(r) /\ RunOK(r)
  BY <1>1 DEF Init, LockOK, RunOK, InLine, InsideLock, Referring
<1> QED
  BY <1>2, <1>3 DEF LockInv

\* One run at a time.
LEMMA LockInvExcludes == LockInv => OneRunPerList
BY DEF LockInv, RunOK, OneRunPerList, Referring

-----------------------------------------------------------------------------
(* The steps, as the lock sees them.                                       *)

\* A run goes on inside the lock, or gets in when its turn has come.
GoesOn(r) ==
  /\ UNCHANGED <<lock, queue>>
  /\ \E s \in InsideLock : Goto(r, s)
  /\ pc[r] \in InLine
  /\ pc[r] = "waiting" => Head(queue[lock[r]]) = r

Leaves(r) ==
  /\ pc[r] \in InsideLock
  /\ Goto(r, "finishing")
  /\ queue' = [queue EXCEPT ![lock[r]] = Tail(@)]
  /\ UNCHANGED lock

Ends(r) ==
  /\ pc[r] = "finishing"
  /\ Goto(r, "done")
  /\ lock' = [lock EXCEPT ![r] = NoRun]
  /\ UNCHANGED queue

LEMMA StepsOfALock ==
  ASSUME [Next]_vars
  PROVE  \/ UNCHANGED <<pc, lock, queue>>
         \/ \E r \in Runs : Start(r) \/ GoesOn(r) \/ Leaves(r) \/ Ends(r)
<1> USE DEF GoesOn, Leaves, InLine, InsideLock, Goto
<1>1. ASSUME NEW r \in Runs, Acquire(r) PROVE GoesOn(r)
  BY <1>1 DEF Acquire
<1>2. ASSUME NEW r \in Runs, GetItems(r) PROVE GoesOn(r) \/ Leaves(r)
  BY <1>2 DEF GetItems, ReleaseLock
<1>3. ASSUME NEW r \in Runs, RemoveItems(r) PROVE GoesOn(r) \/ Leaves(r)
  BY <1>3 DEF RemoveItems, ReleaseLock
<1>4. ASSUME NEW r \in Runs, ReadInitialState(r) PROVE GoesOn(r) \/ Leaves(r)
  BY <1>4 DEF ReadInitialState, ReleaseLock
<1>5. ASSUME NEW r \in Runs, ToolCompleteWrite(r) PROVE GoesOn(r)
  BY <1>5 DEF ToolCompleteWrite
<1>6. ASSUME NEW r \in Runs, EndRun(r) PROVE Leaves(r)
  BY <1>6 DEF EndRun, ReleaseLock
<1>7. ASSUME NEW r \in Runs, Finalize(r) PROVE Ends(r)
  BY <1>7 DEF Finalize, Ends
<1>8. ASSUME NEW r \in Runs, ToolCalls(r) \/ CallReturns(r) \/ ServiceAnswers(r) PROVE GoesOn(r)
  BY <1>8 DEF ToolCalls, CallReturns, ServiceAnswers
<1>9. ASSUME NEW r \in Runs, ToolCompleteRead(r) PROVE GoesOn(r)
  BY <1>9 DEF ToolCompleteRead
<1>10. ASSUME NEW r \in Runs, ToolAdd(r) \/ ToolRemove(r) \/ FallBack(r)
       PROVE  UNCHANGED <<pc, lock, queue>>
  BY <1>10 DEF ToolAdd, ToolRemove, FallBack
<1>11. ASSUME NEW l \in Shared, UserEdit(l) PROVE UNCHANGED <<pc, lock, queue>>
  BY <1>11 DEF UserEdit
<1> QED
  BY <1>1, <1>2, <1>3, <1>4, <1>5, <1>6, <1>7, <1>8, <1>9, <1>10, <1>11 DEF Next, Progress, Answered, vars

-----------------------------------------------------------------------------
(* Each kind of step preserves the invariant.                              *)

LEMMA StartKeepsInv ==
  ASSUME LockInv, NEW r \in Runs, Start(r)
  PROVE  LockInv'
<1> DEFINE known == {lock[s] : s \in {t \in Runs : ListOf[t] = ListOf[r] /\ pc[t] \in Referring}}
           mine == IF known = {} THEN r ELSE CHOOSE k \in known : TRUE
<1>1. LockTypes /\ (\A s \in Runs : LockOK(s) /\ RunOK(s)) /\ pc[r] = "idle"
  BY DEF LockInv, Start
<1>2. mine \in Runs /\ (mine = r \/ pc[mine] # "idle")
  BY <1>1 DEF RunOK
<1>3. \A s \in Runs : ListOf[s] = ListOf[r] /\ pc[s] \in Referring => lock[s] = mine
  <2> SUFFICES ASSUME NEW s \in Runs, ListOf[s] = ListOf[r], pc[s] \in Referring PROVE lock[s] = mine
    OBVIOUS
  <2>1. lock[s] \in known /\ mine \in known
    OBVIOUS
  <2>2. PICK t \in Runs : ListOf[t] = ListOf[r] /\ pc[t] \in Referring /\ mine = lock[t]
    BY <2>1
  <2> QED
    BY <1>1, <2>2 DEF RunOK
<1>4. /\ pc' = [pc EXCEPT ![r] = "waiting"]
      /\ lock' = [lock EXCEPT ![r] = mine]
      /\ queue' = [queue EXCEPT ![mine] = Append(@, r)]
  BY DEF Start, Goto
<1> HIDE DEF mine
<1>5. \A k \in Runs : ~InQueue(queue[k], r)
  BY <1>1 DEF RunOK, InLine, InsideLock
<1>6. /\ queue'[mine] \in Seq(Runs) /\ Distinct(queue'[mine])
      /\ \A x : InQueue(queue'[mine], x) <=> InQueue(queue[mine], x) \/ x = r
      /\ \A x : InQueue(queue[mine], x) => Head(queue'[mine]) = Head(queue[mine])
      /\ \A k \in Runs \ {mine} : queue'[k] = queue[k]
  BY <1>1, <1>2, <1>4, <1>5, AppendFact DEF LockTypes, LockOK
<1>7. /\ pc'[r] = "waiting" /\ lock'[r] = mine
      /\ \A s \in Runs \ {r} : pc'[s] = pc[s] /\ lock'[s] = lock[s]
  BY <1>1, <1>4 DEF LockTypes
<1>8. LockTypes'
  BY <1>1, <1>2, <1>4, <1>6 DEF LockTypes, PCs
<1>9. ASSUME NEW k \in Runs PROVE LockOK(k)'
  BY <1>1, <1>2, <1>6, <1>7 DEF LockOK
<1>10. ASSUME NEW s \in Runs PROVE RunOK(s)'
  <2>1. pc'[s] \in Referring => lock'[s] \in Runs /\ pc'[lock'[s]] # "idle"
    BY <1>1, <1>2, <1>7 DEF RunOK
  <2>2. ASSUME NEW t \in Runs, pc'[s] \in Referring, pc'[t] \in Referring, ListOf[s] = ListOf[t]
        PROVE  lock'[s] = lock'[t]
    BY <1>1, <1>3, <1>7, <2>2 DEF RunOK
  <2>3. ASSUME NEW k \in Runs PROVE InQueue(queue'[k], s) <=> pc'[s] \in InLine /\ lock'[s] = k
    BY <1>1, <1>5, <1>6, <1>7 DEF RunOK, InLine
  <2>4. ASSUME pc'[s] \in InsideLock PROVE Head(queue'[lock'[s]]) = s
    <3>1. s # r
      BY <1>7, <2>4 DEF InsideLock
    <3>2. pc[s] \in InsideLock /\ lock'[s] = lock[s] /\ lock[s] \in Runs /\ InQueue(queue[lock[s]], s)
      BY <1>1, <1>7, <2>4, <3>1 DEF RunOK, Referring, InLine
    <3> QED
      BY <1>1, <1>6, <3>2 DEF RunOK
  <2> QED
    BY <2>1, <2>2, <2>3, <2>4 DEF RunOK
<1> QED
  BY <1>8, <1>9, <1>10 DEF LockInv

LEMMA GoesOnKeepsInv ==
  ASSUME LockInv, NEW r \in Runs, GoesOn(r)
  PROVE  LockInv'
<1>1. LockTypes /\ \A s \in Runs : LockOK(s) /\ RunOK(s)
  BY DEF LockInv
<1>2. PICK at \in InsideLock : Goto(r, at)
  BY DEF GoesOn
<1>3. /\ pc' = [pc EXCEPT ![r] = at] /\ lock' = lock /\ queue' = queue
      /\ pc[r] \in InLine /\ (pc[r] = "waiting" => Head(queue[lock[r]]) = r)
  BY <1>2 DEF GoesOn, Goto
<1>4. /\ pc'[r] = at /\ at # "idle" /\ at \in Referring /\ pc[r] \in Referring /\ pc[r] # "idle"
      /\ \A s \in Runs \ {r} : pc'[s] = pc[s]
  BY <1>1, <1>2, <1>3 DEF LockTypes, InsideLock, InLine, Referring
<1>5. LockTypes'
  BY <1>1, <1>2, <1>3 DEF LockTypes, PCs
<1>6. ASSUME NEW k \in Runs PROVE LockOK(k)'
  BY <1>1, <1>3, <1>4 DEF LockOK
<1>7. ASSUME NEW s \in Runs PROVE RunOK(s)'
  <2>1. CASE s = r
    BY <1>1, <1>3, <1>4, <2>1 DEF RunOK, InLine
  <2>2. CASE s # r
    BY <1>1, <1>3, <1>4, <2>2 DEF RunOK
  <2> QED
    BY <2>1, <2>2
<1> QED
  BY <1>5, <1>6, <1>7 DEF LockInv

LEMMA LeavesKeepsInv ==
  ASSUME LockInv, NEW r \in Runs, Leaves(r)
  PROVE  LockInv'
<1> DEFINE k == lock[r]
<1>1. LockTypes /\ (\A s \in Runs : LockOK(s) /\ RunOK(s)) /\ pc[r] \in InsideLock
  BY DEF LockInv, Leaves
<1>2. k \in Runs /\ InQueue(queue[k], r) /\ Head(queue[k]) = r
  BY <1>1 DEF RunOK, InLine, Referring
<1>3. /\ pc' = [pc EXCEPT ![r] = "finishing"] /\ lock' = lock
      /\ queue' = [queue EXCEPT ![k] = Tail(@)]
  BY DEF Leaves, Goto
<1>4. \A s \in Runs \ {r} : pc[s] \in InsideLock => lock[s] # k
  BY <1>1, <1>2 DEF RunOK
<1> HIDE DEF k
<1>5. /\ queue'[k] \in Seq(Runs) /\ Distinct(queue'[k])
      /\ \A x : InQueue(queue'[k], x) <=> InQueue(queue[k], x) /\ x # r
      /\ \A j \in Runs \ {k} : queue'[j] = queue[j]
  BY <1>1, <1>2, <1>3, TailFact DEF LockTypes, LockOK
<1>6. /\ pc'[r] = "finishing" /\ pc[r] \in Referring /\ pc[r] # "idle"
      /\ \A s \in Runs \ {r} : pc'[s] = pc[s]
  BY <1>1, <1>3 DEF LockTypes, InsideLock, Referring
<1>7. LockTypes'
  BY <1>1, <1>2, <1>3, <1>5 DEF LockTypes, PCs
<1>8. \A j \in Runs : queue[j] = <<>> => j # k
  BY <1>2 DEF InQueue
<1>9. ASSUME NEW j \in Runs PROVE LockOK(j)'
  BY <1>1, <1>5, <1>6, <1>8 DEF LockOK
<1>10. ASSUME NEW s \in Runs PROVE RunOK(s)'
  <2>1. CASE s = r
    <3>1. "finishing" \notin InLine /\ "finishing" \notin InsideLock /\ "finishing" \in Referring
      BY DEF InLine, InsideLock, Referring
    <3>2. \A j \in Runs : ~InQueue(queue'[j], r)
      BY <1>1, <1>2, <1>5 DEF RunOK, k
    <3> QED
      BY <1>1, <1>3, <1>6, <2>1, <3>1, <3>2 DEF RunOK
  <2>2. CASE s # r
    <3>1. \A j \in Runs : InQueue(queue'[j], s) <=> InQueue(queue[j], s)
      BY <1>2, <1>5, <2>2
    <3>2. pc'[s] = pc[s] /\ lock' = lock
      BY <1>3, <1>6, <2>2
    <3>3. pc[s] \in InsideLock => queue'[lock[s]] = queue[lock[s]]
      BY <1>1, <1>4, <1>5, <2>2 DEF RunOK, Referring
    <3> QED
      BY <1>1, <1>6, <3>1, <3>2, <3>3 DEF RunOK
  <2> QED
    BY <2>1, <2>2
<1> QED
  BY <1>7, <1>9, <1>10 DEF LockInv

LEMMA EndsKeepsInv ==
  ASSUME LockInv, NEW r \in Runs, Ends(r)
  PROVE  LockInv'
<1>1. LockTypes /\ (\A s \in Runs : LockOK(s) /\ RunOK(s)) /\ pc[r] = "finishing"
  BY DEF LockInv, Ends
<1>2. pc' = [pc EXCEPT ![r] = "done"] /\ lock' = [lock EXCEPT ![r] = NoRun] /\ queue' = queue
  BY DEF Ends, Goto
<1>3. /\ pc'[r] = "done"
      /\ \A s \in Runs \ {r} : pc'[s] = pc[s] /\ lock'[s] = lock[s]
  BY <1>1, <1>2 DEF LockTypes
<1>4. LockTypes'
  BY <1>1, <1>2 DEF LockTypes, PCs
<1>5. ASSUME NEW k \in Runs PROVE LockOK(k)'
  BY <1>1, <1>2, <1>3 DEF LockOK
<1>6. ASSUME NEW s \in Runs PROVE RunOK(s)'
  <2>1. CASE s = r
    <3>1. /\ "done" \notin InLine /\ "done" \notin InsideLock /\ "done" \notin Referring
          /\ "finishing" \notin InLine
      BY DEF InLine, InsideLock, Referring
    <3> QED
      BY <1>1, <1>2, <1>3, <2>1, <3>1 DEF RunOK
  <2>2. CASE s # r
    <3>1. "done" \notin Referring
      BY DEF Referring, InsideLock
    <3> QED
      BY <1>1, <1>2, <1>3, <2>2, <3>1 DEF RunOK
  <2> QED
    BY <2>1, <2>2
<1> QED
  BY <1>4, <1>5, <1>6 DEF LockInv

\* Two runs never use a list at the same time (todo_workspace_lock, the `async with` of
\* _async_generate_data), for any number of runs, lists and attempts.
THEOREM RunsExcludeEachOther == Spec => []OneRunPerList
<1>1. LockInv /\ [Next]_vars => LockInv'
  <2> SUFFICES ASSUME LockInv, [Next]_vars PROVE LockInv'
    OBVIOUS
  <2>1. CASE UNCHANGED <<pc, lock, queue>>
    BY <2>1 DEF LockInv, LockTypes, LockOK, RunOK
  <2>2. CASE \E r \in Runs : Start(r) \/ GoesOn(r) \/ Leaves(r) \/ Ends(r)
    BY <2>2, StartKeepsInv, GoesOnKeepsInv, LeavesKeepsInv, EndsKeepsInv
  <2> QED
    BY <2>1, <2>2, StepsOfALock
<1> QED
  BY <1>1, LockInvInit, LockInvExcludes, PTL DEF Spec

-----------------------------------------------------------------------------
(* Whose items a run finds.                                                *)

\* A tool waits for a run or a service, or comes back.
Calls(r) == ToolCalls(r) \/ CallReturns(r) \/ ServiceAnswers(r)

ItemsAreLists ==
  /\ items = [l \in Lists |-> items[l]]
  /\ \A l \in Lists : items[l] \in [UidsOf(l) -> Item]
  /\ seen = [r \in Runs |-> seen[r]]
  /\ pc \in [Runs -> PCs]

\* Once the list was cleared, and while it is being cleared, everything else in it is
\* among what the run is about to remove.
Clean(r) ==
  /\ pc[r] \in {"reading"} \cup Working =>
       \A u \in UidsOf(ListOf[r]) : items[ListOf[r]][u].by \in {r, User}
  /\ pc[r] = "removing" =>
       \A u \in UidsOf(ListOf[r]) : items[ListOf[r]][u].by \in {r, User} \/ u \in seen[r]

CleanInv == ItemsAreLists /\ \A r \in Runs : Clean(r)

\* What a service call that who makes does to a list: what is there afterwards is who's,
\* or it was there before.
Touches(l, who) ==
  /\ items' = [k \in Lists |-> items'[k]]
  /\ \A k \in Lists : items'[k] \in [UidsOf(k)' -> Item]
  /\ \A k \in Lists \ {l} : items'[k] = items[k]
  /\ \A u \in UidsOf(l)' : \/ items'[l][u].by = who
                           \/ u \in UidsOf(l) /\ items'[l][u].by = items[l][u].by

LEMMA AddTouches ==
  ASSUME ItemsAreLists, NEW l \in Lists, NEW who \in Runs \cup {User}, AddTo(l, who)
  PROVE  Touches(l, who)
<1>1. PICK u \in Uids[l] \ used[l] :
        items' = [items EXCEPT ![l] = [v \in UidsOf(l) \cup {u} |->
                    IF v = u THEN [by |-> who, done |-> FALSE] ELSE @[v]]]
  BY DEF AddTo
<1> DEFINE new == [by |-> who, done |-> FALSE]
<1>2. new \in Item /\ new.by = who
  BY DEF Item
<1> HIDE DEF new
<1>3. items'[l] = [v \in UidsOf(l) \cup {u} |-> IF v = u THEN new ELSE items[l][v]]
  BY <1>1 DEF ItemsAreLists, new
<1>4. \A k \in Lists \ {l} : items'[k] = items[k]
  BY <1>1 DEF ItemsAreLists
<1>5. items' = [k \in Lists |-> items'[k]]
  BY <1>1 DEF ItemsAreLists
<1>6. \A k \in Lists : items'[k] \in [UidsOf(k)' -> Item]
  BY <1>2, <1>3, <1>4 DEF ItemsAreLists, UidsOf
<1> QED
  BY <1>2, <1>3, <1>4, <1>5, <1>6 DEF Touches, UidsOf

LEMMA RemoveTouches ==
  ASSUME ItemsAreLists, NEW l \in Lists, NEW uids, NEW who, RemoveFrom(l, uids)
  PROVE  Touches(l, who) /\ UidsOf(l)' = UidsOf(l) \ uids
<1>1. items' = [items EXCEPT ![l] = [v \in UidsOf(l) \ uids |-> @[v]]]
  BY DEF RemoveFrom
<1>2. items'[l] = [v \in UidsOf(l) \ uids |-> items[l][v]]
  BY <1>1 DEF ItemsAreLists
<1>3. \A k \in Lists \ {l} : items'[k] = items[k]
  BY <1>1 DEF ItemsAreLists
<1>4. items' = [k \in Lists |-> items'[k]]
  BY <1>1 DEF ItemsAreLists
<1>5. \A k \in Lists : items'[k] \in [UidsOf(k)' -> Item]
  BY <1>2, <1>3 DEF ItemsAreLists, UidsOf
<1> QED
  BY <1>2, <1>3, <1>4, <1>5 DEF Touches, UidsOf

LEMMA CompleteTouches ==
  ASSUME ItemsAreLists, NEW l \in Lists, NEW u \in UidsOf(l), NEW who, Complete(l, u)
  PROVE  Touches(l, who)
<1> DEFINE new == [by |-> items[l][u].by, done |-> TRUE]
<1>1. items' = [items EXCEPT ![l][u] = new]
  BY DEF Complete
<1>2. items[l] \in [UidsOf(l) -> Item] /\ items[l][u] \in Item
  BY DEF ItemsAreLists
<1>3. new \in Item /\ new.by = items[l][u].by
  BY <1>2 DEF Item
<1> HIDE DEF new
<1>4. items'[l] = [items[l] EXCEPT ![u] = new]
  BY <1>1 DEF ItemsAreLists
<1>6. DOMAIN items'[l] = UidsOf(l) /\ items'[l] \in [UidsOf(l) -> Item]
  BY <1>2, <1>3, <1>4
<1>7. \A v \in UidsOf(l) : items'[l][v].by = items[l][v].by
  BY <1>2, <1>3, <1>4
<1>8. \A k \in Lists \ {l} : items'[k] = items[k]
  BY <1>1 DEF ItemsAreLists
<1>9. items' = [k \in Lists |-> items'[k]]
  BY <1>1 DEF ItemsAreLists
<1>10. \A k \in Lists : items'[k] \in [UidsOf(k)' -> Item]
  BY <1>6, <1>8 DEF ItemsAreLists, UidsOf
<1> QED
  BY <1>6, <1>7, <1>8, <1>9, <1>10 DEF Touches, UidsOf

\* A call of the run that works on the list, or of a user, leaves every run's list clean.
LEMMA TouchKeepsClean ==
  ASSUME CleanInv, OneRunPerList, NEW l \in Lists, NEW who, Touches(l, who),
         who = User \/ (who \in Runs /\ ListOf[who] = l /\ pc[who] \in InsideLock),
         NEW r \in Runs, pc'[r] = pc[r], seen'[r] = seen[r]
  PROVE  Clean(r)'
<1>1. ListOf[r] \in Lists
  BY TodoAssumption
<1>2. CASE ListOf[r] # l
  BY <1>1, <1>2 DEF Touches, CleanInv, Clean, UidsOf
<1>3. CASE ListOf[r] = l /\ pc[r] \in InsideLock
  <2>1. who \in {r, User}
    BY <1>3 DEF OneRunPerList
  <2> QED
    BY <1>3, <2>1 DEF Touches, CleanInv, Clean, UidsOf
<1>4. CASE pc[r] \notin InsideLock
  BY <1>4 DEF Clean, Working, InsideLock
<1> QED
  BY <1>2, <1>3, <1>4

\* Nobody touches a list, and at most one run goes on.
Still(r) ==
  /\ items' = items
  /\ \A s \in Runs \ {r} : pc'[s] = pc[s] /\ seen'[s] = seen[s]
  /\ seen' = [s \in Runs |-> seen'[s]]
  /\ pc' \in [Runs -> PCs]
  /\ \/ pc'[r] \notin {"removing", "reading"} \cup Working
     \/ pc'[r] \in Working /\ pc[r] \in {"reading"} \cup Working
     \/ pc'[r] = "removing" /\ seen'[r] = UidsOf(ListOf[r])
     \/ pc'[r] = "reading" /\ UidsOf(ListOf[r]) = {}

LEMMA StillKeepsClean ==
  ASSUME CleanInv, NEW r \in Runs, Still(r)
  PROVE  CleanInv'
<1>1. ItemsAreLists'
  BY DEF CleanInv, ItemsAreLists, Still, UidsOf
<1>2. ASSUME NEW s \in Runs PROVE Clean(s)'
  <2>1. CASE s # r
    BY <2>1 DEF CleanInv, Clean, Still, UidsOf
  <2>2. CASE s = r
    BY <2>2 DEF CleanInv, Clean, Still, UidsOf, Working
  <2> QED
    BY <2>1, <2>2
<1> QED
  BY <1>1, <1>2 DEF CleanInv

LEMMA ReleaseIsStill ==
  ASSUME ItemsAreLists, NEW r \in Runs, ReleaseLock(r), UNCHANGED items
  PROVE  Still(r)
BY DEF ItemsAreLists, ReleaseLock, Still, Goto, Working, PCs, UidsOf

LEMMA CleanStep ==
  ASSUME CleanInv, OneRunPerList, [Next]_vars
  PROVE  CleanInv'
<1>1. ItemsAreLists /\ \A r \in Runs : ListOf[r] \in Lists
  BY TodoAssumption DEF CleanInv
<1> USE DEF Goto, Working
<1>2. ASSUME NEW r \in Runs, Start(r) \/ Acquire(r) \/ Finalize(r) \/ EndRun(r) PROVE CleanInv'
  <2>1. CASE EndRun(r)
    BY <1>1, <2>1, ReleaseIsStill, StillKeepsClean DEF EndRun, world
  <2>2. CASE Start(r) \/ Acquire(r) \/ Finalize(r)
    <3>1. Still(r)
      BY <1>1, <2>2 DEF Start, Acquire, Finalize, Still, world, ItemsAreLists, PCs, InsideLock
    <3> QED
      BY <3>1, StillKeepsClean
  <2> QED
    BY <1>2, <2>1, <2>2
<1>3. ASSUME NEW r \in Runs, GetItems(r) PROVE CleanInv'
  <2>1. CASE ReleaseLock(r) /\ UNCHANGED world
    BY <1>1, <2>1, ReleaseIsStill, StillKeepsClean DEF world
  <2>2. CASE /\ seen' = [seen EXCEPT ![r] = UidsOf(ListOf[r])]
             /\ Goto(r, IF UidsOf(ListOf[r]) = {} THEN "reading" ELSE "removing")
             /\ UNCHANGED <<world, lock, queue, prompt, attempt, touched>>
    <3>1. Still(r)
      BY <1>1, <2>2 DEF Still, world, ItemsAreLists, PCs, InsideLock
    <3> QED
      BY <3>1, StillKeepsClean
  <2> QED
    BY <1>3, <2>1, <2>2 DEF GetItems
<1>4. ASSUME NEW r \in Runs, RemoveItems(r) PROVE CleanInv'
  <2>1. CASE ReleaseLock(r) /\ UNCHANGED world
    BY <1>1, <2>1, ReleaseIsStill, StillKeepsClean DEF world
  <2>2. CASE /\ RemoveFrom(ListOf[r], seen[r])
             /\ Goto(r, "reading")
             /\ seen' = [seen EXCEPT ![r] = {}]
    <3>1. Touches(ListOf[r], r) /\ UidsOf(ListOf[r])' = UidsOf(ListOf[r]) \ seen[r]
      BY <1>1, <2>2, RemoveTouches
    <3>2. pc[r] = "removing" /\ pc[r] \in InsideLock
      BY <1>4 DEF RemoveItems, InsideLock
    <3>3. /\ pc' \in [Runs -> PCs] /\ pc'[r] = "reading"
          /\ \A s \in Runs \ {r} : pc'[s] = pc[s] /\ seen'[s] = seen[s]
          /\ seen' = [s \in Runs |-> seen'[s]]
      BY <1>1, <2>2 DEF ItemsAreLists, PCs, InsideLock
    <3>4. ItemsAreLists'
      BY <3>1, <3>3 DEF ItemsAreLists, Touches
    <3>5. \A s \in Runs \ {r} : Clean(s)'
      BY <1>1, <3>1, <3>2, <3>3, TouchKeepsClean
    <3>6. Clean(r)'
      <4>1. \A u \in UidsOf(ListOf[r]) : items[ListOf[r]][u].by \in {r, User} \/ u \in seen[r]
        BY <3>2 DEF CleanInv, Clean
      <4>2. \A u \in UidsOf(ListOf[r])' : items'[ListOf[r]][u].by \in {r, User}
        BY <3>1, <4>1 DEF Touches
      <4> QED
        BY <3>3, <4>2 DEF Clean
    <3> QED
      BY <3>4, <3>5, <3>6 DEF CleanInv
  <2> QED
    BY <1>4, <2>1, <2>2 DEF RemoveItems
<1>5. ASSUME NEW r \in Runs, ReadInitialState(r) PROVE CleanInv'
  <2>1. CASE ReleaseLock(r) /\ UNCHANGED world
    BY <1>1, <2>1, ReleaseIsStill, StillKeepsClean DEF world
  <2>2. CASE pc[r] = "reading" /\ Goto(r, "working") /\ UNCHANGED <<world, seen>>
    <3>1. Still(r)
      BY <1>1, <2>2 DEF Still, world, ItemsAreLists, PCs, InsideLock
    <3> QED
      BY <3>1, StillKeepsClean
  <2> QED
    BY <1>5, <2>1, <2>2 DEF ReadInitialState
<1>6. ASSUME NEW r \in Runs, ToolCompleteRead(r) \/ Calls(r) PROVE CleanInv'
  <2>1. Still(r)
    BY <1>1, <1>6 DEF ToolCompleteRead, ToolCalls, CallReturns, ServiceAnswers, Calls, Still, world, ItemsAreLists, PCs, InsideLock
  <2> QED
    BY <2>1, StillKeepsClean
<1>7. ASSUME NEW r \in Runs, FallBack(r) PROVE CleanInv'
  <2>1. items' = items /\ pc' = pc /\ seen' = seen
    BY <1>7 DEF FallBack, world
  <2> QED
    BY <2>1 DEF CleanInv, ItemsAreLists, Clean, UidsOf
<1>8. ASSUME NEW r \in Runs, ToolAdd(r) \/ ToolRemove(r) PROVE CleanInv'
  <2>1. pc[r] \in InsideLock /\ pc' = pc /\ seen' = seen
    BY <1>8 DEF ToolAdd, ToolRemove, InsideLock
  <2>2. Touches(ListOf[r], r)
    BY <1>1, <1>8, AddTouches, RemoveTouches DEF ToolAdd, ToolRemove
  <2>3. \A s \in Runs : Clean(s)'
    BY <1>1, <2>1, <2>2, TouchKeepsClean
  <2> QED
    BY <1>1, <2>1, <2>2, <2>3 DEF CleanInv, ItemsAreLists, Touches
<1>9. ASSUME NEW r \in Runs, ToolCompleteWrite(r) PROVE CleanInv'
  <2>1. /\ pc[r] \in Working /\ pc[r] \in InsideLock /\ pc[r] # "removing" /\ pc'[r] = "working"
        /\ pc' \in [Runs -> PCs] /\ seen' = [s \in Runs |-> seen'[s]]
        /\ \A s \in Runs \ {r} : pc'[s] = pc[s] /\ seen'[s] = seen[s]
    BY <1>1, <1>9 DEF ToolCompleteWrite, InsideLock, ItemsAreLists, PCs
  <2>2. CASE UNCHANGED items
    <3>1. Still(r)
      BY <2>1, <2>2 DEF Still
    <3> QED
      BY <3>1, StillKeepsClean
  <2>3. CASE \E u \in seen[r] \cap UidsOf(ListOf[r]) : Complete(ListOf[r], u)
    <3>1. Touches(ListOf[r], r)
      BY <1>1, <2>3, CompleteTouches
    <3>2. \A s \in Runs \ {r} : Clean(s)'
      BY <1>1, <2>1, <3>1, TouchKeepsClean
    <3>3. \A u \in UidsOf(ListOf[r]) : items[ListOf[r]][u].by \in {r, User}
      BY <2>1 DEF CleanInv, Clean
    <3>4. \A u \in UidsOf(ListOf[r])' : items'[ListOf[r]][u].by \in {r, User}
      BY <3>1, <3>3 DEF Touches
    <3>5. Clean(r)'
      BY <2>1, <3>4 DEF Clean
    <3> QED
      BY <2>1, <3>1, <3>2, <3>5 DEF CleanInv, ItemsAreLists, Touches
  <2> QED
    BY <1>9, <2>2, <2>3 DEF ToolCompleteWrite
<1>10. ASSUME NEW l \in Shared, UserEdit(l) PROVE CleanInv'
  <2>1. l \in Lists /\ pc' = pc /\ seen' = seen
    BY <1>10, TodoAssumption DEF UserEdit
  <2>2. Touches(l, User)
    BY <1>1, <1>10, <2>1, AddTouches, RemoveTouches, CompleteTouches DEF UserEdit
  <2>3. \A s \in Runs : Clean(s)'
    BY <1>1, <2>1, <2>2, TouchKeepsClean
  <2> QED
    BY <1>1, <2>1, <2>2, <2>3 DEF CleanInv, ItemsAreLists, Touches
<1>11. CASE UNCHANGED vars
  BY <1>11 DEF vars, world, CleanInv, ItemsAreLists, Clean, UidsOf
<1> QED
  BY <1>2, <1>3, <1>4, <1>5, <1>6, <1>7, <1>8, <1>9, <1>10, <1>11 DEF Next, Progress, Answered, Calls

LEMMA CleanInvAlways == Spec => []CleanInv
<1>1. Init => CleanInv
  BY TodoAssumption DEF Init, CleanInv, ItemsAreLists, Clean, UidsOf, PCs, Item, Working
<1> QED
  BY <1>1, CleanStep, RunsExcludeEachOther, PTL DEF Spec

\* A run never works among the items another run left behind (prepare_run), even when that
\* one failed half way, or a user edits the list during the clearing.
THEOREM ItemsAreOwn == Spec => []NoForeignItems
<1>1. CleanInv => NoForeignItems
  BY DEF CleanInv, Clean, NoForeignItems, Working
<1> QED
  BY <1>1, CleanInvAlways, PTL

-----------------------------------------------------------------------------
(* Which items a run was shown.                                            *)

\* A run that works on its list was shown the items of users in it, unless one of them
\* edited the list since.
Explains(r) ==
  pc[r] \in Working /\ ListOf[r] \notin touched =>
    \A u \in UidsOf(ListOf[r]) : items[ListOf[r]][u].by = User => u \in prompt[r]

PromptInv ==
  /\ ItemsAreLists
  /\ prompt = [r \in Runs |-> prompt[r]]
  /\ \A r \in Runs : Explains(r)

\* What a run does to its list, and a user to any list, needs no explanation to the runs
\* that go on.
LEMMA TouchKeepsExplained ==
  ASSUME PromptInv, OneRunPerList, NEW l \in Lists, NEW who, Touches(l, who),
         \/ who = User /\ l \in touched'
         \/ who \in Runs /\ ListOf[who] = l /\ pc[who] \in InsideLock,
         touched \subseteq touched',
         NEW r \in Runs, prompt'[r] = prompt[r], pc'[r] \in Working => pc[r] \in Working
  PROVE  Explains(r)'
<1>1. ListOf[r] \in Lists
  BY TodoAssumption
<1>2. SUFFICES ASSUME pc'[r] \in Working, ListOf[r] \notin touched', NEW u \in UidsOf(ListOf[r])',
                      items'[ListOf[r]][u].by = User
               PROVE  u \in prompt[r]
  BY DEF Explains
<1>3. pc[r] \in InsideLock /\ ListOf[r] \notin touched
  BY <1>2 DEF Working, InsideLock
<1>4. \A v \in UidsOf(ListOf[r]) : items[ListOf[r]][v].by = User => v \in prompt[r]
  BY <1>2, <1>3 DEF PromptInv, Explains
<1>5. CASE ListOf[r] # l
  BY <1>1, <1>2, <1>4, <1>5 DEF Touches, UidsOf
<1>6. CASE ListOf[r] = l
  <2>1. who = r /\ who # User
    BY <1>2, <1>3, <1>6, TodoAssumption DEF OneRunPerList
  <2> QED
    BY <1>2, <1>4, <1>6, <2>1 DEF Touches
<1> QED
  BY <1>5, <1>6

\* Nobody touches a list, and at most one run goes on: it stops, works on as it did, or
\* reads the whole list into its instructions.
Shown(r) ==
  /\ items' = items
  /\ \A s \in Runs \ {r} : pc'[s] = pc[s] /\ prompt'[s] = prompt[s]
  /\ \/ pc'[r] \notin Working /\ touched' = touched
     \/ pc[r] \in Working /\ prompt'[r] = prompt[r] /\ touched' = touched
     \/ /\ pc[r] \in InsideLock /\ prompt'[r] = UidsOf(ListOf[r])
        /\ touched' = touched \ {ListOf[r]}

LEMMA ShownKeepsExplained ==
  ASSUME PromptInv, OneRunPerList, NEW r \in Runs, Shown(r), NEW s \in Runs
  PROVE  Explains(s)'
<1>1. UidsOf(ListOf[s])' = UidsOf(ListOf[s]) /\ items' = items
  BY DEF Shown, UidsOf
<1>2. CASE s = r
  BY <1>1, <1>2 DEF PromptInv, Explains, Shown
<1>3. CASE s # r /\ touched' = touched
  BY <1>1, <1>3 DEF PromptInv, Explains, Shown
<1>4. CASE s # r /\ touched' = touched \ {ListOf[r]} /\ pc[r] \in InsideLock
  <2>1. pc'[s] = pc[s] /\ prompt'[s] = prompt[s]
    BY <1>4 DEF Shown
  <2>2. pc[s] \in Working => ListOf[s] # ListOf[r]
    BY <1>4 DEF OneRunPerList, Working, InsideLock
  <2> QED
    BY <1>1, <1>4, <2>1, <2>2 DEF PromptInv, Explains
<1> QED
  BY <1>2, <1>3, <1>4 DEF Shown

LEMMA PromptStep ==
  ASSUME PromptInv, ItemsAreLists', OneRunPerList, [Next]_vars
  PROVE  PromptInv'
<1>1. /\ ItemsAreLists /\ prompt = [r \in Runs |-> prompt[r]] /\ pc \in [Runs -> PCs]
      /\ \A r \in Runs : ListOf[r] \in Lists
  BY TodoAssumption DEF PromptInv, ItemsAreLists
<1>2. prompt' = [r \in Runs |-> prompt'[r]]
  BY <1>1 DEF Next, Progress, Answered, UserEdit, Start, Acquire, GetItems, RemoveItems, ReadInitialState,
         ToolAdd, ToolRemove, ToolCompleteRead, ToolCompleteWrite, ToolCalls, CallReturns,
         ServiceAnswers, FallBack, EndRun, Finalize, ReleaseLock, vars
<1> SUFFICES ASSUME NEW s \in Runs PROVE Explains(s)'
  BY <1>2 DEF PromptInv
<1> USE DEF Goto, Working
<1>3. ASSUME NEW r \in Runs,
             \/ Start(r) \/ Acquire(r) \/ GetItems(r) \/ ReadInitialState(r) \/ EndRun(r) \/ Finalize(r)
             \/ ToolCompleteRead(r) \/ Calls(r) \/ FallBack(r)
             \/ RemoveItems(r) /\ ReleaseLock(r) /\ UNCHANGED world
      PROVE  Explains(s)'
  <2>1. CASE ReleaseLock(r) /\ UNCHANGED world
    BY <1>1, <2>1, ShownKeepsExplained DEF ReleaseLock, Shown, world
  <2>2. CASE Start(r) \/ Acquire(r) \/ Finalize(r) \/ ToolCompleteRead(r) \/ Calls(r) \/ FallBack(r)
    <3>1. Shown(r)
      BY <1>1, <2>2 DEF Start, Acquire, Finalize, ToolCompleteRead, ToolCalls, CallReturns, ServiceAnswers,
           Calls, FallBack, Shown, world
    <3> QED
      BY <3>1, ShownKeepsExplained
  <2>3. CASE GetItems(r) /\ ~(ReleaseLock(r) /\ UNCHANGED world)
    <3>1. Shown(r)
      BY <1>1, <2>3 DEF GetItems, Shown, world
    <3> QED
      BY <3>1, ShownKeepsExplained
  <2>4. CASE ReadInitialState(r) /\ ~(ReleaseLock(r) /\ UNCHANGED world)
    <3>1. Shown(r)
      BY <1>1, <2>4 DEF ReadInitialState, Shown, world, InsideLock
    <3> QED
      BY <3>1, ShownKeepsExplained
  <2> QED
    BY <1>3, <2>1, <2>2, <2>3, <2>4 DEF EndRun
<1>4. ASSUME NEW r \in Runs,
             (RemoveItems(r) /\ ~(ReleaseLock(r) /\ UNCHANGED world)) \/ ToolAdd(r) \/ ToolRemove(r)
      PROVE  Explains(s)'
  <2>1. /\ pc[r] \in InsideLock /\ touched' = touched /\ prompt' = prompt
        /\ (pc' = pc \/ pc' = [pc EXCEPT ![r] = "reading"])
    BY <1>4 DEF RemoveItems, ToolAdd, ToolRemove, InsideLock
  <2>2. Touches(ListOf[r], r)
    BY <1>1, <1>4, AddTouches, RemoveTouches DEF RemoveItems, ToolAdd, ToolRemove
  <2>3. pc'[s] \in Working => pc[s] \in Working
    BY <1>1, <2>1
  <2> QED
    BY <1>1, <2>1, <2>2, <2>3, TouchKeepsExplained
<1>5. ASSUME NEW r \in Runs, ToolCompleteWrite(r) PROVE Explains(s)'
  <2>1. /\ pc[r] \in Working /\ pc[r] \in InsideLock /\ touched' = touched /\ prompt' = prompt
        /\ pc' = [pc EXCEPT ![r] = "working"]
    BY <1>5 DEF ToolCompleteWrite, InsideLock
  <2>2. CASE UNCHANGED items
    <3>1. Shown(r)
      BY <1>1, <2>1, <2>2 DEF Shown
    <3> QED
      BY <3>1, ShownKeepsExplained
  <2>3. CASE \E u \in seen[r] \cap UidsOf(ListOf[r]) : Complete(ListOf[r], u)
    <3>1. Touches(ListOf[r], r)
      BY <1>1, <2>3, CompleteTouches
    <3>2. pc'[s] \in Working => pc[s] \in Working
      BY <1>1, <2>1
    <3> QED
      BY <1>1, <2>1, <3>1, <3>2, TouchKeepsExplained
  <2> QED
    BY <1>5, <2>2, <2>3 DEF ToolCompleteWrite
<1>6. ASSUME NEW l \in Shared, UserEdit(l) PROVE Explains(s)'
  <2>1. l \in Lists /\ pc' = pc /\ prompt' = prompt /\ touched' = touched \cup {l}
    BY <1>6, TodoAssumption DEF UserEdit
  <2>2. Touches(l, User)
    BY <1>1, <1>6, <2>1, AddTouches, RemoveTouches, CompleteTouches DEF UserEdit
  <2> QED
    BY <2>1, <2>2, TouchKeepsExplained
<1>7. CASE UNCHANGED vars
  BY <1>7 DEF vars, world, PromptInv, Explains, UidsOf
<1> QED
  BY <1>3, <1>4, <1>5, <1>6, <1>7 DEF Next, Progress, Answered, Calls, RemoveItems

\* What is not its own, a run was shown (todo_workspace.read_initial_state), unless a user put
\* it there later.
THEOREM PromptsExplain == Spec => []PromptExplainsItems
<1>1. Init => PromptInv
  BY TodoAssumption DEF Init, PromptInv, ItemsAreLists, Explains, UidsOf, PCs, Item, Working
<1>2. PromptInv => PromptExplainsItems
  BY DEF PromptInv, Explains, PromptExplainsItems, Working
<1>3. CleanInv => ItemsAreLists
  BY DEF CleanInv
<1> QED
  BY <1>1, <1>2, <1>3, CleanInvAlways, PromptStep, RunsExcludeEachOther, PTL DEF Spec
=============================================================================
