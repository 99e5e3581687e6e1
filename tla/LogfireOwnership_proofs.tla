----------------------- MODULE LogfireOwnership_proofs -----------------------
(***************************************************************************)
(* Proofs about LogfireOwnership, for any number of entries and tokens and *)
(* any order of the entries.                                               *)
(***************************************************************************)
EXTENDS LogfireOwnership, FiniteSetTheorems, TLAPS

-----------------------------------------------------------------------------
(* The lock's queue.                                                       *)

Waits(q, x) == \E i \in 1..Len(q) : q[i] = x
Ahead(q, x, y) == \A i, j \in 1..Len(q) : q[i] = x /\ q[j] = y => i < j
OneEach(q) == \A i, j \in 1..Len(q) : q[i] = q[j] => i = j

\* A task that comes is behind all that wait.
LEMMA EnqueueFact ==
  ASSUME NEW q \in Seq(Entries), NEW e \in Entries, OneEach(q), ~Waits(q, e)
  PROVE  /\ Append(q, e) \in Seq(Entries) /\ OneEach(Append(q, e))
         /\ \A x : Waits(Append(q, e), x) <=> Waits(q, x) \/ x = e
         /\ \A x, y : x # e /\ Ahead(q, x, y) => Ahead(Append(q, e), x, y)
         /\ \A x : x # e => Ahead(Append(q, e), x, e)
         /\ q # <<>> => Append(q, e) # <<>> /\ Head(Append(q, e)) = Head(q)
<1> DEFINE p == Append(q, e)
<1>1. p \in Seq(Entries) /\ Len(p) = Len(q) + 1 /\ Len(q) \in Nat
  OBVIOUS
<1>2. \A i \in 1..Len(q) : p[i] = q[i]
  OBVIOUS
<1>3. p[Len(q) + 1] = e
  OBVIOUS
<1>4. q # <<>> => p # <<>> /\ Head(p) = Head(q)
  OBVIOUS
<1> HIDE DEF p
<1>5. \A i \in 1..Len(p) : i \in 1..Len(q) \/ i = Len(q) + 1
  BY <1>1
<1>6. \A x : Waits(p, x) <=> Waits(q, x) \/ x = e
  BY <1>1, <1>2, <1>3, <1>5 DEF Waits
<1>7. OneEach(p)
  BY <1>1, <1>2, <1>3, <1>5 DEF OneEach, Waits
<1>8. \A x, y : x # e /\ Ahead(q, x, y) => Ahead(p, x, y)
  BY <1>1, <1>2, <1>3, <1>5 DEF Ahead, Waits
<1>9. \A x : x # e => Ahead(p, x, e)
  BY <1>1, <1>2, <1>3, <1>5 DEF Ahead, Waits
<1> QED
  BY <1>1, <1>4, <1>6, <1>7, <1>8, <1>9 DEF p

\* The task that leaves was at the head, the others keep their order.
LEMMA DequeueFact ==
  ASSUME NEW q \in Seq(Entries), q # <<>>, OneEach(q)
  PROVE  /\ Tail(q) \in Seq(Entries) /\ OneEach(Tail(q))
         /\ \A x : Waits(Tail(q), x) <=> Waits(q, x) /\ x # Head(q)
         /\ \A x, y : Ahead(q, x, y) => Ahead(Tail(q), x, y)
<1> DEFINE p == Tail(q)
<1>1. p \in Seq(Entries) /\ Len(p) = Len(q) - 1 /\ Len(q) \in Nat /\ Len(q) > 0
  OBVIOUS
<1>2. \A i \in 1..Len(p) : p[i] = q[i + 1]
  OBVIOUS
<1>3. Head(q) = q[1]
  OBVIOUS
<1> HIDE DEF p
<1>4. \A i \in 1..Len(p) : i + 1 \in 1..Len(q)
  BY <1>1
<1>5. \A i \in 1..Len(q) : i = 1 \/ (i - 1 \in 1..Len(p) /\ p[i - 1] = q[i])
  BY <1>1, <1>2
<1>6. OneEach(p)
  <2> SUFFICES ASSUME NEW i \in 1..Len(p), NEW j \in 1..Len(p), p[i] = p[j] PROVE i = j
    BY DEF OneEach
  <2>1. i + 1 = j + 1
    BY <1>2, <1>4 DEF OneEach
  <2> QED
    BY <2>1, <1>1
<1>7. ASSUME NEW x PROVE Waits(p, x) <=> Waits(q, x) /\ x # Head(q)
  <2>1. ASSUME NEW i \in 1..Len(p), p[i] = x PROVE Waits(q, x) /\ x # Head(q)
    <3>1. i + 1 \in 1..Len(q) /\ q[i + 1] = x /\ i + 1 # 1 /\ 1 \in 1..Len(q)
      BY <1>1, <1>2, <1>4, <2>1
    <3> QED
      BY <1>3, <3>1 DEF OneEach, Waits
  <2>2. ASSUME NEW i \in 1..Len(q), q[i] = x, x # Head(q) PROVE Waits(p, x)
    BY <1>3, <1>5, <2>2 DEF Waits
  <2> QED
    BY <2>1, <2>2 DEF Waits
<1>8. ASSUME NEW x, NEW y, Ahead(q, x, y) PROVE Ahead(p, x, y)
  <2> SUFFICES ASSUME NEW i \in 1..Len(p), NEW j \in 1..Len(p), p[i] = x, p[j] = y PROVE i < j
    BY DEF Ahead
  <2>1. i + 1 < j + 1
    BY <1>2, <1>4, <1>8 DEF Ahead
  <2> QED
    BY <2>1, <1>1
<1> QED
  BY <1>1, <1>6, <1>7, <1>8 DEF p

\* Who is behind somebody is not at the head.
LEMMA BehindIsNotHead ==
  ASSUME NEW q \in Seq(Entries), NEW x, NEW y, Waits(q, x), Ahead(q, x, y), q # <<>>
  PROVE  Head(q) # y
<1>1. Len(q) \in Nat /\ 1 \in 1..Len(q) /\ Head(q) = q[1]
  OBVIOUS
<1>2. PICK i \in 1..Len(q) : q[i] = x
  BY DEF Waits
<1> QED
  BY <1>1, <1>2 DEF Ahead
-----------------------------------------------------------------------------
(* The invariant.                                                          *)

Busy == {"setup1", "setup2", "failing", "releasing", "removing"}
Leaving == {"failing", "releasing", "removing"}
Configuring == {"configure", "executing"}

Types ==
  /\ token \in [Entries -> Tokens \cup {NoToken}]
  /\ edited \subseteq Entries
  /\ configured \in Tokens \cup {NoToken}
  /\ owners \subseteq Entries
  /\ queue \in Seq(Entries)
  /\ stage \in [Entries -> Stages]
  /\ inner \in [Entries -> {"none", "configure", "executing", "release"}]
  /\ cursor \in [Entries -> 0..Len(EntryOrder)]
  /\ key \in [Entries -> Tokens \cup {NoToken}]

\* A lifecycle task waits for the lock exactly while it is in a Logfire call; what it is
\* to configure it read from an entry that has this token or was edited since; only its
\* own release empties the owners of a promoted token.
TaskOK(e) ==
  /\ inner[e] # "none" <=> stage[e] \in Busy
  /\ inner[e] # "none" <=> Waits(queue, e)
  /\ cursor[e] # 0 => inner[e] \in Configuring /\ Target(e) # e
  /\ stage[e] \in Leaving => inner[e] = "release" \/ cursor[e] # 0
  /\ inner[e] \in Configuring =>
       key[e] # NoToken /\ (token[Target(e)] = key[e] \/ Target(e) \in edited)
  /\ inner[e] = "executing" => Holds(e) /\ configured = NoToken /\ owners = {}

\* A candidate of a promotion was loaded when it was chosen: it may have begun to unload,
\* but then its release waits behind the task that promotes it.
CandidateOK(e) ==
  cursor[e] # 0 =>
    /\ stage[Target(e)] \in {"loaded", "unloading", "failed_unload", "releasing", "removing"}
    /\ stage[Target(e)] \in Leaving =>
         inner[Target(e)] = "release" /\ Ahead(queue, e, Target(e))

OwnerOK(e) ==
  e \in owners =>
    /\ token[e] = configured \/ e \in edited
    /\ stage[e] \notin {"not_loaded", "removed"}
    /\ stage[e] \in Leaving => cursor[e] = 0

OwnerInv ==
  /\ Types
  /\ OneEach(queue)
  /\ configured = NoToken <=> owners = {}
  /\ \A e \in Entries : TaskOK(e) /\ CandidateOK(e) /\ OwnerOK(e)

LEMMA OwnerInvInit == Init => OwnerInv
<1> SUFFICES ASSUME Init PROVE OwnerInv
  OBVIOUS
<1>1. Len(EntryOrder) \in Nat
  BY LogfireAssumption
<1>2. queue = <<>> /\ Len(queue) = 0 /\ queue \in Seq(Entries)
  BY DEF Init
<1>3. Types
  BY <1>1, <1>2, LogfireAssumption DEF Init, Types, Stages
<1>4. OneEach(queue) /\ \A e : ~Waits(queue, e)
  BY <1>2 DEF OneEach, Waits
<1>5. \A e \in Entries : TaskOK(e) /\ CandidateOK(e) /\ OwnerOK(e)
  BY <1>4 DEF Init, TaskOK, CandidateOK, OwnerOK, Busy, Leaving, Configuring
<1> QED
  BY <1>3, <1>4, <1>5 DEF OwnerInv, Init

\* A target is an entry.
LEMMA TargetIsEntry ==
  ASSUME Types, NEW e \in Entries
  PROVE  /\ Target(e) \in Entries
         /\ cursor[e] # 0 => cursor[e] \in DOMAIN EntryOrder /\ Target(e) = EntryOrder[cursor[e]]
BY LogfireAssumption DEF Types, Target

-----------------------------------------------------------------------------
(* Steps outside the lock.                                                 *)

Unshared == UNCHANGED <<configured, owners>>

\* A task starts a Logfire call for its own entry.
Comes(e) ==
  /\ queue' = Append(queue, e)
  /\ cursor' = cursor
  /\ Unshared
  /\ token' = token
  /\ \/ /\ stage[e] \in {"not_loaded", "platforms"}
        /\ stage' = [stage EXCEPT ![e] = IF stage[e] = "not_loaded" THEN "setup1" ELSE "setup2"]
        /\ edited' = IF stage[e] = "not_loaded" THEN edited \ {e} ELSE edited
        /\ key' = [key EXCEPT ![e] = token[e]]
        /\ inner' = [inner EXCEPT ![e] = IF token[e] = NoToken THEN "release" ELSE "configure"]
     \/ /\ stage[e] \in {"platforms", "unloading", "not_loaded", "failed_unload"}
        /\ \E s \in Leaving : stage' = [stage EXCEPT ![e] = s] /\ (s = "failing" => stage[e] = "platforms")
        /\ UNCHANGED <<edited, key>>
        /\ inner' = [inner EXCEPT ![e] = "release"]

\* Only the stage moves, or the token.
Moves(e) ==
  /\ UNCHANGED <<queue, cursor, edited, key, inner, token>> /\ Unshared
  /\ \/ stage[e] = "loaded" /\ stage' = [stage EXCEPT ![e] = "unloading"]
     \/ stage[e] = "unloading" /\ stage' = [stage EXCEPT ![e] = "failed_unload"]
Edits(e) ==
  /\ UNCHANGED <<queue, cursor, key, inner, stage>> /\ Unshared
  /\ edited' = edited \cup {e}
  /\ \E t \in Tokens \cup {NoToken} : token' = [token EXCEPT ![e] = t]

LEMMA OutsideShape ==
  ASSUME NEW e \in Entries,
         BeginSetup(e) \/ SetupPlatforms(e) \/ BeginUnload(e) \/ UnloadPlatforms(e)
           \/ BeginRemove(e) \/ EditToken(e)
  PROVE  Comes(e) \/ Moves(e) \/ Edits(e)
<1> USE DEF shared, Unshared
<1>1. CASE BeginSetup(e)
  BY <1>1 DEF BeginSetup, Move, StartConfigure, Comes
<1>2. CASE SetupPlatforms(e)
  BY <1>2 DEF SetupPlatforms, Move, StartConfigure, StartRelease, Comes, Leaving
<1>3. CASE BeginUnload(e)
  BY <1>3 DEF BeginUnload, Loaded, Move, Moves
<1>4. CASE UnloadPlatforms(e)
  BY <1>4 DEF UnloadPlatforms, Move, StartRelease, Comes, Moves, Leaving
<1>5. CASE BeginRemove(e)
  BY <1>5 DEF BeginRemove, Move, StartRelease, Comes, Leaving
<1>6. CASE EditToken(e)
  BY <1>6 DEF EditToken, Edits, local
<1> QED
  BY <1>1, <1>2, <1>3, <1>4, <1>5, <1>6

\* Who comes is nobody's promotion in progress, except by an unload.
LEMMA ComesKeepsInv ==
  ASSUME OwnerInv, NEW e \in Entries, Comes(e)
  PROVE  OwnerInv'
<1> USE DEF Busy, Leaving, Configuring
<1>1. Types /\ OneEach(queue) /\ \A x \in Entries : TaskOK(x) /\ CandidateOK(x) /\ OwnerOK(x)
  BY DEF OwnerInv
<1>2. stage[e] \notin Busy /\ inner[e] = "none" /\ cursor[e] = 0 /\ ~Waits(queue, e)
  BY <1>1 DEF Comes, TaskOK
<1>3. /\ queue' \in Seq(Entries) /\ OneEach(queue')
      /\ \A x : Waits(queue', x) <=> Waits(queue, x) \/ x = e
      /\ \A x, y : x # e /\ Ahead(queue, x, y) => Ahead(queue', x, y)
      /\ \A x : x # e => Ahead(queue', x, e)
      /\ queue # <<>> => queue' # <<>> /\ Head(queue') = Head(queue)
  BY <1>1, <1>2, EnqueueFact DEF Comes, Types
<1>4. Types'
  BY <1>1, <1>3 DEF Comes, Unshared, Types, Stages
<1>5. \A x \in Entries : Target(x)' = Target(x) /\ Target(x) \in Entries /\ cursor'[x] = cursor[x]
  BY <1>1, TargetIsEntry DEF Comes, Target
<1>6. \A x \in Entries \ {e} : stage'[x] = stage[x] /\ inner'[x] = inner[x] /\ key'[x] = key[x]
  BY <1>1 DEF Comes, Types
<1>7. token' = token /\ configured' = configured /\ owners' = owners
  BY DEF Comes, Unshared
<1>8. /\ stage'[e] \in Busy /\ stage'[e] \notin {"not_loaded", "removed"}
      /\ stage'[e] \in Leaving => inner'[e] = "release"
      /\ inner'[e] \in {"configure", "release"}
      /\ inner'[e] = "configure" => key'[e] = token[e] /\ token[e] # NoToken
  BY <1>1 DEF Comes, Types
<1>9. edited' = edited \/ (stage[e] = "not_loaded" /\ edited' = edited \ {e})
  BY DEF Comes
<1>10. \A x \in Entries : cursor[x] # 0 /\ Target(x) = e => stage[e] \in {"unloading", "failed_unload"}
  BY <1>1, <1>2 DEF CandidateOK, Comes
<1>11. ASSUME NEW x \in Entries PROVE TaskOK(x)'
  <2>1. CASE x = e
    BY <1>2, <1>3, <1>5, <1>7, <1>8, <2>1 DEF TaskOK, Target
  <2>2. CASE x # e
    <3>1. TaskOK(x)
      BY <1>1
    <3>2. inner[x] \in Configuring => Target(x) # e \/ stage[e] # "not_loaded"
      BY <1>5, <1>10, <2>2 DEF Target
    <3>3. Holds(x) => Holds(x)'
      BY <1>3 DEF Holds
    <3> QED
      BY <1>3, <1>5, <1>6, <1>7, <1>9, <2>2, <3>1, <3>2, <3>3 DEF TaskOK
  <2> QED
    BY <2>1, <2>2
<1>12. ASSUME NEW x \in Entries PROVE CandidateOK(x)'
  <2> SUFFICES ASSUME cursor[x] # 0 PROVE CandidateOK(x)'
    BY <1>5 DEF CandidateOK
  <2>1. x # e /\ CandidateOK(x)
    BY <1>1, <1>2
  <2>2. CASE Target(x) = e
    <3>1. stage'[e] \in {"releasing", "removing"}
      BY <1>1, <1>10, <2>2 DEF Comes, Types
    <3> QED
      BY <1>3, <1>5, <1>8, <2>1, <2>2, <3>1 DEF CandidateOK
  <2>3. CASE Target(x) # e
    BY <1>3, <1>5, <1>6, <2>1, <2>3 DEF CandidateOK
  <2> QED
    BY <2>2, <2>3
<1>13. ASSUME NEW x \in Entries PROVE OwnerOK(x)'
  <2>1. OwnerOK(x)
    BY <1>1
  <2>2. CASE x = e
    BY <1>2, <1>5, <1>7, <1>8, <1>9, <2>1, <2>2 DEF OwnerOK
  <2>3. CASE x # e
    BY <1>5, <1>6, <1>7, <1>9, <2>1, <2>3 DEF OwnerOK
  <2> QED
    BY <2>2, <2>3
<1> QED
  BY <1>3, <1>4, <1>7, <1>11, <1>12, <1>13 DEF OwnerInv

LEMMA MovesKeepInv ==
  ASSUME OwnerInv, NEW e \in Entries, Moves(e) \/ Edits(e)
  PROVE  OwnerInv'
<1> USE DEF Busy, Leaving, Configuring
<1>1. Types /\ OneEach(queue) /\ \A x \in Entries : TaskOK(x) /\ CandidateOK(x) /\ OwnerOK(x)
  BY DEF OwnerInv
<1>2. UNCHANGED <<queue, cursor, key, inner, configured, owners>>
  BY DEF Moves, Edits, Unshared
<1>3. \A x \in Entries : Target(x)' = Target(x) /\ Target(x) \in Entries
  BY <1>1, <1>2, TargetIsEntry DEF Target
<1>4. \A x \in Entries :
        \/ stage'[x] = stage[x]
        \/ stage[x] = "loaded" /\ stage'[x] = "unloading"
        \/ stage[x] = "unloading" /\ stage'[x] = "failed_unload"
  BY <1>1 DEF Moves, Edits, Types
<1>5. edited \subseteq edited' /\ \A x \in Entries : token'[x] = token[x] \/ x \in edited'
  BY <1>1 DEF Moves, Edits, Types
<1>6. Types'
  BY <1>1, <1>2 DEF Moves, Edits, Types, Stages
<1>7. \A x \in Entries : TaskOK(x)'
  BY <1>1, <1>2, <1>3, <1>4, <1>5 DEF TaskOK, Holds
<1>8. \A x \in Entries : CandidateOK(x)'
  BY <1>1, <1>2, <1>3, <1>4 DEF CandidateOK
<1>9. \A x \in Entries : OwnerOK(x)'
  BY <1>1, <1>2, <1>4, <1>5 DEF OwnerOK
<1> QED
  BY <1>2, <1>6, <1>7, <1>8, <1>9 DEF OwnerInv
-----------------------------------------------------------------------------
(* Steps under the lock.                                                   *)

\* The task gives the lock up and goes back to its lifecycle,
Leaves(e) ==
  /\ queue' = Tail(queue)
  /\ stage' = [stage EXCEPT ![e] = CASE stage[e] = "setup1" -> "platforms"
                                     [] stage[e] = "setup2" -> "loaded"
                                     [] stage[e] = "removing" -> "removed"
                                     [] OTHER -> "not_loaded"]
  /\ inner' = [inner EXCEPT ![e] = "none"]
  /\ cursor' = [cursor EXCEPT ![e] = 0]
  /\ key' = [key EXCEPT ![e] = NoToken]

\* or comes again for a loaded candidate.
Promotes(e) ==
  /\ inner[e] = "release" \/ cursor[e] # 0
  /\ stage' = stage
  /\ queue' = Append(Tail(queue), e)
  /\ inner' = [inner EXCEPT ![e] = "configure"]
  /\ \E j \in DOMAIN EntryOrder :
       /\ EntryOrder[j] # e /\ Loaded(EntryOrder[j]) /\ token[EntryOrder[j]] # NoToken
       /\ cursor' = [cursor EXCEPT ![e] = j]
       /\ key' = [key EXCEPT ![e] = token[EntryOrder[j]]]

Claims(e) ==
  /\ inner[e] \in Configuring
  /\ configured' = key[e] /\ owners' = owners \cup {Target(e)}
  /\ inner[e] = "configure" => configured = key[e]
Refused(e) == inner[e] \in Configuring /\ Unshared
Releases(e) ==
  /\ inner[e] = "release"
  /\ owners' = owners \ {e}
  /\ configured' = IF owners \ {e} = {} THEN NoToken ELSE configured

Executes(e) ==
  /\ inner[e] = "configure" /\ (configured = NoToken \/ owners = {})
  /\ configured' = NoToken
  /\ inner' = [inner EXCEPT ![e] = "executing"]
  /\ UNCHANGED <<owners, queue, stage, cursor, key>>

LEMMA PromoteShape ==
  ASSUME NEW e \in Entries, NEW i, NEW winner, NEW conflicting,
         inner[e] = "release" \/ cursor[e] # 0, Promote(e, i, winner, conflicting)
  PROVE  Leaves(e) \/ Promotes(e)
BY DEF Promote, Return, Leaves, Promotes

LEMMA LeaveShape ==
  ASSUME NEW e \in Entries, NEW conf, NEW own, NEW conflicting, NEW ok,
         Leave(e, conf, own, conflicting, ok)
  PROVE  /\ UNCHANGED <<token, edited>> /\ configured' = conf /\ owners' = own
         /\ Leaves(e) \/ Promotes(e)
<1>1. CASE cursor[e] = 0
  BY <1>1 DEF Leave, Return, Leaves
<1>2. CASE cursor[e] # 0
  BY <1>2, PromoteShape DEF Leave
<1> QED
  BY <1>1, <1>2 DEF Leave

LEMMA LockShape ==
  ASSUME NEW e \in Entries, Configure(e) \/ Executed(e) \/ Release(e)
  PROVE  /\ Holds(e) /\ UNCHANGED <<token, edited>>
         /\ \/ Executes(e)
            \/ (Claims(e) \/ Refused(e) \/ Releases(e)) /\ (Leaves(e) \/ Promotes(e))
<1>1. CASE Configure(e)
  <2>1. CASE configured = NoToken \/ owners = {}
    BY <1>1, <2>1 DEF Configure, Executes
  <2>2. CASE ~(configured = NoToken \/ owners = {})
    <3>1. CASE key[e] = configured /\ Claim(e)
      BY <1>1, <3>1, LeaveShape DEF Configure, Claim, Claims, Configuring
    <3>2. CASE Leave(e, configured, owners, CreateTokenConflictIssue(conflicts, Target(e)), FALSE)
      BY <1>1, <3>2, LeaveShape DEF Configure, Refused, Configuring, Unshared
    <3> QED
      BY <1>1, <2>2, <3>1, <3>2 DEF Configure
  <2> QED
    BY <2>1, <2>2
<1>2. CASE Executed(e)
  <2>1. CASE Claim(e)
    BY <1>2, <2>1, LeaveShape DEF Executed, Claim, Claims, Configuring
  <2>2. CASE Leave(e, configured, owners, conflicts, FALSE)
    BY <1>2, <2>2, LeaveShape DEF Executed, Refused, Configuring, Unshared
  <2> QED
    BY <1>2, <2>1, <2>2 DEF Executed
<1>3. CASE Release(e)
  <2>1. CASE owners \ {e} # {}
    BY <1>3, <2>1 DEF Release, Releases, Return, Leaves
  <2>2. CASE owners \ {e} = {}
    BY <1>3, <2>2, PromoteShape DEF Release, Releases
  <2> QED
    BY <2>1, <2>2
<1> QED
  BY <1>1, <1>2, <1>3

\* What becomes of the token and its owners.
LEMMA LockOwners ==
  ASSUME OwnerInv, NEW e \in Entries, Holds(e), UNCHANGED <<token, edited>>,
         Claims(e) \/ Refused(e) \/ Releases(e)
  PROVE  /\ owners' \subseteq Entries /\ configured' \in Tokens \cup {NoToken}
         /\ configured' = NoToken <=> owners' = {}
         /\ \A x \in owners' : token[x] = configured' \/ x \in edited
         /\ \A x \in owners' : x \in owners \/ (inner[e] \in Configuring /\ x = Target(e))
         /\ inner[e] = "release" => e \notin owners'
<1>1. Types /\ TaskOK(e) /\ (configured = NoToken <=> owners = {}) /\ \A x \in Entries : OwnerOK(x)
  BY DEF OwnerInv
<1>2. Target(e) \in Entries
  BY <1>1, TargetIsEntry
<1>3. CASE Claims(e)
  <2>1. key[e] # NoToken /\ (token[Target(e)] = key[e] \/ Target(e) \in edited)
    BY <1>1, <1>3 DEF Claims, TaskOK
  <2>2. inner[e] = "executing" => owners = {}
    BY <1>1 DEF TaskOK
  <2>3. key[e] \in Tokens \cup {NoToken}
    BY <1>1 DEF Types
  <2>4. \A x \in owners : token[x] = key[e] \/ x \in edited
    BY <1>1, <1>3, <2>2 DEF Claims, Configuring, OwnerOK, Types
  <2> QED
    BY <1>1, <1>2, <1>3, <2>1, <2>3, <2>4 DEF Claims, Configuring, Types
<1>4. CASE Refused(e)
  BY <1>1, <1>4 DEF Refused, Unshared, OwnerOK, Types, Configuring
<1>5. CASE Releases(e)
  BY <1>1, <1>5 DEF Releases, OwnerOK, Types
<1> QED
  BY <1>3, <1>4, <1>5

\* Nobody else is at the head, and nobody whose release waits is a candidate of it.
LEMMA HeadFacts ==
  ASSUME OwnerInv, NEW e \in Entries, Holds(e)
  PROVE  /\ Waits(queue, e) /\ queue # <<>>
         /\ \A x \in Entries \ {e} : inner[x] # "executing"
         /\ \A x \in Entries \ {e} : cursor[x] # 0 /\ Target(x) = e => stage[e] \notin Leaving
<1>1. Types /\ \A x \in Entries : TaskOK(x) /\ CandidateOK(x)
  BY DEF OwnerInv
<1>2. queue \in Seq(Entries) /\ queue # <<>> /\ Head(queue) = e /\ Head(queue) = queue[1] /\ 1 \in 1..Len(queue)
  BY <1>1 DEF Holds, Types
<1>3. Waits(queue, e)
  BY <1>2 DEF Waits
<1>4. \A x \in Entries \ {e} : inner[x] # "executing"
  BY <1>1, <1>2 DEF TaskOK, Holds
<1>5. ASSUME NEW x \in Entries \ {e}, cursor[x] # 0, Target(x) = e, stage[e] \in Leaving PROVE FALSE
  <2>1. Ahead(queue, x, e) /\ Waits(queue, x)
    BY <1>1, <1>5 DEF CandidateOK, TaskOK, Configuring
  <2> QED
    BY <1>2, <2>1, BehindIsNotHead
<1> QED
  BY <1>2, <1>3, <1>4, <1>5

LEMMA LeavesKeepsInv ==
  ASSUME OwnerInv, NEW e \in Entries, Holds(e), UNCHANGED <<token, edited>>,
         Claims(e) \/ Refused(e) \/ Releases(e), Leaves(e)
  PROVE  OwnerInv'
<1> USE DEF Busy, Leaving
<1>1. Types /\ OneEach(queue) /\ \A x \in Entries : TaskOK(x) /\ CandidateOK(x) /\ OwnerOK(x)
  BY DEF OwnerInv
<1>2. /\ Waits(queue, e) /\ queue # <<>> /\ Head(queue) = e
      /\ \A x \in Entries \ {e} : inner[x] # "executing"
      /\ \A x \in Entries \ {e} : cursor[x] # 0 /\ Target(x) = e => stage[e] \notin Leaving
  BY HeadFacts DEF Holds
<1>3. /\ queue' \in Seq(Entries) /\ OneEach(queue')
      /\ \A x : Waits(queue', x) <=> Waits(queue, x) /\ x # e
      /\ \A x, y : Ahead(queue, x, y) => Ahead(queue', x, y)
  BY <1>1, <1>2, DequeueFact DEF Leaves, Types
<1>4. \A x \in Entries \ {e} :
        /\ stage'[x] = stage[x] /\ inner'[x] = inner[x] /\ key'[x] = key[x] /\ cursor'[x] = cursor[x]
        /\ Target(x)' = Target(x)
  BY <1>1 DEF Leaves, Types, Target
<1>5. inner'[e] = "none" /\ cursor'[e] = 0 /\ stage'[e] \notin Busy
  BY <1>1 DEF Leaves, Types
<1>6. stage[e] \in Busy
  BY <1>1, <1>2 DEF TaskOK
<1>7. stage'[e] \in {"not_loaded", "removed"} => stage[e] \in Leaving
  BY <1>1, <1>6 DEF Leaves, Types
<1>8. stage[e] \in {"setup1", "setup2"} => stage'[e] \in {"platforms", "loaded"}
  BY <1>1 DEF Leaves, Types
<1>9. Types'
  <2>1. 0 \in 0..Len(EntryOrder) /\ stage' \in [Entries -> Stages]
    BY <1>1, LogfireAssumption DEF Leaves, Types, Stages
  <2> QED
    BY <1>1, <1>3, <2>1, LockOwners DEF Leaves, Types
<1>10. \A x \in Entries : Target(x) \in Entries
  BY <1>1, TargetIsEntry
<1>11. ASSUME NEW x \in Entries PROVE TaskOK(x)'
  <2>1. CASE x = e
    BY <1>3, <1>5, <2>1 DEF TaskOK, Configuring
  <2>2. CASE x # e
    BY <1>1, <1>2, <1>3, <1>4, <2>2 DEF TaskOK
  <2> QED
    BY <2>1, <2>2
<1>12. ASSUME NEW x \in Entries PROVE CandidateOK(x)'
  <2>1. CASE x = e
    BY <1>5, <2>1 DEF CandidateOK
  <2>2. CASE x # e /\ cursor[x] # 0 /\ Target(x) = e
    <3>1. stage[e] \in {"loaded", "unloading", "failed_unload"}
      BY <1>1, <1>2, <2>2 DEF CandidateOK
    <3> QED
      BY <1>6, <3>1
  <2>3. CASE x # e /\ (cursor[x] # 0 => Target(x) # e)
    BY <1>1, <1>3, <1>4, <1>10, <2>3 DEF CandidateOK
  <2> QED
    BY <2>1, <2>2, <2>3
<1>13. ASSUME NEW x \in Entries, x \in owners'
       PROVE  (stage'[x] \notin {"not_loaded", "removed"}) /\ (stage'[x] \in Leaving => cursor'[x] = 0)
  <2>1. x \in owners \/ (inner[e] \in Configuring /\ x = Target(e))
    BY <1>13, LockOwners
  <2>2. CASE x = e
    <3>1. stage[e] \notin Leaving
      <4>1. inner[e] # "release"
        BY <1>13, <2>2, LockOwners
      <4>2. stage[e] \in Leaving => cursor[e] # 0
        BY <1>1, <4>1 DEF TaskOK
      <4>3. cursor[e] # 0 => Target(e) # e
        BY <1>1 DEF TaskOK
      <4>4. e \in owners /\ stage[e] \in Leaving => cursor[e] = 0
        BY <1>1 DEF OwnerOK
      <4> QED
        BY <2>1, <2>2, <4>2, <4>3, <4>4
    <3> QED
      BY <1>5, <1>7, <2>2, <3>1
  <2>3. CASE x # e /\ x \in owners
    BY <1>1, <1>4, <2>3 DEF OwnerOK
  <2>4. CASE x # e /\ inner[e] \in Configuring /\ x = Target(e)
    <3>1. cursor[e] # 0
      BY <2>4 DEF Target
    <3>2. stage[x] \in Leaving => inner[x] = "release"
      BY <1>1, <2>4, <3>1 DEF CandidateOK
    <3>3. stage[x] \notin {"not_loaded", "removed"}
      BY <1>1, <2>4, <3>1 DEF CandidateOK
    <3>4. inner[x] = "release" => cursor[x] = 0
      BY <1>1 DEF TaskOK, Configuring
    <3> QED
      BY <1>4, <2>4, <3>2, <3>3, <3>4
  <2> QED
    BY <2>1, <2>2, <2>3, <2>4
<1>14. \A x \in Entries : OwnerOK(x)'
  BY <1>13, LockOwners DEF OwnerOK
<1> QED
  BY <1>3, <1>9, <1>11, <1>12, <1>14, LockOwners DEF OwnerInv

LEMMA PromotesKeepsInv ==
  ASSUME OwnerInv, NEW e \in Entries, Holds(e), UNCHANGED <<token, edited>>,
         Claims(e) \/ Refused(e) \/ Releases(e), Promotes(e)
  PROVE  OwnerInv'
<1> USE DEF Busy, Leaving
<1>1. Types /\ OneEach(queue) /\ \A x \in Entries : TaskOK(x) /\ CandidateOK(x) /\ OwnerOK(x)
  BY DEF OwnerInv
<1>2. /\ Waits(queue, e) /\ queue # <<>> /\ Head(queue) = e
      /\ \A x \in Entries \ {e} : inner[x] # "executing"
      /\ \A x \in Entries \ {e} : cursor[x] # 0 /\ Target(x) = e => stage[e] \notin Leaving
  BY HeadFacts DEF Holds
<1> DEFINE rest == Tail(queue)
<1>3. /\ rest \in Seq(Entries) /\ OneEach(rest)
      /\ \A x : Waits(rest, x) <=> Waits(queue, x) /\ x # e
      /\ \A x, y : Ahead(queue, x, y) => Ahead(rest, x, y)
  BY <1>1, <1>2, DequeueFact DEF Types
<1>4. queue' = Append(rest, e)
  BY DEF Promotes
<1> HIDE DEF rest
<1>5. /\ queue' \in Seq(Entries) /\ OneEach(queue')
      /\ \A x : Waits(queue', x) <=> Waits(queue, x)
      /\ \A x, y : x # e /\ Ahead(queue, x, y) => Ahead(queue', x, y)
  BY <1>2, <1>3, <1>4, EnqueueFact
<1>6. PICK j \in DOMAIN EntryOrder :
        /\ EntryOrder[j] # e /\ Loaded(EntryOrder[j]) /\ token[EntryOrder[j]] # NoToken
        /\ cursor' = [cursor EXCEPT ![e] = j]
        /\ key' = [key EXCEPT ![e] = token[EntryOrder[j]]]
  BY DEF Promotes
<1>7. j \in 0..Len(EntryOrder) /\ j # 0 /\ EntryOrder[j] \in Entries
  BY <1>6, LogfireAssumption
<1>8. \A x \in Entries \ {e} :
        /\ inner'[x] = inner[x] /\ key'[x] = key[x] /\ cursor'[x] = cursor[x]
        /\ Target(x)' = Target(x)
  BY <1>1, <1>6 DEF Promotes, Types, Target
<1>9. /\ inner'[e] = "configure" /\ cursor'[e] = j /\ key'[e] = token[EntryOrder[j]]
      /\ Target(e)' = EntryOrder[j]
  BY <1>1, <1>6, <1>7 DEF Promotes, Types, Target
<1>10. stage' = stage /\ stage[EntryOrder[j]] = "loaded" /\ stage[e] \in Busy
  BY <1>1, <1>2, <1>6 DEF Promotes, Loaded, TaskOK
<1>11. Types'
  BY <1>1, <1>5, <1>6, <1>7, <1>10, LockOwners DEF Promotes, Types
<1>12. ASSUME NEW x \in Entries PROVE TaskOK(x)'
  <2>1. CASE x = e
    BY <1>2, <1>5, <1>6, <1>7, <1>9, <1>10, <2>1 DEF TaskOK, Configuring
  <2>2. CASE x # e
    BY <1>1, <1>2, <1>5, <1>8, <1>10, <2>2 DEF TaskOK
  <2> QED
    BY <2>1, <2>2
<1>13. ASSUME NEW x \in Entries PROVE CandidateOK(x)'
  <2>1. CASE x = e
    BY <1>9, <1>10, <2>1 DEF CandidateOK
  <2>2. CASE x # e /\ cursor[x] # 0 /\ Target(x) = e
    BY <1>1, <1>2, <1>10, <2>2 DEF CandidateOK
  <2>3. CASE x # e /\ (cursor[x] # 0 => Target(x) # e)
    <3>1. Target(x) \in Entries
      BY <1>1, TargetIsEntry
    <3> QED
      BY <1>1, <1>5, <1>8, <1>10, <2>3, <3>1 DEF CandidateOK
  <2> QED
    BY <2>1, <2>2, <2>3
<1>14. ASSUME NEW x \in Entries, x \in owners'
       PROVE  (stage'[x] \notin {"not_loaded", "removed"}) /\ (stage'[x] \in Leaving => cursor'[x] = 0)
  <2>1. x \in owners \/ (inner[e] \in Configuring /\ x = Target(e))
    BY <1>14, LockOwners
  <2>2. CASE x = e
    <3>1. inner[e] # "release"
      BY <1>14, <2>2, LockOwners
    <3>2. cursor[e] # 0 /\ Target(e) # e
      BY <1>1, <3>1 DEF Promotes, TaskOK
    <3>3. e \in owners
      BY <2>1, <2>2, <3>2
    <3> QED
      BY <1>1, <1>10, <2>2, <3>2, <3>3 DEF OwnerOK
  <2>3. CASE x # e /\ x \in owners
    BY <1>1, <1>8, <1>10, <2>3 DEF OwnerOK
  <2>4. CASE x # e /\ inner[e] \in Configuring /\ x = Target(e)
    <3>1. cursor[e] # 0
      BY <2>4 DEF Target
    <3>2. stage[x] \in Leaving => inner[x] = "release"
      BY <1>1, <2>4, <3>1 DEF CandidateOK
    <3>3. stage[x] \notin {"not_loaded", "removed"}
      BY <1>1, <2>4, <3>1 DEF CandidateOK
    <3>4. inner[x] = "release" => cursor[x] = 0
      BY <1>1 DEF TaskOK, Configuring
    <3> QED
      BY <1>8, <1>10, <2>4, <3>2, <3>3, <3>4
  <2> QED
    BY <2>1, <2>2, <2>3, <2>4
<1>15. \A x \in Entries : OwnerOK(x)'
  BY <1>14, LockOwners DEF OwnerOK
<1> QED
  BY <1>5, <1>11, <1>12, <1>13, <1>15, LockOwners DEF OwnerInv

LEMMA ExecutesKeepsInv ==
  ASSUME OwnerInv, NEW e \in Entries, Holds(e), UNCHANGED <<token, edited>>, Executes(e)
  PROVE  OwnerInv'
<1>1. Types /\ OneEach(queue) /\ \A x \in Entries : TaskOK(x) /\ CandidateOK(x) /\ OwnerOK(x)
  BY DEF OwnerInv
<1>2. configured = NoToken /\ owners = {} /\ UNCHANGED <<configured, owners>>
  BY DEF OwnerInv, Executes
<1>3. UNCHANGED <<queue, stage, cursor, key>> /\ \A x \in Entries \ {e} : inner'[x] = inner[x]
  BY <1>1 DEF Executes, Types
<1>4. inner[e] = "configure" /\ inner'[e] = "executing"
  BY <1>1 DEF Executes, Types
<1>5. \A x \in Entries : Target(x)' = Target(x) /\ Target(x) \in Entries
  BY <1>1, <1>3, TargetIsEntry DEF Target
<1>6. Types'
  BY <1>1, <1>2, <1>3 DEF Executes, Types
<1>7. ASSUME NEW x \in Entries PROVE TaskOK(x)'
  <2>1. CASE x = e
    BY <1>1, <1>2, <1>3, <1>4, <1>5, <2>1 DEF TaskOK, Holds, Configuring
  <2>2. CASE x # e
    BY <1>1, <1>2, <1>3, <1>5, <2>2 DEF TaskOK, Holds
  <2> QED
    BY <2>1, <2>2
<1>8. ASSUME NEW x \in Entries PROVE CandidateOK(x)'
  <2>1. inner[Target(x)] = "release" => Target(x) # e
    BY <1>4
  <2> QED
    BY <1>1, <1>3, <1>5, <2>1 DEF CandidateOK
<1>9. \A x \in Entries : OwnerOK(x)'
  BY <1>2 DEF OwnerOK
<1> QED
  BY <1>1, <1>2, <1>3, <1>6, <1>7, <1>8, <1>9 DEF OwnerInv

LEMMA OwnerInvStep ==
  ASSUME OwnerInv, [Next]_vars PROVE OwnerInv'
<1>1. CASE UNCHANGED vars
  BY <1>1 DEF vars, shared, local, OwnerInv, Types, TaskOK, CandidateOK, OwnerOK, Target, Holds
<1>2. CASE \E e \in Entries : Configure(e) \/ Executed(e) \/ Release(e)
  BY <1>2, LockShape, LeavesKeepsInv, PromotesKeepsInv, ExecutesKeepsInv
<1>3. CASE \E e \in Entries : BeginSetup(e) \/ SetupPlatforms(e) \/ BeginUnload(e)
                               \/ UnloadPlatforms(e) \/ BeginRemove(e) \/ EditToken(e)
  BY <1>3, OutsideShape, ComesKeepsInv, MovesKeepInv
<1> QED
  BY <1>1, <1>2, <1>3 DEF Next, Continue

\* The token has owners exactly while it is set; they have this token or wait for the
\* reload that follows an edit; and none of them is an entry that is gone, although
\* promotions configure entries that are being unloaded (async_configure_logfire,
\* _async_configure_next_logfire_owner).
THEOREM OwnersStayRight == Spec => []OwnersAreRight
<1>1. OwnerInv => OwnersAreRight
  BY DEF OwnerInv, OwnerOK, OwnersAreRight, Types
<1> QED
  BY <1>1, OwnerInvInit, OwnerInvStep, PTL DEF Spec

\* A token that has owners is not replaced; the last owner gives it up.
THEOREM TokenIsNeverReplaced == Spec => FirstTokenWins
<1> DEFINE A == configured # NoToken /\ configured' # configured =>
                  configured' = NoToken /\ owners' = {} /\ Cardinality(owners) = 1
<1>1. ASSUME OwnerInv, [Next]_vars PROVE A
  <2> SUFFICES ASSUME configured # NoToken, configured' # configured
               PROVE  configured' = NoToken /\ owners' = {} /\ Cardinality(owners) = 1
    OBVIOUS
  <2>1. owners # {} /\ owners \subseteq Entries
    BY <1>1 DEF OwnerInv, Types
  <2>2. \A e \in Entries : inner[e] = "executing" => configured = NoToken
    BY <1>1 DEF OwnerInv, TaskOK
  <2>3. PICK e \in Entries : Configure(e) \/ Executed(e) \/ Release(e)
    <3>1. \A e \in Entries : Comes(e) \/ Moves(e) \/ Edits(e) => configured' = configured
      BY DEF Comes, Moves, Edits, Unshared
    <3> QED
      BY <1>1, <3>1, OutsideShape DEF Next, Continue, vars, shared
  <2>4. Releases(e)
    BY <2>1, <2>2, <2>3, LockShape DEF Executes, Claims, Refused, Unshared, Configuring
  <2>5. owners = {e} /\ owners' = {} /\ configured' = NoToken
    BY <2>1, <2>4 DEF Releases
  <2> QED
    BY <2>5, FS_Singleton
<1>2. OwnerInv /\ [Next]_vars => [A]_vars
  BY <1>1
<1> QED
  BY <1>2, OwnerInvInit, OwnerInvStep, PTL DEF Spec, FirstTokenWins

-----------------------------------------------------------------------------
(* Nobody who could trace is left out, and the warnings agree.             *)

Setting == {"setup1", "setup2"}
Settled(e) == Loaded(e) /\ e \notin edited
Wants(e) == Settled(e) /\ token[e] # NoToken
AtPlace(e, j) == j \in DOMAIN EntryOrder /\ EntryOrder[j] = e

\* A promotion that is under way has yet to come to this entry, and will not skip it.
Covered(e) ==
  \E x \in Entries :
    /\ cursor[x] # 0
    /\ \E j \in Nat : AtPlace(e, j) /\ cursor[x] <= j
    /\ promoted[x] \in {NoToken, token[e]}

\* A setup releases, and promotes others, only for want of a token.
SetupOK(e) ==
  stage[e] \in Setting /\ (inner[e] = "release" \/ cursor[e] # 0) =>
    token[e] = NoToken \/ e \in edited

CoverOK(e) == Wants(e) /\ e \notin owners /\ configured \in {NoToken, token[e]} => Covered(e)
IssueOK(e) == Settled(e) => (e \in conflicts <=> token[e] # NoToken /\ e \notin owners)

TelemetryInv ==
  /\ OwnerInv
  /\ promoted \in [Entries -> Tokens \cup {NoToken}]
  /\ \A e \in Entries : SetupOK(e)
  /\ ~failed => \A e \in Entries : CoverOK(e) /\ IssueOK(e)

LEMMA TelemetryInvInit == Init => TelemetryInv
BY OwnerInvInit DEF Init, TelemetryInv, SetupOK, CoverOK, IssueOK, Wants, Settled, Loaded, Setting

\* Outside the lock nobody becomes loaded, and a token changes only with a reload to come.
LEMMA OutsideKeepsTelemetry ==
  ASSUME TelemetryInv, NEW e \in Entries,
         BeginSetup(e) \/ SetupPlatforms(e) \/ BeginUnload(e) \/ UnloadPlatforms(e)
           \/ BeginRemove(e) \/ EditToken(e)
  PROVE  TelemetryInv'
<1>1. OwnerInv /\ Types /\ promoted \in [Entries -> Tokens \cup {NoToken}]
  BY DEF TelemetryInv, OwnerInv
<1>2. Comes(e) \/ Moves(e) \/ Edits(e)
  BY OutsideShape
<1>3. OwnerInv'
  BY <1>1, <1>2, ComesKeepsInv, MovesKeepInv
<1>4. UNCHANGED <<configured, owners, conflicts, failed, cursor, promoted>>
  BY DEF BeginSetup, SetupPlatforms, BeginUnload, UnloadPlatforms, BeginRemove, EditToken,
         StartConfigure, StartRelease, shared, local
<1>5. \A x \in Entries : Settled(x)' => Settled(x) /\ token'[x] = token[x]
  <2> SUFFICES ASSUME NEW x \in Entries, Settled(x)' PROVE Settled(x) /\ token'[x] = token[x]
    OBVIOUS
  <2>1. CASE Comes(e)
    BY <1>1, <2>1 DEF Comes, Settled, Loaded, Types, Leaving
  <2>2. CASE Moves(e) \/ Edits(e)
    BY <1>1, <2>2 DEF Moves, Edits, Settled, Loaded, Types
  <2> QED
    BY <1>2, <2>1, <2>2
<1>6. ASSUME NEW x \in Entries PROVE SetupOK(x)'
  <2>1. SetupOK(x) /\ TaskOK(x)
    BY <1>1 DEF TelemetryInv, OwnerInv
  <2>2. CASE (BeginSetup(e) \/ SetupPlatforms(e)) /\ x = e
    <3>1. cursor[e] = 0
      BY <2>1, <2>2 DEF BeginSetup, SetupPlatforms, TaskOK, Busy, Configuring
    <3>2. stage'[e] \in Setting => inner'[e] = IF token[e] = NoToken THEN "release" ELSE "configure"
      BY <1>1, <2>2 DEF BeginSetup, SetupPlatforms, Move, StartConfigure, StartRelease, Types, Setting
    <3>3. token' = token
      BY <2>2 DEF BeginSetup, SetupPlatforms
    <3> QED
      BY <1>4, <2>2, <3>1, <3>2, <3>3 DEF SetupOK
  <2>3. CASE (BeginSetup(e) \/ SetupPlatforms(e)) /\ x # e
    BY <1>1, <1>4, <2>1, <2>3
       DEF BeginSetup, SetupPlatforms, Move, StartConfigure, StartRelease, Types, SetupOK
  <2>4. CASE BeginUnload(e) \/ UnloadPlatforms(e) \/ BeginRemove(e)
    BY <1>1, <1>4, <2>1, <2>4
       DEF BeginUnload, UnloadPlatforms, BeginRemove, Move, StartRelease, Types, SetupOK, Setting
  <2>5. CASE EditToken(e)
    BY <1>1, <1>4, <2>1, <2>5 DEF EditToken, local, Types, SetupOK
  <2> QED
    BY <2>2, <2>3, <2>4, <2>5
<1>7. ASSUME ~failed, NEW x \in Entries PROVE CoverOK(x)' /\ IssueOK(x)'
  <2>1. CoverOK(x) /\ IssueOK(x)
    BY <1>7 DEF TelemetryInv
  <2>2. Settled(x)' => (Covered(x)' <=> Covered(x))
    BY <1>4, <1>5 DEF Covered, AtPlace
  <2> QED
    BY <1>4, <1>5, <2>1, <2>2 DEF CoverOK, IssueOK, Wants
<1> QED
  BY <1>1, <1>3, <1>4, <1>6, <1>7 DEF TelemetryInv

\* A task that goes back to its lifecycle.
LEMMA ReturnFacts ==
  ASSUME TelemetryInv, NEW e \in Entries, NEW conflicting, Return(e, conflicting), Waits(queue, e)
  PROVE  /\ promoted' \in [Entries -> Tokens \cup {NoToken}]
         /\ cursor'[e] = 0 /\ stage'[e] \notin Setting
         /\ \A x \in Entries \ {e} :
              /\ stage'[x] = stage[x] /\ inner'[x] = inner[x] /\ cursor'[x] = cursor[x]
              /\ promoted'[x] = promoted[x]
         /\ stage'[e] = "loaded" => stage[e] = "setup2"
         /\ conflicts' = IF stage[e] \in {"releasing", "removing"}
                             \/ (stage[e] \in Setting /\ (inner[e] = "release" \/ cursor[e] # 0))
                           THEN conflicting \ {e} ELSE conflicting
<1>1. Types /\ TaskOK(e) /\ promoted \in [Entries -> Tokens \cup {NoToken}]
  BY DEF TelemetryInv, OwnerInv
<1>2. stage[e] \in Busy
  BY <1>1 DEF TaskOK
<1> QED
  BY <1>1, <1>2 DEF Return, Types, Setting, Busy, DeleteTokenConflictIssue

\* A promotion that goes on skips nobody it should configure.
LEMMA PromoteCovers ==
  ASSUME TelemetryInv, NEW e \in Entries, NEW i \in Nat, NEW winner, NEW conflicting, Waits(queue, e),
         Promote(e, i, winner, conflicting), UNCHANGED <<token, edited>>,
         inner[e] = "release" \/ cursor[e] # 0,
         NEW x \in Entries, Wants(x)', NEW j \in Nat, AtPlace(x, j), i < j, winner \in {NoToken, token[x]}
  PROVE  Covered(x)'
<1>1. Types /\ promoted \in [Entries -> Tokens \cup {NoToken}] /\ TaskOK(e) /\ SetupOK(e)
  BY DEF TelemetryInv, OwnerInv
<1>2. stage[e] \in Busy
  BY <1>1 DEF TaskOK
<1>3. CASE Return(e, conflicting)
  <2>1. x # e
    BY <1>1, <1>3, ReturnFacts DEF Wants, Settled, Loaded, SetupOK, Setting
  <2>2. Loaded(x) /\ token[x] # NoToken
    BY <1>3, <2>1, ReturnFacts DEF Wants, Settled, Loaded
  <2>3. Promote(e, i, winner, conflicting) => \E k \in DOMAIN EntryOrder : cursor'[e] = k
    BY <1>1, <2>1, <2>2 DEF Promote, AtPlace, Types
  <2>4. cursor'[e] = 0
    BY <1>3, ReturnFacts
  <2> QED
    BY <2>3, <2>4, LogfireAssumption
<1>4. CASE ~Return(e, conflicting)
  <2>1. stage' = stage
    BY <1>4 DEF Promote
  <2>2. x # e /\ Loaded(x) /\ token[x] # NoToken
    BY <1>2, <2>1 DEF Wants, Settled, Loaded, Busy
  <2>3. PICK k \in DOMAIN EntryOrder :
          /\ k <= j
          /\ cursor' = [cursor EXCEPT ![e] = k]
          /\ promoted' = [promoted EXCEPT ![e] = winner]
    BY <1>4, <2>2 DEF Promote, AtPlace
  <2>4. cursor'[e] = k /\ k # 0 /\ promoted'[e] = winner
    BY <1>1, <2>3, LogfireAssumption DEF Types
  <2> QED
    BY <2>3, <2>4 DEF Covered, AtPlace
<1> QED
  BY <1>3, <1>4

\* What a promotion that goes on, or ends, changes.
LEMMA PromoteFacts ==
  ASSUME TelemetryInv, NEW e \in Entries, NEW i, NEW winner \in Tokens \cup {NoToken}, NEW conflicting,
         Waits(queue, e), Promote(e, i, winner, conflicting), UNCHANGED <<token, edited>>,
         inner[e] = "release" \/ cursor[e] # 0
  PROVE  /\ promoted' \in [Entries -> Tokens \cup {NoToken}]
         /\ \A x \in Entries \ {e} :
              /\ stage'[x] = stage[x] /\ inner'[x] = inner[x] /\ cursor'[x] = cursor[x]
              /\ promoted'[x] = promoted[x]
         /\ SetupOK(e)'
         /\ \A x \in Entries \ {e} : x \in conflicts' <=> x \in conflicting
         /\ Settled(e)' => e \notin conflicts' /\ token[e] = NoToken
<1>1. Types /\ promoted \in [Entries -> Tokens \cup {NoToken}] /\ TaskOK(e) /\ SetupOK(e)
  BY DEF TelemetryInv, OwnerInv
<1>2. stage[e] \in Busy
  BY <1>1 DEF TaskOK
<1>3. CASE Return(e, conflicting)
  BY <1>1, <1>3, ReturnFacts DEF SetupOK, Settled, Loaded, Setting
<1>4. CASE ~Return(e, conflicting)
  <2>1. /\ stage' = stage /\ conflicts' = conflicting
        /\ promoted' = [promoted EXCEPT ![e] = winner]
        /\ \E k \in DOMAIN EntryOrder : cursor' = [cursor EXCEPT ![e] = k]
        /\ inner' = [inner EXCEPT ![e] = "configure"]
    BY <1>4 DEF Promote
  <2> QED
    BY <1>1, <1>2, <2>1 DEF Types, SetupOK, Settled, Loaded, Busy
<1> QED
  BY <1>3, <1>4

LEMMA ReleaseKeepsTelemetry ==
  ASSUME TelemetryInv, NEW e \in Entries, Release(e), OwnerInv'
  PROVE  TelemetryInv'
<1>1. /\ Types /\ TaskOK(e) /\ promoted \in [Entries -> Tokens \cup {NoToken}] /\ OwnerInv
      /\ configured = NoToken <=> owners = {}
      /\ \A x \in Entries : SetupOK(x)
      /\ ~failed => \A x \in Entries : CoverOK(x) /\ IssueOK(x)
  BY DEF TelemetryInv, OwnerInv
<1>2. Waits(queue, e) /\ inner[e] = "release" /\ cursor[e] = 0 /\ stage[e] \in Busy
  BY <1>1, HeadFacts DEF Release, TaskOK, Configuring
<1>3. UNCHANGED <<token, edited, failed>> /\ owners' = owners \ {e}
  BY DEF Release
<1>4. CASE owners \ {e} # {}
  <2>1. Return(e, conflicts) /\ configured' = configured
    BY <1>4 DEF Release
  <2>2. /\ promoted' \in [Entries -> Tokens \cup {NoToken}]
        /\ cursor'[e] = 0 /\ stage'[e] \notin Setting
        /\ \A x \in Entries \ {e} :
             /\ stage'[x] = stage[x] /\ inner'[x] = inner[x] /\ cursor'[x] = cursor[x]
             /\ promoted'[x] = promoted[x]
        /\ stage'[e] = "loaded" => stage[e] = "setup2" /\ conflicts' = conflicts \ {e}
        /\ \A x \in Entries \ {e} : x \in conflicts' <=> x \in conflicts
    BY <1>2, <2>1, ReturnFacts DEF Setting
  <2>3. \A x \in Entries : SetupOK(x)'
    BY <1>1, <1>3, <2>2 DEF SetupOK
  <2>4. Settled(e)' => token[e] = NoToken /\ e \notin conflicts'
    BY <1>1, <1>2, <1>3, <2>2 DEF Settled, Loaded, SetupOK, Setting
  <2>5. ASSUME ~failed, NEW x \in Entries PROVE CoverOK(x)' /\ IssueOK(x)'
    <3>1. CASE x = e
      BY <1>3, <2>4, <3>1 DEF CoverOK, IssueOK, Wants
    <3>2. CASE x # e
      <4>1. Covered(x) => Covered(x)'
        BY <1>2, <1>3, <2>2 DEF Covered, AtPlace
      <4> QED
        BY <1>1, <1>3, <2>1, <2>2, <2>5, <3>2, <4>1 DEF CoverOK, IssueOK, Wants, Settled, Loaded
    <3> QED
      BY <3>1, <3>2
  <2> QED
    BY <1>3, <2>2, <2>3, <2>5 DEF TelemetryInv
<1>5. CASE owners \ {e} = {}
  <2>1. Promote(e, 0, NoToken, conflicts) /\ configured' = NoToken
    BY <1>5 DEF Release
  <2>2. /\ promoted' \in [Entries -> Tokens \cup {NoToken}]
        /\ \A x \in Entries \ {e} :
             /\ stage'[x] = stage[x] /\ inner'[x] = inner[x] /\ cursor'[x] = cursor[x]
             /\ promoted'[x] = promoted[x]
        /\ SetupOK(e)'
        /\ \A x \in Entries \ {e} : x \in conflicts' <=> x \in conflicts
        /\ Settled(e)' => e \notin conflicts' /\ token[e] = NoToken
    BY <1>2, <1>3, <2>1, PromoteFacts
  <2>3. \A x \in Entries : SetupOK(x)'
    BY <1>1, <1>3, <2>2 DEF SetupOK
  <2>4. ASSUME NEW x \in Entries, Wants(x)' PROVE Covered(x)'
    <3>1. PICK j \in DOMAIN EntryOrder : EntryOrder[j] = x
      BY LogfireAssumption
    <3>2. j \in Nat /\ 0 < j /\ AtPlace(x, j)
      BY <3>1, LogfireAssumption DEF AtPlace
    <3> QED
      BY <1>2, <1>3, <2>1, <2>4, <3>2, PromoteCovers
  <2>5. ASSUME ~failed, NEW x \in Entries PROVE IssueOK(x)'
    BY <1>1, <1>3, <2>2, <2>5 DEF IssueOK, Settled, Loaded
  <2> QED
    BY <1>3, <2>2, <2>3, <2>4, <2>5 DEF TelemetryInv, CoverOK
<1> QED
  BY <1>4, <1>5

\* A configure call that ends: the entry it was for is an owner and has no warning, or it
\* has another token than the one in use, and the warning.
LEMMA LeaveKeepsTelemetry ==
  ASSUME TelemetryInv, NEW e \in Entries, Holds(e), inner[e] \in Configuring,
         NEW ok \in BOOLEAN, NEW conf, NEW own, NEW conflicting,
         Leave(e, conf, own, conflicting, ok), OwnerInv', failed' = failed, ~failed,
         \/ /\ ok /\ conf = key[e] /\ own = owners \cup {Target(e)}
            /\ configured \in {NoToken, key[e]}
            /\ conflicting = conflicts \ {Target(e)}
         \/ /\ ~ok /\ conf = configured /\ own = owners /\ configured \notin {NoToken, key[e]}
            /\ conflicting = conflicts \cup {Target(e)}
  PROVE  TelemetryInv'
<1>1. /\ Types /\ TaskOK(e) /\ CandidateOK(e) /\ promoted \in [Entries -> Tokens \cup {NoToken}] /\ OwnerInv
      /\ \A x \in Entries : SetupOK(x) /\ CoverOK(x) /\ IssueOK(x) /\ OwnerOK(x)
  BY DEF TelemetryInv, OwnerInv
<1>2. /\ Waits(queue, e) /\ stage[e] \in Busy /\ Target(e) \in Entries
      /\ key[e] # NoToken /\ key[e] \in Tokens \cup {NoToken}
      /\ token[Target(e)] = key[e] \/ Target(e) \in edited
  BY <1>1, HeadFacts, TargetIsEntry DEF TaskOK, Types
<1>3. UNCHANGED <<token, edited>> /\ configured' = conf /\ owners' = own
  BY DEF Leave
<1>4. \A x \in Entries : Settled(x) => x # e
  BY <1>2 DEF Settled, Loaded, Busy
<1>5. \A x \in Entries \ {Target(e)} :
        /\ x \in owners' <=> x \in owners
        /\ x \in conflicting <=> x \in conflicts
  BY <1>3
\* Whose token may be the one in use: it was so before.
<1>6. ASSUME NEW x \in Entries, Wants(x), x \notin owners', configured' \in {NoToken, token[x]}
      PROVE  Covered(x) /\ x # Target(e) /\ (ok => token[x] = key[e])
  <2>1. configured \in {NoToken, token[x]} /\ (ok => token[x] = key[e])
    BY <1>2, <1>3, <1>6
  <2>2. x # Target(e)
    BY <1>2, <1>3, <1>6 DEF Wants, Settled
  <2>3. x \notin owners
    BY <1>3, <1>6
  <2> QED
    BY <1>1, <1>6, <2>1, <2>2, <2>3 DEF CoverOK
<1>7. Settled(Target(e)) => (Target(e) \in conflicting <=> token[Target(e)] # NoToken /\ Target(e) \notin owners')
  <2>1. Settled(Target(e)) => token[Target(e)] = key[e]
    BY <1>2 DEF Settled
  <2>2. Settled(Target(e)) /\ ~ok => Target(e) \notin owners
    BY <1>1, <1>2, <2>1 DEF OwnerOK, Settled
  <2> QED
    BY <1>2, <1>3, <2>1, <2>2
<1>8. CASE cursor[e] = 0
  <2>1. Return(e, conflicting)
    BY <1>8 DEF Leave
  <2>2. /\ promoted' \in [Entries -> Tokens \cup {NoToken}]
        /\ cursor'[e] = 0 /\ stage'[e] \notin Setting
        /\ \A x \in Entries \ {e} :
             /\ stage'[x] = stage[x] /\ inner'[x] = inner[x] /\ cursor'[x] = cursor[x]
             /\ promoted'[x] = promoted[x]
        /\ stage'[e] = "loaded" => stage[e] = "setup2" /\ conflicts' = conflicting
        /\ \A x \in Entries \ {e} : x \in conflicts' <=> x \in conflicting
    BY <1>2, <1>8, <2>1, ReturnFacts DEF Setting, Configuring
  <2>3. \A x \in Entries : SetupOK(x)'
    BY <1>1, <1>3, <2>2 DEF SetupOK
  <2>4. Target(e) = e
    BY <1>8 DEF Target
  <2>5. ASSUME Settled(e)' PROVE CoverOK(e)' /\ IssueOK(e)'
    <3>1. token[e] = key[e] /\ conflicts' = conflicting
      BY <1>2, <1>3, <2>2, <2>4, <2>5 DEF Settled, Loaded
    <3>2. ~ok => e \notin owners
      BY <1>1, <1>3, <2>5, <3>1 DEF OwnerOK, Settled
    <3> QED
      BY <1>2, <1>3, <2>4, <3>1, <3>2 DEF CoverOK, IssueOK
  <2>6. ASSUME NEW x \in Entries, x # e PROVE CoverOK(x)' /\ IssueOK(x)'
    <3>1. Covered(x) => Covered(x)'
      BY <1>3, <1>8, <2>2 DEF Covered, AtPlace
    <3>2. (Settled(x)' <=> Settled(x)) /\ token' = token
      BY <1>3, <2>2, <2>6 DEF Settled, Loaded
    <3> QED
      BY <1>1, <1>5, <1>6, <2>2, <2>4, <2>6, <3>1, <3>2 DEF CoverOK, IssueOK, Wants
  <2>7. \A x \in Entries : CoverOK(x)' /\ IssueOK(x)'
    BY <2>5, <2>6 DEF CoverOK, IssueOK, Wants
  <2> QED
    BY <2>2, <2>3, <2>7 DEF TelemetryInv
<1>9. CASE cursor[e] # 0
  <2> DEFINE winner == IF ok THEN key[e] ELSE promoted[e]
  <2>1. Promote(e, cursor[e], winner, conflicting) /\ winner \in Tokens \cup {NoToken}
    BY <1>1, <1>2, <1>9 DEF Leave
  <2>2. cursor[e] \in Nat /\ Target(e) # e /\ AtPlace(Target(e), cursor[e])
    BY <1>1, <1>9, TargetIsEntry, LogfireAssumption DEF Types, TaskOK, AtPlace
  <2> HIDE DEF winner
  <2>3. /\ promoted' \in [Entries -> Tokens \cup {NoToken}]
        /\ \A x \in Entries \ {e} :
             /\ stage'[x] = stage[x] /\ inner'[x] = inner[x] /\ cursor'[x] = cursor[x]
             /\ promoted'[x] = promoted[x]
        /\ SetupOK(e)'
        /\ \A x \in Entries \ {e} : x \in conflicts' <=> x \in conflicting
        /\ Settled(e)' => e \notin conflicts' /\ token[e] = NoToken
    BY <1>2, <1>3, <1>9, <2>1, PromoteFacts
  <2>4. \A x \in Entries : SetupOK(x)'
    BY <1>1, <1>3, <2>3 DEF SetupOK
  <2>5. \A x \in Entries : x # e => (Settled(x)' <=> Settled(x))
    BY <1>3, <2>3 DEF Settled, Loaded
  <2>6. ASSUME NEW x \in Entries PROVE IssueOK(x)'
    <3>1. CASE x = e
      BY <1>3, <2>3, <3>1 DEF IssueOK
    <3>2. CASE x = Target(e)
      BY <1>3, <1>7, <2>2, <2>3, <2>5, <3>2 DEF IssueOK
    <3>3. CASE x # e /\ x # Target(e)
      BY <1>1, <1>3, <1>5, <2>3, <2>5, <3>3 DEF IssueOK
    <3> QED
      BY <3>1, <3>2, <3>3
  <2>7. ASSUME NEW x \in Entries, Wants(x)', x \notin owners', configured' \in {NoToken, token[x]}
        PROVE  Covered(x)'
    <3>1. x # e /\ Wants(x)
      BY <1>3, <2>3, <2>5, <2>7 DEF Wants
    <3>2. Covered(x) /\ x # Target(e) /\ (ok => token[x] = key[e])
      BY <1>6, <2>7, <3>1
    <3>3. PICK y \in Entries, j \in Nat :
            cursor[y] # 0 /\ AtPlace(x, j) /\ cursor[y] <= j /\ promoted[y] \in {NoToken, token[x]}
      BY <3>2 DEF Covered
    <3>4. CASE y # e
      BY <1>3, <2>3, <3>3, <3>4 DEF Covered, AtPlace
    <3>5. CASE y = e
      <4>1. cursor[e] # j
        BY <2>2, <3>2, <3>3 DEF AtPlace
      <4>2. cursor[e] < j
        BY <2>2, <3>3, <3>5, <4>1
      <4>3. winner \in {NoToken, token[x]}
        BY <3>2, <3>3, <3>5 DEF winner
      <4> QED
        BY <1>2, <1>3, <1>9, <2>1, <2>2, <2>7, <3>3, <4>2, <4>3, PromoteCovers
    <3> QED
      BY <3>4, <3>5
  <2>8. \A x \in Entries : CoverOK(x)'
    BY <1>3, <2>7 DEF CoverOK
  <2> QED
    BY <2>3, <2>4, <2>6, <2>8 DEF TelemetryInv
<1> QED
  BY <1>8, <1>9

\* Whatever a configure call came to, a setup that promotes is one without a token.
LEMMA LeaveKeepsSetup ==
  ASSUME TelemetryInv, NEW e \in Entries, Holds(e), inner[e] \in Configuring,
         NEW ok, NEW conf, NEW own, NEW conflicting, Leave(e, conf, own, conflicting, ok)
  PROVE  promoted' \in [Entries -> Tokens \cup {NoToken}] /\ \A x \in Entries : SetupOK(x)'
<1>1. /\ Types /\ promoted \in [Entries -> Tokens \cup {NoToken}] /\ OwnerInv
      /\ (\A x \in Entries : SetupOK(x)) /\ Waits(queue, e) /\ UNCHANGED <<token, edited>>
  BY HeadFacts DEF TelemetryInv, OwnerInv, Leave
<1>2. CASE cursor[e] = 0
  BY <1>1, <1>2, ReturnFacts DEF Leave, SetupOK
<1>3. CASE cursor[e] # 0
  <2>1. (IF ok THEN key[e] ELSE promoted[e]) \in Tokens \cup {NoToken}
    BY <1>1 DEF Types
  <2> QED
    BY <1>1, <1>3, <2>1, PromoteFacts DEF Leave, SetupOK
<1> QED
  BY <1>2, <1>3

LEMMA ConfigureKeepsTelemetry ==
  ASSUME TelemetryInv, NEW e \in Entries, Configure(e) \/ Executed(e), OwnerInv'
  PROVE  TelemetryInv'
<1>1. /\ Types /\ TaskOK(e) /\ (configured = NoToken <=> owners = {}) /\ Holds(e)
      /\ promoted \in [Entries -> Tokens \cup {NoToken}] /\ inner[e] \in Configuring
  BY DEF TelemetryInv, OwnerInv, Configure, Executed, Configuring
<1>2. CASE Configure(e) /\ owners = {}
  <2>1. /\ UNCHANGED <<token, edited, configured, owners, failed, conflicts, stage, cursor, promoted>>
        /\ inner[e] = "configure" /\ inner' = [inner EXCEPT ![e] = "executing"]
    BY <1>1, <1>2 DEF Configure
  <2> QED
    BY <1>1, <2>1 DEF TelemetryInv, Types, SetupOK, CoverOK, IssueOK, Wants, Settled, Loaded, Covered, AtPlace
<1>3. ASSUME ~(Configure(e) /\ owners = {})
      PROVE  promoted' \in [Entries -> Tokens \cup {NoToken}] /\ \A x \in Entries : SetupOK(x)'
  <2>1. \/ Claim(e)
        \/ Leave(e, configured, owners, CreateTokenConflictIssue(conflicts, Target(e)), FALSE)
        \/ Leave(e, configured, owners, conflicts, FALSE)
    BY <1>1, <1>3 DEF Configure, Executed
  <2> QED
    BY <1>1, <2>1, LeaveKeepsSetup DEF Claim
<1>4. CASE failed' /\ ~(Configure(e) /\ owners = {})
  BY <1>3, <1>4 DEF TelemetryInv
<1>5. CASE ~failed' /\ ~(Configure(e) /\ owners = {})
  <2>1. ~failed /\ failed' = failed
    <3>1. failed' = failed \/ failed' = TRUE
      BY DEF Configure, Executed
    <3>2. failed' # TRUE
      BY <1>5
    <3> QED
      BY <1>5, <3>1, <3>2
  <2>2. CASE Claim(e) /\ configured \in {NoToken, key[e]}
    BY <1>1, <2>1, <2>2, LeaveKeepsTelemetry DEF Claim, DeleteTokenConflictIssue
  <2>3. CASE /\ key[e] # configured /\ configured # NoToken
             /\ Leave(e, configured, owners, CreateTokenConflictIssue(conflicts, Target(e)), FALSE)
    BY <1>1, <2>1, <2>3, LeaveKeepsTelemetry DEF CreateTokenConflictIssue
  <2>4. CASE Configure(e)
    BY <1>1, <1>5, <2>2, <2>3, <2>4 DEF Configure
  <2>5. CASE Executed(e)
    <3>1. failed' # TRUE
      BY <1>5
    <3>2. Claim(e)
      BY <2>5, <3>1 DEF Executed
    <3>3. configured = NoToken
      BY <1>1, <2>5 DEF Executed, TaskOK
    <3> QED
      BY <2>2, <3>2, <3>3
  <2> QED
    BY <2>4, <2>5
<1> QED
  BY <1>2, <1>4, <1>5

LEMMA TelemetryInvStep ==
  ASSUME TelemetryInv, [Next]_vars PROVE TelemetryInv'
<1>1. OwnerInv /\ OwnerInv'
  BY OwnerInvStep DEF TelemetryInv
<1>2. CASE UNCHANGED vars
  BY <1>1, <1>2 DEF vars, shared, local, TelemetryInv, SetupOK, CoverOK, IssueOK, Wants, Settled, Loaded,
                    Covered, AtPlace
<1>3. CASE \E e \in Entries : Configure(e) \/ Executed(e) \/ Release(e)
  BY <1>1, <1>3, ConfigureKeepsTelemetry, ReleaseKeepsTelemetry
<1>4. CASE \E e \in Entries : BeginSetup(e) \/ SetupPlatforms(e) \/ BeginUnload(e)
                               \/ UnloadPlatforms(e) \/ BeginRemove(e) \/ EditToken(e)
  BY <1>4, OutsideKeepsTelemetry
<1> QED
  BY <1>2, <1>3, <1>4 DEF Next, Continue

\* While nobody is at the lock no promotion is under way.
LEMMA NobodyCovered ==
  ASSUME TelemetryInv, queue = <<>>, ~failed, NEW e \in Entries, Wants(e)
  PROVE  configured # NoToken /\ (token[e] = configured => e \in owners)
<1>1. Types /\ CoverOK(e) /\ (configured = NoToken <=> owners = {}) /\ \A x \in Entries : TaskOK(x)
  BY DEF TelemetryInv, OwnerInv
<1>2. \A x : ~Waits(queue, x)
  BY DEF Waits
<1>3. ~Covered(e)
  BY <1>1, <1>2 DEF Covered, TaskOK, Configuring
<1> QED
  BY <1>1, <1>3 DEF CoverOK

\* Promotions skip no loaded entry that could trace (_async_configure_next_logfire_owner),
\* however they interleave with setups, releases and each other.
THEOREM NobodyIsOrphaned == Spec => []NoOrphanedTelemetry
<1>1. TelemetryInv => NoOrphanedTelemetry
  BY NobodyCovered DEF NoOrphanedTelemetry, Wants, Settled
<1> QED
  BY <1>1, TelemetryInvInit, TelemetryInvStep, PTL DEF Spec

\* The repair warnings name exactly the loaded entries whose token is not the one in use.
THEOREM WarningsAreRight == Spec => []ConflictIssueIsRight
<1>1. TelemetryInv => ConflictIssueIsRight
  <2> SUFFICES ASSUME TelemetryInv, queue = <<>>, ~failed, NEW e \in Entries, Settled(e)
               PROVE  e \in conflicts <=> token[e] \notin {NoToken, configured}
    BY DEF ConflictIssueIsRight, Settled
  <2>1. IssueOK(e) /\ OwnerOK(e)
    BY DEF TelemetryInv, OwnerInv
  <2> QED
    BY <2>1, NobodyCovered DEF IssueOK, OwnerOK, Settled, Wants
<1> QED
  BY <1>1, TelemetryInvInit, TelemetryInvStep, PTL DEF Spec
=============================================================================
