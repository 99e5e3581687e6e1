----------------------- MODULE VirtualWorkspace_proofs -----------------------
(***************************************************************************)
(* Proofs about the virtual workspace, for every size limit, set of inputs *)
(* and number of calls: a call that reports an error has changed nothing,  *)
(* a shell that starts in /workspace stays there, the tree stays a tree    *)
(* whatever is moved, a call without confirm loses nothing, and the files  *)
(* stay within their limit.                                                *)
(***************************************************************************)
EXTENDS VirtualWorkspace, FiniteSetTheorems, SequenceTheorems, TLAPS

-----------------------------------------------------------------------------
(* Folds over a sequence.                                                  *)

\* The least number principle.  (Stated for sets: the library's statement has an
\* operator as parameter.  A number is as large as the interval below it, and
\* strict inclusion of finite sets is well-founded.)
LEMMA LeastNumber ==
  ASSUME NEW S \in SUBSET Nat, S # {}
  PROVE  \E n \in S : \A m \in S : n <= m
<1> DEFINE Below(n) == 0..n-1
           intervals == {Below(n) : n \in S}
<1>1. \A n \in S : Below(n) \in FiniteSubsetsOf(Nat)
  <2> TAKE n \in S
  <2>1. IsFiniteSet(Below(n)) /\ Below(n) \subseteq Nat
    BY FS_Interval
  <2> QED
    BY <2>1, Zenon DEF FiniteSubsetsOf
<1>2. PICK n \in S : \A y \in intervals : <<y, Below(n)>> \notin StrictSubsetOrdering(Nat)
  <2>1. IsWellFoundedOn(StrictSubsetOrdering(Nat), FiniteSubsetsOf(Nat))
    BY FS_StrictSubsetOrderingWellFounded, Zenon
  <2>2. intervals \subseteq FiniteSubsetsOf(Nat) /\ intervals # {}
    BY <1>1, Zenon
  <2>3. \E x \in intervals : \A y \in intervals : <<y, x>> \notin StrictSubsetOrdering(Nat)
    <3> HIDE DEF intervals
    <3> QED
      BY <2>1, <2>2, WFMin, Zenon
  <2> QED
    BY <2>3, Zenon
<1>3. ASSUME NEW m \in S, m < n PROVE FALSE
  <2>1. <<Below(m), Below(n)>> \notin StrictSubsetOrdering(Nat)
    BY <1>2
  <2>2. Below(m) \subseteq Below(n) /\ Below(n) \subseteq Nat
    BY <1>3
  <2>3. m \in Below(n) /\ m \notin Below(m)
    BY <1>3
  <2> HIDE DEF Below
  <2>4. Below(m) # Below(n)
    BY <2>3
  <2> QED
    BY <2>1, <2>2, <2>4 DEF StrictSubsetOrdering
<1> QED
  BY <1>3


LEMMA Greatest ==
  ASSUME NEW n \in Nat, NEW s \in SUBSET (1..n), s # {}
  PROVE  Max(s) \in s /\ \A i \in s : i <= Max(s)
<1> DEFINE bounds == {m \in 0..n : \A i \in s : i <= m}
<1>1. n \in bounds /\ bounds \in SUBSET Nat
  OBVIOUS
<1>2. PICK m \in bounds : \A k \in bounds : m <= k
  <2> HIDE DEF bounds
  <2> QED
    BY <1>1, LeastNumber
<1>3. m \in Nat /\ m <= n /\ \A i \in s : i \in Nat /\ 1 <= i /\ i <= m
  OBVIOUS
<1>4. m \in s
  <2>1. SUFFICES ASSUME m \notin s PROVE FALSE
    OBVIOUS
  <2>2. \A i \in s : i <= m - 1
    BY <1>3, <2>1
  <2>3. m # 0
    <3>1. PICK i \in s : TRUE
      OBVIOUS
    <3> QED
      BY <1>3, <3>1
  <2>4. m - 1 \in 0..n
    BY <1>3, <2>3
  <2> QED
    BY <1>2, <1>3, <2>2, <2>4
<1>5. \E x \in s : \A i \in s : x >= i
  BY <1>3, <1>4
<1>6. Max(s) \in s /\ \A i \in s : Max(s) >= i
  BY <1>5, Zenon DEF Max
<1> QED
  BY <1>3, <1>6

\* A recursion over the sets of the first places of a sequence defines a function.
Steps(F, A, n) == F \in [A \X (1..n) -> A]
IsFold(g, F, A, base, n) ==
  /\ g \in [SUBSET (1..n) -> A]
  /\ \A s \in SUBSET (1..n) :
       g[s] = IF s = {} THEN base ELSE F[<<g[s \ {Max(s)}], Max(s)>>]

LEMMA FoldExists ==
  ASSUME NEW n \in Nat, NEW A, NEW base \in A, NEW F, Steps(F, A, n)
  PROVE  \E g : IsFold(g, F, A, base, n)
<1> USE DEF Steps
<1> DEFINE Defines(g, k) == IsFold(g, F, A, base, k)
           Fails == {k \in 0..n : \A g : ~Defines(g, k)}
<1>1. SUFFICES ASSUME n \in Fails PROVE FALSE
  <2>1. n \in 0..n
    OBVIOUS
  <2> QED
    BY <2>1
<1>2. Fails \in SUBSET Nat
  OBVIOUS
<1>3. PICK k \in Fails : \A m \in Fails : k <= m
  <2> HIDE DEF Fails
  <2> QED
    BY <1>1, <1>2, LeastNumber
<1>4. k # 0
  <2> DEFINE g == [s \in SUBSET (1..0) |-> base]
  <2>1. Defines(g, 0)
    BY DEF IsFold
  <2> HIDE DEF Defines
  <2> QED
    BY <1>3, <2>1
<1>5. k \in 1..n /\ k \in Nat /\ k - 1 \in 0..n /\ k - 1 \in Nat
  BY <1>3, <1>4
<1>6. PICK h : Defines(h, k - 1)
  <2> HIDE DEF Defines
  <2> QED
    BY <1>3, <1>5
<1> DEFINE g == [s \in SUBSET (1..k) |-> IF k \in s THEN F[<<h[s \ {k}], k>>] ELSE h[s]]
<1>7. \A s \in SUBSET (1..k) : s \ {k} \in SUBSET (1..k-1)
  BY <1>5
<1>8. \A s \in SUBSET (1..k) : k \in s => Max(s) = k
  <2> TAKE s \in SUBSET (1..k)
  <2>1. HAVE k \in s
  <2>2. Max(s) \in s /\ k <= Max(s)
    BY <1>5, <2>1, Greatest
  <2>3. Max(s) \in 1..k
    BY <2>2
  <2> QED
    BY <1>5, <2>2, <2>3
<1>9. \A s \in SUBSET (1..k) : s # {} => Max(s) \in s
  BY <1>5, Greatest
<1>10. \A s \in SUBSET (1..k-1) : s \in SUBSET (1..k) /\ k \notin s /\ h[s] \in A
  BY <1>5, <1>6 DEF IsFold
<1>11. g \in [SUBSET (1..k) -> A]
  <2>1. ASSUME NEW s \in SUBSET (1..k) PROVE (IF k \in s THEN F[<<h[s \ {k}], k>>] ELSE h[s]) \in A
    <3>1. CASE k \in s
      <4>1. h[s \ {k}] \in A
        BY <1>7, <1>10
      <4>2. <<h[s \ {k}], k>> \in A \X (1..n)
        BY <1>5, <4>1
      <4> QED
        BY <3>1, <4>2
    <3>2. CASE k \notin s
      BY <1>7, <1>10, <3>2
    <3> QED
      BY <3>1, <3>2
  <2> QED
    BY <2>1
<1>12. ASSUME NEW s \in SUBSET (1..k)
       PROVE  g[s] = IF s = {} THEN base ELSE F[<<g[s \ {Max(s)}], Max(s)>>]
  <2>1. CASE k \in s
    <3>1. g[s] = F[<<h[s \ {k}], k>>] /\ g[s \ {k}] = h[s \ {k}]
      BY <1>7, <1>10, <2>1
    <3> HIDE DEF g
    <3> QED
      BY <1>8, <2>1, <3>1 DEF IsFold
  <2>2. CASE k \notin s
    <3>1. s \in SUBSET (1..k-1)
      BY <1>7, <2>2
    <3>2. g[s] = h[s] /\ g[s \ {Max(s)}] = h[s \ {Max(s)}]
      BY <1>10, <3>1, <2>2
    <3>3. h[s] = IF s = {} THEN base ELSE F[<<h[s \ {Max(s)}], Max(s)>>]
      BY <1>6, <3>1 DEF IsFold
    <3> HIDE DEF g
    <3> QED
      BY <3>2, <3>3
  <2> QED
    BY <2>1, <2>2
<1>13. Defines(g, k)
  <2> HIDE DEF g
  <2> QED
    BY <1>11, <1>12 DEF IsFold
<1> HIDE DEF Defines
<1> QED
  BY <1>3, <1>13

\* What every step of a recursion stays in, its end is in.
LEMMA FoldStays ==
  ASSUME NEW n \in Nat, NEW A, NEW it, it[{}] \in A,
         \A s \in SUBSET (1..n) : s # {} => (it[s \ {Max(s)}] \in A => it[s] \in A)
  PROVE  it[1..n] \in A
<1> DEFINE Fails == {k \in 0..n : \E s \in SUBSET (1..k) : it[s] \notin A}
<1>1. SUFFICES ASSUME n \in Fails PROVE FALSE
  OBVIOUS
<1>2. Fails \in SUBSET Nat
  OBVIOUS
<1>3. PICK k \in Fails : \A m \in Fails : k <= m
  <2> HIDE DEF Fails
  <2> QED
    BY <1>1, <1>2, LeastNumber
<1>4. PICK s \in SUBSET (1..k) : it[s] \notin A
  BY <1>3
<1>5. k \in 0..n /\ s \in SUBSET (1..n) /\ s # {}
  BY <1>3, <1>4
<1>6. Max(s) \in s /\ \A i \in s : i <= Max(s)
  BY <1>5, Greatest
<1> DEFINE m == Max(s)
<1>7. m \in 1..k /\ \A i \in s : i \in Nat /\ 1 <= i /\ i <= m
  <2>1. m \in s /\ \A i \in s : i \in 1..k /\ i <= m
    BY <1>6
  <2> HIDE DEF m
  <2> QED
    BY <1>5, <2>1
<1> HIDE DEF m
<1>8. s \ {m} \in SUBSET (1..m-1) /\ m - 1 \in 0..n /\ ~(k <= m - 1)
  BY <1>5, <1>7
<1>9. it[s \ {m}] \in A
  BY <1>3, <1>8
<1> QED
  BY <1>4, <1>5, <1>9 DEF m

-----------------------------------------------------------------------------
(* What a model passes.                                                    *)

Paths == Seq(STRING)

\* What Normalize answers is a path.
LEMMA NormalizeType ==
  ASSUME NEW path, path.absolute \in BOOLEAN, path.names \in Seq(STRING)
  PROVE  Normalize(path) \in Paths
<1> DEFINE n == Len(path.names)
           walk(dir, name) ==
             CASE dir = Invalid \/ name = "." -> dir
               [] name = ".." -> IF dir = Root THEN Invalid ELSE Front(dir)
               [] OTHER -> Append(dir, name)
           base == IF path.absolute THEN Root ELSE Workspace
           it == CHOOSE f : f = [s \in SUBSET DOMAIN path.names |->
                   IF s = {} THEN base ELSE walk(f[s \ {Max(s)}], path.names[Max(s)])]
           F == [z \in Paths \X (1..n) |-> walk(z[1], path.names[z[2]])]
<1>1. Normalize(path) = it[DOMAIN path.names]
  BY DEF Normalize, FoldLeft, MapThenFoldSet
<1>2. DOMAIN path.names = 1..n /\ n \in Nat /\ \A i \in 1..n : path.names[i] \in STRING
  OBVIOUS
<1>3. base \in Paths
  <2>1. Root \in Paths /\ Workspace \in Paths
    BY TextAssumption DEF Root, Paths
  <2> QED
    BY <2>1
<1> HIDE DEF n
<1>4. ASSUME NEW dir \in Paths, NEW name \in STRING PROVE walk(dir, name) \in Paths
  <2>1. Append(dir, name) \in Paths
    BY DEF Paths
  <2>2. dir # Root => Front(dir) \in Paths
    BY DEF Paths, Root, Front
  <2>3. Invalid \in Paths
    BY TextAssumption DEF Paths
  <2> QED
    BY <2>1, <2>2, <2>3
<1> HIDE DEF walk, base
<1>5. Steps(F, Paths, n)
  BY <1>2, <1>4 DEF Steps
<1>6. \A dir \in Paths, i \in 1..n : F[<<dir, i>>] = walk(dir, path.names[i])
  OBVIOUS
<1> HIDE DEF F
<1>7. PICK g : IsFold(g, F, Paths, base, n)
  BY <1>2, <1>3, <1>5, FoldExists
<1>8. \A s \in SUBSET (1..n) : s # {} => Max(s) \in 1..n /\ s \ {Max(s)} \in SUBSET (1..n)
  BY <1>2, Greatest
<1>9. g = [s \in SUBSET DOMAIN path.names |->
            IF s = {} THEN base ELSE walk(g[s \ {Max(s)}], path.names[Max(s)])]
  <2>1. ASSUME NEW s \in SUBSET (1..n)
        PROVE  g[s] = IF s = {} THEN base ELSE walk(g[s \ {Max(s)}], path.names[Max(s)])
    <3>1. CASE s = {}
      BY <1>7, <3>1 DEF IsFold
    <3>2. CASE s # {}
      <4>1. g[s] = F[<<g[s \ {Max(s)}], Max(s)>>] /\ Max(s) \in 1..n /\ g[s \ {Max(s)}] \in Paths
        BY <1>7, <1>8, <3>2 DEF IsFold
      <4> QED
        BY <1>6, <3>2, <4>1
    <3> QED
      BY <3>1, <3>2
  <2> QED
    BY <1>2, <1>7, <2>1 DEF IsFold
<1>10. it = [s \in SUBSET DOMAIN path.names |->
               IF s = {} THEN base ELSE walk(it[s \ {Max(s)}], path.names[Max(s)])]
  BY <1>9, Zenon
<1> HIDE DEF it
<1>11. it[{}] \in Paths
  BY <1>2, <1>3, <1>10
<1>12. ASSUME NEW s \in SUBSET (1..n), s # {}, it[s \ {Max(s)}] \in Paths PROVE it[s] \in Paths
  <2>1. it[s] = walk(it[s \ {Max(s)}], path.names[Max(s)])
    BY <1>2, <1>10, <1>12
  <2>2. path.names[Max(s)] \in STRING
    BY <1>2, <1>8, <1>12
  <2>3. walk(it[s \ {Max(s)}], path.names[Max(s)]) \in Paths
    BY <1>4, <1>12, <2>2
  <2> QED
    BY <2>1, <2>3
<1>13. it[1..n] \in Paths
  BY <1>2, <1>11, <1>12, FoldStays
<1> QED
  BY <1>1, <1>2, <1>13

LEMMA InputsArePaths == \A i \in Inputs : Normalize(i) \in Paths
BY TextAssumption, NormalizeType

\* An operation that fails answers the tree it was given.
AllOrNothing(r, tree) == ~r.ok => r.tree = tree

\* Bashkit's operations on the tree are all or nothing.
LEMMA TreeOperationsAllOrNothing ==
  ASSUME NEW tree, NEW p, NEW x, NEW flag
  PROVE  /\ AllOrNothing(Mkdir(tree, p, flag), tree)
         /\ AllOrNothing(Write(tree, p, x), tree)
         /\ AllOrNothing(Delete(tree, p, flag), tree)
         /\ AllOrNothing(Copied(tree, p, x), tree)
         /\ AllOrNothing(Renamed(tree, p, x), tree)
BY Zenon DEF AllOrNothing, Mkdir, Write, Delete, Copied, Renamed, Done, Failed

\* So is every method of the workspace that takes one path.
LEMMA PathMethodsAllOrNothing ==
  ASSUME NEW tree, NEW p, NEW lines, NEW flag, NEW confirm
  PROVE  /\ AllOrNothing(WriteFile(tree, p, lines, flag, confirm), tree)
         /\ AllOrNothing(CreateDirectory(tree, p, flag), tree)
         /\ AllOrNothing(RemovePath(tree, p, flag, confirm), tree)
<1>1. AllOrNothing(Failed(tree), tree)
  BY DEF AllOrNothing, Failed
<1> QED
  BY <1>1, TreeOperationsAllOrNothing, Zenon DEF WriteFile, CreateDirectory, RemovePath

\* A copy or a move that fails after its destination was removed puts the
\* snapshot back.
LEMMA TransfersAllOrNothing ==
  ASSUME NEW tree, NEW src, NEW dest, NEW overwrite, NEW confirm
  PROVE  /\ AllOrNothing(Copy(tree, src, dest, overwrite, confirm), tree)
         /\ AllOrNothing(Move(tree, src, dest, overwrite, confirm), tree)
<1>1. AllOrNothing(Failed(tree), tree)
  BY DEF AllOrNothing, Failed
<1>2. ASSUME NEW ready, NEW r
      PROVE  AllOrNothing(Transfer(tree, ready, r), tree)
  BY <1>1, Zenon DEF AllOrNothing, Transfer
<1> QED
  BY <1>1, <1>2, Zenon DEF Copy, Move

\* A call that fails has not changed a file, whichever of its steps failed; after a
\* command only /workspace may have come back.  A command that ran to its end and exited
\* nonzero keeps what it did and is exempt (VirtualWorkspace.bash).
THEOREM FailedCallsChangeNothing == Spec => FailedCallChangesNothing
<1> DEFINE Unchanged ==
      \/ fs' = Before
      \/ last'.tool = "bash" /\ fs' = Mkdir(Before, Workspace, TRUE).tree
<1>1. ASSUME NEW tool, NEW confirm, NEW r, Return(tool, confirm, r), ~last'.ok,
             AllOrNothing(r, Before)
      PROVE  Unchanged
  BY <1>1, Zenon DEF Return, EndCall, AllOrNothing
<1>2. ASSUME NEW at, pc = "bash", Rollback(at)
      PROVE  Unchanged
  <2>1. Before = saved
    BY <1>2 DEF Before
  <2>2. /\ fs' = RestoreCwd(saved, origin).tree
        /\ last'.tool = "bash"
    BY <1>2, Zenon DEF Rollback, Return, EndCall, Failed
  <2>3. RestoreCwd(saved, origin).tree \in {saved, Mkdir(saved, Workspace, TRUE).tree}
    BY Zenon DEF RestoreCwd, Done
  <2> QED
    BY <2>1, <2>2, <2>3, Zenon
<1>3. ASSUME Next, CallEnds, ~last'.ok, ~last'.exited
      PROVE  Unchanged
  <2> USE <1>3
  <2>0. /\ Idle => Before = fs
        /\ AllOrNothing(Failed(fs), fs)
    BY DEF Idle, Before, AllOrNothing, Failed
  <2>1. CASE CallWriteFile
    BY <2>0, <2>1, <1>1, PathMethodsAllOrNothing, Zenon DEF CallWriteFile
  <2>2. CASE CallCreateDirectory
    BY <2>0, <2>2, <1>1, PathMethodsAllOrNothing, Zenon DEF CallCreateDirectory
  <2>3. CASE CallRemove
    BY <2>0, <2>3, <1>1, PathMethodsAllOrNothing, Zenon DEF CallRemove
  <2>4. CASE CallCopy
    BY <2>0, <2>4, <1>1, TransfersAllOrNothing, Zenon DEF CallCopy
  <2>5. CASE CallMove
    BY <2>0, <2>5, <1>1, TransfersAllOrNothing, Zenon DEF CallMove
  <2>6. CASE RejectPatch
    BY <2>0, <2>6, <1>1, Zenon DEF RejectPatch
  <2>7. CASE StartPatch \/ StartCommand \/ CommandEffect
    BY <2>7 DEF StartPatch, StartCommand, CommandEffect, Begin, CallEnds
  <2>8. ASSUME NEW op \in Operations, PatchOperation(op)
        PROVE  Unchanged
    <3>1. Before = saved
      BY <2>8 DEF PatchOperation, Before
    <3>2. CASE ApplyOperation(fs, op, sure).ok
      BY <2>8, <3>2 DEF PatchOperation, CallEnds
    <3>3. CASE ~ApplyOperation(fs, op, sure).ok
      BY <2>8, <3>1, <3>3, Zenon DEF PatchOperation, Return, EndCall, Failed
    <3> QED
      BY <3>2, <3>3
  <2>9. CASE EndPatch
    BY <2>9 DEF EndPatch, Return, EndCall, Done
  <2>10. CASE RejectCommand
    BY <2>0, <2>10, <1>1, Zenon DEF RejectCommand
  <2>11. CASE CommandReturns
    <3>1. \/ \E at : Rollback(at)
          \/ \E success \in BOOLEAN : Exit(RestoreCwd(fs, origin).tree, success)
      BY <2>11, Zenon DEF CommandReturns
    <3>2. pc = "bash"
      BY <2>11 DEF CommandReturns
    <3>3. ~\E success \in BOOLEAN : Exit(RestoreCwd(fs, origin).tree, success)
      BY DEF Exit, EndCall
    <3> QED
      BY <3>1, <3>2, <3>3, <1>2, Zenon
  <2>12. CASE CommandRaises
    BY <2>12, <1>2, Zenon DEF CommandRaises
  <2> QED
    BY <2>1, <2>2, <2>3, <2>4, <2>5, <2>6, <2>7, <2>8, <2>9, <2>10, <2>11, <2>12, Zenon DEF Next
<1>4. [Next]_vars => [CallEnds /\ ~last'.ok /\ ~last'.exited => Unchanged]_vars
  BY <1>3, Zenon
<1> QED
  BY <1>4, PTL DEF Spec, FailedCallChangesNothing

-----------------------------------------------------------------------------
(* /workspace stays.                                                       *)

Stays(tree) == DOMAIN tree \subseteq Paths /\ IsDir(tree, Workspace)

\* A path that /workspace begins with is protected.
LEMMA OnlyProtectedAbove ==
  ASSUME NEW p \in Paths, IsPrefix(p, Workspace)
  PROVE  Protected(p)
<1>1. /\ Workspace \in Paths /\ Len(Workspace) = 1
      /\ Len(p) \in {0, 1}
  BY WorkspaceAssumption, TextAssumption DEF IsPrefix, Paths
<1>2. CASE Len(p) = 0
  BY <1>2 DEF Paths, Protected, Root
<1>3. CASE Len(p) = 1
  <2>1. SubSeq(p, 1, 1) = p /\ SubSeq(Workspace, 1, 1) = Workspace
    BY <1>1, <1>3 DEF Paths
  <2> QED
    BY <1>3, <2>1 DEF IsPrefix, Protected
<1> QED
  BY <1>1, <1>2, <1>3

\* What is moved below another path does not land on /workspace.
LEMMA RebasedElsewhere ==
  ASSUME NEW x \in Paths, NEW src \in Paths, NEW dest \in Paths, ~Protected(dest)
  PROVE  Rebased(x, src, dest) \in Paths \ {Workspace}
<1> DEFINE rest == SubSeq(x, Len(src) + 1, Len(x))
<1>1. rest \in Paths
  BY DEF Paths
<1>2. dest # <<>> /\ dest # Workspace
  BY DEF Protected, Root
<1>3. Len(dest) \in Nat \ {0}
  BY <1>2 DEF Paths
<1>4. /\ dest \o rest \in Paths
      /\ Len(dest \o rest) = Len(dest) + Len(rest)
      /\ (dest \o rest)[1] = dest[1]
  BY <1>1, <1>3 DEF Paths
<1>5. ASSUME dest \o rest = Workspace
      PROVE  FALSE
  <2>1. Len(dest) = 1
    BY <1>1, <1>3, <1>4, <1>5, WorkspaceAssumption DEF Paths
  <2>2. dest = Workspace
    BY <2>1, <1>4, <1>5, WorkspaceAssumption, TextAssumption DEF Paths
  <2> QED
    BY <2>2, <1>2
<1> QED
  BY <1>4, <1>5 DEF Rebased

\* What is put into the tree leaves /workspace a directory, unless it puts
\* something else there.
LEMMA PutStays ==
  ASSUME NEW tree, NEW more, Stays(tree), DOMAIN more \subseteq Paths,
         Workspace \in DOMAIN more => more[Workspace].dir
  PROVE  Stays(Put(tree, more))
BY Zenon DEF Stays, Put, IsDir, Exists

\* Removing a path that is not protected leaves /workspace.
LEMMA WithoutStays ==
  ASSUME NEW tree, NEW p \in Paths, Stays(tree), ~Protected(p)
  PROVE  Stays(Without(tree, p))
BY OnlyProtectedAbove, Zenon DEF Stays, Without, From, IsDir, Exists

\* The tree operations keep /workspace, on paths that are not protected and,
\* but for a removal, on every path.
LEMMA TreeOperationsStay ==
  ASSUME NEW tree, NEW p \in Paths, Stays(tree), NEW lines, NEW flag
  PROVE  /\ Stays(Mkdir(tree, p, flag).tree)
         /\ Stays(Write(tree, p, lines).tree)
         /\ ~Protected(p) => Stays(Delete(tree, p, flag).tree)
<1>1. Stays(Mkdir(tree, p, flag).tree)
  <2> DEFINE above == {SubSeq(p, 1, i) : i \in 0..Len(p)}
             made == [q \in IF flag THEN above ELSE {p} |-> Dir]
  <2>1. above \subseteq Paths
    BY DEF Paths
  <2>2. Stays(Put(tree, made))
    <3>1. DOMAIN made \subseteq Paths
      BY <2>1
    <3>2. Workspace \in DOMAIN made => made[Workspace].dir
      BY DEF Dir
    <3> HIDE DEF made
    <3> QED
      BY <3>1, <3>2, PutStays
  <2> QED
    BY <2>2, Zenon DEF Mkdir, Done, Failed
<1>2. Stays(Write(tree, p, lines).tree)
  <2> DEFINE new == [q \in {p} |-> File(lines)]
  <2>1. CASE InDir(tree, p) /\ ~IsDir(tree, p)
    <3>1. Workspace \notin DOMAIN new
      BY <2>1 DEF Stays
    <3>2. DOMAIN new \subseteq Paths
      OBVIOUS
    <3>3. Stays(Put(tree, new))
      <4> HIDE DEF new
      <4> QED
        BY <3>1, <3>2, PutStays
    <3> QED
      BY <2>1, <3>3, Zenon DEF Write, Done
  <2>2. CASE ~(InDir(tree, p) /\ ~IsDir(tree, p))
    BY <2>2, Zenon DEF Write, Failed
  <2> QED
    BY <2>1, <2>2
<1>3. ASSUME ~Protected(p)
      PROVE  Stays(Delete(tree, p, flag).tree)
  BY <1>3, WithoutStays, Zenon DEF Delete, Done, Failed
<1> QED
  BY <1>1, <1>2, <1>3

\* So do copying to, and moving from and to, paths that are not protected.
LEMMA CopiedAndRenamedStay ==
  ASSUME NEW tree, NEW src \in Paths, NEW dest \in Paths, Stays(tree), ~Protected(dest)
  PROVE  /\ Stays(Copied(tree, src, dest).tree)
         /\ ~Protected(src) => Stays(Renamed(tree, src, dest).tree)
<1> DEFINE sub == Subtree(tree, src, dest)
<1>1. DOMAIN sub \subseteq Paths /\ Workspace \notin DOMAIN sub
  <2>1. DOMAIN sub = {Rebased(x, src, dest) : x \in From(tree, src)}
    BY DEF Subtree
  <2>2. From(tree, src) \subseteq Paths
    BY DEF From, Stays
  <2> QED
    BY <2>1, <2>2, RebasedElsewhere
<1> HIDE DEF sub
<1>2. Stays(Put(tree, sub))
  BY <1>1, PutStays
<1>3. ~Protected(src) => Stays(Put(Without(tree, src), sub))
  BY <1>1, PutStays, WithoutStays
<1> QED
  BY <1>2, <1>3, Zenon DEF Copied, Renamed, Done, Failed, sub

\* The methods of the workspace keep /workspace, whatever they are called with.
LEMMA MethodsStay ==
  ASSUME NEW tree, NEW p \in Paths, NEW q \in Paths, Stays(tree),
         NEW lines, NEW flag, NEW confirm
  PROVE  /\ Stays(WriteFile(tree, p, lines, flag, confirm).tree)
         /\ Stays(CreateDirectory(tree, p, flag).tree)
         /\ Stays(RemovePath(tree, p, flag, confirm).tree)
         /\ Stays(Copy(tree, p, q, flag, confirm).tree)
         /\ Stays(Move(tree, p, q, flag, confirm).tree)
<1>0. Stays(Failed(tree).tree)
  BY DEF Failed
<1>1. /\ Stays(WriteFile(tree, p, lines, flag, confirm).tree)
      /\ Stays(CreateDirectory(tree, p, flag).tree)
      /\ Stays(RemovePath(tree, p, flag, confirm).tree)
  BY <1>0, TreeOperationsStay, Zenon DEF WriteFile, CreateDirectory, RemovePath
<1> DEFINE ready == PrepareDestination(tree, q, flag, confirm)
<1>2. ready.ok => Stays(ready.tree) /\ (q = Root \/ ~Protected(q))
  <2>1. CASE ~Exists(tree, q)
    <3>1. q # Workspace
      BY <2>1 DEF Stays, IsDir
    <3>2. ready = Done(tree)
      BY <2>1, Zenon DEF PrepareDestination
    <3> QED
      BY <3>1, <3>2 DEF Done, Protected
  <2>2. CASE Exists(tree, q) /\ MayReplace(q, flag, confirm)
    <3>1. ready = Delete(tree, q, TRUE) /\ ~Protected(q)
      BY <2>2, Zenon DEF PrepareDestination, MayReplace
    <3> QED
      BY <3>1, TreeOperationsStay
  <2>3. CASE Exists(tree, q) /\ ~MayReplace(q, flag, confirm)
    <3>1. ready = Failed(tree)
      BY <2>3, Zenon DEF PrepareDestination
    <3> QED
      BY <3>1 DEF Failed
  <2> QED
    BY <2>1, <2>2, <2>3
<1>3. /\ ~Copied(ready.tree, p, Root).ok
      /\ ~Renamed(ready.tree, p, Root).ok
  BY DEF Copied, Renamed, InDir, Failed
<1>4. ready.ok /\ Copied(ready.tree, p, q).ok => Stays(Copied(ready.tree, p, q).tree)
  BY <1>2, <1>3, CopiedAndRenamedStay
<1>5. ready.ok /\ Renamed(ready.tree, p, q).ok /\ ~Protected(p)
        => Stays(Renamed(ready.tree, p, q).tree)
  BY <1>2, <1>3, CopiedAndRenamedStay
<1>6. Stays(Transfer(tree, ready, Copied(ready.tree, p, q)).tree)
  BY <1>0, <1>4, Zenon DEF Transfer
<1>7. ~Protected(p) => Stays(Transfer(tree, ready, Renamed(ready.tree, p, q)).tree)
  BY <1>0, <1>5, Zenon DEF Transfer
<1> QED
  BY <1>0, <1>1, <1>6, <1>7, Zenon DEF Copy, Move

\* So does every operation of a patch.
LEMMA OperationsStay ==
  ASSUME NEW tree, NEW op \in Operations, NEW confirm, Stays(tree),
         ApplyOperation(tree, op, confirm).ok
  PROVE  Stays(ApplyOperation(tree, op, confirm).tree)
<1>1. op.path \in Paths
  BY InputsArePaths DEF Operations
<1>2. op.kind = "update" => op.to \in Inputs \cup {NoMove}
  BY DEF Operations
<1>3. op.kind \in {"add", "delete", "update"}
  BY DEF Operations
<1>4. ASSUME op.kind = "update" PROVE Stays(ApplyUpdate(tree, op, confirm).tree)
  <2> DEFINE edited == IF op.hunk = <<>> THEN Done(tree) ELSE Edit(tree, op.path, op.hunk)
  <2>1. Stays(Done(tree).tree) /\ Stays(Failed(tree).tree)
    BY DEF Done, Failed
  <2>2. Stays(Edit(tree, op.path, op.hunk).tree)
    BY <1>1, <2>1, MethodsStay, Zenon DEF Edit
  <2>3. Stays(edited.tree)
    BY <2>1, <2>2
  <2>4. ASSUME op.to # NoMove
        PROVE  Stays(Relocate(edited.tree, op).tree)
    <3>1. Normalize(op.to) \in Paths
      BY <1>2, <1>4, <2>4, InputsArePaths
    <3>2. Stays(Failed(edited.tree).tree)
      BY <2>3 DEF Failed
    <3> HIDE DEF edited
    <3>3. Stays(Move(edited.tree, op.path, Normalize(op.to), FALSE, TRUE).tree)
      BY <3>1, <1>1, <2>3, MethodsStay
    <3> QED
      BY <3>2, <3>3, Zenon DEF Relocate
  <2> QED
    BY <2>1, <2>3, <2>4, Zenon DEF ApplyUpdate
<1>5. ASSUME op.kind = "add" PROVE Stays(ApplyAdd(tree, op, confirm).tree)
  <2>1. Stays(Failed(tree).tree)
    BY DEF Failed
  <2> QED
    BY <1>1, <2>1, MethodsStay, Zenon DEF ApplyAdd
<1>6. ASSUME op.kind = "delete" PROVE Stays(ApplyDelete(tree, op, confirm).tree)
  <2>1. Stays(Failed(tree).tree)
    BY DEF Failed
  <2> QED
    BY <1>1, <2>1, MethodsStay, Zenon DEF ApplyDelete
<1>7. Stays(Failed(tree).tree)
  BY DEF Failed
<1> QED
  BY <1>3, <1>4, <1>5, <1>6, <1>7 DEF ApplyOperation

-----------------------------------------------------------------------------
(* The inductive invariant: what the tools need between their steps.       *)

\* A command may do anything to the tree; what matters is what it saved.
StaysInv ==
  /\ pc \in {"idle", "bash", "patch"}
  /\ start = Workspace =>
       /\ DOMAIN fs \subseteq Paths
       /\ pc = "bash" => Stays(saved) /\ origin = Workspace
       /\ pc = "patch" => Stays(saved)
       /\ pc # "bash" => Stays(fs) /\ cwd = Workspace

LEMMA StaysInvInit == Init => StaysInv
<1> SUFFICES ASSUME Init PROVE StaysInv
  OBVIOUS
<1>1. {Root, Home, Workspace} \subseteq Paths
  BY TextAssumption DEF Root, Paths
<1>2. fs = [p \in {Root, Home, Workspace} |-> Dir]
  BY DEF Init
<1>3. Stays(fs)
  BY <1>1, <1>2 DEF Stays, IsDir, Exists, Dir
<1> QED
  BY <1>3 DEF Init, StaysInv, Stays

\* An effect of a command leaves a tree of paths.
LEMMA EffectsArePaths ==
  ASSUME NEW tree, NEW p \in Paths, DOMAIN tree \subseteq Paths, NEW lines, NEW flag
  PROVE  /\ DOMAIN Mkdir(tree, p, flag).tree \subseteq Paths
         /\ DOMAIN Write(tree, p, lines).tree \subseteq Paths
         /\ DOMAIN Delete(tree, p, flag).tree \subseteq Paths
<1>1. DOMAIN Mkdir(tree, p, flag).tree \subseteq Paths
  <2> DEFINE above == {SubSeq(p, 1, i) : i \in 0..Len(p)}
             made == [q \in IF flag THEN above ELSE {p} |-> Dir]
  <2>1. DOMAIN made \subseteq Paths
    BY DEF Paths
  <2>2. DOMAIN Put(tree, made) \subseteq Paths
    <3> HIDE DEF made
    <3> QED
      BY <2>1 DEF Put
  <2> QED
    BY <2>2, Zenon DEF Mkdir, Done, Failed
<1>2. DOMAIN Write(tree, p, lines).tree \subseteq Paths
  BY DEF Write, Put, Done, Failed
<1>3. DOMAIN Delete(tree, p, flag).tree \subseteq Paths
  BY DEF Delete, Without, Done, Failed
<1> QED
  BY <1>1, <1>2, <1>3

\* A shell that was in /workspace goes back there, and makes it if it has to.
LEMMA RestoreCwdStays ==
  ASSUME NEW tree, DOMAIN tree \subseteq Paths, RestoreCwd(tree, Workspace).ok
  PROVE  /\ Stays(RestoreCwd(tree, Workspace).tree)
         /\ RestoreCwd(tree, Workspace).cwd = Workspace
         /\ IsDir(tree, Workspace) => RestoreCwd(tree, Workspace).tree = tree
<1>1. Workspace \in Paths /\ Len(Workspace) = 1
  BY TextAssumption, WorkspaceAssumption DEF Paths
<1> DEFINE made == IF IsDir(tree, Workspace) THEN Done(tree) ELSE Mkdir(tree, Workspace, TRUE)
<1>2. RestoreCwd(tree, Workspace) = [ok |-> made.ok, tree |-> made.tree, cwd |-> Workspace]
  BY Zenon DEF RestoreCwd
<1>3. CASE IsDir(tree, Workspace)
  BY <1>2, <1>3 DEF Stays, Done
<1>4. CASE ~IsDir(tree, Workspace)
  <2> DEFINE above == {SubSeq(Workspace, 1, i) : i \in 0..Len(Workspace)}
             new == [q \in above |-> Dir]
  <2>0. made = Mkdir(tree, Workspace, TRUE)
    BY <1>4
  <2>1. made # Failed(tree)
    <3>1. SUFFICES ASSUME made = Failed(tree) PROVE FALSE
      OBVIOUS
    <3>2. RestoreCwd(tree, Workspace) = [ok |-> FALSE, tree |-> made.tree, cwd |-> Workspace]
      <4> HIDE DEF made
      <4> QED
        BY <1>2, <3>1, Zenon DEF Failed
    <3> QED
      BY <3>2
  <2>2. Mkdir(tree, Workspace, TRUE) = Done(Put(tree, new))
    BY <2>0, <2>1, Zenon DEF Mkdir
  <2>3. Workspace \in above
    <3>1. SubSeq(Workspace, 1, 1) = Workspace
      BY <1>1 DEF Paths
    <3> QED
      BY <1>1, <3>1
  <2>4. new[Workspace].dir /\ Workspace \in DOMAIN new
    BY <2>3 DEF Dir
  <2>5. IsDir(Put(tree, new), Workspace)
    <3> HIDE DEF new
    <3> QED
      BY <2>4 DEF Put, IsDir, Exists
  <2>6. DOMAIN Mkdir(tree, Workspace, TRUE).tree \subseteq Paths
    BY <1>1, EffectsArePaths
  <2>7. /\ RestoreCwd(tree, Workspace).tree = made.tree
        /\ RestoreCwd(tree, Workspace).cwd = Workspace
    <3> HIDE DEF made
    <3> QED
      BY <1>2
  <2>8. made.tree = Put(tree, new) /\ DOMAIN made.tree \subseteq Paths
    <3>1. Done(Put(tree, new)).tree = Put(tree, new)
      BY Zenon DEF Done
    <3> HIDE DEF new, made
    <3> QED
      BY <2>0, <2>2, <2>6, <3>1, Zenon
  <2> HIDE DEF new, made
  <2> QED
    BY <1>4, <2>5, <2>7, <2>8 DEF Stays
<1> QED
  BY <1>3, <1>4

\* A command that is rolled back leaves the tree of the snapshot and goes back.
LEMMA RollbackStays ==
  ASSUME NEW at, Rollback(at), Stays(saved), origin = Workspace
  PROVE  Stays(fs') /\ cwd' = Workspace /\ pc' = "idle"
<1>1. IsDir(saved, Workspace) /\ DOMAIN saved \subseteq Paths
  BY DEF Stays
<1>2. RestoreCwd(saved, Workspace).ok
  BY <1>1, Zenon DEF RestoreCwd, Done
<1>3. /\ RestoreCwd(saved, Workspace).tree = saved
      /\ RestoreCwd(saved, Workspace).cwd = Workspace
  BY <1>1, <1>2, RestoreCwdStays
<1> QED
  BY <1>2, <1>3 DEF Rollback, Return, EndCall, Failed

\* Every step keeps the invariant.
LEMMA StaysInvStep == StaysInv /\ [Next]_vars => StaysInv'
<1> SUFFICES ASSUME StaysInv, [Next]_vars PROVE StaysInv'
  OBVIOUS
<1> DEFINE Safe == start' = Workspace => Stays(fs') /\ cwd' = Workspace
<1>1. ASSUME NEW tool, NEW confirm, NEW r, Return(tool, confirm, r), Safe
      PROVE  StaysInv'
  BY <1>1 DEF Return, EndCall, StaysInv, Stays
<1>2. ASSUME NEW tool, NEW confirm, NEW r, Return(tool, confirm, r), Idle,
             Stays(fs) => Stays(r.tree)
      PROVE  StaysInv'
  <2>1. Safe
    BY <1>2 DEF Return, EndCall, Idle, StaysInv
  <2> QED
    BY <1>1, <1>2, <2>1
<1>3. \A i \in Inputs : Normalize(i) \in Paths
  BY InputsArePaths
<1>4. Failed(fs).tree = fs
  BY DEF Failed
<1>5. CASE CallWriteFile
  BY <1>2, <1>3, <1>5, MethodsStay, Zenon DEF CallWriteFile
<1>6. CASE CallCreateDirectory
  BY <1>2, <1>3, <1>6, MethodsStay, Zenon DEF CallCreateDirectory
<1>7. CASE CallRemove
  BY <1>2, <1>3, <1>7, MethodsStay, Zenon DEF CallRemove
<1>8. CASE CallCopy
  BY <1>2, <1>3, <1>8, MethodsStay, Zenon DEF CallCopy
<1>9. CASE CallMove
  BY <1>2, <1>3, <1>9, MethodsStay, Zenon DEF CallMove
<1>10. CASE RejectPatch \/ RejectCommand
  BY <1>2, <1>4, <1>10, Zenon DEF RejectPatch, RejectCommand
<1>11. CASE StartPatch
  BY <1>11 DEF StartPatch, Begin, StaysInv
<1>12. ASSUME NEW op \in Operations, PatchOperation(op)
       PROVE  StaysInv'
  <2>1. pc = "patch" /\ cwd' = cwd
    BY <1>12 DEF PatchOperation
  <2>2. CASE ApplyOperation(fs, op, sure).ok
    <3>1. /\ fs' = ApplyOperation(fs, op, sure).tree
          /\ UNCHANGED <<pc, saved, start>>
      BY <1>12, <2>2, Zenon DEF PatchOperation
    <3>2. Stays(fs) => Stays(fs')
      BY <2>2, <3>1, OperationsStay
    <3> QED
      BY <2>1, <3>1, <3>2 DEF StaysInv, Stays
  <2>3. CASE ~ApplyOperation(fs, op, sure).ok
    <3>1. Return("patch", sure, Failed(saved))
      BY <1>12, <2>3, Zenon DEF PatchOperation
    <3>2. Safe
      BY <2>1, <3>1 DEF Return, EndCall, Failed, StaysInv
    <3> QED
      BY <1>1, <3>1, <3>2
  <2> QED
    BY <2>2, <2>3
<1>13. CASE EndPatch
  <2>1. Safe
    BY <1>13 DEF EndPatch, Return, EndCall, Done, StaysInv
  <2> QED
    BY <1>1, <1>13, <2>1 DEF EndPatch
<1>14. CASE StartCommand
  BY <1>14 DEF StartCommand, Begin, StaysInv
<1>15. CASE CommandEffect
  <2>1. PICK i \in Inputs :
          /\ \/ fs' = fs
             \/ \E r \in {Mkdir(fs, Normalize(i), FALSE), Delete(fs, Normalize(i), TRUE)}
                         \cup {Write(fs, Normalize(i), c) : c \in Output} : fs' = r.tree
          /\ pc = "bash"
          /\ UNCHANGED <<pc, saved, origin, start>>
    BY <1>15, Zenon DEF CommandEffect
  <2>2. DOMAIN fs \subseteq Paths => DOMAIN fs' \subseteq Paths
    BY <1>3, <2>1, EffectsArePaths
  <2> QED
    BY <2>1, <2>2 DEF StaysInv
<1>16. ASSUME NEW at, Rollback(at), pc = "bash"
       PROVE  StaysInv'
  <2>1. start' = start
    BY <1>16 DEF Rollback, Return, EndCall
  <2>2. Safe
    BY <1>16, <2>1, RollbackStays DEF StaysInv
  <2> QED
    BY <1>1, <1>16, <2>2 DEF Rollback
<1>17. CASE CommandReturns
  <2> DEFINE back == RestoreCwd(fs, origin)
  <2>1. pc = "bash"
    BY <1>17 DEF CommandReturns
  <2>2. \/ \E at : Rollback(at)
        \/ \E success : back.ok /\ Exit(back.tree, success) /\ cwd' = back.cwd
    BY <1>17, Zenon DEF CommandReturns
  <2>3. ASSUME back.ok, NEW success, Exit(back.tree, success), cwd' = back.cwd
        PROVE  StaysInv'
    <3>1. start' = start /\ fs' = back.tree
      BY <2>3 DEF Exit, EndCall
    <3>2. Safe
      BY <2>1, <2>3, <3>1, RestoreCwdStays DEF StaysInv
    <3> QED
      BY <2>3, <3>2 DEF Exit, EndCall, StaysInv, Stays
  <2> QED
    BY <1>16, <2>1, <2>2, <2>3
<1>18. CASE CommandRaises
  BY <1>16, <1>18 DEF CommandRaises
<1>19. CASE UNCHANGED vars
  BY <1>19 DEF vars, StaysInv, Stays, IsDir, Exists
<1> QED
  BY <1>5, <1>6, <1>7, <1>8, <1>9, <1>10, <1>11, <1>12, <1>13, <1>14, <1>15, <1>17, <1>18, <1>19, Zenon
     DEF Next

\* A shell that starts in /workspace is there between calls, and it is a
\* directory, although commands may remove or replace it.
THEOREM WorkspaceAlwaysStays == Spec => []WorkspaceStays
<1>1. StaysInv => WorkspaceStays
  BY DEF StaysInv, WorkspaceStays, Stays
<1> QED
  BY <1>1, StaysInvInit, StaysInvStep, PTL DEF Spec

-----------------------------------------------------------------------------
(* Paths and their prefixes.                                               *)

LEMMA PrefixPointwise ==
  ASSUME NEW p \in Paths, NEW q \in Paths
  PROVE  IsPrefix(p, q) <=> Len(p) <= Len(q) /\ \A i \in 1..Len(p) : p[i] = q[i]
<1>1. Len(p) \in Nat /\ Len(q) \in Nat
  BY DEF Paths
<1> SUFFICES ASSUME Len(p) <= Len(q)
             PROVE  SubSeq(p, 1, Len(p)) = SubSeq(q, 1, Len(p)) <=> \A i \in 1..Len(p) : p[i] = q[i]
  BY DEF IsPrefix
<1>2. SubSeq(p, 1, Len(p)) = p
  BY DEF Paths
<1>3. /\ SubSeq(q, 1, Len(p)) \in Paths
      /\ Len(SubSeq(q, 1, Len(p))) = Len(p)
      /\ \A i \in 1..Len(p) : SubSeq(q, 1, Len(p))[i] = q[i]
  BY <1>1 DEF Paths
<1>4. (\A i \in 1..Len(p) : p[i] = q[i]) => p = SubSeq(q, 1, Len(p))
  BY <1>3, SeqEqual DEF Paths
<1> QED
  BY <1>2, <1>3, <1>4

\* Prefixes order the paths, and those of one path lie on a line.
LEMMA PrefixOrder ==
  ASSUME NEW p \in Paths, NEW q \in Paths, NEW r \in Paths
  PROVE  /\ IsPrefix(p, p) /\ IsPrefix(Root, p)
         /\ IsPrefix(p, q) /\ IsPrefix(q, r) => IsPrefix(p, r)
         /\ IsPrefix(p, q) /\ IsPrefix(q, p) => p = q
         /\ IsPrefix(p, r) /\ IsPrefix(q, r) => IsPrefix(p, q) \/ IsPrefix(q, p)
<1>1. Len(p) \in Nat /\ Len(q) \in Nat /\ Len(r) \in Nat
  BY DEF Paths
<1>2. Root \in Paths /\ Len(Root) = 0
  BY DEF Root, Paths
<1>3. IsPrefix(p, p) /\ IsPrefix(Root, p)
  BY <1>1, <1>2, PrefixPointwise
<1>4. IsPrefix(p, q) /\ IsPrefix(q, r) => IsPrefix(p, r)
  BY <1>1, PrefixPointwise
<1>5. IsPrefix(p, q) /\ IsPrefix(q, p) => p = q
  BY <1>1, PrefixPointwise, SeqEqual DEF Paths
<1>6. IsPrefix(p, r) /\ IsPrefix(q, r) => IsPrefix(p, q) \/ IsPrefix(q, p)
  BY <1>1, PrefixPointwise
<1> QED
  BY <1>3, <1>4, <1>5, <1>6

\* The directory of a path is the longest of the prefixes it does not share.
LEMMA FrontIsAbove ==
  ASSUME NEW p \in Paths, p # Root
  PROVE  /\ Front(p) \in Paths /\ IsPrefix(Front(p), p) /\ Front(p) # p
         /\ \A q \in Paths : IsStrictPrefix(q, p) => IsPrefix(q, Front(p))
<1>1. Len(p) \in Nat \ {0}
  BY DEF Paths, Root
<1>2. /\ Front(p) \in Paths /\ Len(Front(p)) = Len(p) - 1
      /\ \A i \in 1..Len(p)-1 : Front(p)[i] = p[i]
  <2>1. \A i \in 1..Len(p)-1 : p[i] \in STRING
    BY <1>1 DEF Paths
  <2> DEFINE m == Len(p) - 1
  <2>2. m \in Nat
    BY <1>1
  <2> HIDE DEF m
  <2>3. /\ SubSeq(p, 1, m) \in Paths /\ Len(SubSeq(p, 1, m)) = IF 1 <= m THEN m - 1 + 1 ELSE 0
        /\ \A i \in 1..m - 1 + 1 : SubSeq(p, 1, m)[i] = p[1 + i - 1]
    BY <2>1, <2>2, SubSeqProperties DEF Paths, m
  <2>4. m - 1 + 1 = m /\ (1 <= m \/ m = 0) /\ \A i \in 1..m : 1 + i - 1 = i
    BY <2>2
  <2> QED
    BY <2>3, <2>4 DEF Front, m
<1>3. IsPrefix(Front(p), p)
  BY <1>1, <1>2, PrefixPointwise
<1>4. ASSUME NEW q \in Paths, IsStrictPrefix(q, p) PROVE IsPrefix(q, Front(p))
  <2>1. Len(q) \in Nat /\ Len(q) <= Len(p) /\ \A i \in 1..Len(q) : q[i] = p[i]
    BY <1>4, PrefixPointwise DEF IsStrictPrefix, Paths
  <2>2. Len(q) # Len(p)
    BY <1>4, <2>1, SeqEqual DEF IsStrictPrefix, Paths
  <2> QED
    BY <1>1, <1>2, <2>1, <2>2, PrefixPointwise
<1> QED
  BY <1>1, <1>2, <1>3, <1>4

LEMMA ConcatShifts ==
  ASSUME NEW p \in Paths, NEW q \in Paths
  PROVE  /\ p \o q \in Paths /\ Len(p \o q) = Len(p) + Len(q)
         /\ \A i \in 1..Len(p) : (p \o q)[i] = p[i]
         /\ \A i \in 1..Len(q) : (p \o q)[Len(p) + i] = q[i]
<1>1. Len(p) \in Nat /\ Len(q) \in Nat
  BY DEF Paths
<1>2. /\ p \o q \in Paths /\ Len(p \o q) = Len(p) + Len(q)
      /\ \A i \in 1..Len(p) + Len(q) : (p \o q)[i] = IF i <= Len(p) THEN p[i] ELSE q[i - Len(p)]
  BY ConcatProperties DEF Paths
<1>3. \A i \in 1..Len(p) : i \in 1..Len(p) + Len(q) /\ i <= Len(p)
  BY <1>1
<1>4. \A i \in 1..Len(q) : Len(p) + i \in 1..Len(p) + Len(q) /\ ~(Len(p) + i <= Len(p)) /\ (Len(p) + i) - Len(p) = i
  BY <1>1
<1> QED
  BY <1>2, <1>3, <1>4

\* What is below src goes below dest, in the same order, and back.
LEMMA RebasedBelow ==
  ASSUME NEW src \in Paths, NEW dest \in Paths, NEW x \in Paths, IsPrefix(src, x)
  PROVE  /\ Rebased(x, src, dest) \in Paths
         /\ IsPrefix(dest, Rebased(x, src, dest))
         /\ Rebased(Rebased(x, src, dest), dest, src) = x
<1> DEFINE rest == SubSeq(x, Len(src) + 1, Len(x))
           y == dest \o rest
<1>1. /\ Len(src) \in Nat /\ Len(dest) \in Nat /\ Len(x) \in Nat /\ Len(src) <= Len(x)
      /\ \A i \in 1..Len(src) : src[i] = x[i]
  BY PrefixPointwise DEF Paths
<1>2. /\ rest \in Paths /\ Len(rest) = Len(x) - Len(src)
      /\ \A i \in 1..Len(x) - Len(src) : rest[i] = x[Len(src) + i]
  BY <1>1 DEF Paths
<1> HIDE DEF rest
<1>3. /\ y \in Paths /\ Len(y) = Len(dest) + Len(rest)
      /\ \A i \in 1..Len(dest) : y[i] = dest[i]
      /\ \A i \in 1..Len(rest) : y[Len(dest) + i] = rest[i]
  BY <1>2, ConcatShifts
<1> HIDE DEF y
<1>4. IsPrefix(dest, y)
  BY <1>1, <1>2, <1>3, PrefixPointwise
<1> DEFINE back == SubSeq(y, Len(dest) + 1, Len(y))
<1>5. /\ back \in Paths /\ Len(back) = Len(rest)
      /\ \A i \in 1..Len(rest) : back[i] = y[Len(dest) + i]
  BY <1>1, <1>2, <1>3 DEF Paths
<1> HIDE DEF back
<1>6. back = rest
  BY <1>2, <1>3, <1>5, SeqEqual DEF Paths
<1>7. /\ src \o rest \in Paths /\ Len(src \o rest) = Len(x)
      /\ \A i \in 1..Len(x) : (src \o rest)[i] = x[i]
  <2>1. /\ src \o rest \in Paths /\ Len(src \o rest) = Len(src) + Len(rest)
        /\ \A i \in 1..Len(src) + Len(rest) :
             (src \o rest)[i] = IF i <= Len(src) THEN src[i] ELSE rest[i - Len(src)]
    BY <1>2, ConcatProperties DEF Paths
  <2>2. \A i \in 1..Len(x) : i <= Len(src) \/ (i - Len(src) \in 1..Len(x) - Len(src) /\ Len(src) + (i - Len(src)) = i)
    BY <1>1
  <2> QED
    BY <1>1, <1>2, <2>1, <2>2
<1>8. src \o rest = x
  BY <1>7, SeqEqual DEF Paths
<1> QED
  BY <1>3, <1>4, <1>6, <1>8 DEF Rebased, rest, y, back

LEMMA RebasedMonotone ==
  ASSUME NEW src \in Paths, NEW dest \in Paths, NEW x \in Paths, NEW z \in Paths,
         IsPrefix(src, x), IsPrefix(x, z)
  PROVE  IsPrefix(Rebased(x, src, dest), Rebased(z, src, dest))
<1>0. IsPrefix(src, z)
  BY PrefixOrder
<1> DEFINE R(u) == Rebased(u, src, dest)
<1>1. ASSUME NEW u \in Paths, IsPrefix(src, u)
      PROVE  /\ Len(R(u)) = Len(dest) + (Len(u) - Len(src))
             /\ \A i \in 1..Len(dest) : R(u)[i] = dest[i]
             /\ \A i \in 1..Len(u) - Len(src) : R(u)[Len(dest) + i] = u[Len(src) + i]
  <2> DEFINE rest == SubSeq(u, Len(src) + 1, Len(u))
  <2>1. Len(src) \in Nat /\ Len(dest) \in Nat /\ Len(u) \in Nat /\ Len(src) <= Len(u)
    BY <1>1, PrefixPointwise DEF Paths
  <2>2. /\ rest \in Paths /\ Len(rest) = Len(u) - Len(src)
        /\ \A i \in 1..Len(u) - Len(src) : rest[i] = u[Len(src) + i]
    BY <2>1 DEF Paths
  <2> HIDE DEF rest
  <2>3. /\ Len(dest \o rest) = Len(dest) + Len(rest)
        /\ \A i \in 1..Len(dest) : (dest \o rest)[i] = dest[i]
        /\ \A i \in 1..Len(rest) : (dest \o rest)[Len(dest) + i] = rest[i]
    BY <2>2, ConcatShifts
  <2> QED
    BY <2>2, <2>3 DEF Rebased, rest
<1>2. R(x) \in Paths /\ R(z) \in Paths
  BY <1>0, RebasedBelow
<1>3. /\ Len(src) \in Nat /\ Len(dest) \in Nat /\ Len(x) \in Nat /\ Len(z) \in Nat
      /\ Len(src) <= Len(x) /\ Len(x) <= Len(z) /\ \A i \in 1..Len(x) : x[i] = z[i]
  BY PrefixPointwise DEF Paths
<1>4. Len(R(x)) <= Len(R(z))
  BY <1>0, <1>1, <1>3
<1>5. ASSUME NEW i \in 1..Len(R(x)) PROVE R(x)[i] = R(z)[i]
  <2>1. Len(R(x)) = Len(dest) + (Len(x) - Len(src)) /\ i \in Nat
    BY <1>1, <1>2 DEF Paths
  <2>2. CASE i <= Len(dest)
    BY <1>0, <1>1, <1>3, <2>2
  <2>3. CASE i > Len(dest)
    <3>1. i - Len(dest) \in 1..Len(x) - Len(src) /\ Len(dest) + (i - Len(dest)) = i
          /\ i - Len(dest) \in 1..Len(z) - Len(src) /\ Len(src) + (i - Len(dest)) \in 1..Len(x)
      BY <1>3, <2>1, <2>3
    <3> HIDE DEF R
    <3>2. R(x)[Len(dest) + (i - Len(dest))] = x[Len(src) + (i - Len(dest))]
      BY <1>1, <3>1
    <3>3. R(z)[Len(dest) + (i - Len(dest))] = z[Len(src) + (i - Len(dest))]
      BY <1>0, <1>1, <3>1
    <3> QED
      BY <1>3, <3>1, <3>2, <3>3
  <2> QED
    BY <1>3, <2>1, <2>2, <2>3
<1> QED
  BY <1>2, <1>4, <1>5, PrefixPointwise

-----------------------------------------------------------------------------
(* The tree is a tree.                                                     *)

\* Everything above an existing path is a directory, and directories are alike.
IsTree(tree) ==
  /\ DOMAIN tree \subseteq Paths
  /\ \A q \in DOMAIN tree : tree[q] = Dir \/ ~tree[q].dir
  /\ IsDir(tree, Root)
  /\ \A q \in DOMAIN tree : \A p \in Paths : IsStrictPrefix(p, q) => IsDir(tree, p)

\* What was there is still there, as it was.
Keeps(new, old) == \A q \in DOMAIN old : q \in DOMAIN new /\ new[q] = old[q]

\* New directories below old ones make a tree that keeps what was there.
LEMMA NewDirectories ==
  ASSUME NEW tree, IsTree(tree), NEW D \in SUBSET Paths, \A q \in D : ~IsFile(tree, q),
         \A q \in D : \A p \in Paths : IsStrictPrefix(p, q) => p \in D \/ IsDir(tree, p)
  PROVE  /\ IsTree(Put(tree, [q \in D |-> Dir]))
         /\ Keeps(Put(tree, [q \in D |-> Dir]), tree)
<1> DEFINE t == Put(tree, [q \in D |-> Dir])
<1>1. /\ DOMAIN t = DOMAIN tree \cup D
      /\ \A q \in D : t[q] = Dir
      /\ \A q \in DOMAIN tree \ D : t[q] = tree[q]
  BY DEF Put
<1> HIDE DEF t
<1>2. Dir.dir
  BY DEF Dir
<1>3. \A q \in DOMAIN tree \cap D : tree[q] = Dir
  BY DEF IsTree, IsFile, Exists
<1>4. \A q \in DOMAIN tree : t[q] = tree[q]
  BY <1>1, <1>3
<1>5. \A q : IsDir(tree, q) \/ q \in D => IsDir(t, q)
  BY <1>1, <1>2, <1>4 DEF IsDir, Exists
<1>6. IsTree(t)
  BY <1>1, <1>4, <1>5 DEF IsTree
<1> QED
  BY <1>1, <1>4, <1>6 DEF t, Keeps

\* A path that names no file is above no other, and has nothing below it when it does
\* not exist.
LEMMA OnlyDirectoriesAbove ==
  ASSUME NEW tree, IsTree(tree), NEW p \in Paths, NEW q \in DOMAIN tree, IsPrefix(p, q), p # q
  PROVE  IsDir(tree, p)
BY DEF IsTree, IsStrictPrefix

\* What is in a directory has only directories above it.
LEMMA InDirectory ==
  ASSUME NEW tree, IsTree(tree), NEW p \in Paths, InDir(tree, p), NEW q \in Paths, IsStrictPrefix(q, p)
  PROVE  IsDir(tree, q)
<1>1. Front(p) \in DOMAIN tree /\ IsDir(tree, Front(p)) /\ p # Root
  BY DEF InDir, IsDir, Exists
<1>2. IsPrefix(q, Front(p))
  BY <1>1, FrontIsAbove
<1> QED
  BY <1>1, <1>2, OnlyDirectoriesAbove

LEMMA MkdirKeepsTree ==
  ASSUME NEW tree, IsTree(tree), NEW p \in Paths, NEW parents \in BOOLEAN
  PROVE  /\ IsTree(Mkdir(tree, p, parents).tree)
         /\ Keeps(Mkdir(tree, p, parents).tree, tree)
<1> DEFINE above == {SubSeq(p, 1, i) : i \in 0..Len(p)}
           D == IF parents THEN above ELSE {p}
           fits == IF parents THEN \A q \in above : ~IsFile(tree, q)
                              ELSE InDir(tree, p) /\ ~Exists(tree, p)
<1>1. above \subseteq Paths /\ \A q \in Paths, r \in above : IsStrictPrefix(q, r) => q \in above
  <2>1. Len(p) \in Nat
    BY DEF Paths
  <2>2. ASSUME NEW i \in 0..Len(p)
        PROVE  /\ SubSeq(p, 1, i) \in Paths /\ Len(SubSeq(p, 1, i)) = i
               /\ \A j \in 1..i : SubSeq(p, 1, i)[j] = p[j]
    BY <2>1 DEF Paths
  <2>3. ASSUME NEW q \in Paths, NEW i \in 0..Len(p), IsPrefix(q, SubSeq(p, 1, i)) PROVE q \in above
    <3>1. Len(q) \in 0..i /\ \A j \in 1..Len(q) : q[j] = SubSeq(p, 1, i)[j]
      <4>1. Len(q) <= Len(SubSeq(p, 1, i)) /\ \A j \in 1..Len(q) : q[j] = SubSeq(p, 1, i)[j]
        BY <2>2, <2>3, PrefixPointwise
      <4>2. Len(q) \in Nat
        BY DEF Paths
      <4> QED
        BY <2>1, <2>2, <4>1, <4>2
    <3>2. Len(q) \in 0..Len(p) /\ \A j \in 1..Len(q) : q[j] = p[j]
      BY <2>1, <2>2, <3>1
    <3>3. q = SubSeq(p, 1, Len(q))
      BY <2>2, <3>2, SeqEqual DEF Paths
    <3> QED
      BY <3>2, <3>3
  <2> QED
    BY <2>2, <2>3 DEF IsStrictPrefix
<1>2. CASE fits
  <2>1. Mkdir(tree, p, parents) = Done(Put(tree, [q \in D |-> Dir]))
    BY <1>2, Zenon DEF Mkdir
  <2> HIDE DEF above, D
  <2>2. Mkdir(tree, p, parents).tree = Put(tree, [q \in D |-> Dir])
    BY <2>1 DEF Done
  <2>3. D \in SUBSET Paths /\ \A q \in D : ~IsFile(tree, q)
    BY <1>1, <1>2 DEF D, IsFile, Exists
  <2>4. \A q \in D : \A r \in Paths : IsStrictPrefix(r, q) => r \in D \/ IsDir(tree, r)
    BY <1>1, <1>2, InDirectory DEF D
  <2>5. /\ IsTree(Put(tree, [q \in D |-> Dir]))
        /\ Keeps(Put(tree, [q \in D |-> Dir]), tree)
    BY <2>3, <2>4, NewDirectories
  <2> QED
    BY <2>2, <2>5
<1>3. CASE ~fits
  <2>1. Mkdir(tree, p, parents).tree = tree
    BY <1>3, Zenon DEF Mkdir, Failed
  <2> QED
    BY <2>1 DEF Keeps
<1> QED
  BY <1>2, <1>3

LEMMA WriteKeepsTree ==
  ASSUME NEW tree, IsTree(tree), NEW p \in Paths, NEW lines
  PROVE  /\ IsTree(Write(tree, p, lines).tree)
         /\ ~Exists(tree, p) => Keeps(Write(tree, p, lines).tree, tree)
<1> DEFINE t == Put(tree, [q \in {p} |-> File(lines)])
<1>1. CASE InDir(tree, p) /\ ~IsDir(tree, p)
  <2>1. Write(tree, p, lines).tree = t
    BY <1>1, Zenon DEF Write, Done
  <2>2. /\ DOMAIN t = DOMAIN tree \cup {p} /\ t[p] = File(lines)
        /\ \A q \in DOMAIN tree \ {p} : t[q] = tree[q]
    BY DEF Put
  <2> HIDE DEF t
  <2>3. ~t[p].dir
    BY <2>2 DEF File
  <2>4. \A q : IsDir(tree, q) => IsDir(t, q)
    BY <1>1, <2>2 DEF IsDir, Exists
  <2>5. IsTree(t)
    BY <1>1, <2>2, <2>3, <2>4, InDirectory DEF IsTree
  <2> QED
    BY <2>1, <2>2, <2>5 DEF Exists, Keeps
<1>2. CASE ~(InDir(tree, p) /\ ~IsDir(tree, p))
  <2>1. Write(tree, p, lines).tree = tree
    BY <1>2, Zenon DEF Write, Failed
  <2> QED
    BY <2>1 DEF Keeps
<1> QED
  BY <1>1, <1>2

LEMMA WithoutKeepsTree ==
  ASSUME NEW tree, IsTree(tree), NEW p \in Paths, p # Root
  PROVE  IsTree(Without(tree, p)) /\ ~Exists(Without(tree, p), p)
<1> DEFINE t == Without(tree, p)
<1>1. DOMAIN t = DOMAIN tree \ From(tree, p) /\ \A q \in DOMAIN t : t[q] = tree[q]
  BY DEF Without
<1>2. \A q \in DOMAIN tree : q \in DOMAIN t <=> ~IsPrefix(p, q)
  BY <1>1 DEF From
<1> HIDE DEF t
<1>3. DOMAIN tree \subseteq Paths /\ Root \in Paths /\ IsPrefix(p, p)
  BY PrefixOrder DEF IsTree, Root, Paths
<1>4. IsDir(t, Root)
  <2>1. ~IsPrefix(p, Root)
    BY <1>3, PrefixOrder
  <2> QED
    BY <1>1, <1>2, <2>1 DEF IsTree, IsDir, Exists
<1>5. ASSUME NEW q \in DOMAIN t, NEW r \in Paths, IsStrictPrefix(r, q) PROVE IsDir(t, r)
  <2>1. q \in DOMAIN tree /\ ~IsPrefix(p, q) /\ q \in Paths
    BY <1>1, <1>2, <1>3
  <2>2. ~IsPrefix(p, r)
    BY <1>5, <2>1, PrefixOrder DEF IsStrictPrefix
  <2>3. IsDir(tree, r)
    BY <1>5, <2>1 DEF IsTree
  <2> QED
    BY <1>1, <1>2, <2>2, <2>3 DEF IsDir, Exists
<1>6. IsTree(t)
  BY <1>1, <1>3, <1>4, <1>5 DEF IsTree
<1>7. ~Exists(t, p)
  BY <1>1, <1>2, <1>3 DEF Exists
<1> QED
  BY <1>6, <1>7 DEF t

\* What is copied below a new path.
LEMMA SubtreeFact ==
  ASSUME NEW tree, IsTree(tree), NEW src \in Paths, NEW dest \in Paths
  PROVE  LET sub == Subtree(tree, src, dest) IN
         /\ DOMAIN sub = {q \in Paths : IsPrefix(dest, q) /\ Rebased(q, dest, src) \in DOMAIN tree}
         /\ \A q \in DOMAIN sub : sub[q] = tree[Rebased(q, dest, src)]
<1> DEFINE sub == Subtree(tree, src, dest)
<1>1. /\ DOMAIN sub = {Rebased(x, src, dest) : x \in From(tree, src)}
      /\ \A q \in DOMAIN sub : sub[q] = tree[Rebased(q, dest, src)]
  BY DEF Subtree
<1> HIDE DEF sub
<1>2. \A x \in From(tree, src) : x \in Paths /\ x \in DOMAIN tree /\ IsPrefix(src, x)
  BY DEF From, IsTree
<1>3. ASSUME NEW q \in DOMAIN sub
      PROVE  q \in Paths /\ IsPrefix(dest, q) /\ Rebased(q, dest, src) \in DOMAIN tree
  <2>1. PICK x \in From(tree, src) : q = Rebased(x, src, dest)
    BY <1>1
  <2> QED
    BY <1>2, <2>1, RebasedBelow
<1>4. ASSUME NEW q \in Paths, IsPrefix(dest, q), Rebased(q, dest, src) \in DOMAIN tree
      PROVE  q \in DOMAIN sub
  <2>1. /\ IsPrefix(src, Rebased(q, dest, src))
        /\ Rebased(Rebased(q, dest, src), src, dest) = q
    BY <1>4, RebasedBelow
  <2>2. Rebased(q, dest, src) \in From(tree, src)
    BY <1>4, <2>1 DEF From
  <2> QED
    BY <1>1, <2>1, <2>2
<1> QED
  BY <1>1, <1>3, <1>4 DEF sub

\* A subtree of a tree, put where there was nothing, makes a tree that keeps the rest.
LEMMA GraftKeepsTree ==
  ASSUME NEW tree, IsTree(tree), NEW t, IsTree(t), NEW src \in Paths, NEW dest \in Paths,
         InDir(t, dest), ~Exists(t, dest)
  PROVE  /\ IsTree(Put(t, Subtree(tree, src, dest)))
         /\ Keeps(Put(t, Subtree(tree, src, dest)), t)
<1> DEFINE sub == Subtree(tree, src, dest)
           new == Put(t, sub)
<1>1. /\ DOMAIN sub = {q \in Paths : IsPrefix(dest, q) /\ Rebased(q, dest, src) \in DOMAIN tree}
      /\ \A q \in DOMAIN sub : sub[q] = tree[Rebased(q, dest, src)]
  BY SubtreeFact
<1> HIDE DEF sub
<1>2. /\ DOMAIN new = DOMAIN t \cup DOMAIN sub
      /\ \A q \in DOMAIN sub : new[q] = sub[q]
      /\ \A q \in DOMAIN t \ DOMAIN sub : new[q] = t[q]
  BY DEF Put
<1> HIDE DEF new
<1>3. \A q \in DOMAIN t : q \in Paths /\ ~IsPrefix(dest, q)
  <2> TAKE q \in DOMAIN t
  <2>1. q \in Paths /\ q # dest
    BY DEF IsTree, Exists
  <2>2. IsPrefix(dest, q) => Exists(t, dest)
    BY <2>1, OnlyDirectoriesAbove DEF IsDir
  <2> QED
    BY <2>1, <2>2
<1>4. \A q \in DOMAIN t : q \notin DOMAIN sub /\ new[q] = t[q]
  BY <1>1, <1>2, <1>3
<1>5. \A q : IsDir(t, q) => IsDir(new, q)
  BY <1>2, <1>4 DEF IsDir, Exists
<1>6. ASSUME NEW q \in DOMAIN sub, NEW p \in Paths, IsStrictPrefix(p, q) PROVE IsDir(new, p)
  <2>1. q \in Paths /\ IsPrefix(dest, q) /\ Rebased(q, dest, src) \in DOMAIN tree /\ IsPrefix(p, q) /\ p # q
    BY <1>1, <1>6 DEF IsStrictPrefix
  <2>2. CASE IsPrefix(dest, p)
    <3>1. /\ Rebased(p, dest, src) \in Paths /\ Rebased(q, dest, src) \in Paths
          /\ Rebased(Rebased(p, dest, src), src, dest) = p
          /\ Rebased(Rebased(q, dest, src), src, dest) = q
          /\ IsPrefix(Rebased(p, dest, src), Rebased(q, dest, src))
      BY <2>1, <2>2, RebasedBelow, RebasedMonotone
    <3>2. Rebased(p, dest, src) # Rebased(q, dest, src)
      BY <2>1, <3>1
    <3>3. IsDir(tree, Rebased(p, dest, src))
      BY <2>1, <3>1, <3>2, OnlyDirectoriesAbove
    <3>4. p \in DOMAIN sub
      BY <1>1, <2>2, <3>3 DEF IsDir, Exists
    <3> QED
      BY <1>1, <1>2, <3>3, <3>4 DEF IsDir, Exists
  <2>3. CASE ~IsPrefix(dest, p)
    <3>1. IsPrefix(p, dest) /\ p # dest
      BY <2>1, <2>3, PrefixOrder
    <3>2. IsDir(t, p)
      BY <3>1, InDirectory DEF IsStrictPrefix
    <3> QED
      BY <1>5, <3>2
  <2> QED
    BY <2>2, <2>3
<1>7. \A q \in DOMAIN sub : new[q] = Dir \/ ~new[q].dir
  BY <1>1, <1>2 DEF IsTree
<1>8. IsTree(new)
  BY <1>1, <1>2, <1>4, <1>5, <1>6, <1>7 DEF IsTree
<1> QED
  BY <1>2, <1>4, <1>8 DEF new, sub, Keeps

\* A copy to a path that does not exist.
LEMMA CopiedKeepsTree ==
  ASSUME NEW tree, IsTree(tree), NEW src \in Paths, NEW dest \in Paths, ~Exists(tree, dest)
  PROVE  /\ IsTree(Copied(tree, src, dest).tree)
         /\ Keeps(Copied(tree, src, dest).tree, tree)
<1>1. CASE Exists(tree, src) /\ InDir(tree, dest)
  <2>1. Copied(tree, src, dest).tree = Put(tree, Subtree(tree, src, dest))
    BY <1>1 DEF Copied, Done
  <2> QED
    BY <1>1, <2>1, GraftKeepsTree
<1>2. CASE ~(Exists(tree, src) /\ InDir(tree, dest))
  <2>1. Copied(tree, src, dest).tree = tree
    BY <1>2, Zenon DEF Copied, Failed
  <2> QED
    BY <2>1 DEF Keeps
<1> QED
  BY <1>1, <1>2

\* A move to a path that does not exist and is not inside a directory that moves.
LEMMA RenamedKeepsTree ==
  ASSUME NEW tree, IsTree(tree), NEW src \in Paths, NEW dest \in Paths, ~Exists(tree, dest),
         src # Root, src # dest, ~(IsDir(tree, src) /\ IsStrictPrefix(src, dest))
  PROVE  IsTree(Renamed(tree, src, dest).tree)
<1>1. CASE Exists(tree, src) /\ InDir(tree, dest)
  <2> DEFINE t == Without(tree, src)
  <2>1. Renamed(tree, src, dest).tree = Put(t, Subtree(tree, src, dest))
    BY <1>1 DEF Renamed, Done
  <2>2. IsTree(t) /\ DOMAIN t = DOMAIN tree \ From(tree, src) /\ \A q \in DOMAIN t : t[q] = tree[q]
    BY WithoutKeepsTree DEF Without
  <2> HIDE DEF t
  <2>3. ~IsPrefix(src, Front(dest))
    <3>1. dest # Root /\ Front(dest) \in DOMAIN tree /\ IsDir(tree, Front(dest))
      BY <1>1 DEF InDir, IsDir, Exists
    <3>2. SUFFICES ASSUME IsPrefix(src, Front(dest)) PROVE FALSE
      OBVIOUS
    <3>3. IsPrefix(src, dest)
      BY <3>1, <3>2, FrontIsAbove, PrefixOrder
    <3>4. IsDir(tree, src)
      BY <3>1, <3>2, OnlyDirectoriesAbove
    <3> QED
      BY <3>3, <3>4 DEF IsStrictPrefix
  <2>4. InDir(t, dest) /\ ~Exists(t, dest)
    BY <1>1, <2>2, <2>3 DEF InDir, IsDir, Exists, From
  <2> QED
    BY <2>1, <2>2, <2>4, GraftKeepsTree
<1>2. CASE ~(Exists(tree, src) /\ InDir(tree, dest))
  <2>1. Renamed(tree, src, dest).tree = tree
    BY <1>2, Zenon DEF Renamed, Failed
  <2> QED
    BY <2>1
<1> QED
  BY <1>1, <1>2

LEMMA DeleteKeepsTree ==
  ASSUME NEW tree, IsTree(tree), NEW p \in Paths, NEW recursive
  PROVE  /\ IsTree(Delete(tree, p, recursive).tree)
         /\ Delete(tree, p, recursive).ok => ~Exists(Delete(tree, p, recursive).tree, p)
<1>1. CASE p # Root /\ Exists(tree, p) /\ (recursive \/ From(tree, p) = {p})
  <2>1. Delete(tree, p, recursive).tree = Without(tree, p)
    BY <1>1, Zenon DEF Delete, Done
  <2> QED
    BY <1>1, <2>1, WithoutKeepsTree
<1>2. CASE ~(p # Root /\ Exists(tree, p) /\ (recursive \/ From(tree, p) = {p}))
  <2>1. Delete(tree, p, recursive) = Failed(tree)
    BY <1>2, Zenon DEF Delete
  <2> QED
    BY <2>1 DEF Failed
<1> QED
  BY <1>1, <1>2

\* Every method of the workspace leaves a tree; one that was not confirmed keeps what was
\* there.
LEMMA MethodsKeepTree ==
  ASSUME NEW tree, IsTree(tree), NEW p \in Paths, NEW q \in Paths, NEW lines,
         NEW flag \in BOOLEAN, NEW confirm \in BOOLEAN,
         NEW result \in {WriteFile(tree, p, lines, flag, confirm), CreateDirectory(tree, p, flag),
                         RemovePath(tree, p, flag, confirm), Copy(tree, p, q, flag, confirm),
                         Move(tree, p, q, flag, confirm)}
  PROVE  IsTree(result.tree) /\ (~confirm => Keeps(result.tree, tree))
<1>0. IsTree(Failed(tree).tree) /\ Keeps(Failed(tree).tree, tree)
  BY DEF Failed, Keeps
<1>1. CASE result = WriteFile(tree, p, lines, flag, confirm)
  <2>1. CASE result = Failed(tree)
    BY <1>0, <2>1
  <2>2. CASE result # Failed(tree)
    <3>1. result = Write(tree, p, lines) /\ (Exists(tree, p) => confirm)
      BY <1>1, <2>2, Zenon DEF WriteFile, MayReplace
    <3> QED
      BY <3>1, WriteKeepsTree
  <2> QED
    BY <2>1, <2>2
<1>2. CASE result = CreateDirectory(tree, p, flag)
  BY <1>0, <1>2, MkdirKeepsTree, Zenon DEF CreateDirectory
<1>3. CASE result = RemovePath(tree, p, flag, confirm)
  BY <1>0, <1>3, DeleteKeepsTree, Zenon DEF RemovePath
<1> DEFINE ready == PrepareDestination(tree, q, flag, confirm)
<1>4. ASSUME ready.ok
      PROVE  /\ IsTree(ready.tree) /\ ~Exists(ready.tree, q)
             /\ ~confirm => ready.tree = tree
             /\ \A r \in DOMAIN ready.tree : r \in DOMAIN tree /\ ready.tree[r] = tree[r]
  <2>1. CASE ~Exists(tree, q)
    <3>1. ready = Done(tree)
      BY <2>1, Zenon DEF PrepareDestination
    <3> QED
      BY <2>1, <3>1 DEF Done
  <2>2. CASE Exists(tree, q) /\ MayReplace(q, flag, confirm)
    <3>1. ready = Delete(tree, q, TRUE) /\ confirm
      BY <2>2, Zenon DEF PrepareDestination, MayReplace
    <3>2. ready.ok => ready.tree = Without(tree, q)
      <4>1. ready \in {Done(Without(tree, q)), Failed(tree)}
        BY <3>1, Zenon DEF Delete
      <4> QED
        BY <4>1 DEF Done, Failed
    <3>3. \A r \in DOMAIN Without(tree, q) : r \in DOMAIN tree /\ Without(tree, q)[r] = tree[r]
      BY DEF Without
    <3> HIDE DEF ready
    <3> QED
      BY <1>4, <3>1, <3>2, <3>3, DeleteKeepsTree
  <2>3. CASE Exists(tree, q) /\ ~MayReplace(q, flag, confirm)
    <3>1. ready = Failed(tree)
      BY <2>3, Zenon DEF PrepareDestination
    <3> QED
      BY <1>4, <3>1 DEF Failed
  <2> QED
    BY <2>1, <2>2, <2>3
<1> HIDE DEF ready
<1>5. CASE result = Copy(tree, p, q, flag, confirm)
  <2>1. CASE result = Failed(tree)
    BY <1>0, <2>1
  <2>2. CASE result # Failed(tree)
    <3>1. result = Copied(ready.tree, p, q) /\ ready.ok
      BY <1>5, <2>2, Zenon DEF Copy, Transfer, ready
    <3> QED
      BY <1>4, <3>1, CopiedKeepsTree
  <2> QED
    BY <2>1, <2>2
<1>6. CASE result = Move(tree, p, q, flag, confirm)
  <2>1. CASE result = Failed(tree)
    BY <1>0, <2>1
  <2>2. CASE result # Failed(tree)
    <3>1. /\ result = Renamed(ready.tree, p, q) /\ ready.ok
          /\ confirm /\ ~Protected(p) /\ Transferable(tree, p, q)
      BY <1>6, <2>2, Zenon DEF Move, Transfer, ready
    <3>2. p # Root /\ p # q /\ ~(IsDir(tree, p) /\ IsStrictPrefix(p, q))
      BY <3>1 DEF Protected, Transferable
    <3>3. IsDir(ready.tree, p) => IsDir(tree, p)
      BY <1>4, <3>1 DEF IsDir, Exists
    <3> QED
      BY <1>4, <3>1, <3>2, <3>3, RenamedKeepsTree
  <2> QED
    BY <2>1, <2>2
<1> QED
  BY <1>1, <1>2, <1>3, <1>5, <1>6

\* So does every operation of a patch.
LEMMA OperationsKeepTree ==
  ASSUME NEW tree, IsTree(tree), NEW op \in Operations, NEW confirm \in BOOLEAN
  PROVE  LET result == ApplyOperation(tree, op, confirm) IN
         IsTree(result.tree) /\ (~confirm => Keeps(result.tree, tree))
<1> DEFINE Good(t) == IsTree(t) /\ (~confirm => Keeps(t, tree))
<1>1. op.path \in Paths /\ op.kind \in {"add", "delete", "update"}
  BY InputsArePaths DEF Operations
<1>2. Good(Failed(tree).tree)
  BY DEF Failed, Keeps
<1> HIDE DEF Good
<1>3. ASSUME NEW p \in Paths, NEW lines, NEW flag \in BOOLEAN PROVE Good(WriteFile(tree, p, lines, flag, confirm).tree)
  BY <1>3, MethodsKeepTree DEF Good
<1>4. CASE op.kind = "add"
  <2>1. Exists(tree, op.path) \in BOOLEAN
    BY DEF Exists
  <2>2. Good(ApplyAdd(tree, op, confirm).tree)
    BY <1>1, <1>2, <1>3, <2>1, Zenon DEF ApplyAdd
  <2> QED
    BY <1>2, <1>4, <2>2 DEF ApplyOperation, Good
<1>5. CASE op.kind = "delete"
  <2>1. confirm => Good(RemovePath(tree, op.path, TRUE, TRUE).tree)
    BY <1>1, MethodsKeepTree DEF Good
  <2>2. Good(ApplyDelete(tree, op, confirm).tree)
    BY <1>2, <2>1, Zenon DEF ApplyDelete
  <2> QED
    BY <1>2, <1>5, <2>2 DEF ApplyOperation, Good
<1>6. CASE op.kind = "update"
  <2> DEFINE edited == IF op.hunk = <<>> THEN Done(tree) ELSE Edit(tree, op.path, op.hunk)
  <2>1. IsTree(Edit(tree, op.path, op.hunk).tree)
    <3>1. \A x : IsTree(WriteFile(tree, op.path, x, TRUE, TRUE).tree)
      BY <1>1, MethodsKeepTree
    <3>2. IsTree(Failed(tree).tree)
      BY DEF Failed
    <3> QED
      BY <3>1, <3>2, Zenon DEF Edit
  <2>2. IsTree(edited.tree)
    <3>1. IsTree(Done(tree).tree)
      BY DEF Done
    <3> QED
      BY <2>1, <3>1
  <2>3. op.to # NoMove => Normalize(op.to) \in Paths
    BY <1>6, InputsArePaths DEF Operations
  <2> HIDE DEF edited
  <2>4. op.to # NoMove => IsTree(Relocate(edited.tree, op).tree)
    <3>1. IsTree(Failed(edited.tree).tree)
      BY <2>2 DEF Failed
    <3>2. op.to # NoMove => IsTree(Move(edited.tree, op.path, Normalize(op.to), FALSE, TRUE).tree)
      BY <1>1, <2>2, <2>3, MethodsKeepTree
    <3> QED
      BY <3>1, <3>2, Zenon DEF Relocate
  <2>5. Good(ApplyUpdate(tree, op, confirm).tree)
    <3>1. CASE ApplyUpdate(tree, op, confirm) = Failed(tree)
      BY <1>2, <3>1
    <3>2. CASE ApplyUpdate(tree, op, confirm) # Failed(tree)
      <4>1. /\ confirm
            /\ ApplyUpdate(tree, op, confirm) = IF op.to = NoMove THEN edited ELSE Relocate(edited.tree, op)
        BY <3>2, Zenon DEF ApplyUpdate, edited
      <4> QED
        BY <2>2, <2>4, <4>1 DEF Good
    <3> QED
      BY <3>1, <3>2
  <2> QED
    BY <1>2, <1>6, <2>5 DEF ApplyOperation, Good
<1> QED
  BY <1>1, <1>4, <1>5, <1>6

\* What a shell command does.
LEMMA EffectsKeepTree ==
  ASSUME NEW tree, IsTree(tree), NEW p \in Paths, NEW lines
  PROVE  /\ IsTree(Mkdir(tree, p, FALSE).tree)
         /\ IsTree(Delete(tree, p, TRUE).tree)
         /\ IsTree(Write(tree, p, lines).tree)
BY MkdirKeepsTree, DeleteKeepsTree, WriteKeepsTree

\* The way back to its directory.
LEMMA RestoreKeepsTree ==
  ASSUME NEW tree, IsTree(tree), NEW dir
  PROVE  IsTree(RestoreCwd(tree, dir).tree)
<1>1. Workspace \in Paths
  BY TextAssumption DEF Paths
<1>2. IsTree(Done(tree).tree) /\ IsTree(Mkdir(tree, Workspace, TRUE).tree)
  BY <1>1, MkdirKeepsTree DEF Done
<1>3. RestoreCwd(tree, dir).tree \in {Done(tree).tree, Mkdir(tree, Workspace, TRUE).tree}
  BY Zenon DEF RestoreCwd
<1> QED
  BY <1>2, <1>3

-----------------------------------------------------------------------------
(* The inductive invariant: the tree and the snapshot of a running call    *)
(* are trees, and a patch without confirm has taken nothing away yet.      *)

TreeInv ==
  /\ IsTree(fs)
  /\ pc \in {"idle", "bash", "patch"} /\ sure \in BOOLEAN
  /\ calls \in 0..MaxCalls /\ steps \in 0..MaxSteps
  /\ pc # "idle" => IsTree(saved) /\ calls < MaxCalls
  /\ pc = "patch" /\ ~sure => Keeps(fs, saved)

LEMMA TreeInvInit == Init => TreeInv
<1> SUFFICES ASSUME Init PROVE TreeInv
  OBVIOUS
<1>1. /\ {Root, Home, Workspace} \subseteq Paths
      /\ Len(Root) = 0 /\ Len(Home) = 1 /\ Len(Workspace) = 1
  BY TextAssumption, WorkspaceAssumption DEF Root, Paths
<1>2. DOMAIN fs = {Root, Home, Workspace} /\ \A p \in DOMAIN fs : fs[p] = Dir /\ IsDir(fs, p)
  BY DEF Init, IsDir, Exists, Dir
<1>3. ASSUME NEW q \in {Root, Home, Workspace}, NEW p \in Paths, IsStrictPrefix(p, q) PROVE p = Root
  <2>0. q \in Paths
    BY <1>1
  <2>1. Len(p) <= Len(q) /\ p # q /\ \A i \in 1..Len(p) : p[i] = q[i]
    BY <1>3, <2>0, PrefixPointwise DEF IsStrictPrefix
  <2>2. Len(p) # Len(q) /\ Len(p) \in Nat
    BY <2>0, <2>1, SeqEqual DEF Paths
  <2>3. Len(q) \in {0, 1}
    BY <1>1
  <2>4. Len(p) = 0
    BY <2>1, <2>2, <2>3
  <2> QED
    BY <2>4 DEF Paths, Root
<1>4. IsTree(fs)
  BY <1>1, <1>2, <1>3 DEF IsTree
<1>5. MaxCalls \in Nat \ {0} /\ MaxSteps \in Nat \ {0}
  BY WorkspaceAssumption
<1>6. 0 \in 0..MaxCalls /\ 0 \in 0..MaxSteps
  BY <1>5
<1>7. pc = "idle" /\ sure \in BOOLEAN /\ calls = 0 /\ steps = 0
  BY DEF Init
<1> QED
  BY <1>4, <1>6, <1>7 DEF TreeInv

LEMMA TreeInvTypes == TreeInv => TypeOK
<1> SUFFICES ASSUME TreeInv PROVE TypeOK
  OBVIOUS
<1>1. ASSUME NEW p \in DOMAIN fs, p # Root PROVE InDir(fs, p)
  <2>1. p \in Paths
    BY DEF TreeInv, IsTree
  <2>2. Front(p) \in Paths /\ IsStrictPrefix(Front(p), p)
    BY <1>1, <2>1, FrontIsAbove DEF IsStrictPrefix
  <2> QED
    BY <1>1, <2>2 DEF TreeInv, IsTree, InDir
<1> QED
  BY <1>1 DEF TreeInv, TypeOK, IsTree

LEMMA TreeInvStep == TreeInv /\ [Next]_vars => TreeInv'
<1> SUFFICES ASSUME TreeInv, [Next]_vars PROVE TreeInv'
  OBVIOUS
<1>0. MaxCalls \in Nat /\ MaxSteps \in Nat /\ \A i \in Inputs : Normalize(i) \in Paths
  BY WorkspaceAssumption, InputsArePaths
<1>1. ASSUME NEW tool, NEW confirm, NEW r, Return(tool, confirm, r), calls < MaxCalls, IsTree(r.tree)
      PROVE  TreeInv'
  <2>1. calls' \in 0..MaxCalls /\ 0 \in 0..MaxSteps
    BY <1>0, <1>1 DEF TreeInv, Return, EndCall
  <2>2. pc' = "idle" /\ sure' \in BOOLEAN /\ steps' = 0 /\ fs' = r.tree
    BY <1>1 DEF Return, EndCall
  <2> QED
    BY <1>1, <2>1, <2>2 DEF TreeInv
<1>2. IsTree(fs) /\ IsTree(Failed(fs).tree)
  BY DEF TreeInv, Failed
<1>3. CASE CallWriteFile
  BY <1>0, <1>1, <1>2, <1>3, MethodsKeepTree DEF CallWriteFile, Idle
<1>4. CASE CallCreateDirectory
  BY <1>0, <1>1, <1>2, <1>4, MethodsKeepTree DEF CallCreateDirectory, Idle
<1>5. CASE CallRemove
  BY <1>0, <1>1, <1>2, <1>5, MethodsKeepTree DEF CallRemove, Idle
<1>6. CASE CallCopy
  BY <1>0, <1>1, <1>2, <1>6, MethodsKeepTree DEF CallCopy, Idle
<1>7. CASE CallMove
  BY <1>0, <1>1, <1>2, <1>7, MethodsKeepTree DEF CallMove, Idle
<1>8. CASE RejectPatch \/ RejectCommand
  BY <1>1, <1>2, <1>8 DEF RejectPatch, RejectCommand, Idle
<1>9. CASE StartPatch \/ StartCommand
  BY <1>0, <1>9 DEF StartPatch, StartCommand, Begin, TreeInv, Keeps
<1>10. ASSUME NEW op \in Operations, PatchOperation(op) PROVE TreeInv'
  <2> DEFINE result == ApplyOperation(fs, op, sure)
  <2>1. IsTree(result.tree) /\ (~sure => Keeps(result.tree, fs))
    BY OperationsKeepTree DEF TreeInv
  <2> HIDE DEF result
  <2>2. pc = "patch" /\ steps < MaxSteps /\ IsTree(saved) /\ calls < MaxCalls
    BY <1>10 DEF PatchOperation, TreeInv
  <2>3. CASE result.ok
    <3>1. fs' = result.tree /\ steps' = steps + 1 /\ UNCHANGED <<pc, saved, sure, calls>>
      BY <1>10, <2>3 DEF PatchOperation, result
    <3>2. ~sure => Keeps(fs', saved)
      BY <2>1, <2>2, <3>1 DEF TreeInv, Keeps
    <3> QED
      BY <1>0, <2>1, <2>2, <3>1, <3>2 DEF TreeInv
  <2>4. CASE ~result.ok
    <3>1. Return("patch", sure, Failed(saved))
      BY <1>10, <2>4 DEF PatchOperation, result
    <3>2. IsTree(Failed(saved).tree)
      BY <2>2 DEF Failed
    <3> QED
      BY <1>1, <2>2, <3>1, <3>2
  <2> QED
    BY <2>3, <2>4
<1>11. CASE EndPatch
  <2>1. Return("patch", sure, Done(fs)) /\ IsTree(Done(fs).tree) /\ calls < MaxCalls
    BY <1>11 DEF EndPatch, TreeInv, Done
  <2> QED
    BY <1>1, <2>1
<1>12. CASE CommandEffect
  <2>1. PICK i \in Inputs :
          LET p == Normalize(i) IN
          /\ \/ fs' = Mkdir(fs, p, FALSE).tree \/ fs' = Delete(fs, p, TRUE).tree
             \/ \E c \in Output : fs' = Write(fs, p, c).tree
             \/ fs' = fs
          /\ pc = "bash" /\ steps < MaxSteps /\ steps' = steps + 1
          /\ UNCHANGED <<pc, saved, sure, calls>>
    BY <1>12, Zenon DEF CommandEffect
  <2>2. IsTree(fs')
    BY <1>0, <1>2, <2>1, EffectsKeepTree
  <2> QED
    BY <1>0, <2>1, <2>2 DEF TreeInv
<1>13. ASSUME NEW at, Rollback(at), pc = "bash" PROVE TreeInv'
  <2>1. IsTree(saved) /\ calls < MaxCalls
    BY <1>13 DEF TreeInv
  <2>2. IsTree(RestoreCwd(saved, origin).tree)
    BY <2>1, RestoreKeepsTree
  <2>3. IsTree(Failed(RestoreCwd(saved, origin).tree).tree)
    BY <2>2 DEF Failed
  <2> QED
    BY <1>1, <1>13, <2>1, <2>3 DEF Rollback
<1>14. CASE CommandReturns
  <2> DEFINE back == RestoreCwd(fs, origin)
  <2>1. IsTree(back.tree)
    BY <1>2, RestoreKeepsTree
  <2>2. pc = "bash" /\ calls < MaxCalls
    BY <1>14 DEF CommandReturns, TreeInv
  <2>3. \/ \E at : Rollback(at)
        \/ \E success : Exit(back.tree, success)
    BY <1>14, Zenon DEF CommandReturns
  <2> HIDE DEF back
  <2>4. ASSUME NEW success, Exit(back.tree, success) PROVE TreeInv'
    <3>1. calls' \in 0..MaxCalls /\ 0 \in 0..MaxSteps
      BY <1>0, <2>2, <2>4 DEF TreeInv, Exit, EndCall
    <3>2. pc' = "idle" /\ sure' \in BOOLEAN /\ steps' = 0 /\ fs' = back.tree
      BY <2>4 DEF Exit, EndCall
    <3> QED
      BY <2>1, <3>1, <3>2 DEF TreeInv
  <2> QED
    BY <1>13, <2>2, <2>3, <2>4
<1>15. CASE CommandRaises
  BY <1>13, <1>15 DEF CommandRaises
<1>16. CASE UNCHANGED vars
  BY <1>16 DEF vars, TreeInv
<1> QED
  BY <1>3, <1>4, <1>5, <1>6, <1>7, <1>8, <1>9, <1>10, <1>11, <1>12, <1>14, <1>15, <1>16, Zenon DEF Next

LEMMA TreeInvAlways == Spec => []TreeInv
BY TreeInvInit, TreeInvStep, PTL DEF Spec

\* The tree is a tree, whatever is copied, moved, patched or done by a command.
THEOREM TreeStaysATree == Spec => []TypeOK
BY TreeInvAlways, TreeInvTypes, PTL

\* Without confirm, the tools other than the shell keep everything that was there when they
\* were called.
THEOREM UnconfirmedCallsKeepFiles == Spec => UnconfirmedKeepsFiles
<1> DEFINE Kept == Keeps(fs', Before)
           A == CallEnds /\ last'.tool # "bash" /\ ~last'.confirm =>
                  \A p \in DOMAIN Before : p \in DOMAIN fs' /\ fs'[p] = Before[p]
<1>1. ASSUME TreeInv, Next, CallEnds, last'.tool # "bash", ~last'.confirm PROVE Kept
  <2> USE <1>1
  <2>0. /\ IsTree(fs) /\ (Idle => Before = fs) /\ Keeps(Failed(fs).tree, fs)
        /\ \A i \in Inputs : Normalize(i) \in Paths
    BY InputsArePaths DEF TreeInv, Idle, Before, Failed, Keeps
  <2>1. ASSUME Idle, NEW tool, NEW confirm, NEW r, Return(tool, confirm, r), ~confirm => Keeps(r.tree, fs)
        PROVE  Kept
    BY <2>0, <2>1 DEF Return, EndCall
  <2>2. CASE CallWriteFile
    BY <2>0, <2>1, <2>2, MethodsKeepTree DEF CallWriteFile
  <2>3. CASE CallCreateDirectory
    BY <2>0, <2>1, <2>3, MethodsKeepTree DEF CallCreateDirectory
  <2>4. CASE CallRemove
    BY <2>0, <2>1, <2>4, MethodsKeepTree DEF CallRemove
  <2>5. CASE CallCopy
    BY <2>0, <2>1, <2>5, MethodsKeepTree DEF CallCopy
  <2>6. CASE CallMove
    BY <2>0, <2>1, <2>6, MethodsKeepTree DEF CallMove
  <2>7. CASE RejectPatch
    BY <2>0, <2>1, <2>7 DEF RejectPatch
  <2>8. CASE StartPatch \/ StartCommand \/ CommandEffect
    BY <2>8 DEF StartPatch, StartCommand, CommandEffect, Begin, CallEnds
  <2>9. CASE RejectCommand \/ CommandReturns \/ CommandRaises
    BY <2>9 DEF RejectCommand, CommandReturns, CommandRaises, Rollback, Return, Exit, EndCall
  <2>10. ASSUME NEW op \in Operations, PatchOperation(op) PROVE Kept
    <3>1. CASE ApplyOperation(fs, op, sure).ok
      BY <2>10, <3>1 DEF PatchOperation, CallEnds
    <3>2. CASE ~ApplyOperation(fs, op, sure).ok
      BY <2>10, <3>2 DEF PatchOperation, Return, EndCall, Failed, Before, Keeps
    <3> QED
      BY <3>1, <3>2
  <2>11. CASE EndPatch
    BY <2>11 DEF EndPatch, Return, EndCall, Done, Before, TreeInv
  <2> QED
    BY <2>2, <2>3, <2>4, <2>5, <2>6, <2>7, <2>8, <2>9, <2>10, <2>11, Zenon DEF Next
<1>2. TreeInv /\ [Next]_vars => [A]_vars
  BY <1>1 DEF Keeps
<1> QED
  BY <1>2, TreeInvAlways, PTL DEF Spec, UnconfirmedKeepsFiles

-----------------------------------------------------------------------------
(* What an update makes of a file.                                         *)

Lines == Seq(STRING)
HunkLines == [mark : STRING, text : STRING]
Acc == [ok : BOOLEAN, next : Nat \ {0}, out : Lines]

LEMMA HunkLineType ==
  ASSUME NEW source \in Lines, NEW acc \in Acc, NEW line \in HunkLines
  PROVE  HunkLine(source, acc, line) \in Acc
<1> DEFINE matches == {i \in acc.next..Len(source) : source[i] = line.text}
           upTo(i) == acc.out \o SubSeq(source, acc.next, i)
<1>1. /\ acc.ok \in BOOLEAN /\ acc.next \in Nat \ {0} /\ acc.out \in Lines
      /\ line.text \in STRING /\ Len(source) \in Nat
  BY DEF Acc, HunkLines, Lines
<1>2. ASSUME NEW i \in Nat, i <= Len(source) PROVE upTo(i) \in Lines
  <2>1. \A k \in acc.next..i : source[k] \in STRING
    BY <1>1, <1>2 DEF Lines
  <2>2. SubSeq(source, acc.next, i) \in Lines
    <3>1. acc.next \in Int /\ i \in Int
      BY <1>1
    <3> QED
      BY <2>1, <3>1, SubSeqProperties DEF Lines
  <2> QED
    BY <1>1, <2>2, ConcatProperties DEF Lines
<1>3. [acc EXCEPT !.out = Append(@, line.text)] \in Acc /\ [acc EXCEPT !.ok = FALSE] \in Acc
  <2>1. Append(acc.out, line.text) \in Lines
    BY <1>1 DEF Lines
  <2> QED
    BY <2>1 DEF Acc
<1>4. ASSUME matches # {}
      PROVE  [ok   |-> acc.ok,
              next |-> Min(matches) + 1,
              out  |-> upTo(Min(matches) - IF line.mark = "-" THEN 1 ELSE 0)] \in Acc
  <2>1. matches \in SUBSET Nat
    BY <1>1
  <2>2. \E m \in matches : \A k \in matches : m <= k
    <3> HIDE DEF matches
    <3> QED
      BY <1>4, <2>1, LeastNumber
  <2>3. Min(matches) \in matches
    <3> HIDE DEF matches
    <3> QED
      BY <2>2, Zenon DEF Min
  <2>4. Min(matches) \in Nat \ {0} /\ Min(matches) <= Len(source)
    BY <1>1, <2>3
  <2> HIDE DEF matches
  <2>5. upTo(Min(matches)) \in Lines /\ upTo(Min(matches) - 1) \in Lines
    BY <1>1, <1>2, <2>4
  <2>6. upTo(Min(matches) - 0) \in Lines
    <3>1. Min(matches) - 0 = Min(matches)
      BY <2>4
    <3> QED
      BY <2>5, <3>1
  <2>7. upTo(Min(matches) - IF line.mark = "-" THEN 1 ELSE 0) \in Lines
    BY <2>5, <2>6
  <2> HIDE DEF upTo
  <2> QED
    BY <1>1, <2>4, <2>7 DEF Acc
<1> QED
  BY <1>3, <1>4, Zenon DEF HunkLine

\* The lines of a file stay lines (_apply_hunks).
LEMMA ApplyHunksType ==
  ASSUME NEW source \in Lines, NEW hunk \in Seq(HunkLines)
  PROVE  ApplyHunks(source, hunk).lines \in Lines
<1> DEFINE n == Len(hunk)
           walk(acc, line) == HunkLine(source, acc, line)
           base == [ok |-> TRUE, next |-> 1, out |-> <<>>]
           it == CHOOSE f : f = [s \in SUBSET DOMAIN hunk |->
                   IF s = {} THEN base ELSE walk(f[s \ {Max(s)}], hunk[Max(s)])]
           end == it[DOMAIN hunk]
           all == end.out \o SubSeq(source, end.next, Len(source))
           F == [z \in Acc \X (1..n) |-> walk(z[1], hunk[z[2]])]
<1>1. ApplyHunks(source, hunk).lines = IF all = <<>> THEN <<Blank>> ELSE all
  BY DEF ApplyHunks, FoldLeft, MapThenFoldSet
<1>2. DOMAIN hunk = 1..n /\ n \in Nat /\ \A i \in 1..n : hunk[i] \in HunkLines
  OBVIOUS
<1> HIDE DEF n
<1>3. base \in Acc
  BY DEF Acc, Lines
<1>4. \A acc \in Acc, line \in HunkLines : walk(acc, line) \in Acc
  BY HunkLineType
<1> HIDE DEF walk, base
<1>5. Steps(F, Acc, n)
  BY <1>2, <1>4 DEF Steps
<1>6. \A acc \in Acc, i \in 1..n : F[<<acc, i>>] = walk(acc, hunk[i])
  OBVIOUS
<1> HIDE DEF F
<1>7. PICK g : IsFold(g, F, Acc, base, n)
  BY <1>2, <1>3, <1>5, FoldExists
<1>8. \A s \in SUBSET (1..n) : s # {} => Max(s) \in 1..n /\ s \ {Max(s)} \in SUBSET (1..n)
  BY <1>2, Greatest
<1>9. g = [s \in SUBSET DOMAIN hunk |-> IF s = {} THEN base ELSE walk(g[s \ {Max(s)}], hunk[Max(s)])]
  <2>1. ASSUME NEW s \in SUBSET (1..n)
        PROVE  g[s] = IF s = {} THEN base ELSE walk(g[s \ {Max(s)}], hunk[Max(s)])
    <3>1. CASE s = {}
      BY <1>7, <3>1 DEF IsFold
    <3>2. CASE s # {}
      <4>1. g[s] = F[<<g[s \ {Max(s)}], Max(s)>>] /\ Max(s) \in 1..n /\ g[s \ {Max(s)}] \in Acc
        BY <1>7, <1>8, <3>2 DEF IsFold
      <4> QED
        BY <1>6, <3>2, <4>1
    <3> QED
      BY <3>1, <3>2
  <2> QED
    BY <1>2, <1>7, <2>1 DEF IsFold
<1>10. it = [s \in SUBSET DOMAIN hunk |-> IF s = {} THEN base ELSE walk(it[s \ {Max(s)}], hunk[Max(s)])]
  BY <1>9, Zenon
<1> HIDE DEF it
<1>11. it[{}] \in Acc
  BY <1>2, <1>3, <1>10
<1>12. ASSUME NEW s \in SUBSET (1..n), s # {}, it[s \ {Max(s)}] \in Acc PROVE it[s] \in Acc
  <2>1. it[s] = walk(it[s \ {Max(s)}], hunk[Max(s)])
    BY <1>2, <1>10, <1>12
  <2>2. walk(it[s \ {Max(s)}], hunk[Max(s)]) \in Acc
    BY <1>2, <1>4, <1>8, <1>12
  <2> QED
    BY <2>1, <2>2
<1>13. it[1..n] \in Acc
  BY <1>2, <1>11, <1>12, FoldStays
<1>14. end.next \in Nat \ {0} /\ end.out \in Lines /\ Len(source) \in Nat
  BY <1>2, <1>13 DEF Acc, Lines
<1> HIDE DEF end
<1>15. SubSeq(source, end.next, Len(source)) \in Lines
  <2>1. \A k \in end.next..Len(source) : source[k] \in STRING
    BY <1>14 DEF Lines
  <2>2. end.next \in Int /\ Len(source) \in Int
    BY <1>14
  <2> QED
    BY <2>1, <2>2, SubSeqProperties DEF Lines
<1>16. all \in Lines
  BY <1>14, <1>15, ConcatProperties DEF Lines
<1>17. <<Blank>> \in Lines
  BY TextAssumption DEF Lines
<1> HIDE DEF all
<1> QED
  BY <1>1, <1>16, <1>17

-----------------------------------------------------------------------------
(* How many lines there are.                                               *)

\* Finitely many paths, and lines at each.
Filled(tree) ==
  /\ IsFiniteSet(DOMAIN tree)
  /\ \A q \in DOMAIN tree : tree[q].lines \in Lines

\* (The library's statement has an operator as parameter.)
LEMMA FiniteImage ==
  ASSUME NEW S, IsFiniteSet(S), NEW f
  PROVE  IsFiniteSet({f[x] : x \in S})
<1> DEFINE T == {f[x] : x \in S}
           g == [x \in S |-> f[x]]
<1>1. g \in Surjection(S, T)
  BY DEF Surjection
<1> HIDE DEF g, T
<1>2. IsFiniteSet(T)
  BY <1>1, FS_Surjection
<1> QED
  BY <1>2 DEF T

\* The lines of a file are numbered.
LEMMA LinesNumbered ==
  ASSUME NEW lines \in Lines
  PROVE  /\ Len(lines) \in Nat
         /\ IsFiniteSet(DOMAIN lines) /\ Cardinality(DOMAIN lines) = Len(lines)
<1>1. DOMAIN lines = 1..Len(lines) /\ Len(lines) \in Nat
  BY DEF Lines
<1>2. IsFiniteSet(1..Len(lines)) /\ Cardinality(1..Len(lines)) = IF 1 > Len(lines) THEN 0 ELSE Len(lines)-1+1
  BY <1>1, FS_Interval
<1>3. (IF 1 > Len(lines) THEN 0 ELSE Len(lines)-1+1) = Len(lines)
  BY <1>1
<1> QED
  BY <1>1, <1>2, <1>3

LEMMA LinesBelowFact ==
  ASSUME NEW tree, NEW p
  PROVE  \A z : z \in LinesBelow(tree, p) <=>
           \E q \in DOMAIN tree : IsPrefix(p, q) /\ z \in {q} \X DOMAIN tree[q].lines
BY DEF LinesBelow, From

\* There are finitely many lines, and those below a path are some of them.
LEMMA SizeIsNumber ==
  ASSUME NEW tree, Filled(tree), NEW p
  PROVE  IsFiniteSet(LinesBelow(tree, p)) /\ Size(tree, p) \in Nat
<1> DEFINE f == [q \in From(tree, p) |-> {q} \X DOMAIN tree[q].lines]
           files == {f[q] : q \in From(tree, p)}
<1>1. IsFiniteSet(From(tree, p)) /\ From(tree, p) \subseteq DOMAIN tree
  <2>1. From(tree, p) \in SUBSET DOMAIN tree
    BY DEF From
  <2> QED
    BY <2>1, FS_Subset DEF Filled
<1>2. ASSUME NEW q \in From(tree, p) PROVE IsFiniteSet({q} \X DOMAIN tree[q].lines)
  <2>1. IsFiniteSet(DOMAIN tree[q].lines)
    BY <1>1, LinesNumbered DEF Filled
  <2> QED
    BY <2>1, FS_Singleton, FS_Product
<1>3. \A q \in From(tree, p) : f[q] = {q} \X DOMAIN tree[q].lines
  OBVIOUS
<1> HIDE DEF f
<1>4. IsFiniteSet(files)
  BY <1>1, FiniteImage
<1>5. \A T \in files : IsFiniteSet(T)
  BY <1>2, <1>3
<1> HIDE DEF files
<1>6. IsFiniteSet(UNION files)
  BY <1>4, <1>5, FS_UNION
<1>7. LinesBelow(tree, p) = UNION files
  BY <1>3 DEF LinesBelow, files
<1> QED
  BY <1>6, <1>7, FS_CardinalityType DEF Size

LEMMA SizeGrows ==
  ASSUME NEW new, NEW old, Filled(old), NEW p, NEW q, LinesBelow(new, p) \subseteq LinesBelow(old, q)
  PROVE  Size(new, p) <= Size(old, q)
BY SizeIsNumber, FS_Subset DEF Size

LEMMA PutFills ==
  ASSUME NEW tree, Filled(tree), NEW more, Filled(more)
  PROVE  Filled(Put(tree, more))
<1> DEFINE t == Put(tree, more)
<1>1. /\ DOMAIN t = DOMAIN tree \cup DOMAIN more
      /\ \A q \in DOMAIN more : t[q] = more[q]
      /\ \A q \in DOMAIN tree \ DOMAIN more : t[q] = tree[q]
  BY DEF Put
<1> HIDE DEF t
<1>2. IsFiniteSet(DOMAIN t)
  BY <1>1, FS_Union DEF Filled
<1>3. Filled(t)
  BY <1>1, <1>2 DEF Filled
<1> QED
  BY <1>3 DEF t

\* Taking away adds no line.
LEMMA WithoutFills ==
  ASSUME NEW tree, Filled(tree), NEW p
  PROVE  /\ Filled(Without(tree, p))
         /\ LinesBelow(Without(tree, p), Root) \subseteq LinesBelow(tree, Root)
<1> DEFINE t == Without(tree, p)
<1>1. DOMAIN t \in SUBSET DOMAIN tree /\ \A q \in DOMAIN t : t[q] = tree[q]
  BY DEF Without
<1> HIDE DEF t
<1>2. Filled(t)
  BY <1>1, FS_Subset DEF Filled
<1>3. LinesBelow(t, Root) \subseteq LinesBelow(tree, Root)
  BY <1>1, LinesBelowFact
<1> QED
  BY <1>2, <1>3 DEF t

\* A subtree that is copied has as many paths as were there.
LEMMA SubtreeFills ==
  ASSUME NEW tree, IsTree(tree), Filled(tree), NEW src \in Paths, NEW dest \in Paths
  PROVE  Filled(Subtree(tree, src, dest))
<1> DEFINE sub == Subtree(tree, src, dest)
           f == [x \in From(tree, src) |-> Rebased(x, src, dest)]
<1>1. /\ DOMAIN sub = {q \in Paths : IsPrefix(dest, q) /\ Rebased(q, dest, src) \in DOMAIN tree}
      /\ \A q \in DOMAIN sub : sub[q] = tree[Rebased(q, dest, src)]
  BY SubtreeFact
<1>2. IsFiniteSet(From(tree, src))
  <2>1. From(tree, src) \in SUBSET DOMAIN tree
    BY DEF From
  <2> QED
    BY <2>1, FS_Subset DEF Filled
<1>3. DOMAIN sub = {f[x] : x \in From(tree, src)}
  BY DEF Subtree
<1> HIDE DEF sub, f
<1>4. IsFiniteSet(DOMAIN sub)
  BY <1>2, <1>3, FiniteImage
<1>5. Filled(sub)
  BY <1>1, <1>4 DEF Filled
<1> QED
  BY <1>5 DEF sub

\* New directories add no line.
LEMMA MkdirFills ==
  ASSUME NEW tree, IsTree(tree), Filled(tree), NEW p \in Paths, NEW parents \in BOOLEAN
  PROVE  /\ Filled(Mkdir(tree, p, parents).tree)
         /\ LinesBelow(Mkdir(tree, p, parents).tree, Root) \subseteq LinesBelow(tree, Root)
<1> DEFINE f == [i \in 0..Len(p) |-> SubSeq(p, 1, i)]
           above == {SubSeq(p, 1, i) : i \in 0..Len(p)}
           D == IF parents THEN above ELSE {p}
           dirs == [q \in D |-> Dir]
           new == Mkdir(tree, p, parents).tree
<1>1. IsFiniteSet(D)
  <2>1. above = {f[i] : i \in 0..Len(p)}
    OBVIOUS
  <2>2. IsFiniteSet(0..Len(p))
    <3>1. 0 \in Int /\ Len(p) \in Int
      BY DEF Paths
    <3> QED
      BY <3>1, FS_Interval
  <2> HIDE DEF above, f
  <2>3. IsFiniteSet(above)
    BY <2>1, <2>2, FiniteImage
  <2> QED
    BY <2>3, FS_Singleton
<1>2. new = Put(tree, dirs) \/ new = tree
  BY Zenon DEF Mkdir, Done, Failed
<1> HIDE DEF D, new
<1>3. DOMAIN dirs = D /\ \A q \in D : dirs[q].lines = <<>>
  BY DEF Dir
<1> HIDE DEF dirs
<1>4. Filled(dirs)
  <2>1. <<>> \in Lines
    BY DEF Lines
  <2> QED
    BY <1>1, <1>3, <2>1 DEF Filled
<1>5. /\ DOMAIN Put(tree, dirs) = DOMAIN tree \cup D
      /\ \A q \in D : Put(tree, dirs)[q].lines = <<>>
      /\ \A q \in DOMAIN tree \ D : Put(tree, dirs)[q] = tree[q]
  BY <1>3 DEF Put
<1>6. LinesBelow(Put(tree, dirs), Root) \subseteq LinesBelow(tree, Root)
  <2>1. DOMAIN <<>> = {}
    OBVIOUS
  <2>2. ASSUME NEW q \in DOMAIN Put(tree, dirs), NEW z \in {q} \X DOMAIN Put(tree, dirs)[q].lines
        PROVE  q \in DOMAIN tree /\ z \in {q} \X DOMAIN tree[q].lines
    BY <1>5, <2>1, <2>2
  <2> QED
    BY <2>2, LinesBelowFact
<1>7. Filled(new) /\ LinesBelow(new, Root) \subseteq LinesBelow(tree, Root)
  BY <1>2, <1>4, <1>6, PutFills
<1> QED
  BY <1>7 DEF new

\* A file that is written replaces its lines, and no others: nothing is below a file.
LEMMA WriteFills ==
  ASSUME NEW tree, IsTree(tree), Filled(tree), NEW p \in Paths, NEW lines \in Lines
  PROVE  LET r == Write(tree, p, lines) IN
         /\ Filled(r.tree)
         /\ \/ r.tree = tree
            \/ Size(r.tree, Root) <= Size(tree, Root) - Size(tree, p) + Len(lines)
<1> DEFINE more == [q \in {p} |-> File(lines)]
           t == Put(tree, more)
<1>1. CASE ~(InDir(tree, p) /\ ~IsDir(tree, p))
  <2>1. Write(tree, p, lines).tree = tree
    BY <1>1, Zenon DEF Write, Failed
  <2> QED
    BY <2>1
<1>2. CASE InDir(tree, p) /\ ~IsDir(tree, p)
  <2>1. Write(tree, p, lines).tree = t
    BY <1>2 DEF Write, Done
  <2>2. DOMAIN more = {p} /\ more[p].lines = lines
    BY DEF File
  <2> HIDE DEF more
  <2>3. Filled(more)
    <3>1. IsFiniteSet({p})
      BY FS_Singleton
    <3> QED
      BY <2>2, <3>1 DEF Filled
  <2>4. /\ DOMAIN t = DOMAIN tree \cup {p} /\ t[p].lines = lines
        /\ \A q \in DOMAIN tree \ {p} : t[q] = tree[q]
    BY <2>2 DEF Put
  <2>5. Filled(t)
    BY <2>3, PutFills
  <2> HIDE DEF t
  <2> DEFINE all == LinesBelow(tree, Root)
             old == LinesBelow(tree, p)
             own == {p} \X DOMAIN lines
  <2>6. old \subseteq all
    <3>1. \A q \in DOMAIN tree : IsPrefix(Root, q)
      BY PrefixOrder DEF IsTree
    <3> QED
      BY <3>1, LinesBelowFact
  <2>7. LinesBelow(t, Root) \subseteq (all \ old) \cup own
    <3>1. \A q \in DOMAIN tree : IsPrefix(p, q) => q = p
      BY <1>2, OnlyDirectoriesAbove
    <3>2. ASSUME NEW q \in DOMAIN t, NEW z \in {q} \X DOMAIN t[q].lines, IsPrefix(Root, q), q # p
          PROVE  z \in all /\ z \notin old
      <4>1. q \in DOMAIN tree /\ t[q] = tree[q]
        BY <2>4, <3>2
      <4>2. z[1] = q
        OBVIOUS
      <4>3. z \in all
        BY <3>2, <4>1, LinesBelowFact
      <4>4. \A r \in DOMAIN tree : z \in {r} \X DOMAIN tree[r].lines => r = q
        BY <4>2
      <4>5. z \notin old
        BY <3>1, <3>2, <4>4, LinesBelowFact
      <4> QED
        BY <4>3, <4>5
    <3> HIDE DEF all, old
    <3>3. ASSUME NEW z \in LinesBelow(t, Root) PROVE z \in (all \ old) \cup own
      <4>1. PICK q \in DOMAIN t : IsPrefix(Root, q) /\ z \in {q} \X DOMAIN t[q].lines
        BY LinesBelowFact
      <4> QED
        BY <2>4, <3>2, <4>1
    <3> QED
      BY <3>3
  <2>8. /\ IsFiniteSet(all) /\ Size(tree, Root) = Cardinality(all) /\ Cardinality(all) \in Nat
        /\ Size(tree, p) = Cardinality(old) /\ Cardinality(old) \in Nat
    BY SizeIsNumber DEF Size
  <2>9. IsFiniteSet(own) /\ Cardinality(own) = Len(lines) /\ Len(lines) \in Nat
    <3>1. /\ IsFiniteSet(DOMAIN lines) /\ Cardinality(DOMAIN lines) = Len(lines) /\ Len(lines) \in Nat
          /\ IsFiniteSet({p}) /\ Cardinality({p}) = 1
      BY LinesNumbered, FS_Singleton
    <3>2. IsFiniteSet(own) /\ Cardinality(own) = Cardinality({p}) * Cardinality(DOMAIN lines)
      BY <3>1, FS_Product
    <3> HIDE DEF own
    <3> QED
      BY <3>1, <3>2
  <2> HIDE DEF all, old, own
  <2>10. IsFiniteSet(all \ old) /\ Cardinality(all \ old) = Cardinality(all) - Cardinality(old)
    <3>1. all \cap old = old
      BY <2>6
    <3>2. IsFiniteSet(all \ old) /\ Cardinality(all \ old) = Cardinality(all) - Cardinality(all \cap old)
      BY <2>8, FS_Difference
    <3> QED
      BY <3>1, <3>2
  <2>11. /\ IsFiniteSet((all \ old) \cup own)
         /\ Cardinality((all \ old) \cup own) <= Cardinality(all \ old) + Cardinality(own)
    <3>1. /\ IsFiniteSet((all \ old) \cup own)
          /\ Cardinality((all \ old) \cup own)
               = Cardinality(all \ old) + Cardinality(own) - Cardinality((all \ old) \cap own)
      BY <2>9, <2>10, FS_Union
    <3>2. Cardinality((all \ old) \cap own) \in Nat /\ Cardinality(all \ old) \in Nat /\ Cardinality(own) \in Nat
      BY <2>9, <2>10, FS_Intersection, FS_CardinalityType
    <3> QED
      BY <3>1, <3>2
  <2>12. Size(t, Root) <= Cardinality((all \ old) \cup own) /\ Size(t, Root) \in Nat
         /\ Cardinality((all \ old) \cup own) \in Nat
    BY <2>5, <2>7, <2>11, SizeIsNumber, FS_Subset, FS_CardinalityType DEF Size
  <2>13. Size(t, Root) <= Size(tree, Root) - Size(tree, p) + Len(lines)
    BY <2>8, <2>9, <2>10, <2>11, <2>12
  <2> QED
    BY <2>1, <2>5, <2>13
<1> QED
  BY <1>1, <1>2

\* What a method leaves of a tree whose files are within the limit is within it.
Bounded(tree) == Size(tree, Root) <= MaxWorkspace
StaysBounded(new, old) == Filled(new) /\ (Bounded(old) => Bounded(new))

LEMMA FewerLinesStayBounded ==
  ASSUME NEW new, NEW old, Filled(new), Filled(old), LinesBelow(new, Root) \subseteq LinesBelow(old, Root)
  PROVE  StaysBounded(new, old)
<1>1. Size(new, Root) <= Size(old, Root) /\ Size(new, Root) \in Nat /\ Size(old, Root) \in Nat
  BY SizeGrows, SizeIsNumber
<1>2. MaxWorkspace \in Nat
  BY WorkspaceAssumption
<1> QED
  BY <1>1, <1>2 DEF StaysBounded, Bounded

LEMMA MkdirStaysBounded ==
  ASSUME NEW tree, IsTree(tree), Filled(tree), NEW p \in Paths, NEW parents \in BOOLEAN
  PROVE  StaysBounded(Mkdir(tree, p, parents).tree, tree)
BY MkdirFills, FewerLinesStayBounded

LEMMA DeleteStaysBounded ==
  ASSUME NEW tree, Filled(tree), NEW p, NEW recursive
  PROVE  StaysBounded(Delete(tree, p, recursive).tree, tree)
<1>1. Delete(tree, p, recursive).tree \in {Without(tree, p), tree}
  BY Zenon DEF Delete, Done, Failed
<1>2. StaysBounded(Without(tree, p), tree) /\ StaysBounded(tree, tree)
  BY WithoutFills, FewerLinesStayBounded
<1> QED
  BY <1>1, <1>2

LEMMA MethodsStayBounded ==
  ASSUME NEW tree, IsTree(tree), Filled(tree), NEW p \in Paths, NEW q \in Paths, NEW lines \in Lines,
         NEW flag \in BOOLEAN, NEW confirm \in BOOLEAN,
         NEW result \in {WriteFile(tree, p, lines, flag, confirm), CreateDirectory(tree, p, flag),
                         RemovePath(tree, p, flag, confirm), Copy(tree, p, q, flag, confirm),
                         Move(tree, p, q, flag, confirm)}
  PROVE  StaysBounded(result.tree, tree)
<1>0. StaysBounded(Failed(tree).tree, tree) /\ StaysBounded(tree, tree) /\ MaxWorkspace \in Nat
  BY WorkspaceAssumption DEF Failed, StaysBounded
<1>1. CASE result = WriteFile(tree, p, lines, flag, confirm)
  <2>1. CASE result = Failed(tree)
    BY <1>0, <2>1
  <2>2. CASE result # Failed(tree)
    <3>1. result = Write(tree, p, lines) /\ Fits(tree, Len(lines), p)
      BY <1>1, <2>2, Zenon DEF WriteFile
    <3>2. Filled(result.tree) /\ (result.tree = tree \/ Size(result.tree, Root) <= Size(tree, Root) - Size(tree, p) + Len(lines))
      BY <3>1, WriteFills
    <3>3. /\ Size(result.tree, Root) \in Nat /\ Size(tree, Root) \in Nat /\ Size(tree, p) \in Nat
          /\ Len(lines) \in Nat
      BY <3>2, SizeIsNumber, LinesNumbered
    <3>4. result.tree = tree \/ Bounded(result.tree)
      BY <1>0, <3>1, <3>2, <3>3 DEF Fits, Bounded
    <3> QED
      BY <1>0, <3>2, <3>4 DEF StaysBounded
  <2> QED
    BY <2>1, <2>2
<1>2. CASE result = CreateDirectory(tree, p, flag)
  BY <1>0, <1>2, MkdirStaysBounded, Zenon DEF CreateDirectory
<1>3. CASE result = RemovePath(tree, p, flag, confirm)
  BY <1>0, <1>3, DeleteStaysBounded, Zenon DEF RemovePath
<1> DEFINE ready == PrepareDestination(tree, q, flag, confirm)
<1>4. Filled(ready.tree)
  <2>1. ready \in {Done(tree), Delete(tree, q, TRUE), Failed(tree)}
    BY Zenon DEF PrepareDestination
  <2>2. Filled(Delete(tree, q, TRUE).tree) /\ Filled(Done(tree).tree) /\ Filled(Failed(tree).tree)
    BY DeleteStaysBounded DEF StaysBounded, Done, Failed
  <2> QED
    BY <2>1, <2>2
<1>5. IsTree(ready.tree)
  <2>1. ready \in {Done(tree), Delete(tree, q, TRUE), Failed(tree)}
    BY Zenon DEF PrepareDestination
  <2>2. IsTree(Delete(tree, q, TRUE).tree) /\ IsTree(Done(tree).tree) /\ IsTree(Failed(tree).tree)
    BY DeleteKeepsTree DEF Done, Failed
  <2> QED
    BY <2>1, <2>2
<1> HIDE DEF ready
<1>6. CASE result \in {Copy(tree, p, q, flag, confirm), Move(tree, p, q, flag, confirm)}
  <2>1. CASE result = Failed(tree)
    BY <1>0, <2>1
  <2>2. CASE result # Failed(tree)
    <3>1. /\ result \in {Copied(ready.tree, p, q), Renamed(ready.tree, p, q)}
          /\ Bounded(result.tree)
      BY <1>6, <2>2, Zenon DEF Copy, Move, Transfer, ready, Bounded
    <3>2. Filled(Subtree(ready.tree, p, q)) /\ Filled(Without(ready.tree, p))
      BY <1>4, <1>5, SubtreeFills, WithoutFills
    <3>3. /\ Filled(Put(ready.tree, Subtree(ready.tree, p, q)))
          /\ Filled(Put(Without(ready.tree, p), Subtree(ready.tree, p, q)))
      BY <1>4, <3>2, PutFills
    <3>4. result.tree \in {Put(ready.tree, Subtree(ready.tree, p, q)),
                           Put(Without(ready.tree, p), Subtree(ready.tree, p, q)), ready.tree}
      <4>1. /\ Copied(ready.tree, p, q) \in {Done(Put(ready.tree, Subtree(ready.tree, p, q))), Failed(ready.tree)}
            /\ Renamed(ready.tree, p, q) \in
                 {Done(Put(Without(ready.tree, p), Subtree(ready.tree, p, q))), Failed(ready.tree)}
        BY Zenon DEF Copied, Renamed
      <4>2. \A t : Done(t).tree = t /\ Failed(t).tree = t
        BY DEF Done, Failed
      <4> QED
        BY <3>1, <4>1, <4>2
    <3> QED
      BY <1>4, <3>1, <3>3, <3>4 DEF StaysBounded
  <2> QED
    BY <2>1, <2>2
<1> QED
  BY <1>1, <1>2, <1>3, <1>6

\* What read_text answers, the beginning of a file, are lines.
LEMMA TruncatedType ==
  ASSUME NEW lines \in Lines
  PROVE  Truncated(lines) \in Lines
<1> DEFINE ends == {MaxRead, Len(lines)}
<1>1. MaxRead \in Nat /\ Len(lines) \in Nat /\ \A k \in 1..Len(lines) : lines[k] \in STRING
  BY WorkspaceAssumption DEF Lines
<1>2. \E m \in ends : \A k \in ends : m <= k
  BY <1>1
<1>3. Min(ends) \in ends /\ \A k \in ends : Min(ends) <= k
  <2> HIDE DEF ends
  <2> QED
    BY <1>2, Zenon DEF Min
<1>4. Min(ends) \in Nat /\ Min(ends) <= Len(lines)
  BY <1>1, <1>3
<1> HIDE DEF ends
<1> DEFINE end == Min(ends)
<1> HIDE DEF end
<1>5. \A k \in 1..end : lines[k] \in STRING
  BY <1>1, <1>4 DEF end
<1>6. SubSeq(lines, 1, end) \in Lines
  <2>1. 1 \in Int /\ end \in Int
    BY <1>4 DEF end
  <2> QED
    BY <1>5, <2>1, SubSeqProperties DEF Lines
<1> QED
  BY <1>6 DEF Truncated, ends, end

\* So does every operation of a patch, also an update that fails after its edit.
LEMMA OperationsStayBounded ==
  ASSUME NEW tree, IsTree(tree), Filled(tree), NEW op \in Operations, NEW confirm \in BOOLEAN
  PROVE  StaysBounded(ApplyOperation(tree, op, confirm).tree, tree)
<1> DEFINE Good(t) == StaysBounded(t, tree)
<1>1. /\ op.path \in Paths /\ op.kind \in {"add", "delete", "update"}
      /\ op.kind = "add" => op.lines \in Lines
      /\ op.kind = "update" => op.hunk \in Seq(HunkLines)
  <2>1. /\ op.path \in Paths /\ op.kind \in {"add", "delete", "update"}
        /\ op.kind = "add" => op.lines \in Contents
        /\ op.kind = "update" => op.hunk \in Hunks \cup {<<>>}
    BY InputsArePaths DEF Operations
  <2>2. <<>> \in Seq(HunkLines) /\ \A hunk \in Hunks : hunk \in Seq(HunkLines)
    BY TextAssumption DEF HunkLines
  <2> QED
    BY <2>1, <2>2, TextAssumption DEF Lines
<1>2. Good(Failed(tree).tree) /\ Good(Done(tree).tree)
  BY DEF Failed, Done, StaysBounded
<1> HIDE DEF Good
<1>3. ASSUME NEW lines \in Lines, NEW flag \in BOOLEAN, NEW sure1 \in BOOLEAN
      PROVE  Good(WriteFile(tree, op.path, lines, flag, sure1).tree)
  BY <1>1, MethodsStayBounded DEF Good
<1>4. CASE op.kind = "add"
  <2>1. Exists(tree, op.path) \in BOOLEAN
    BY DEF Exists
  <2>2. Good(WriteFile(tree, op.path, op.lines, Exists(tree, op.path), confirm).tree)
    BY <1>1, <1>3, <1>4, <2>1
  <2>3. Good(ApplyAdd(tree, op, confirm).tree)
    BY <1>2, <2>2, Zenon DEF ApplyAdd
  <2> QED
    BY <1>2, <1>4, <2>3 DEF ApplyOperation, Good
<1>5. CASE op.kind = "delete"
  <2>1. Good(RemovePath(tree, op.path, TRUE, TRUE).tree)
    <3>1. <<>> \in Lines
      BY DEF Lines
    <3> QED
      BY <1>1, <3>1, MethodsStayBounded DEF Good
  <2>2. Good(ApplyDelete(tree, op, confirm).tree)
    BY <1>2, <2>1, Zenon DEF ApplyDelete
  <2> QED
    BY <1>2, <1>5, <2>2 DEF ApplyOperation, Good
<1>6. CASE op.kind = "update"
  <2> DEFINE edited == IF op.hunk = <<>> THEN Done(tree) ELSE Edit(tree, op.path, op.hunk)
             new == ApplyHunks(Truncated(tree[op.path].lines), op.hunk).lines
  <2>1. Good(Edit(tree, op.path, op.hunk).tree) /\ IsTree(Edit(tree, op.path, op.hunk).tree)
    <3>1. IsFile(tree, op.path) => new \in Lines
      BY <1>1, <1>6, TruncatedType, ApplyHunksType DEF IsFile, Exists, Filled
    <3> HIDE DEF new
    <3>2. IsFile(tree, op.path) =>
            /\ Good(WriteFile(tree, op.path, new, TRUE, TRUE).tree)
            /\ IsTree(WriteFile(tree, op.path, new, TRUE, TRUE).tree)
      BY <1>1, <1>3, <3>1, MethodsKeepTree
    <3>3. IsTree(Failed(tree).tree)
      BY DEF Failed
    <3> QED
      BY <1>2, <3>2, <3>3, Zenon DEF Edit, new
  <2>2. Good(edited.tree) /\ IsTree(edited.tree)
    <3>1. IsTree(Done(tree).tree)
      BY DEF Done
    <3> QED
      BY <1>2, <2>1, <3>1
  <2>3. op.to # NoMove => Normalize(op.to) \in Paths
    BY <1>6, InputsArePaths DEF Operations
  <2> HIDE DEF edited, new
  <2>4. op.to # NoMove => Good(Relocate(edited.tree, op).tree)
    <3>1. Filled(edited.tree)
      BY <2>2 DEF Good, StaysBounded
    <3>2. <<>> \in Lines
      BY DEF Lines
    <3>3. op.to # NoMove => StaysBounded(Move(edited.tree, op.path, Normalize(op.to), FALSE, TRUE).tree, edited.tree)
      BY <1>1, <2>2, <2>3, <3>1, <3>2, MethodsStayBounded
    <3>4. Good(Failed(edited.tree).tree)
      BY <2>2 DEF Failed
    <3>5. op.to # NoMove => Good(Move(edited.tree, op.path, Normalize(op.to), FALSE, TRUE).tree)
      BY <2>2, <3>3 DEF Good, StaysBounded
    <3> QED
      BY <3>4, <3>5, Zenon DEF Relocate
  <2>5. ApplyUpdate(tree, op, confirm) \in
          {Failed(tree)} \cup IF op.to = NoMove THEN {edited} ELSE {Relocate(edited.tree, op)}
    BY Zenon DEF ApplyUpdate, edited
  <2>6. Good(ApplyUpdate(tree, op, confirm).tree)
    BY <1>2, <2>2, <2>4, <2>5
  <2> QED
    BY <1>2, <1>6, <2>6 DEF ApplyOperation, Good
<1> QED
  BY <1>1, <1>4, <1>5, <1>6

LEMMA RestoreStaysBounded ==
  ASSUME NEW tree, IsTree(tree), Filled(tree), NEW dir
  PROVE  StaysBounded(RestoreCwd(tree, dir).tree, tree)
<1>1. Workspace \in Paths
  BY TextAssumption DEF Paths
<1>2. StaysBounded(Done(tree).tree, tree) /\ StaysBounded(Mkdir(tree, Workspace, TRUE).tree, tree)
  BY <1>1, MkdirStaysBounded DEF Done, StaysBounded
<1>3. RestoreCwd(tree, dir).tree \in {Done(tree).tree, Mkdir(tree, Workspace, TRUE).tree}
  BY Zenon DEF RestoreCwd
<1> QED
  BY <1>2, <1>3

-----------------------------------------------------------------------------
(* The inductive invariant: the files are within the limit except while a  *)
(* command runs, and what it would be rolled back to always is.            *)

SizeInv ==
  /\ TreeInv
  /\ Filled(fs) /\ (pc # "bash" => Bounded(fs))
  /\ pc # "idle" => Filled(saved) /\ Bounded(saved)

LEMMA SizeInvInit == Init => SizeInv
<1> SUFFICES ASSUME Init PROVE SizeInv
  OBVIOUS
<1>1. DOMAIN fs = {Root, Home, Workspace} /\ (\A q \in DOMAIN fs : fs[q].lines = <<>>) /\ pc = "idle"
  BY DEF Init, Dir
<1>2. IsFiniteSet(DOMAIN fs)
  <2>1. IsFiniteSet({Root}) /\ IsFiniteSet({Home}) /\ IsFiniteSet({Workspace})
    BY FS_Singleton
  <2>2. IsFiniteSet({Root} \cup {Home} \cup {Workspace})
    BY <2>1, FS_Union
  <2>3. DOMAIN fs = {Root} \cup {Home} \cup {Workspace}
    BY <1>1
  <2> QED
    BY <2>2, <2>3
<1>3. Filled(fs)
  <2>1. <<>> \in Lines
    BY DEF Lines
  <2> QED
    BY <1>1, <1>2, <2>1 DEF Filled
<1>4. LinesBelow(fs, Root) = {}
  <2>1. DOMAIN <<>> = {}
    OBVIOUS
  <2>2. \A q \in DOMAIN fs : {q} \X DOMAIN fs[q].lines = {}
    BY <1>1, <2>1
  <2> QED
    BY <2>2, LinesBelowFact
<1>5. Size(fs, Root) = 0
  BY <1>4, FS_EmptySet DEF Size
<1>6. Bounded(fs)
  BY <1>5, WorkspaceAssumption DEF Bounded
<1> QED
  BY <1>1, <1>3, <1>6, TreeInvInit DEF SizeInv

LEMMA SizeInvStep == SizeInv /\ [Next]_vars => SizeInv'
<1> SUFFICES ASSUME SizeInv, [Next]_vars PROVE SizeInv'
  OBVIOUS
<1>0. TreeInv /\ TreeInv' /\ IsTree(fs) /\ \A i \in Inputs : Normalize(i) \in Paths
  BY TreeInvStep, InputsArePaths DEF SizeInv, TreeInv
<1>1. ASSUME NEW tool, NEW confirm, NEW r, Return(tool, confirm, r), Filled(r.tree), Bounded(r.tree)
      PROVE  SizeInv'
  BY <1>0, <1>1 DEF SizeInv, Return, EndCall, Filled, Bounded
<1>2. ASSUME Idle, NEW tool, NEW confirm, NEW r, Return(tool, confirm, r), StaysBounded(r.tree, fs)
      PROVE  SizeInv'
  BY <1>1, <1>2 DEF SizeInv, Idle, StaysBounded
<1>3. StaysBounded(Failed(fs).tree, fs)
  BY DEF SizeInv, StaysBounded, Failed
<1>4. <<>> \in Lines /\ Contents \subseteq Lines /\ Output \subseteq Lines
  BY TextAssumption DEF Lines
<1>5. CASE CallWriteFile
  BY <1>0, <1>2, <1>4, <1>5, MethodsStayBounded DEF CallWriteFile, SizeInv
<1>6. CASE CallCreateDirectory
  BY <1>0, <1>2, <1>4, <1>6, MethodsStayBounded DEF CallCreateDirectory, SizeInv
<1>7. CASE CallRemove
  BY <1>0, <1>2, <1>4, <1>7, MethodsStayBounded DEF CallRemove, SizeInv
<1>8. CASE CallCopy
  BY <1>0, <1>2, <1>4, <1>8, MethodsStayBounded DEF CallCopy, SizeInv
<1>9. CASE CallMove
  BY <1>0, <1>2, <1>4, <1>9, MethodsStayBounded DEF CallMove, SizeInv
<1>10. CASE RejectPatch \/ RejectCommand
  BY <1>2, <1>3, <1>10 DEF RejectPatch, RejectCommand
<1>11. CASE StartPatch \/ StartCommand
  <2>1. pc = "idle" /\ fs' = fs /\ saved' = fs
    BY <1>11 DEF StartPatch, StartCommand, Begin
  <2> QED
    BY <1>0, <2>1 DEF SizeInv, Filled, Bounded
<1>12. ASSUME NEW op \in Operations, PatchOperation(op) PROVE SizeInv'
  <2> DEFINE result == ApplyOperation(fs, op, sure)
  <2>1. StaysBounded(result.tree, fs) /\ pc = "patch"
    BY <1>0, <1>12, OperationsStayBounded DEF SizeInv, TreeInv, PatchOperation
  <2> HIDE DEF result
  <2>2. CASE result.ok
    <3>1. fs' = result.tree /\ UNCHANGED <<pc, saved>>
      BY <1>12, <2>2 DEF PatchOperation, result
    <3> QED
      BY <1>0, <2>1, <3>1 DEF SizeInv, StaysBounded, Filled, Bounded
  <2>3. CASE ~result.ok
    <3>1. Return("patch", sure, Failed(saved))
      BY <1>12, <2>3 DEF PatchOperation, result
    <3>2. Filled(Failed(saved).tree) /\ Bounded(Failed(saved).tree)
      BY <2>1 DEF SizeInv, Failed
    <3> QED
      BY <1>1, <3>1, <3>2
  <2> QED
    BY <2>2, <2>3
<1>13. CASE EndPatch
  <2>1. Return("patch", sure, Done(fs)) /\ Filled(Done(fs).tree) /\ Bounded(Done(fs).tree)
    BY <1>13 DEF EndPatch, SizeInv, Done
  <2> QED
    BY <1>1, <2>1
<1>14. CASE CommandEffect
  <2>1. PICK i \in Inputs :
          LET p == Normalize(i) IN
          /\ \/ fs' = Mkdir(fs, p, FALSE).tree \/ fs' = Delete(fs, p, TRUE).tree
             \/ \E c \in Output : fs' = Write(fs, p, c).tree
             \/ fs' = fs
          /\ pc = "bash" /\ UNCHANGED <<pc, saved>>
    BY <1>14, Zenon DEF CommandEffect
  <2>2. /\ Filled(Mkdir(fs, Normalize(i), FALSE).tree) /\ Filled(Delete(fs, Normalize(i), TRUE).tree)
        /\ \A c \in Output : Filled(Write(fs, Normalize(i), c).tree)
    BY <1>0, <1>4, MkdirFills, DeleteStaysBounded, WriteFills DEF SizeInv, StaysBounded
  <2>3. \E t : t = fs' /\ Filled(t)
    BY <2>1, <2>2 DEF SizeInv
  <2>4. Filled(fs)'
    BY <2>3 DEF Filled
  <2> QED
    BY <1>0, <2>1, <2>4 DEF SizeInv, Bounded, Filled
<1>15. ASSUME NEW at, Rollback(at), pc = "bash" PROVE SizeInv'
  <2> DEFINE t == RestoreCwd(saved, origin).tree
  <2>1. Filled(t) /\ Bounded(t)
    BY <1>0, <1>15, RestoreStaysBounded DEF SizeInv, TreeInv, StaysBounded
  <2> HIDE DEF t
  <2>2. Return("bash", FALSE, Failed(t)) /\ Filled(Failed(t).tree) /\ Bounded(Failed(t).tree)
    BY <1>15, <2>1 DEF Rollback, Failed, t
  <2> QED
    BY <1>1, <2>2
<1>16. CASE CommandReturns
  <2> DEFINE back == RestoreCwd(fs, origin)
  <2>1. Filled(back.tree) /\ Size(back.tree, Root) \in Nat /\ MaxWorkspace \in Nat
    BY <1>0, RestoreStaysBounded, SizeIsNumber, WorkspaceAssumption DEF SizeInv, StaysBounded
  <2> HIDE DEF back
  <2>2. \/ \E at : Rollback(at)
        \/ ~(Size(back.tree, Root) > MaxWorkspace) /\ \E success : Exit(back.tree, success)
    BY <1>16, Zenon DEF CommandReturns, back
  <2>3. ~(Size(back.tree, Root) > MaxWorkspace) => Bounded(back.tree)
    BY <2>1 DEF Bounded
  <2>4. pc = "bash"
    BY <1>16 DEF CommandReturns
  <2>5. ASSUME Bounded(back.tree), NEW success, Exit(back.tree, success) PROVE SizeInv'
    BY <1>0, <2>1, <2>5 DEF SizeInv, Exit, EndCall, Filled, Bounded
  <2> QED
    BY <1>15, <2>2, <2>3, <2>4, <2>5
<1>17. CASE CommandRaises
  BY <1>15, <1>17 DEF CommandRaises
<1>18. CASE UNCHANGED vars
  BY <1>0, <1>18 DEF vars, SizeInv, Filled, Bounded
<1> QED
  BY <1>5, <1>6, <1>7, <1>8, <1>9, <1>10, <1>11, <1>12, <1>13, <1>14, <1>16, <1>17, <1>18, Zenon DEF Next

\* Between calls the files stay within the limit of the workspace, also after a command
\* that wrote more than that.
THEOREM SizeStaysBounded == Spec => []SizeBounded
<1>1. SizeInv => SizeBounded
  BY DEF SizeInv, SizeBounded, Bounded
<1> QED
  BY <1>1, SizeInvInit, SizeInvStep, PTL DEF Spec
=============================================================================
