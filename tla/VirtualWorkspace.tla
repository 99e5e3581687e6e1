-------------------------- MODULE VirtualWorkspace --------------------------
(***************************************************************************)
(* The in-memory workspace of one model run: a file tree and a shell, kept *)
(* by Bashkit, and the tools that change them.  Tool calls do not overlap  *)
(* (the toolset is sequential), but a call may fail half way: a command    *)
(* raises after some of its effects, a copy finds its source removed, a    *)
(* patch fails at its second file.  What a failed call leaves behind       *)
(* depends on a snapshot of the tree taken before.  Sizes count lines, and *)
(* every file ends in a newline.                                           *)
(***************************************************************************)
EXTENDS Naturals, Sequences, SequencesExt, FiniteSets, FiniteSetsExt

CONSTANTS
  Workspace, Home,          \* "/workspace", and where Bashkit's shell may start
  Inputs,                   \* paths a model passes, before they are normalized
  Contents, Hunks,          \* what the tools write, and the bodies of updates
  Output,                   \* what a shell command writes: of any size
  Blank,                    \* the empty line
  MaxRead, MaxWrite, MaxWorkspace,
  MaxCalls, MaxSteps        \* bounds: tool calls, and steps of one call

ASSUME WorkspaceAssumption ==
  /\ Len(Workspace) = 1 /\ Len(Home) = 1 /\ Workspace # Home
  /\ {MaxRead, MaxWrite, MaxWorkspace, MaxCalls, MaxSteps} \subseteq Nat \ {0}

VARIABLES
  fs,      \* the tree: what is at each existing path
  cwd,     \* the directory of the shell
  pc,      \* the call that is running: none ("idle"), "bash" or "patch"
  saved,   \* its snapshot
  origin,  \* the directory of the shell before the command
  sure,    \* confirm, as given to the patch
  last,    \* history: the last call and how it ended
  calls, steps,
  start    \* history: the first directory of the shell

vars == <<fs, cwd, pc, saved, origin, sure, last, calls, steps, start>>

-----------------------------------------------------------------------------
(* Paths are sequences of names; a path a model passes is absolute or not  *)
(* and has "." and ".." among its names.                                   *)

Root == <<>>
Invalid == <<"..">>
NoMove == [absolute |-> TRUE, names |-> Invalid]

Normalize(path) ==
  LET walk(dir, name) ==
        CASE dir = Invalid \/ name = "." -> dir
          [] name = ".." -> IF dir = Root THEN Invalid ELSE Front(dir)
          [] OTHER -> Append(dir, name)
  IN  FoldLeft(walk, IF path.absolute THEN Root ELSE Workspace, path.names)

Protected(p) == p \in {Root, Workspace}

\* Mutant: overwriting does not have to be confirmed.
MayReplaceUnconfirmed(p, overwrite, confirm) == ~Protected(p) /\ overwrite

MayReplace(p, overwrite, confirm) == ~Protected(p) /\ overwrite /\ confirm

\* Paths and files are sequences: of names, and of lines.
ASSUME TextAssumption ==
  /\ {Workspace, Home, Invalid} \subseteq Seq(STRING)
  /\ \A i \in Inputs : i.absolute \in BOOLEAN /\ i.names \in Seq(STRING)
  /\ \A lines \in Contents \cup Output : lines \in Seq(STRING)
  /\ \A hunk \in Hunks : hunk \in Seq([mark : STRING, text : STRING])
  /\ Blank \in STRING

-----------------------------------------------------------------------------
(* Bashkit's file tree.  An operation that fails leaves it alone.          *)

Dir == [dir |-> TRUE, lines |-> <<>>]
File(lines) == [dir |-> FALSE, lines |-> lines]

Done(tree) == [ok |-> TRUE, tree |-> tree]
Failed(tree) == [ok |-> FALSE, tree |-> tree]

Exists(tree, p) == p \in DOMAIN tree
IsDir(tree, p) == Exists(tree, p) /\ tree[p].dir
IsFile(tree, p) == Exists(tree, p) /\ ~tree[p].dir
InDir(tree, p) == p # Root /\ IsDir(tree, Front(p))
From(tree, p) == {q \in DOMAIN tree : IsPrefix(p, q)}
Rebased(q, old, new) == new \o SubSeq(q, Len(old) + 1, Len(q))

Put(tree, more) ==
  [q \in DOMAIN tree \cup DOMAIN more |-> IF q \in DOMAIN more THEN more[q] ELSE tree[q]]
Without(tree, p) == [q \in DOMAIN tree \ From(tree, p) |-> tree[q]]
Subtree(tree, src, dest) ==
  [q \in {Rebased(x, src, dest) : x \in From(tree, src)} |-> tree[Rebased(q, dest, src)]]

Mkdir(tree, p, parents) ==
  LET above == {SubSeq(p, 1, i) : i \in 0..Len(p)}
  IN  IF IF parents THEN \A q \in above : ~IsFile(tree, q)
                    ELSE InDir(tree, p) /\ ~Exists(tree, p)
      THEN Done(Put(tree, [q \in IF parents THEN above ELSE {p} |-> Dir]))
      ELSE Failed(tree)

Write(tree, p, lines) ==
  IF InDir(tree, p) /\ ~IsDir(tree, p)
  THEN Done(Put(tree, [q \in {p} |-> File(lines)]))
  ELSE Failed(tree)

Delete(tree, p, recursive) ==
  IF p # Root /\ Exists(tree, p) /\ (recursive \/ From(tree, p) = {p})
  THEN Done(Without(tree, p))
  ELSE Failed(tree)

Copied(tree, src, dest) ==
  IF Exists(tree, src) /\ InDir(tree, dest)
  THEN Done(Put(tree, Subtree(tree, src, dest)))
  ELSE Failed(tree)

Renamed(tree, src, dest) ==
  IF Exists(tree, src) /\ InDir(tree, dest)
  THEN Done(Put(Without(tree, src), Subtree(tree, src, dest)))
  ELSE Failed(tree)

-----------------------------------------------------------------------------
(* What each method of the workspace answers, and the tree it leaves.      *)

\* The lines of the files at or below a path: each by its file and its place there.
LinesBelow(tree, p) == UNION {{q} \X DOMAIN tree[q].lines : q \in From(tree, p)}

Size(tree, p) == Cardinality(LinesBelow(tree, p))

Fits(tree, added, replaced) ==
  Size(tree, Root) - Size(tree, replaced) + added <= MaxWorkspace

WriteFile(tree, p, lines, overwrite, confirm) ==
  IF /\ p # Invalid
     /\ Len(lines) <= MaxWrite
     /\ Exists(tree, p) => MayReplace(p, overwrite, confirm)
     /\ Fits(tree, Len(lines), p)
  THEN Write(tree, p, lines)
  ELSE Failed(tree)

CreateDirectory(tree, p, parents) ==
  IF p # Invalid THEN Mkdir(tree, p, parents) ELSE Failed(tree)

RemovePath(tree, p, recursive, confirm) ==
  IF p # Invalid /\ confirm /\ ~Protected(p)
  THEN Delete(tree, p, recursive)
  ELSE Failed(tree)

\* Mutant: the destination may be inside the source.
TransferableInside(tree, src, dest) ==
  src # Invalid /\ dest # Invalid /\ src # dest /\ Exists(tree, src)

Transferable(tree, src, dest) ==
  /\ src # Invalid /\ dest # Invalid /\ src # dest
  /\ Exists(tree, src)
  /\ ~(IsDir(tree, src) /\ IsStrictPrefix(src, dest))

PrepareDestination(tree, dest, overwrite, confirm) ==
  IF ~Exists(tree, dest) THEN Done(tree)
  ELSE IF MayReplace(dest, overwrite, confirm) THEN Delete(tree, dest, TRUE)
  ELSE Failed(tree)

\* The snapshot is put back when preparing, the transfer or the size fails.
Transfer(tree, ready, result) ==
  IF ready.ok /\ result.ok /\ Size(result.tree, Root) <= MaxWorkspace
  THEN result
  ELSE Failed(tree)

Copy(tree, src, dest, overwrite, confirm) ==
  LET ready == PrepareDestination(tree, dest, overwrite, confirm)
  IN  IF Transferable(tree, src, dest) /\ Fits(tree, Size(tree, src), dest)
      THEN Transfer(tree, ready, Copied(ready.tree, src, dest))
      ELSE Failed(tree)

Move(tree, src, dest, overwrite, confirm) ==
  LET ready == PrepareDestination(tree, dest, overwrite, confirm)
  IN  IF confirm /\ ~Protected(src) /\ Transferable(tree, src, dest) /\ Fits(tree, 0, dest)
      THEN Transfer(tree, ready, Renamed(ready.tree, src, dest))
      ELSE Failed(tree)

-----------------------------------------------------------------------------
(* Patches.                                                                *)

\* Copies up to the first line that matches; kept or dropped, it is consumed.
HunkLine(source, acc, line) ==
  LET matches == {i \in acc.next..Len(source) : source[i] = line.text}
      upTo(i) == acc.out \o SubSeq(source, acc.next, i)
  IN  CASE line.mark = "+" -> [acc EXCEPT !.out = Append(@, line.text)]
        [] line.mark # "+" /\ matches = {} -> [acc EXCEPT !.ok = FALSE]
        [] OTHER -> [ok   |-> acc.ok,
                     next |-> Min(matches) + 1,
                     out  |-> upTo(Min(matches) - IF line.mark = "-" THEN 1 ELSE 0)]

\* A file that loses every line keeps its last newline: one empty line.
ApplyHunks(source, hunk) ==
  LET walk(acc, line) == HunkLine(source, acc, line)
      end == FoldLeft(walk, [ok |-> TRUE, next |-> 1, out |-> <<>>], hunk)
      all == end.out \o SubSeq(source, end.next, Len(source))
  IN  [ok |-> end.ok, lines |-> IF all = <<>> THEN <<Blank>> ELSE all]

Truncated(lines) == SubSeq(lines, 1, Min({MaxRead, Len(lines)}))

ApplyAdd(tree, op, confirm) ==
  IF (Exists(tree, op.path) => confirm) /\ ~Protected(op.path)
  THEN WriteFile(tree, op.path, op.lines, Exists(tree, op.path), confirm)
  ELSE Failed(tree)

ApplyDelete(tree, op, confirm) ==
  IF confirm THEN RemovePath(tree, op.path, TRUE, TRUE) ELSE Failed(tree)

Edit(tree, p, hunk) ==
  LET edited == ApplyHunks(Truncated(tree[p].lines), hunk)
  IN  IF IsFile(tree, p) /\ edited.ok
      THEN WriteFile(tree, p, edited.lines, TRUE, TRUE)
      ELSE Failed(tree)

Relocate(tree, op) ==
  IF Protected(Normalize(op.to))
  THEN Failed(tree)
  ELSE Move(tree, op.path, Normalize(op.to), FALSE, TRUE)

ApplyUpdate(tree, op, confirm) ==
  LET edited == IF op.hunk = <<>> THEN Done(tree) ELSE Edit(tree, op.path, op.hunk)
      empty  == op.hunk = <<>> /\ op.to = NoMove
  IN  IF ~confirm \/ Protected(op.path) \/ empty \/ ~edited.ok
      THEN Failed(tree)
      ELSE IF op.to = NoMove THEN edited ELSE Relocate(edited.tree, op)

ApplyOperation(tree, op, confirm) ==
  IF op.malformed THEN Failed(tree)
  ELSE CASE op.kind = "add" -> ApplyAdd(tree, op, confirm)
         [] op.kind = "delete" -> ApplyDelete(tree, op, confirm)
         [] op.kind = "update" -> ApplyUpdate(tree, op, confirm)

\* The operations of patches that parse: the paths of their headers are valid.
\* The body may still be malformed, which shows when the operation is applied.
Operations ==
  LET paths == {Normalize(i) : i \in Inputs} \ {Invalid}
  IN  [kind : {"add"}, path : paths, lines : Contents, malformed : BOOLEAN]
        \cup [kind : {"delete"}, path : paths, malformed : BOOLEAN]
        \cup [kind : {"update"}, path : paths, hunk : Hunks \cup {<<>>},
              to : Inputs \cup {NoMove}, malformed : BOOLEAN]

-----------------------------------------------------------------------------
(* The tools.                                                              *)

Init ==
  /\ start \in {Workspace, Home}
  /\ cwd = start
  /\ fs = [p \in {Root, Home, Workspace} |-> Dir]
  /\ pc = "idle"
  /\ saved = <<>> /\ origin = Root /\ sure = FALSE
  /\ last = [tool |-> "none", ok |-> TRUE, confirm |-> FALSE, exited |-> FALSE]
  /\ calls = 0 /\ steps = 0

EndCall(tree, report) ==
  /\ fs' = tree
  /\ last' = report
  /\ calls' = calls + 1
  /\ pc' = "idle"
  /\ saved' = <<>> /\ origin' = Root /\ sure' = FALSE /\ steps' = 0
  /\ UNCHANGED start

Return(tool, confirm, result) ==
  EndCall(result.tree, [tool |-> tool, ok |-> result.ok, confirm |-> confirm, exited |-> FALSE])

\* The report of a command that ran to its end, with an exit status of zero or not.
Exit(tree, success) ==
  EndCall(tree, [tool |-> "bash", ok |-> success, confirm |-> FALSE, exited |-> TRUE])

Begin(tool) ==
  /\ pc = "idle" /\ calls < MaxCalls
  /\ pc' = tool
  /\ saved' = fs
  /\ steps' = 0
  /\ UNCHANGED <<fs, last, calls, start>>

Idle == pc = "idle" /\ calls < MaxCalls /\ UNCHANGED cwd

CallWriteFile == Idle /\ \E i \in Inputs, c \in Contents, overwrite, confirm \in BOOLEAN :
  Return("write", confirm, WriteFile(fs, Normalize(i), c, overwrite, confirm))

CallCreateDirectory == Idle /\ \E i \in Inputs, parents \in BOOLEAN :
  Return("mkdir", FALSE, CreateDirectory(fs, Normalize(i), parents))

CallRemove == Idle /\ \E i \in Inputs, recursive, confirm \in BOOLEAN :
  Return("remove", confirm, RemovePath(fs, Normalize(i), recursive, confirm))

CallCopy == Idle /\ \E i, j \in Inputs, overwrite, confirm \in BOOLEAN :
  Return("copy", confirm, Copy(fs, Normalize(i), Normalize(j), overwrite, confirm))

CallMove == Idle /\ \E i, j \in Inputs, overwrite, confirm \in BOOLEAN :
  Return("move", confirm, Move(fs, Normalize(i), Normalize(j), overwrite, confirm))

\* A patch too large or that does not parse changes nothing.
RejectPatch == Idle /\ \E confirm \in BOOLEAN : Return("patch", confirm, Failed(fs))

StartPatch ==
  /\ Begin("patch")
  /\ sure' \in BOOLEAN
  /\ UNCHANGED <<cwd, origin>>

\* Mutant: the files changed before the failure stay changed.
PatchOperationNoRollback(op) ==
  LET result == ApplyOperation(fs, op, sure) IN
  /\ pc = "patch" /\ steps < MaxSteps
  /\ UNCHANGED cwd
  /\ IF result.ok
     THEN /\ fs' = result.tree
          /\ steps' = steps + 1
          /\ UNCHANGED <<pc, saved, origin, sure, last, calls, start>>
     ELSE Return("patch", sure, Failed(fs))

\* The exception of a failed operation puts the snapshot back.
PatchOperation(op) ==
  LET result == ApplyOperation(fs, op, sure) IN
  /\ pc = "patch" /\ steps < MaxSteps
  /\ UNCHANGED cwd
  /\ IF result.ok
     THEN /\ fs' = result.tree
          /\ steps' = steps + 1
          /\ UNCHANGED <<pc, saved, origin, sure, last, calls, start>>
     ELSE Return("patch", sure, Failed(saved))

EndPatch ==
  /\ pc = "patch" /\ steps > 0
  /\ UNCHANGED cwd
  /\ Return("patch", sure, Done(fs))

\* A command that is empty or too large, or a working directory there is not.
RejectCommand == Idle /\ Return("bash", FALSE, Failed(fs))

StartCommand == \E i \in Inputs :
  /\ IsDir(fs, Normalize(i))
  /\ Begin("bash")
  /\ cwd' = Normalize(i)
  /\ origin' = cwd
  /\ UNCHANGED sure

\* One effect of a command: it may touch any path but the root.
CommandEffect == \E i \in Inputs :
  LET p == Normalize(i)
      results == {Mkdir(fs, p, FALSE), Delete(fs, p, TRUE)} \cup {Write(fs, p, c) : c \in Output}
  IN  /\ pc = "bash" /\ steps < MaxSteps /\ p # Invalid
      /\ \/ \E r \in results : r.ok /\ fs' = r.tree /\ UNCHANGED cwd
         \/ IsDir(fs, p) /\ cwd' = p /\ UNCHANGED fs
      /\ steps' = steps + 1
      /\ UNCHANGED <<pc, saved, origin, sure, last, calls, start>>

\* Mutant: a missing /workspace is not made again.
RestoreCwdOnly(tree, dir) ==
  [ok |-> TRUE, tree |-> tree, cwd |-> IF IsDir(tree, dir) THEN dir ELSE Workspace]

\* The shell goes back, or to /workspace, which is made again when missing.
RestoreCwd(tree, dir) ==
  LET target == IF IsDir(tree, dir) THEN dir ELSE Workspace
      made == IF IsDir(tree, target) THEN Done(tree) ELSE Mkdir(tree, Workspace, TRUE)
  IN  [ok |-> made.ok, tree |-> made.tree, cwd |-> target]

\* The snapshot, then the directory as far as it can be restored.
Rollback(at) ==
  LET back == RestoreCwd(saved, origin) IN
  /\ Return("bash", FALSE, Failed(back.tree))
  /\ cwd' = IF back.ok THEN back.cwd ELSE at

CommandRaises == pc = "bash" /\ Rollback(cwd)

\* Mutant: the size is not checked after the command.
CommandReturnsUnmetered ==
  LET back == RestoreCwd(fs, origin) IN
  /\ pc = "bash"
  /\ IF back.ok THEN (\E success \in BOOLEAN : Exit(back.tree, success)) /\ cwd' = back.cwd
     ELSE Rollback(cwd)

\* What a command did stays, whatever its exit status.
CommandReturns ==
  LET back == RestoreCwd(fs, origin) IN
  /\ pc = "bash"
  /\ IF ~back.ok THEN Rollback(cwd)
     ELSE IF Size(back.tree, Root) > MaxWorkspace THEN Rollback(back.cwd)
     ELSE (\E success \in BOOLEAN : Exit(back.tree, success)) /\ cwd' = back.cwd

Next ==
  \/ CallWriteFile \/ CallCreateDirectory \/ CallRemove \/ CallCopy \/ CallMove
  \/ RejectPatch \/ StartPatch \/ (\E op \in Operations : PatchOperation(op)) \/ EndPatch
  \/ RejectCommand \/ StartCommand \/ CommandEffect \/ CommandReturns \/ CommandRaises

Spec == Init /\ [][Next]_vars

-----------------------------------------------------------------------------
(* Properties.                                                             *)

\* The tree is a tree, whatever was copied or moved: the root is there, and
\* everything else is in a directory that exists.
TypeOK ==
  /\ IsDir(fs, Root)
  /\ \A p \in DOMAIN fs : p # Root => InDir(fs, p)
  /\ pc \in {"idle", "bash", "patch"}
  /\ sure \in BOOLEAN /\ calls \in 0..MaxCalls /\ steps \in 0..MaxSteps

\* Between calls the files stay within the limit of the workspace, also after
\* a command that wrote more than that.
SizeBounded == pc = "idle" => Size(fs, Root) <= MaxWorkspace

CallEnds == calls' # calls
Before == IF pc = "idle" THEN fs ELSE saved

\* A call that fails has not changed a file, whichever of its steps failed; after a
\* command only /workspace may have come back.  Exempt is a command that ran to its end
\* within the size limit and exited nonzero: it is reported as failed, and what it did
\* stays.
FailedCallChangesNothing ==
  [][CallEnds /\ ~last'.ok /\ ~last'.exited =>
       \/ fs' = Before
       \/ last'.tool = "bash" /\ fs' = Mkdir(Before, Workspace, TRUE).tree]_vars

\* Without confirm, the tools other than the shell keep everything that was
\* there when they were called.
UnconfirmedKeepsFiles ==
  [][CallEnds /\ last'.tool # "bash" /\ ~last'.confirm =>
       \A p \in DOMAIN Before : p \in DOMAIN fs' /\ fs'[p] = Before[p]]_vars

\* A shell that starts in /workspace is there between calls, and it is a
\* directory, although commands may remove or replace it.
WorkspaceStays == start = Workspace /\ pc = "idle" => IsDir(fs, Workspace) /\ cwd = Workspace

\* An update changes what its hunk says and keeps the rest of the file.
UpdateIsExact ==
  [][\A op \in Operations :
       op.kind = "update" /\ PatchOperation(op) /\ pc' = "patch" /\ op.hunk # <<>> =>
         fs'[IF op.to = NoMove THEN op.path ELSE Normalize(op.to)].lines
           = ApplyHunks(fs[op.path].lines, op.hunk).lines]_vars
=============================================================================
