---------------------------- MODULE RunAccounting ----------------------------
(***************************************************************************)
(* What agent runs promise their callers and the books, whatever happens   *)
(* inside a run: a run closes once, in one of three ways, and in that very *)
(* step, and never again, at most one entry is made for it.                *)
(***************************************************************************)
EXTENDS Naturals

CONSTANTS
  Runs,
  Plain   \* runs whose success is booked before the caller has its answer

VARIABLES
  phase,  \* "open", or how the caller saw the run end
  book    \* entries made for each run

vars == <<phase, book>>

Blank == [success |-> 0, failure |-> 0]
Success == [success |-> 1, failure |-> 0]
Failure == [success |-> 0, failure |-> 1]

Init ==
  /\ phase = [r \in Runs |-> "open"]
  /\ book = [r \in Runs |-> Blank]

Close(r, ending, entry) ==
  /\ phase[r] = "open"
  /\ phase' = [phase EXCEPT ![r] = ending]
  /\ book' = [book EXCEPT ![r] = entry]

Answer(r) == Close(r, "answered", Success)
Apologise(r) == Close(r, "apologised", Failure)

Raise(r) ==
  \/ Close(r, "raised", Blank)
  \/ Close(r, "raised", Failure)
  \/ r \in Plain /\ Close(r, "raised", Success)

Next == \E r \in Runs : Answer(r) \/ Apologise(r) \/ Raise(r)

Spec == Init /\ [][Next]_vars
=============================================================================
