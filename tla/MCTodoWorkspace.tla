-------------------------- MODULE MCTodoWorkspace --------------------------
(* Instances of TodoWorkspace for TLC. *)
EXTENDS TodoWorkspace, TLC

CONSTANTS r1, r2, r3, r4, l1, l2, u1, u2

\* r1 works on l1 and starts r2, which works on l2 and starts r3, a run on its own list;
\* r3 starts r4, which works on l1: with r1 they cross.  All may come from outside, too.
MCListOf == (r1 :> l1) @@ (r2 :> l2) @@ (r3 :> l2) @@ (r4 :> l1)
MCMayStart == (r1 :> {r2}) @@ (r2 :> {r3}) @@ (r3 :> {r4}) @@ (r4 :> {})

\* A user shares l2, with one item for all runs or with two for three of them.
MCOneUid == (l1 :> {}) @@ (l2 :> {u1})
MCUids == (l1 :> {}) @@ (l2 :> {u1, u2})

MCThreeListOf == (r1 :> l1) @@ (r2 :> l2) @@ (r3 :> l2)
MCThreeMayStart == (r1 :> {r2}) @@ (r2 :> {r3}) @@ (r3 :> {})
=============================================================================
