------------------------- MODULE MCLogfireOwnership -------------------------
(* An instance of LogfireOwnership for TLC. *)
EXTENDS LogfireOwnership, TLC

CONSTANTS e1, e2, e3, t1, t2

\* Two entries that share a token and one with another, which may be edited to
\* share it too, or to have none.
MCOrder == <<e1, e2, e3>>
MCFirstTokens == (e1 :> t1) @@ (e2 :> t2) @@ (e3 :> t2)
=============================================================================
