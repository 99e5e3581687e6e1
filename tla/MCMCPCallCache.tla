--------------------------- MODULE MCMCPCallCache ---------------------------
(* Instances of MCPCallCache for TLC. *)
EXTENDS MCPCallCache, TLC

CONSTANTS c1, c2, c3, c4, k1, k2, k3, t1, t2

\* Two equal calls and one of each other key, in a cache with room for two.
MCKeyOf == (c1 :> k1) @@ (c2 :> k1) @@ (c3 :> k2) @@ (c4 :> k3)
MCToolOf == (k1 :> t1) @@ (k2 :> t2) @@ (k3 :> t2)
MCTTL == (k1 :> 1) @@ (k2 :> 2) @@ (k3 :> 2)

\* Equal calls are alike, and so are the two other calls together with their keys.
MCSymmetry ==
  {s @@ t : s \in Permutations({c1, c2}),
            t \in {(c3 :> c3), (c3 :> c4) @@ (c4 :> c3) @@ (k2 :> k3) @@ (k3 :> k2)}}
=============================================================================
