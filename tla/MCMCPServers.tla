---------------------------- MODULE MCMCPServers ----------------------------
(* An instance of MCPServers for TLC. *)
EXTENDS MCPServers, TLC

CONSTANTS d1, d2, q1, s1, s2, s3, a, b, read, write, auth, key, old, fresh, R

\* Two servers, one of which exposes a tool more.
MCToolsAt == (a :> {read, write}) @@ (b :> {read})

MCSymmetry == Permutations(Dialogs)

Header(k, value, secret) == k :> [value |-> value, secret |-> secret]

\* No header; the placeholder left alone, beside another header, renamed, or no
\* longer secret; a new secret.
MCFormRows ==
  {<<>>, Header(auth, R, TRUE), Header(auth, R, TRUE) @@ Header(key, fresh, FALSE), Header(key, R, TRUE),
   Header(auth, R, FALSE), Header(auth, fresh, TRUE)}

\* Restricted to one tool, with a secret; and open, with a plain header.
MCFirstData ==
  {[url |-> a, headers |-> Header(auth, old, TRUE), tools |-> {read}],
   [url |-> a, headers |-> Header(auth, old, FALSE), tools |-> AllTools]}
=============================================================================
