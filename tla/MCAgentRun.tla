----------------------------- MODULE MCAgentRun -----------------------------
(* Instances of AgentRun for TLC. *)
EXTENDS AgentRun, TLC

CONSTANTS agent, helper, pA, pB, a1, a2, b1, r1, r2

\* Two profiles of provider pA and one of pB; the agent falls back across both
\* providers, its helper within pA only.
MCProviderOf == (a1 :> pA) @@ (a2 :> pA) @@ (b1 :> pB)
MCChainOf == (agent :> <<a1, b1>>) @@ (helper :> <<a2>>)

\* A conversation that streams beside a plain task of the helper, and a structured
\* task beside a plain one of the same agent.
MCMixed == (r1 :> agent) @@ (r2 :> helper)
MCSame == (r1 :> agent) @@ (r2 :> agent)
MCMixedKinds == (r1 :> "conversation") @@ (r2 :> "task")
MCTaskKinds == (r1 :> "structured") @@ (r2 :> "task")
=============================================================================
