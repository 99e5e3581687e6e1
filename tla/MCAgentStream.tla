---------------------------- MODULE MCAgentStream ----------------------------
(* Instance of AgentStream for TLC: words are numbers, see the cfg for the bounds. *)
EXTENDS AgentStream, TLC

MCBreak == 0
MCSorry == 99
=============================================================================
