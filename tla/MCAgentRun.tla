----------------------------- MODULE MCAgentRun -----------------------------
(* TLC instance of AgentRun: the callers are alike.                        *)
EXTENDS AgentRun, TLC

CallersAlike == Permutations(Callers)
=============================================================================
