-------------------------- MODULE MCAgentAttempt --------------------------
(* Instances of AgentAttempt for TLC. *)
EXTENDS AgentAttempt

\* Requests of the three kinds that are answered differently.
EveryKind == {"approval", "tool", "input"}
===========================================================================
