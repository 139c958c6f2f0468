-------------------------- MODULE MCAgentExecution --------------------------
(***************************************************************************)
(* Small instances of AgentExecution for TLC.                              *)
(***************************************************************************)
EXTENDS AgentExecution, TLC

Symmetry == Permutations(Handlers)
=============================================================================
