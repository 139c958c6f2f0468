------------------------- MODULE MCPolicyActivation -------------------------
(* Policy activation, for TLC. *)
EXTENDS PolicyActivation, TLC

Symmetry ==
  Permutations(Requests) \cup Permutations(Versions) \cup Permutations(Rollbacks)
    \cup Permutations(Workspaces) \cup Permutations(Areas)
=============================================================================
