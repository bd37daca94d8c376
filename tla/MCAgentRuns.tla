---------------------------- MODULE MCAgentRuns ----------------------------
(* Runs and approvals are interchangeable. *)
EXTENDS AgentRuns, TLC

Symmetry == Permutations(Runs) \cup Permutations(Approvals)
=============================================================================
