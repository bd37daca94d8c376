------------------------------ MODULE MCGrants ------------------------------
(* Two or three agents, one human, one concrete target; symmetric agents. *)
EXTENDS Grants, TLC

Symmetry == Permutations(Agents)
=============================================================================
