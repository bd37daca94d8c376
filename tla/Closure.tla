------------------------------ MODULE Closure ------------------------------
(***************************************************************************)
(* Reachability as the least closed set.  The server computes closures     *)
(* over parentGrantId links with a work-list loop (identity.ts) and walks  *)
(* them with a recursive function (run-policies.ts); both compute this.    *)
(***************************************************************************)
EXTENDS Naturals

Closed(edges, S) == \A e \in edges : e[1] \in S => e[2] \in S

Reachable(nodes, edges, seeds) ==
  {x \in nodes : \A S \in SUBSET nodes :
                    (seeds \subseteq S /\ Closed(edges, S)) => x \in S}
=============================================================================
