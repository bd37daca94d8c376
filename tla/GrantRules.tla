----------------------------- MODULE GrantRules -----------------------------
(***************************************************************************)
(* Grants and the rules about them: the narrowing rules of authority.ts,   *)
(* the liveness of a grant chain in run-policies.ts, and the closures over *)
(* parents that revocation marks (identity.ts, terminator.ts).             *)
(*                                                                         *)
(* A grant is named by its position in database.grants, which is only ever *)
(* appended to.                                                            *)
(*                                                                         *)
(* A definition introduced as a "Slip" is a wrong version of the one after *)
(* it.  Nothing uses it; it stands for the bug a property is there to find.*)
(***************************************************************************)
EXTENDS Naturals, Sequences, Closure

CONSTANTS
  Humans,       \* principals of kind "human" (seeded when the store is created)
  Agents,       \* principals of kind "agent" (one per created Agent)
  Targets,      \* the resource ids and host names a grant can name
  Wildcard,     \* a target that contains "*"
  Scopes,       \* the scopes requests use
  Forever       \* expiresAt = null

Principals == Humans \cup Agents

ASSUME PrincipalsAssumption == Humans \cap Agents = {}
ASSUME RulesAssumption ==
  /\ Wildcard \in Targets
  /\ Scopes \subseteq {"resource:read", "resource:write", "network:egress"}
  /\ Forever \notin Nat

(***************************************************************************)
(* Scopes, targets and lifetimes                                           *)
(***************************************************************************)
Family(scope) == IF scope = "network:egress" THEN "network" ELSE "resource"
Strength(scope) == IF scope = "resource:write" THEN 2 ELSE 1

ScopeIsNarrower(child, parent) ==
  /\ Family(child) = Family(parent)
  /\ Strength(child) <= Strength(parent)

TargetCovers(parent, child) == parent = child \/ parent = Wildcard

\* Slip: a child that never expires fits any parent.
ExpiryWithinIgnoringNull(parent, child) ==
  parent = Forever \/ child = Forever \/ child <= parent

ExpiryWithin(parent, child) ==
  parent # Forever => child # Forever /\ child <= parent

IsNarrowerThan(child, parent) ==
  /\ ScopeIsNarrower(child.scope, parent.scope)
  /\ TargetCovers(parent.target, child.target)
  /\ ExpiryWithin(parent.expiresAt, child.expiresAt)

(***************************************************************************)
(* Grants and chains of grants                                             *)
(***************************************************************************)
NoParent == 0

Expiry == Nat \cup {Forever}

Grant == [holder : Principals, grantedBy : Principals, scope : Scopes,
          target : Targets, expiresAt : Expiry, revoked : BOOLEAN, parent : Nat]

Expired(g, time) == g.expiresAt # Forever /\ g.expiresAt <= time

ParentEdges(gs) ==
  {e \in (DOMAIN gs) \X (DOMAIN gs) : gs[e[1]].parent = e[2]}

ChildEdges(gs) ==
  {e \in (DOMAIN gs) \X (DOMAIN gs) : gs[e[2]].parent = e[1]}

LiveChildEdges(gs) == {e \in ChildEdges(gs) : ~gs[e[2]].revoked}

\* The grant and every grant it was carved from.
Lineage(gs, i) == Reachable(DOMAIN gs, ParentEdges(gs), {i})

\* The parent a grant names exists, is held by its grantor, and covers it.
LinkSound(gs, i) ==
  LET p == gs[i].parent IN
    /\ p \in DOMAIN gs
    /\ gs[p].holder = gs[i].grantedBy
    /\ IsNarrowerThan(gs[i], gs[p])

\* A cycle has no root: the walk's `visiting' set makes it dead.
IsGrantChainLive(gs, i, time) ==
  /\ \A j \in Lineage(gs, i) :
        /\ ~gs[j].revoked
        /\ ~Expired(gs[j], time)
        /\ gs[j].parent # NoParent => LinkSound(gs, j)
  /\ \E j \in Lineage(gs, i) : gs[j].parent = NoParent

\* The first of them in the array: what Array.find returns.
FirstOf(S) == CHOOSE i \in S : \A j \in S : i <= j

RevokeAll(gs, S) ==
  [i \in DOMAIN gs |-> IF i \in S THEN [gs[i] EXCEPT !.revoked = TRUE] ELSE gs[i]]

\* What the agent holds and nobody revoked: the roots of a termination.
HeldUnrevoked(gs, a) == {i \in DOMAIN gs : gs[i].holder = a /\ ~gs[i].revoked}
=============================================================================
