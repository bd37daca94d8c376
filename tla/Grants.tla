------------------------------- MODULE Grants -------------------------------
(***************************************************************************)
(* Delegated authority: the operations of apps/server/src/identity.ts on   *)
(* grants and the revocation a termination performs (terminator.ts), under *)
(* the rules of GrantRules.                                                *)
(*                                                                         *)
(* The committed store is the state.  Every operation that reads and       *)
(* writes inside one JsonStore.mutate callback is one action.  createGrant *)
(* is two: it reads the clock and computes the expiry when it is called,   *)
(* and decides later, when its mutation reaches the head of the store's    *)
(* queue.  The request waits in `requests' in between.                     *)
(***************************************************************************)
EXTENDS GrantRules

CONSTANTS
  Beneficiaries,\* the principals requests name as holders
  TTLs,         \* lifetimes a request can ask for, in clock units
  MaxGrants,    \* bound: grants in the store
  MaxRequests,  \* bound: createGrant calls waiting for the store at once
  MaxNow        \* bound: the clock

ASSUME InputsAssumption == Beneficiaries \subseteq Principals
ASSUME TimeAssumption ==
  /\ TTLs \subseteq Nat \ {0}
  /\ MaxGrants \in Nat /\ MaxRequests \in Nat /\ MaxNow \in Nat

VARIABLES
  principals,   \* database.principals
  agents,       \* database.agents, by principal
  blocked,      \* the agents whose authorityBlocked is set
  grants,       \* database.grants
  requests,     \* createGrant calls queued behind other store mutations
  now           \* the wall clock

vars == <<principals, agents, blocked, grants, requests, now>>

Request == [holder : Principals, grantedBy : Principals, scope : Scopes,
            target : Targets, expiresAt : Expiry, asked : Nat]

\* Enforcement: an exact match on scope and target, whose chain is live.
ActiveGrants(gs, p, scope, target, time) ==
  {i \in DOMAIN gs : /\ gs[i].holder = p
                     /\ gs[i].scope = scope
                     /\ gs[i].target = target
                     /\ IsGrantChainLive(gs, i, time)}

\* Slip: anyone's live grant covers the request.
CoveringAnyHolder(gs, r) ==
  {i \in DOMAIN gs : IsGrantChainLive(gs, i, r.asked) /\ IsNarrowerThan(r, gs[i])}

\* The live grants the requester holds that cover what it asks for.  `time'
\* is when createGrant was called.
Covering(gs, r) ==
  {i \in DOMAIN gs : /\ gs[i].holder = r.grantedBy
                     /\ IsGrantChainLive(gs, i, r.asked)
                     /\ IsNarrowerThan(r, gs[i])}

(***************************************************************************)
(* Initial state: a store just created by JsonStore.init                   *)
(***************************************************************************)
Init ==
  /\ principals = Humans
  /\ agents = {}
  /\ blocked = {}
  /\ grants = <<>>
  /\ requests = <<>>
  /\ now = 0

(***************************************************************************)
(* IdentityService.createGrant                                             *)
(***************************************************************************)
\* Up to the call of store.mutate: wildcards are refused, the expiry is fixed.
RequestGrant(by, to, scope, target, ttl) ==
  /\ Len(requests) < MaxRequests
  /\ target # Wildcard
  /\ requests' = Append(requests,
        [holder |-> to, grantedBy |-> by, scope |-> scope, target |-> target,
         expiresAt |-> IF ttl = Forever THEN Forever ELSE now + ttl,
         asked |-> now])
  /\ UNCHANGED <<principals, agents, blocked, grants, now>>

\* Slip: authorityBlocked is checked when the request arrives, not here.
AdmissibleWithoutBlock(r) ==
  /\ {r.holder, r.grantedBy} \subseteq principals
  /\ r.grantedBy \in Agents => r.holder \in Agents

\* The checks before the authority rules: known principals, agents delegate to
\* agents only, and a terminated agent receives nothing.
Admissible(r) ==
  /\ r.holder \in principals
  /\ r.grantedBy \in principals
  /\ r.grantedBy \in Agents => r.holder \in Agents
  /\ r.holder \notin blocked

\* authorizeGrantRequest: humans originate authority; an agent passes on, to
\* another principal, no more than a live grant it holds.
Allowed(r) ==
  \/ r.grantedBy \in Humans
  \/ r.holder # r.grantedBy /\ Covering(grants, r) # {}

\* Slip: parentGrantId is not recorded.
IssuedWithoutParent(r) ==
  [holder |-> r.holder, grantedBy |-> r.grantedBy, scope |-> r.scope, target |-> r.target,
   expiresAt |-> r.expiresAt, revoked |-> FALSE, parent |-> NoParent]

Issued(r) ==
  [holder |-> r.holder, grantedBy |-> r.grantedBy, scope |-> r.scope,
   target |-> r.target, expiresAt |-> r.expiresAt, revoked |-> FALSE,
   parent |-> IF r.grantedBy \in Humans
              THEN NoParent ELSE FirstOf(Covering(grants, r))]

\* The mutation callback, at the head of the store's queue.
CommitGrant ==
  /\ requests # <<>>
  /\ Len(grants) < MaxGrants
  /\ LET r == Head(requests) IN
       /\ Admissible(r)
       /\ Allowed(r)
       /\ grants' = Append(grants, Issued(r))
  /\ requests' = Tail(requests)
  /\ UNCHANGED <<principals, agents, blocked, now>>

\* A refusal, or a store write that failed: the caller gets an error and the
\* database is as it was.
RejectGrant ==
  /\ requests # <<>>
  /\ requests' = Tail(requests)
  /\ UNCHANGED <<principals, agents, blocked, grants, now>>

(***************************************************************************)
(* Revocation                                                              *)
(***************************************************************************)
\* Slip: no cascade.
RevokeGrantAlone(i) ==
  /\ grants' = RevokeAll(grants, {i})
  /\ UNCHANGED <<principals, agents, blocked, requests, now>>

\* IdentityService.revokeGrant: the grant and its descendants, found through
\* grants that are not revoked yet.
RevokeGrant(i) ==
  /\ grants' = RevokeAll(grants, Reachable(DOMAIN grants, LiveChildEdges(grants), {i}))
  /\ UNCHANGED <<principals, agents, blocked, requests, now>>

\* Terminator.revokeAndBlock: one mutation closes the authority channel and
\* revokes what the agent holds and everything carved from it.
RevokeAndBlock(a) ==
  /\ a \in agents
  /\ blocked' = blocked \cup {a}
  /\ grants' = RevokeAll(grants, Reachable(DOMAIN grants, ChildEdges(grants),
                                          HeldUnrevoked(grants, a)))
  /\ UNCHANGED <<principals, agents, requests, now>>

(***************************************************************************)
(* Agents come, are restarted by an operator, and go                       *)
(***************************************************************************)
CreateAgent(a) ==
  /\ a \notin principals
  /\ principals' = principals \cup {a}
  /\ agents' = agents \cup {a}
  /\ UNCHANGED <<blocked, grants, requests, now>>

\* startAgent -> setStatus("ready") clears authorityBlocked.
StartAgent(a) ==
  /\ a \in agents
  /\ blocked' = blocked \ {a}
  /\ UNCHANGED <<principals, agents, grants, requests, now>>

\* deleteAgent removes the Agent; its principal and its grants stay.
DeleteAgent(a) ==
  /\ a \in agents
  /\ agents' = agents \ {a}
  /\ blocked' = blocked \ {a}
  /\ UNCHANGED <<principals, grants, requests, now>>

\* The process dies: what waited for the store is lost, the file is not.
Crash ==
  /\ requests # <<>>
  /\ requests' = <<>>
  /\ UNCHANGED <<principals, agents, blocked, grants, now>>

Tick ==
  /\ now < MaxNow
  /\ now' = now + 1
  /\ UNCHANGED <<principals, agents, blocked, grants, requests>>

Next ==
  \/ \E by \in principals, to \in Beneficiaries, scope \in Scopes,
        target \in Targets, ttl \in TTLs \cup {Forever} :
        RequestGrant(by, to, scope, target, ttl)
  \/ CommitGrant
  \/ RejectGrant
  \/ \E i \in DOMAIN grants : RevokeGrant(i)
  \/ \E a \in Agents : RevokeAndBlock(a)
  \/ \E a \in Agents : CreateAgent(a)
  \/ \E a \in Agents : StartAgent(a)
  \/ \E a \in Agents : DeleteAgent(a)
  \/ Crash
  \/ Tick

Spec == Init /\ [][Next]_vars

(***************************************************************************)
(* Properties                                                              *)
(***************************************************************************)
\* The store holds what identity.ts says it holds.
TypeOK ==
  /\ principals \subseteq Principals
  /\ agents \subseteq principals \cap Agents
  /\ blocked \subseteq agents
  /\ grants \in Seq(Grant)
  /\ requests \in Seq(Request)
  /\ now \in Nat

\* Revocation reaches every descendant: no grant outlives the grant it was
\* carved from, although revokeGrant follows unrevoked links only and grants
\* are created between revocations (identity.ts:180-216, terminator.ts:96-131).
RevocationClosed ==
  \A i \in DOMAIN grants :
     /\ grants[i].parent \in DOMAIN grants
     /\ grants[grants[i].parent].revoked
     => grants[i].revoked

\* Delegation flows downhill: a grant an agent issued names an older grant the
\* agent held, covering it in scope, target and lifetime, and goes to another
\* agent; a grant with no parent was issued by a human (authority.ts:93-144).
DelegationNarrows ==
  \A i \in DOMAIN grants :
     IF grants[i].grantedBy \in Humans
     THEN grants[i].parent = NoParent
     ELSE /\ LinkSound(grants, i)
          /\ grants[i].parent < i
          /\ grants[i].holder \in Agents \ {grants[i].grantedBy}

\* An agent whose authority a termination closed holds no unrevoked grant
\* until an operator starts it, whatever was queued at the store meanwhile
\* (identity.ts:104-109 against terminator.ts:103-118).
BlockedHoldsNothing ==
  \A a \in blocked : HeldUnrevoked(grants, a) = {}

\* Whatever enforcement lets an agent do rests on a grant a human issued, not
\* revoked and not expired, for the same target and at least that scope.
AuthorityRestsOnAHuman ==
  \A p \in Principals, scope \in Scopes, target \in Targets :
     ActiveGrants(grants, p, scope, target, now) # {} =>
       \E h \in DOMAIN grants :
          /\ grants[h].grantedBy \in Humans
          /\ ~grants[h].revoked
          /\ ~Expired(grants[h], now)
          /\ ScopeIsNarrower(scope, grants[h].scope)
          /\ grants[h].target = target

\* In a store this code wrote, the chain walk never refuses a grant that is
\* itself unrevoked and unexpired: cascade and narrowing keep chains whole,
\* although createGrant judges lifetimes by the clock it read before it queued.
ChainsNeverDangle ==
  \A i \in DOMAIN grants :
     ~grants[i].revoked /\ ~Expired(grants[i], now) => IsGrantChainLive(grants, i, now)

\* What the delegation rules let an agent pass on for a target, enforcement
\* knows by that very target (identity.ts:60-65, the refusal of wildcards).
PolicyAndEnforcementAgreeOnTargets ==
  \A i \in DOMAIN grants, target \in Targets :
     IsGrantChainLive(grants, i, now) /\ TargetCovers(grants[i].target, target) =>
       ActiveGrants(grants, grants[i].holder, grants[i].scope, target, now) # {}

\* A grant is never rewritten and a revocation never undone, by restarts,
\* deletions or later grants: the only change a step makes to a stored grant is
\* to revoke it.
GrantsOnlyRevoked ==
  [][/\ Len(grants') >= Len(grants)
     /\ \A i \in DOMAIN grants :
           grants'[i] \in {grants[i], [grants[i] EXCEPT !.revoked = TRUE]}]_grants

\* Once terminated and until restarted, an agent gives and receives nothing.
TerminatedNeitherGivesNorReceives ==
  [][\A i \in (DOMAIN grants') \ (DOMAIN grants) :
        {grants'[i].holder, grants'[i].grantedBy} \cap blocked = {}]_grants
=============================================================================
