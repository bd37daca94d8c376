---------------------------- MODULE GrantsProofs ----------------------------
(***************************************************************************)
(* Proofs about Grants, for every set of principals, every lifetime and    *)
(* every bound; about the loops over the array of grants (GrantLoops), for *)
(* arrays of any length and with any links; and about the loading of data  *)
(* files (Migration), for every file that some version may have written.   *)
(***************************************************************************)
EXTENDS Grants, GrantLoops, Migration, SequenceTheorems, FiniteSetTheorems,
        WellFoundedInduction, TLAPS

USE DEF NoParent

-----------------------------------------------------------------------------
(* Reachable is the least closed superset of its seeds.                    *)

\* The loop's result holds what it started from (the `new Set([id])' of
\* identity.ts:189).
THEOREM ReachableContains ==
  ASSUME NEW nodes, NEW edges, NEW seeds, seeds \subseteq nodes
  PROVE  seeds \subseteq Reachable(nodes, edges, seeds)
BY DEF Reachable

\* It is closed under the links: the loop stops only when nothing grew.
THEOREM ReachableClosed ==
  ASSUME NEW nodes, NEW edges, NEW seeds,
         \A e \in edges : e[2] \in nodes
  PROVE  Closed(edges, Reachable(nodes, edges, seeds))
BY DEF Reachable, Closed

\* It is contained in every closed set that holds the seeds.
THEOREM ReachableLeast ==
  ASSUME NEW nodes, NEW edges, NEW seeds, NEW S \in SUBSET nodes,
         seeds \subseteq S, Closed(edges, S)
  PROVE  Reachable(nodes, edges, seeds) \subseteq S
BY DEF Reachable

-----------------------------------------------------------------------------
(* What the operators return.                                              *)

\* Marking grants revoked yields an array of as many grants.
LEMMA RevokeAllType ==
  ASSUME NEW gs \in Seq(Grant), NEW S
  PROVE  /\ RevokeAll(gs, S) \in Seq(Grant)
         /\ DOMAIN RevokeAll(gs, S) = DOMAIN gs
         /\ Len(RevokeAll(gs, S)) = Len(gs)
         /\ \A i \in DOMAIN gs :
               RevokeAll(gs, S)[i] \in {gs[i], [gs[i] EXCEPT !.revoked = TRUE]}
<1> DEFINE rs == RevokeAll(gs, S)
<1>1. DOMAIN gs = 1..Len(gs) /\ Len(gs) \in Nat
  BY LenProperties
<1>2. rs = [i \in 1..Len(gs) |-> IF i \in S THEN [gs[i] EXCEPT !.revoked = TRUE] ELSE gs[i]]
  BY <1>1 DEF RevokeAll
<1>3. \A i \in DOMAIN gs : gs[i] \in Grant
  BY ElementOfSeq, <1>1
<1>4. \A i \in DOMAIN gs :
         /\ rs[i] \in {gs[i], [gs[i] EXCEPT !.revoked = TRUE]}
         /\ rs[i] \in Grant
  <2>1. \A i \in DOMAIN gs : rs[i] \in {gs[i], [gs[i] EXCEPT !.revoked = TRUE]}
    BY <1>1, <1>2
  <2>2. \A g \in Grant : [g EXCEPT !.revoked = TRUE] \in Grant
    BY DEF Grant
  <2>. QED BY <1>3, <2>1, <2>2
<1>5. rs \in [1..Len(gs) -> Grant]
  BY <1>1, <1>2, <1>4
<1>6. rs \in Seq(Grant) /\ Len(rs) = Len(gs) /\ DOMAIN rs = DOMAIN gs
  BY <1>5, <1>1, SeqDef, IsASeq, LenProperties
<1>. QED BY <1>4, <1>6

\* It rewrites the revocation mark of the chosen grants and nothing else.
LEMMA RevokeAllFields ==
  ASSUME NEW gs \in Seq(Grant), NEW S, NEW i \in DOMAIN gs
  PROVE  LET h == RevokeAll(gs, S)[i] IN
           /\ h.holder = gs[i].holder
           /\ h.grantedBy = gs[i].grantedBy
           /\ h.scope = gs[i].scope
           /\ h.target = gs[i].target
           /\ h.expiresAt = gs[i].expiresAt
           /\ h.parent = gs[i].parent
           /\ h.revoked <=> (i \in S \/ gs[i].revoked)
<1>1. gs[i] \in Grant
  BY ElementOfSeq, LenProperties
<1>. QED BY <1>1 DEF RevokeAll, Grant

\* Appending the issued grant leaves the older ones where they are.
LEMMA AppendGrant ==
  ASSUME NEW gs \in Seq(Grant), NEW g \in Grant
  PROVE  /\ Append(gs, g) \in Seq(Grant)
         /\ DOMAIN Append(gs, g) = DOMAIN gs \cup {Len(gs) + 1}
         /\ Len(gs) + 1 \notin DOMAIN gs
         /\ Append(gs, g)[Len(gs) + 1] = g
         /\ \A i \in DOMAIN gs : Append(gs, g)[i] = gs[i] /\ i < Len(gs) + 1
BY AppendProperties, LenProperties

\* A non-empty set of naturals has a least element.
LEMMA LeastNatural ==
  ASSUME NEW S \in SUBSET Nat, S # {}
  PROVE  \E x \in S : \A y \in S : x <= y
<1>1. PICK x \in S : \A y \in S : ~ (<<y, x>> \in OpToRel(<, Nat))
  BY NatLessThanWellFounded, WFMin
<1>2. \A y \in S : ~(y < x)
  BY <1>1 DEF OpToRel
<1>. QED BY <1>2

\* Array.find returns one of the grants that cover the request.
LEMMA FirstOfMember ==
  ASSUME NEW S \in SUBSET Nat, S # {}
  PROVE  FirstOf(S) \in S
BY LeastNatural DEF FirstOf

-----------------------------------------------------------------------------
(* Type correctness.                                                       *)

\* What createGrant stores is a grant, whatever was requested.
LEMMA IssuedType ==
  ASSUME TypeOK, NEW r \in Request, Allowed(r)
  PROVE  Issued(r) \in Grant
<1>1. DOMAIN grants \subseteq Nat
  BY LenProperties DEF TypeOK
<1>2. r.grantedBy \notin Humans => FirstOf(Covering(grants, r)) \in Nat
  <2>1. Covering(grants, r) \subseteq Nat
    BY <1>1 DEF Covering
  <2>. QED BY <2>1, FirstOfMember DEF Allowed
<1>. QED BY <1>2 DEF Issued, Grant, Request, Principals

\* The store keeps its shape under every operation of identity.ts, terminator.ts
\* and agent-service.ts that touches it.
THEOREM TypeCorrect == Spec => []TypeOK
<1>1. Init => TypeOK
  BY EmptySeq DEF Init, TypeOK, Principals
<1>2. TypeOK /\ [Next]_vars => TypeOK'
  <2> SUFFICES ASSUME TypeOK, [Next]_vars PROVE TypeOK'
    OBVIOUS
  <2> USE DEF TypeOK
  <2>1. ASSUME NEW by \in principals, NEW to \in Beneficiaries, NEW scope \in Scopes,
               NEW target \in Targets, NEW ttl \in TTLs \cup {Forever},
               RequestGrant(by, to, scope, target, ttl)
        PROVE  TypeOK'
    <3> DEFINE r == [holder |-> to, grantedBy |-> by, scope |-> scope, target |-> target,
                     expiresAt |-> IF ttl = Forever THEN Forever ELSE now + ttl,
                     asked |-> now]
    <3>1. r \in Request
      BY InputsAssumption, RulesAssumption, TimeAssumption DEF Request, Expiry
    <3>. QED BY <2>1, <3>1, AppendProperties DEF RequestGrant
  <2>2. CASE CommitGrant
    <3>1. Head(requests) \in Request /\ Tail(requests) \in Seq(Request)
      BY <2>2, HeadTailProperties DEF CommitGrant
    <3>2. Issued(Head(requests)) \in Grant
      BY <2>2, <3>1, IssuedType DEF CommitGrant
    <3>. QED BY <2>2, <3>1, <3>2, AppendProperties DEF CommitGrant
  <2>3. CASE RejectGrant
    BY <2>3, HeadTailProperties DEF RejectGrant
  <2>4. ASSUME NEW i \in DOMAIN grants, RevokeGrant(i) PROVE TypeOK'
    BY <2>4, RevokeAllType DEF RevokeGrant
  <2>5. ASSUME NEW a \in Agents, RevokeAndBlock(a) PROVE TypeOK'
    BY <2>5, RevokeAllType DEF RevokeAndBlock
  <2>6. ASSUME NEW a \in Agents, CreateAgent(a) PROVE TypeOK'
    BY <2>6 DEF CreateAgent, Principals
  <2>7. ASSUME NEW a \in Agents, StartAgent(a) PROVE TypeOK'
    BY <2>7 DEF StartAgent
  <2>8. ASSUME NEW a \in Agents, DeleteAgent(a) PROVE TypeOK'
    BY <2>8 DEF DeleteAgent
  <2>9. CASE Crash
    BY <2>9, EmptySeq DEF Crash
  <2>10. CASE Tick
    BY <2>10 DEF Tick
  <2>11. CASE UNCHANGED vars
    BY <2>11 DEF vars
  <2>. QED
    BY <2>1, <2>2, <2>3, <2>4, <2>5, <2>6, <2>7, <2>8, <2>9, <2>10, <2>11 DEF Next
<1>. QED BY <1>1, <1>2, PTL DEF Spec

-----------------------------------------------------------------------------
(* The inductive invariant.  RevocationClosed is preserved by a new grant   *)
(* only because an issued grant names an existing, live parent              *)
(* (DelegationNarrows), and delegation stays on one target only because no  *)
(* wildcard enters the store (NoWildcards).                                 *)

NoWildcards ==
  /\ \A i \in DOMAIN grants : grants[i].target # Wildcard
  /\ \A k \in DOMAIN requests : requests[k].target # Wildcard

IInv ==
  /\ TypeOK
  /\ DelegationNarrows
  /\ RevocationClosed
  /\ BlockedHoldsNothing
  /\ NoWildcards

\* A grant lies in its own lineage, and the lineage follows every parent.
LEMMA LineageProperties ==
  ASSUME NEW gs, NEW i \in DOMAIN gs
  PROVE  /\ i \in Lineage(gs, i)
         /\ Lineage(gs, i) \subseteq DOMAIN gs
         /\ \A j \in Lineage(gs, i) :
               gs[j].parent \in DOMAIN gs => gs[j].parent \in Lineage(gs, i)
<1>1. i \in Lineage(gs, i)
  BY ReachableContains DEF Lineage
<1>2. Lineage(gs, i) \subseteq DOMAIN gs
  BY DEF Lineage, Reachable
<1>3. \A e \in ParentEdges(gs) : e[2] \in DOMAIN gs
  BY DEF ParentEdges
<1>4. Closed(ParentEdges(gs), Lineage(gs, i))
  BY <1>3, ReachableClosed DEF Lineage
<1>5. ASSUME NEW j \in Lineage(gs, i), gs[j].parent \in DOMAIN gs
      PROVE  gs[j].parent \in Lineage(gs, i)
  <2>1. <<j, gs[j].parent>> \in ParentEdges(gs)
    BY <1>2, <1>5 DEF ParentEdges
  <2>. QED BY <2>1, <1>4, <1>5 DEF Closed
<1>. QED BY <1>1, <1>2, <1>5

\* An agent's request is carved from an unrevoked grant the agent holds.
LEMMA IssuedParent ==
  ASSUME TypeOK, NEW r \in Request, Allowed(r), r.grantedBy \notin Humans
  PROVE  LET p == Issued(r).parent IN
           /\ p \in DOMAIN grants
           /\ grants[p].holder = r.grantedBy
           /\ ~grants[p].revoked
           /\ IsNarrowerThan(r, grants[p])
           /\ r.holder # r.grantedBy
<1> DEFINE p == FirstOf(Covering(grants, r))
<1>1. Covering(grants, r) \subseteq Nat
  BY LenProperties DEF TypeOK, Covering
<1>2. p \in Covering(grants, r)
  BY <1>1, FirstOfMember DEF Allowed
<1>3. /\ p \in DOMAIN grants
      /\ grants[p].holder = r.grantedBy
      /\ IsGrantChainLive(grants, p, r.asked)
      /\ IsNarrowerThan(r, grants[p])
  BY <1>2 DEF Covering
<1>4. ~grants[p].revoked
  BY <1>3, LineageProperties DEF IsGrantChainLive
<1>5. Issued(r).parent = p
  BY DEF Issued
<1>. QED BY <1>3, <1>4, <1>5 DEF Allowed

\* What the head of the queue may become, for every conjunct to use.
LEMMA CommitFacts ==
  ASSUME IInv, CommitGrant
  PROVE  LET r == Head(requests)
             n == Len(grants) + 1
         IN  /\ r \in Request
             /\ r.target # Wildcard
             /\ Issued(r) \in Grant
             /\ Admissible(r) /\ Allowed(r)
             /\ DOMAIN grants' = DOMAIN grants \cup {n}
             /\ n \notin DOMAIN grants
             /\ n \in Nat /\ n # 0
             /\ grants'[n] = Issued(r)
             /\ \A i \in DOMAIN grants : grants'[i] = grants[i] /\ i < n
             /\ requests' = Tail(requests)
             /\ blocked' = blocked
<1> DEFINE r == Head(requests)
<1>1. requests \in Seq(Request) /\ requests # <<>>
  BY DEF IInv, TypeOK, CommitGrant
<1>2. r \in Request /\ r = requests[1] /\ 1 \in DOMAIN requests
  BY <1>1, HeadTailProperties, LenProperties, EmptySeq
<1>3. r.target # Wildcard
  BY <1>2 DEF IInv, NoWildcards
<1>4. Admissible(r) /\ Allowed(r) /\ grants' = Append(grants, Issued(r))
  BY DEF CommitGrant
<1>5. Issued(r) \in Grant
  BY <1>2, <1>4, IssuedType DEF IInv
<1>6. Len(grants) \in Nat
  BY LenProperties DEF IInv, TypeOK
<1>. QED
  BY <1>2, <1>3, <1>4, <1>5, <1>6, AppendGrant DEF IInv, TypeOK, CommitGrant

\* Revoking any set of grants keeps every link and target as it was.
LEMMA RevokeKeepsLinks ==
  ASSUME IInv, NEW S, grants' = RevokeAll(grants, S)
  PROVE  DelegationNarrows' /\ (\A i \in DOMAIN grants' : grants'[i].target # Wildcard)
<1>0. grants \in Seq(Grant)
  BY DEF IInv, TypeOK
<1>1. DOMAIN grants' = DOMAIN grants
  BY <1>0, RevokeAllType
<1>2. \A i \in DOMAIN grants :
         /\ grants'[i].holder = grants[i].holder
         /\ grants'[i].grantedBy = grants[i].grantedBy
         /\ grants'[i].scope = grants[i].scope
         /\ grants'[i].target = grants[i].target
         /\ grants'[i].expiresAt = grants[i].expiresAt
         /\ grants'[i].parent = grants[i].parent
  BY <1>0, RevokeAllFields
<1>3. \A i \in DOMAIN grants : LinkSound(grants, i) => LinkSound(grants', i)
  BY <1>1, <1>2 DEF LinkSound, IsNarrowerThan
<1>. QED BY <1>1, <1>2, <1>3 DEF IInv, DelegationNarrows, NoWildcards

\* Revoking a set that holds the unrevoked children of its members leaves no
\* unrevoked child under a revoked parent.
LEMMA RevokeKeepsClosure ==
  ASSUME IInv, NEW S, grants' = RevokeAll(grants, S), Closed(LiveChildEdges(grants), S)
  PROVE  RevocationClosed'
<1>0. grants \in Seq(Grant)
  BY DEF IInv, TypeOK
<1>1. DOMAIN grants' = DOMAIN grants
  BY <1>0, RevokeAllType
<1>2. \A i \in DOMAIN grants :
         /\ grants'[i].parent = grants[i].parent
         /\ grants'[i].revoked <=> (i \in S \/ grants[i].revoked)
  BY <1>0, RevokeAllFields
<1>3. SUFFICES ASSUME NEW i \in DOMAIN grants, grants[i].parent \in DOMAIN grants,
                      grants'[grants[i].parent].revoked
               PROVE  i \in S \/ grants[i].revoked
  BY <1>1, <1>2 DEF RevocationClosed
<1>4. CASE grants[grants[i].parent].revoked
  BY <1>3, <1>4 DEF IInv, RevocationClosed
<1>5. CASE grants[i].parent \in S
  <2>1. SUFFICES ASSUME ~grants[i].revoked PROVE i \in S
    OBVIOUS
  <2>2. <<grants[i].parent, i>> \in LiveChildEdges(grants)
    BY <1>3, <2>1 DEF LiveChildEdges, ChildEdges
  <2>. QED BY <1>5, <2>2 DEF Closed
<1>. QED BY <1>2, <1>3, <1>4, <1>5

\* What revocation, delegation and termination keep together; each conjunct needs
\* others (identity.ts:52-223, authority.ts:93-144, terminator.ts:96-152).
THEOREM Inductive == Spec => []IInv
<1>1. Init => IInv
  <2> SUFFICES ASSUME Init PROVE IInv
    OBVIOUS
  <2>1. TypeOK
    BY EmptySeq DEF Init, TypeOK, Principals
  <2>2. DOMAIN grants = {} /\ DOMAIN requests = {} /\ blocked = {}
    BY EmptySeq DEF Init
  <2>. QED
    BY <2>1, <2>2 DEF IInv, DelegationNarrows, RevocationClosed, BlockedHoldsNothing,
                      NoWildcards
<1>2. IInv /\ TypeOK' /\ [Next]_vars => IInv'
  <2> SUFFICES ASSUME IInv, TypeOK', [Next]_vars PROVE IInv'
    OBVIOUS
  <2>1. ASSUME NEW by \in principals, NEW to \in Beneficiaries, NEW scope \in Scopes,
               NEW target \in Targets, NEW ttl \in TTLs \cup {Forever},
               RequestGrant(by, to, scope, target, ttl)
        PROVE  IInv'
    <3>1. NoWildcards'
      <4> DEFINE r == [holder |-> to, grantedBy |-> by, scope |-> scope, target |-> target,
                       expiresAt |-> IF ttl = Forever THEN Forever ELSE now + ttl,
                       asked |-> now]
      <4>1. requests' = Append(requests, r) /\ r.target # Wildcard /\ grants' = grants
        BY <2>1 DEF RequestGrant
      <4>2. requests \in Seq(Request) /\ requests' \in Seq(Request)
        BY DEF IInv, TypeOK
      <4>3. r \in Request
        BY <2>1, InputsAssumption, RulesAssumption, TimeAssumption DEF Request, Expiry, IInv, TypeOK
      <4>4. \A k \in DOMAIN requests' :
               requests'[k] = IF k \in DOMAIN requests THEN requests[k] ELSE r
        BY <4>1, <4>2, <4>3, AppendProperties, LenProperties
      <4>5. \A k \in DOMAIN requests' : requests'[k].target # Wildcard
        BY <4>1, <4>4 DEF IInv, NoWildcards
      <4>. QED BY <4>1, <4>5 DEF IInv, NoWildcards
    <3>. QED
      BY <2>1, <3>1 DEF RequestGrant, IInv, DelegationNarrows, LinkSound, RevocationClosed,
                        BlockedHoldsNothing, HeldUnrevoked
  <2>2. CASE CommitGrant
    <3> DEFINE r == Head(requests)
               n == Len(grants) + 1
    <3>1. /\ r \in Request
          /\ r.target # Wildcard
          /\ Issued(r) \in Grant
          /\ Admissible(r) /\ Allowed(r)
          /\ DOMAIN grants' = DOMAIN grants \cup {n}
          /\ n \notin DOMAIN grants
          /\ n \in Nat /\ n # 0
          /\ grants'[n] = Issued(r)
          /\ \A i \in DOMAIN grants : grants'[i] = grants[i] /\ i < n
          /\ requests' = Tail(requests)
          /\ blocked' = blocked
      BY <2>2, CommitFacts
    <3>2. /\ Issued(r).holder = r.holder /\ Issued(r).grantedBy = r.grantedBy
          /\ Issued(r).scope = r.scope /\ Issued(r).target = r.target
          /\ Issued(r).expiresAt = r.expiresAt /\ Issued(r).revoked = FALSE
          /\ r.grantedBy \in Humans => Issued(r).parent = NoParent
      BY DEF Issued
    <3>3. r.grantedBy \notin Humans =>
             /\ Issued(r).parent \in DOMAIN grants
             /\ grants[Issued(r).parent].holder = r.grantedBy
             /\ ~grants[Issued(r).parent].revoked
             /\ IsNarrowerThan(r, grants[Issued(r).parent])
             /\ r.holder # r.grantedBy
      BY <3>1, IssuedParent DEF IInv
    <3>4. \A i \in DOMAIN grants : grants[i].parent \in DOMAIN grants \/ grants[i].parent = 0
      BY DEF IInv, DelegationNarrows, LinkSound
    <3>5. \A i \in DOMAIN grants : LinkSound(grants, i) => LinkSound(grants', i)
      BY <3>1 DEF LinkSound
    <3>6. r.grantedBy \notin Humans => LinkSound(grants', n)
      BY <3>1, <3>2, <3>3 DEF LinkSound, IsNarrowerThan
    <3>7. DelegationNarrows'
      <4>1. r.grantedBy \notin Humans => r.grantedBy \in Agents /\ r.holder \in Agents
        BY <3>1 DEF Request, Principals, Admissible
      <4>2. ASSUME NEW i \in DOMAIN grants
            PROVE  IF grants'[i].grantedBy \in Humans THEN grants'[i].parent = NoParent
                   ELSE /\ LinkSound(grants', i)
                        /\ grants'[i].parent < i
                        /\ grants'[i].holder \in Agents \ {grants'[i].grantedBy}
        BY <3>1, <3>5, <4>2 DEF IInv, DelegationNarrows
      <4>3. IF grants'[n].grantedBy \in Humans THEN grants'[n].parent = NoParent
            ELSE /\ LinkSound(grants', n)
                 /\ grants'[n].parent < n
                 /\ grants'[n].holder \in Agents \ {grants'[n].grantedBy}
        BY <3>1, <3>2, <3>3, <3>6, <4>1
      <4>. QED BY <3>1, <4>2, <4>3 DEF DelegationNarrows
    <3>8. RevocationClosed'
      <4>1. ASSUME NEW i \in DOMAIN grants, grants'[i].parent \in DOMAIN grants',
                   grants'[grants'[i].parent].revoked
            PROVE  grants'[i].revoked
        BY <3>1, <3>4, <4>1 DEF IInv, RevocationClosed
      <4>2. ASSUME grants'[n].parent \in DOMAIN grants', grants'[grants'[n].parent].revoked
            PROVE  FALSE
        <5>1. DOMAIN grants = 1..Len(grants) /\ Len(grants) \in Nat
          BY LenProperties DEF IInv, TypeOK
        <5>. QED BY <3>1, <3>2, <3>3, <4>2, <5>1
      <4>. QED BY <3>1, <4>1, <4>2 DEF RevocationClosed
    <3>9. BlockedHoldsNothing'
      BY <3>1, <3>2 DEF IInv, BlockedHoldsNothing, HeldUnrevoked, Admissible
    <3>10. NoWildcards'
      <4>1. requests \in Seq(Request) /\ requests # <<>>
        BY <2>2 DEF IInv, TypeOK, CommitGrant
      <4>2. \A k \in DOMAIN requests' : \E m \in DOMAIN requests : requests'[k] = requests[m]
        BY <3>1, <4>1, HeadTailProperties, LenProperties
      <4>. QED BY <3>1, <3>2, <4>2 DEF IInv, NoWildcards
    <3>. QED BY <3>7, <3>8, <3>9, <3>10 DEF IInv
  <2>3. CASE RejectGrant
    <3>1. \A k \in DOMAIN requests' : \E m \in DOMAIN requests : requests'[k] = requests[m]
      BY <2>3, HeadTailProperties, LenProperties DEF RejectGrant, IInv, TypeOK
    <3>. QED
      BY <2>3, <3>1 DEF RejectGrant, IInv, DelegationNarrows, LinkSound, RevocationClosed,
                        BlockedHoldsNothing, HeldUnrevoked, NoWildcards
  <2>4. ASSUME NEW i \in DOMAIN grants, RevokeGrant(i) PROVE IInv'
    <3> DEFINE S == Reachable(DOMAIN grants, LiveChildEdges(grants), {i})
    <3>1. grants' = RevokeAll(grants, S) /\ blocked' = blocked /\ requests' = requests
      BY <2>4 DEF RevokeGrant
    <3>2. Closed(LiveChildEdges(grants), S)
      BY ReachableClosed DEF LiveChildEdges, ChildEdges
    <3>3. BlockedHoldsNothing'
      <4>1. grants \in Seq(Grant)
        BY DEF IInv, TypeOK
      <4>2. \A a \in Agents : HeldUnrevoked(grants, a)' \subseteq HeldUnrevoked(grants, a)
        BY <3>1, <4>1, RevokeAllType, RevokeAllFields DEF HeldUnrevoked
      <4>. QED BY <3>1, <4>2 DEF IInv, BlockedHoldsNothing, TypeOK
    <3>. QED
      BY <3>1, <3>2, <3>3, RevokeKeepsLinks, RevokeKeepsClosure DEF IInv, NoWildcards
  <2>5. ASSUME NEW a \in Agents, RevokeAndBlock(a) PROVE IInv'
    <3> DEFINE S == Reachable(DOMAIN grants, ChildEdges(grants), HeldUnrevoked(grants, a))
    <3>1. grants' = RevokeAll(grants, S) /\ blocked' = blocked \cup {a} /\ requests' = requests
      BY <2>5 DEF RevokeAndBlock
    <3>2. Closed(LiveChildEdges(grants), S)
      <4>1. Closed(ChildEdges(grants), S)
        BY ReachableClosed DEF ChildEdges
      <4>. QED BY <4>1 DEF Closed, LiveChildEdges
    <3>3. BlockedHoldsNothing'
      <4>1. grants \in Seq(Grant)
        BY DEF IInv, TypeOK
      <4>2. \A b \in Agents : HeldUnrevoked(grants, b)' \subseteq HeldUnrevoked(grants, b)
        BY <3>1, <4>1, RevokeAllType, RevokeAllFields DEF HeldUnrevoked
      <4>3. HeldUnrevoked(grants, a) \subseteq S
        BY ReachableContains DEF HeldUnrevoked
      <4>4. HeldUnrevoked(grants, a)' = {}
        BY <3>1, <4>1, <4>3, RevokeAllType, RevokeAllFields DEF HeldUnrevoked
      <4>. QED BY <3>1, <4>2, <4>4 DEF IInv, BlockedHoldsNothing, TypeOK
    <3>. QED
      BY <3>1, <3>2, <3>3, RevokeKeepsLinks, RevokeKeepsClosure DEF IInv, NoWildcards
  <2>6. ASSUME UNCHANGED grants, blocked' \subseteq blocked,
               requests' \in {requests, <<>>}
        PROVE  IInv'
    <3>1. \A k \in DOMAIN requests' : requests'[k].target # Wildcard
      BY <2>6, EmptySeq DEF IInv, NoWildcards
    <3>. QED
      BY <2>6, <3>1 DEF IInv, DelegationNarrows, LinkSound, RevocationClosed,
                        BlockedHoldsNothing, HeldUnrevoked, NoWildcards
  <2>. QED
    BY <2>1, <2>2, <2>3, <2>4, <2>5, <2>6
       DEF Next, vars, CreateAgent, StartAgent, DeleteAgent, Crash, Tick
<1>. QED BY <1>1, <1>2, TypeCorrect, PTL DEF Spec

-----------------------------------------------------------------------------
(* The safety properties.                                                  *)

\* No grant outlives the grant it was carved from (identity.ts:180-216).
THEOREM RevocationReachesDescendants == Spec => []RevocationClosed
BY Inductive, PTL DEF IInv

\* Authority only flows downhill, from grants the grantor held
\* (authority.ts:93-144).
THEOREM DelegationOnlyNarrows == Spec => []DelegationNarrows
BY Inductive, PTL DEF IInv

\* A terminated agent holds no unrevoked grant until it is started again
\* (terminator.ts:103-118, identity.ts:104-109).
THEOREM TerminationClosesAuthority == Spec => []BlockedHoldsNothing
BY Inductive, PTL DEF IInv

\* A chain has a root: parents are older than the grants carved from them.
LEMMA LineageHasRoot ==
  ASSUME IInv, NEW i \in DOMAIN grants
  PROVE  \E j \in Lineage(grants, i) : grants[j].parent = NoParent
<1>1. /\ i \in Lineage(grants, i)
      /\ Lineage(grants, i) \subseteq DOMAIN grants
      /\ \A j \in Lineage(grants, i) :
            grants[j].parent \in DOMAIN grants => grants[j].parent \in Lineage(grants, i)
  BY LineageProperties
<1>2. DOMAIN grants \subseteq Nat
  BY LenProperties DEF IInv, TypeOK
<1>3. PICK x \in Lineage(grants, i) : \A y \in Lineage(grants, i) : x <= y
  BY <1>1, <1>2, LeastNatural
<1>4. \A j \in DOMAIN grants :
         grants[j].parent # NoParent => grants[j].parent \in DOMAIN grants /\ grants[j].parent < j
  BY DEF IInv, DelegationNarrows, LinkSound
<1>5. grants[x].parent = NoParent
  BY <1>1, <1>2, <1>3, <1>4
<1>. QED BY <1>5

\* A parent expires no earlier than its child.
LEMMA ExpiryInherited ==
  ASSUME IInv, NEW i \in DOMAIN grants, LinkSound(grants, i), ~Expired(grants[i], now)
  PROVE  ~Expired(grants[grants[i].parent], now)
<1>1. /\ grants[i] \in Grant /\ grants[grants[i].parent] \in Grant
      /\ now \in Nat
      /\ ExpiryWithin(grants[grants[i].parent].expiresAt, grants[i].expiresAt)
  BY ElementOfSeq, LenProperties DEF IInv, TypeOK, LinkSound, IsNarrowerThan
<1>. QED BY <1>1, RulesAssumption DEF ExpiryWithin, Expired, Grant, Expiry

\* The chain walk of run-policies.ts:241-267 never refuses a grant that is
\* itself unrevoked and unexpired.
LEMMA WholeChains == IInv => ChainsNeverDangle
<1> SUFFICES ASSUME IInv, NEW i \in DOMAIN grants,
                    ~grants[i].revoked, ~Expired(grants[i], now)
             PROVE  IsGrantChainLive(grants, i, now)
  BY DEF ChainsNeverDangle
<1> DEFINE S == {j \in DOMAIN grants : ~grants[j].revoked /\ ~Expired(grants[j], now)}
<1>1. \A j \in DOMAIN grants : grants[j].parent # NoParent => LinkSound(grants, j)
  BY DEF IInv, DelegationNarrows
<1>2. Closed(ParentEdges(grants), S)
  <2> SUFFICES ASSUME NEW j \in S, NEW p \in DOMAIN grants, grants[j].parent = p
               PROVE  p \in S
    BY DEF Closed, ParentEdges
  <2>1. p # NoParent
    BY LenProperties DEF IInv, TypeOK
  <2>2. ~grants[p].revoked
    BY DEF IInv, RevocationClosed
  <2>3. ~Expired(grants[p], now)
    BY <1>1, <2>1, ExpiryInherited
  <2>. QED BY <2>2, <2>3
<1>3. Lineage(grants, i) \subseteq S
  BY <1>2, ReachableLeast DEF Lineage
<1>. QED BY <1>1, <1>3, LineageHasRoot DEF IsGrantChainLive

\* Enforcement's chain walk refuses no grant that is itself unrevoked and
\* unexpired (run-policies.ts:241-267).
THEOREM ChainsStayWhole == Spec => []ChainsNeverDangle
BY Inductive, WholeChains, PTL

\* Whatever enforcement allows rests on a grant that a human issued and that is
\* neither revoked nor expired.
LEMMA HumanRoot == IInv => AuthorityRestsOnAHuman
<1> SUFFICES ASSUME IInv, NEW p \in Principals, NEW scope \in Scopes, NEW target \in Targets,
                    NEW i \in ActiveGrants(grants, p, scope, target, now)
             PROVE  \E h \in DOMAIN grants :
                       /\ grants[h].grantedBy \in Humans
                       /\ ~grants[h].revoked
                       /\ ~Expired(grants[h], now)
                       /\ ScopeIsNarrower(scope, grants[h].scope)
                       /\ grants[h].target = target
  BY DEF AuthorityRestsOnAHuman
<1> DEFINE S == {j \in DOMAIN grants : /\ ScopeIsNarrower(scope, grants[j].scope)
                                       /\ grants[j].target = target}
<1>1. i \in DOMAIN grants /\ i \in S /\ IsGrantChainLive(grants, i, now)
  BY DEF ActiveGrants, ScopeIsNarrower, Family, Strength
<1>2. Closed(ParentEdges(grants), S)
  <2> SUFFICES ASSUME NEW j \in S, NEW q \in DOMAIN grants, grants[j].parent = q
               PROVE  q \in S
    BY DEF Closed, ParentEdges
  <2>1. q # NoParent
    BY LenProperties DEF IInv, TypeOK
  <2>2. LinkSound(grants, j)
    BY <2>1 DEF IInv, DelegationNarrows
  <2>3. grants[q].target = target
    BY <2>2 DEF LinkSound, IsNarrowerThan, TargetCovers, IInv, NoWildcards
  <2>4. ScopeIsNarrower(scope, grants[q].scope)
    BY <2>2 DEF LinkSound, IsNarrowerThan, ScopeIsNarrower, Strength
  <2>. QED BY <2>3, <2>4
<1>3. Lineage(grants, i) \subseteq S
  BY <1>1, <1>2, ReachableLeast DEF Lineage
<1>4. PICK h \in Lineage(grants, i) : grants[h].parent = NoParent
  BY <1>1 DEF IsGrantChainLive
<1>5. h \in S /\ ~grants[h].revoked /\ ~Expired(grants[h], now)
  BY <1>1, <1>3 DEF IsGrantChainLive
<1>6. grants[h].grantedBy \in Humans
  <2>1. NoParent \notin DOMAIN grants
    BY LenProperties DEF IInv, TypeOK
  <2>. QED BY <1>4, <1>5, <2>1 DEF IInv, DelegationNarrows, LinkSound
<1>. QED BY <1>5, <1>6

\* Whatever enforcement allows rests on a live grant of a human
\* (run-policies.ts:269-336, authority.ts:93-144).
THEOREM AuthorityComesFromHumans == Spec => []AuthorityRestsOnAHuman
BY Inductive, HumanRoot, PTL

\* No wildcard enters the store, so what may be delegated for a target is what
\* enforcement honours for it (identity.ts:60-68).
THEOREM PolicyMeetsEnforcement == Spec => []PolicyAndEnforcementAgreeOnTargets
<1>1. IInv => PolicyAndEnforcementAgreeOnTargets
  BY DEF IInv, NoWildcards, PolicyAndEnforcementAgreeOnTargets, TargetCovers, ActiveGrants
<1>. QED BY <1>1, Inductive, PTL

-----------------------------------------------------------------------------
(* The action properties.                                                  *)

\* No step takes a grant out of the store, rewrites one or undoes a revocation.
THEOREM GrantsAreOnlyRevoked == Spec => GrantsOnlyRevoked
<1> DEFINE A == /\ Len(grants') >= Len(grants)
                /\ \A i \in DOMAIN grants :
                      grants'[i] \in {grants[i], [grants[i] EXCEPT !.revoked = TRUE]}
<1>1. IInv /\ [Next]_vars => [A]_grants
  <2> SUFFICES ASSUME IInv, Next, grants' # grants PROVE A
    BY DEF vars
  <2>1. grants \in Seq(Grant) /\ Len(grants) \in Nat
    BY LenProperties DEF IInv, TypeOK
  <2>2. CASE CommitGrant
    <3>1. Issued(Head(requests)) \in Grant
      BY <2>2, CommitFacts
    <3>. QED BY <2>1, <2>2, <3>1, AppendProperties DEF CommitGrant
  <2>3. ASSUME NEW S, grants' = RevokeAll(grants, S) PROVE A
    <3>1. Len(grants') = Len(grants)
      BY <2>1, <2>3, RevokeAllType
    <3>2. \A i \in DOMAIN grants :
             grants'[i] \in {grants[i], [grants[i] EXCEPT !.revoked = TRUE]}
      BY <2>3, Zenon DEF RevokeAll
    <3>. QED BY <2>1, <3>1, <3>2
  <2>. QED
    BY <2>2, <2>3
       DEF Next, RequestGrant, RejectGrant, RevokeGrant, RevokeAndBlock, CreateAgent,
           StartAgent, DeleteAgent, Crash, Tick
<1>. QED BY <1>1, Inductive, PTL DEF Spec, GrantsOnlyRevoked

\* While its authority is closed, an agent neither receives nor hands on a grant.
THEOREM TerminatedIsCutOff == Spec => TerminatedNeitherGivesNorReceives
<1> DEFINE A == \A i \in (DOMAIN grants') \ (DOMAIN grants) :
                   {grants'[i].holder, grants'[i].grantedBy} \cap blocked = {}
<1>1. IInv /\ [Next]_vars => [A]_grants
  <2> SUFFICES ASSUME IInv, Next, grants' # grants PROVE A
    BY DEF vars
  <2>1. grants \in Seq(Grant)
    BY DEF IInv, TypeOK
  <2>2. CASE CommitGrant
    <3> DEFINE r == Head(requests)
               n == Len(grants) + 1
    <3>1. /\ r \in Request /\ Admissible(r) /\ Allowed(r)
          /\ DOMAIN grants' = DOMAIN grants \cup {n}
          /\ grants'[n] = Issued(r)
      BY <2>2, CommitFacts
    <3>2. r.holder \notin blocked
      BY <3>1 DEF Admissible
    <3>3. r.grantedBy \notin blocked
      <4>1. CASE r.grantedBy \in Humans
        BY <4>1, PrincipalsAssumption DEF IInv, TypeOK
      <4>2. CASE r.grantedBy \notin Humans
        BY <3>1, <4>2, IssuedParent DEF IInv, BlockedHoldsNothing, HeldUnrevoked
      <4>. QED BY <4>1, <4>2
    <3>. QED BY <3>1, <3>2, <3>3 DEF Issued
  <2>3. ASSUME DOMAIN grants' = DOMAIN grants PROVE A
    BY <2>3
  <2>. QED
    BY <2>1, <2>2, <2>3, RevokeAllType
       DEF Next, RequestGrant, RejectGrant, RevokeGrant, RevokeAndBlock, CreateAgent,
           StartAgent, DeleteAgent, Crash, Tick
<1>. QED BY <1>1, Inductive, PTL DEF Spec, TerminatedNeitherGivesNorReceives

-----------------------------------------------------------------------------
(* The loops over database.grants, for an array of any length with any     *)
(* links.                                                                  *)

\* What is reached from two sets of seeds is what is reached from either.
LEMMA ReachableUnion ==
  ASSUME NEW nodes, NEW edges, NEW A \in SUBSET nodes, NEW B \in SUBSET nodes,
         \A e \in edges : e[2] \in nodes
  PROVE  Reachable(nodes, edges, A \cup B) =
           Reachable(nodes, edges, A) \cup Reachable(nodes, edges, B)
<1> DEFINE U == Reachable(nodes, edges, A) \cup Reachable(nodes, edges, B)
<1>1. U \subseteq nodes
  BY DEF Reachable
<1>2. A \cup B \subseteq U
  BY ReachableContains
<1>3. Closed(edges, Reachable(nodes, edges, A)) /\ Closed(edges, Reachable(nodes, edges, B))
  BY ReachableClosed
<1>4. Closed(edges, U)
  BY <1>3 DEF Closed
<1>5. Reachable(nodes, edges, A \cup B) \subseteq U
  BY <1>1, <1>2, <1>4, ReachableLeast
<1>6. ASSUME NEW C \in SUBSET (A \cup B)
      PROVE  Reachable(nodes, edges, C) \subseteq Reachable(nodes, edges, A \cup B)
  BY <1>6 DEF Reachable
<1>. QED BY <1>5, <1>6

\* Nothing is reached from nothing.
LEMMA ReachableFromNothing ==
  ASSUME NEW nodes, NEW edges
  PROVE  Reachable(nodes, edges, {}) = {}
<1>1. Closed(edges, {})
  BY DEF Closed
<1>. QED BY <1>1 DEF Reachable

\* Marking twice is marking both sets; marking nothing changes nothing.
LEMMA RevokeTwice ==
  ASSUME NEW gs \in Seq(Grant), NEW S, NEW T
  PROVE  /\ RevokeAll(RevokeAll(gs, S), T) = RevokeAll(gs, S \cup T)
         /\ RevokeAll(gs, {}) = gs
<1>1. gs = [i \in DOMAIN gs |-> gs[i]] /\ \A i \in DOMAIN gs : gs[i] \in Grant
  BY ElementOfSeq, LenProperties, IsASeq
<1>2. DOMAIN RevokeAll(gs, S) = DOMAIN gs
  BY DEF RevokeAll
<1>3. \A i \in DOMAIN gs :
         RevokeAll(RevokeAll(gs, S), T)[i] = RevokeAll(gs, S \cup T)[i]
  BY <1>1, <1>2 DEF RevokeAll, Grant
<1>4. RevokeAll(RevokeAll(gs, S), T) = RevokeAll(gs, S \cup T)
  BY <1>2, <1>3 DEF RevokeAll
<1>5. RevokeAll(gs, {}) = gs
  BY <1>1 DEF RevokeAll
<1>. QED BY <1>4, <1>5

\* The links that the `for' loop follows; only revokeGrant stops at revoked grants.
Followed == IF call = "revokeGrant" THEN LiveChildEdges(found) ELSE ChildEdges(found)

\* The roots whose cascade is complete.
Settled ==
  HeldUnrevoked(found, argument) \ (roots \cup IF doing = "cascade" THEN {root} ELSE {})

LoopTypeOK ==
  /\ array \in Seq(Grant) /\ found \in Seq(Grant)
  /\ doing \in {"idle", "cascade", "next", "walk", "done"}
  /\ doing # "idle" => call \in {"revokeGrant", "revokeAndBlock", "isGrantChainLive"}
  /\ doing # "idle" => DOMAIN array = DOMAIN found /\ Len(array) = Len(found)
  /\ grew \in BOOLEAN
  /\ doing # "cascade" => grew = FALSE
  /\ rounds \in Nat /\ rounds <= Len(array)
  /\ doing = "idle" => rounds = 0

\* A cascade reaches descendants only, and in a pass that found nothing yet,
\* every link to a grant before the candidate has been followed.  Every pass
\* but the last finds a grant.
Cascading ==
  doing = "cascade" =>
    /\ call \in {"revokeGrant", "revokeAndBlock"}
    /\ root \in reached
    /\ reached \subseteq Reachable(DOMAIN found, Followed, {root})
    /\ root \in DOMAIN found
    /\ cursor \in 1..(Len(found) + 1)
    /\ grew = FALSE =>
         \A e \in Followed : e[1] \in reached /\ e[2] < cursor => e[2] \in reached
    /\ rounds + 1 <= Cardinality(reached)
    /\ grew = TRUE => rounds + 2 <= Cardinality(reached)

Revoking ==
  doing = "cascade" /\ call = "revokeGrant" => array = found /\ root = argument

\* A termination has revoked what its completed cascades reach.
Terminating ==
  doing \in {"cascade", "next"} /\ call = "revokeAndBlock" =>
    /\ roots \subseteq HeldUnrevoked(found, argument)
    /\ doing = "cascade" => root \in HeldUnrevoked(found, argument) \ roots
    /\ array = RevokeAll(found, Reachable(DOMAIN found, ChildEdges(found), Settled))

\* A walk has seen nothing but live grants of the lineage, each below the next.
Walking ==
  doing = "walk" =>
    /\ call = "isGrantChainLive" /\ array = found /\ argument \in DOMAIN found
    /\ cursor \in Lineage(found, argument) /\ reached \subseteq Lineage(found, argument)
    /\ argument \in reached \cup {cursor}
    /\ \A j \in reached : /\ ~found[j].revoked /\ ~Expired(found[j], instant)
                         /\ found[j].parent # NoParent /\ LinkSound(found, j)
                         /\ found[j].parent \in reached \cup {cursor}
    /\ rounds = Cardinality(reached)

LoopInv ==
  /\ LoopTypeOK /\ Cascading /\ Revoking /\ Terminating /\ Walking
  /\ doing = "next" => call = "revokeAndBlock"
  /\ LoopsComputeClosures

\* Links join grants of the array, and a set of them is finite.
LEMMA ArrayFacts ==
  ASSUME NEW gs \in Seq(Grant)
  PROVE  /\ DOMAIN gs = 1..Len(gs) /\ Len(gs) \in Nat
         /\ \A i \in DOMAIN gs : gs[i] \in Grant
         /\ \A e \in ParentEdges(gs) \cup ChildEdges(gs) : e[1] \in DOMAIN gs /\ e[2] \in DOMAIN gs
         /\ \A e \in ChildEdges(gs) : gs[e[2]].parent = e[1]
         /\ LiveChildEdges(gs) \subseteq ChildEdges(gs)
         /\ \A S \in SUBSET DOMAIN gs :
               IsFiniteSet(S) /\ Cardinality(S) \in Nat /\ Cardinality(S) <= Len(gs)
<1>1. DOMAIN gs = 1..Len(gs) /\ Len(gs) \in Nat /\ \A i \in DOMAIN gs : gs[i] \in Grant
  BY ElementOfSeq, LenProperties
<1>2. IsFiniteSet(1..Len(gs)) /\ Cardinality(1..Len(gs)) = Len(gs)
  BY <1>1, FS_Interval
<1>3. \A S \in SUBSET DOMAIN gs :
         IsFiniteSet(S) /\ Cardinality(S) \in Nat /\ Cardinality(S) <= Len(gs)
  BY <1>1, <1>2, FS_Subset, FS_CardinalityType
<1>. QED BY <1>1, <1>3 DEF ParentEdges, ChildEdges, LiveChildEdges

\* What is marked and what is not is all that tells an array from its cascades.
LEMMA RevokeKeepsEdges ==
  ASSUME NEW gs \in Seq(Grant), NEW S
  PROVE  ChildEdges(RevokeAll(gs, S)) = ChildEdges(gs)
<1>1. DOMAIN RevokeAll(gs, S) = DOMAIN gs
  BY RevokeAllType
<1>2. \A i \in DOMAIN gs : RevokeAll(gs, S)[i].parent = gs[i].parent
  BY RevokeAllFields
<1>. QED BY <1>1, <1>2 DEF ChildEdges

LEMMA LoopInvInit == LoopInit => LoopInv
<1> SUFFICES ASSUME LoopInit PROVE LoopInv
  OBVIOUS
<1>1. <<>> \in Seq(Grant) /\ Len(<<>>) = 0
  BY EmptySeq
<1> USE DEF LoopInit
<1>2. LoopTypeOK
  <2>1. /\ array \in Seq(Grant) /\ found \in Seq(Grant) /\ rounds \in Nat /\ rounds <= Len(array)
        /\ doing = "idle" /\ rounds = 0
    BY <1>1
  <2>2. grew \in BOOLEAN /\ grew = FALSE
    OBVIOUS
  <2>. QED BY <2>1, <2>2 DEF LoopTypeOK
<1>3. Cascading /\ Revoking /\ Terminating /\ Walking
  BY DEF Cascading, Revoking, Terminating, Walking
<1>4. LoopsComputeClosures
  BY <1>1 DEF LoopsComputeClosures
<1>. QED BY <1>2, <1>3, <1>4 DEF LoopInv

\* The array is made before the call.
LEMMA AddAnyStep == LoopInv /\ AddAny => LoopInv'
<1> SUFFICES ASSUME LoopInv, AddAny PROVE LoopInv'
  OBVIOUS
<1>1. PICK g \in Grant : array' = Append(array, g)
  BY LoopsAssumption DEF AddAny
<1>2. array' \in Seq(Grant) /\ Len(array') \in Nat
  BY <1>1, AppendProperties, LenProperties DEF LoopInv, LoopTypeOK
<1>. QED BY <1>2 DEF AddAny, LoopInv, LoopTypeOK, Cascading, Revoking, Terminating, Walking,
                     LoopsComputeClosures

\* A call begins.
LEMMA StartStep ==
  ASSUME LoopInv,
         \/ \E i \in DOMAIN array : StartRevoking(i)
         \/ \E a \in Agents : StartTerminating(a)
         \/ \E i \in DOMAIN array, t \in Instants : StartWalking(i, t)
  PROVE  LoopInv'
<1> USE DEF LoopInv, LoopTypeOK, Cascading, Revoking, Terminating, Walking,
            LoopsComputeClosures, Call
<1>1. /\ DOMAIN array = 1..Len(array) /\ Len(array) \in Nat
      /\ \A e \in LiveChildEdges(array) \cup ChildEdges(array) :
            e[1] \in 1..Len(array) /\ e[2] \in 1..Len(array)
  BY ArrayFacts
<1>2. ASSUME NEW i \in DOMAIN array, StartRevoking(i)
      PROVE  LoopInv'
  <2>1. {i} \subseteq Reachable(DOMAIN array, Followed', {i})
    BY ReachableContains
  <2>2. Cardinality({i}) = 1
    BY FS_Singleton
  <2>3. Followed' = LiveChildEdges(array)
    BY <1>2 DEF StartRevoking, Followed
  <2>. QED BY <1>1, <1>2, <2>1, <2>2, <2>3 DEF StartRevoking, Cascade
<1>3. ASSUME NEW a \in Agents, StartTerminating(a)
      PROVE  LoopInv'
  <2>1. Settled' = {}
    BY <1>3 DEF StartTerminating, Settled
  <2>2. RevokeAll(array, Reachable(DOMAIN array, ChildEdges(array), {})) = array
    BY ReachableFromNothing, RevokeTwice
  <2>. QED BY <1>1, <1>3, <2>1, <2>2 DEF StartTerminating
<1>4. ASSUME NEW i \in DOMAIN array, NEW t \in Instants, StartWalking(i, t)
      PROVE  LoopInv'
  <2>1. i \in Lineage(array, i)
    BY ReachableContains DEF Lineage
  <2>2. Cardinality({}) = 0
    BY FS_EmptySet
  <2>. QED BY <1>1, <1>4, <2>1, <2>2 DEF StartWalking
<1>. QED BY <1>2, <1>3, <1>4

\* One candidate is looked at.
LEMMA CandidateStep == LoopInv /\ Candidate => LoopInv'
<1> SUFFICES ASSUME LoopInv, Candidate PROVE LoopInv'
  OBVIOUS
<1> USE DEF LoopInv, LoopTypeOK
<1>1. /\ DOMAIN found = 1..Len(found) /\ Len(found) \in Nat /\ DOMAIN array = DOMAIN found
      /\ cursor \in DOMAIN found /\ doing = "cascade"
      /\ \A e \in Followed : /\ e \in ChildEdges(found) /\ found[e[2]].parent = e[1]
                             /\ e[1] \in DOMAIN found /\ e[2] \in DOMAIN found
  BY ArrayFacts DEF Candidate, Followed
<1>2. \A i \in DOMAIN found : array[i].parent = found[i].parent
  <2>1. CASE call = "revokeGrant"
    BY <2>1, <1>1 DEF Revoking
  <2>2. CASE call = "revokeAndBlock"
    BY <2>2, <1>1, RevokeAllFields DEF Terminating
  <2>. QED BY <1>1, <2>1, <2>2 DEF Cascading
<1>3. Followed' = Followed /\ Settled' = Settled
  BY DEF Candidate, Followed, Settled
<1>4. \A e \in Followed : e[2] = cursor /\ e[1] \in reached =>
         Joins(cursor) \/ cursor \in reached
  <2> SUFFICES ASSUME NEW e \in Followed, e[2] = cursor, e[1] \in reached, cursor \notin reached
               PROVE  Joins(cursor)
    OBVIOUS
  <2>1. array[cursor].parent = e[1] /\ e[1] # NoParent
    BY <1>1, <1>2
  <2>2. call = "revokeGrant" => ~array[cursor].revoked
    BY <1>1 DEF Revoking, Followed, LiveChildEdges
  <2>. QED BY <2>1, <2>2 DEF Joins
<1>5. reached \subseteq DOMAIN found
  BY <1>1 DEF Cascading, Reachable
<1>6. CASE Joins(cursor)
  <2>1. <<array[cursor].parent, cursor>> \in Followed
    <3>1. <<array[cursor].parent, cursor>> \in ChildEdges(found)
      BY <1>1, <1>2, <1>5, <1>6 DEF Joins, ChildEdges
    <3>2. call = "revokeGrant" => <<array[cursor].parent, cursor>> \in LiveChildEdges(found)
      BY <3>1, <1>1, <1>6 DEF Joins, LiveChildEdges, Revoking
    <3>. QED BY <3>1, <3>2 DEF Followed
  <2>2. cursor \in Reachable(DOMAIN found, Followed, {root})
    <3>1. Closed(Followed, Reachable(DOMAIN found, Followed, {root}))
      BY <1>1, ReachableClosed
    <3>2. array[cursor].parent \in Reachable(DOMAIN found, Followed, {root})
      BY <1>1, <1>6 DEF Joins, Cascading
    <3>. QED BY <2>1, <3>1, <3>2 DEF Closed
  <2>3. Cardinality(reached \cup {cursor}) = Cardinality(reached) + 1
    BY <1>5, <1>6, ArrayFacts, FS_AddElement DEF Joins
  <2>4. Cardinality(reached) \in Nat
    BY <1>5, ArrayFacts
  <2>5. reached' = reached \cup {cursor} /\ grew' = TRUE /\ cursor' = cursor + 1
        /\ rounds' = rounds
    BY <1>6 DEF Candidate
  <2>6. rounds' + 1 <= Cardinality(reached') /\ rounds' + 2 <= Cardinality(reached')
    <3>1. rounds + 1 <= Cardinality(reached)
      BY <1>1, <2>4 DEF Cascading
    <3>. QED BY <2>3, <2>4, <2>5, <3>1
  <2>7. /\ root' = root /\ found' = found /\ call' = call /\ doing' = doing
        /\ array' = array /\ roots' = roots /\ argument' = argument
    BY DEF Candidate
  <2>8. Cascading'
    <3>1. cursor' \in 1..(Len(found') + 1) /\ grew' # FALSE
      BY <1>1, <2>5, <2>7
    <3>2. reached' \subseteq Reachable(DOMAIN found', Followed', {root'})
      BY <1>1, <1>3, <2>2, <2>5, <2>7 DEF Cascading
    <3>3. call' \in {"revokeGrant", "revokeAndBlock"} /\ root' \in reached' /\ root' \in DOMAIN found'
      BY <1>1, <2>5, <2>7 DEF Cascading
    <3>. QED BY <2>6, <3>1, <3>2, <3>3 DEF Cascading
  <2>. QED BY <1>1, <1>3, <2>5, <2>7, <2>8
           DEF Candidate, Revoking, Terminating, Walking, LoopsComputeClosures
<1>7. CASE ~Joins(cursor)
  <2>1. /\ root' = root /\ found' = found /\ call' = call /\ doing' = doing
        /\ array' = array /\ roots' = roots /\ argument' = argument
        /\ reached' = reached /\ grew' = grew /\ cursor' = cursor + 1 /\ rounds' = rounds
    BY <1>7 DEF Candidate
  <2>2. ASSUME grew = FALSE, NEW e \in Followed, e[1] \in reached, e[2] < cursor + 1
        PROVE  e[2] \in reached
    <3>1. CASE e[2] < cursor
      BY <1>1, <2>2, <3>1 DEF Cascading
    <3>2. CASE e[2] = cursor
      BY <1>4, <1>7, <2>2, <3>2
    <3>. QED BY <1>1, <2>2, <3>1, <3>2
  <2>3. Cascading'
    <3>1. cursor' \in 1..(Len(found') + 1)
      BY <1>1, <2>1
    <3>2. reached' \subseteq Reachable(DOMAIN found', Followed', {root'})
      BY <1>1, <1>3, <2>1 DEF Cascading
    <3>3. /\ call' \in {"revokeGrant", "revokeAndBlock"} /\ root' \in reached'
          /\ root' \in DOMAIN found' /\ rounds' + 1 <= Cardinality(reached')
          /\ grew' = TRUE => rounds' + 2 <= Cardinality(reached')
      BY <1>1, <2>1 DEF Cascading
    <3>4. grew' = FALSE =>
            \A e \in Followed' : e[1] \in reached' /\ e[2] < cursor' => e[2] \in reached'
      BY <1>3, <2>1, <2>2
    <3>. QED BY <3>1, <3>2, <3>3, <3>4 DEF Cascading
  <2>. QED BY <1>1, <1>3, <2>1, <2>3
           DEF Candidate, Revoking, Terminating, Walking, LoopsComputeClosures
<1>. QED BY <1>6, <1>7

\* A pass that found nothing has followed every link: what was reached is closed.
LEMMA PassReachesAll ==
  ASSUME LoopInv, doing = "cascade", cursor = Len(found) + 1, grew = FALSE
  PROVE  reached = Reachable(DOMAIN found, Followed, {root})
<1>1. /\ DOMAIN found = 1..Len(found) /\ Len(found) \in Nat
      /\ \A e \in Followed : e[1] \in DOMAIN found /\ e[2] \in DOMAIN found
  BY ArrayFacts DEF LoopInv, LoopTypeOK, Followed
<1>2. Closed(Followed, reached)
  BY <1>1 DEF LoopInv, Cascading, Closed
<1>3. {root} \subseteq reached /\ reached \subseteq DOMAIN found
  BY DEF LoopInv, Cascading, Reachable
<1>4. Reachable(DOMAIN found, Followed, {root}) \subseteq reached
  BY <1>2, <1>3, ReachableLeast
<1>. QED BY <1>4 DEF LoopInv, Cascading

\* The array has been gone through once.
LEMMA PassEndsStep == LoopInv /\ PassEnds => LoopInv'
<1> SUFFICES ASSUME LoopInv, PassEnds PROVE LoopInv'
  OBVIOUS
<1> USE DEF LoopInv, LoopTypeOK
<1>1. /\ DOMAIN found = 1..Len(found) /\ Len(found) \in Nat /\ Len(array) = Len(found)
      /\ doing = "cascade" /\ cursor = Len(found) + 1
      /\ \A e \in Followed : e[1] \in DOMAIN found /\ e[2] \in DOMAIN found
  BY ArrayFacts DEF PassEnds, Followed
<1>2. Followed' = Followed
  BY DEF PassEnds, Followed
<1>3. reached \subseteq DOMAIN found
  BY <1>1 DEF Cascading, Reachable
<1>4. Cardinality(reached) \in Nat /\ Cardinality(reached) <= Len(found)
  BY <1>3, ArrayFacts
<1>5. CASE grew = TRUE
  <2>3. /\ root' = root /\ found' = found /\ call' = call /\ doing' = doing
        /\ array' = array /\ roots' = roots /\ argument' = argument
        /\ reached' = reached /\ cursor' = 1 /\ rounds' = rounds + 1
    BY <1>5 DEF PassEnds, Again
  <2>4. grew' = FALSE
    BY DEF PassEnds
  <2>5. rounds + 2 <= Cardinality(reached)
    BY <1>1, <1>5 DEF Cascading
  <2>6. rounds' \in Nat /\ rounds' + 1 <= Cardinality(reached) /\ rounds' <= Len(array')
    BY <1>1, <1>4, <2>3, <2>5
  <2>1. Cascading'
    <3>1. cursor' \in 1..(Len(found') + 1)
      BY <1>1, <2>3
    <3>2. reached' \subseteq Reachable(DOMAIN found', Followed', {root'})
      BY <1>1, <1>2, <2>3 DEF Cascading
    <3>3. /\ call' \in {"revokeGrant", "revokeAndBlock"} /\ root' \in reached'
          /\ root' \in DOMAIN found' /\ rounds' + 1 <= Cardinality(reached')
      BY <1>1, <2>3, <2>6 DEF Cascading
    <3>4. \A e \in Followed' : ~(e[2] < cursor')
      BY <1>1, <1>2, <2>3
    <3>. QED BY <2>4, <3>1, <3>2, <3>3, <3>4 DEF Cascading
  <2>2. Settled' = Settled
    BY <1>5 DEF PassEnds, Again, Settled
  <2>. QED BY <1>1, <1>5, <2>1, <2>2, <2>6
           DEF PassEnds, Again, Revoking, Terminating, Walking, LoopsComputeClosures
<1>6. CASE grew = FALSE
  <2>1. reached = Reachable(DOMAIN found, Followed, {root})
    BY <1>1, <1>6, PassReachesAll
  <2>2. /\ array' = RevokeAll(array, reached) /\ array' \in Seq(Grant)
        /\ DOMAIN array' = DOMAIN found /\ Len(array') = Len(found)
        /\ found' = found /\ call' = call /\ argument' = argument /\ rounds' = rounds
        /\ roots' = roots /\ root' = root /\ grew' = FALSE
    BY <1>1, <1>6, RevokeAllType DEF PassEnds, Again
  <2>3. CASE call = "revokeGrant"
    <3>1. doing' = "done"
      BY <1>6, <2>3 DEF PassEnds, Again
    <3>. QED BY <1>1, <2>1, <2>2, <2>3, <3>1
             DEF Revoking, Followed, Cascading, Terminating, Walking, LoopsComputeClosures
  <2>4. CASE call = "revokeAndBlock"
    <3>1. doing' = "next"
      BY <1>6, <2>4 DEF PassEnds, Again
    <3> DEFINE E == ChildEdges(found)
               Reach(S) == Reachable(DOMAIN found, E, S)
    <3>2. Settled' = Settled \cup {root} /\ Settled \subseteq DOMAIN found
          /\ root \in DOMAIN found
      BY <1>1, <2>2, <2>4, <3>1 DEF Settled, Terminating, HeldUnrevoked
    <3>3. Reach(Settled') = Reach(Settled) \cup Reach({root})
      BY <3>2, <1>1, ArrayFacts, ReachableUnion
    <3>4. array = RevokeAll(found, Reach(Settled)) /\ reached = Reach({root})
      BY <1>1, <2>1, <2>4 DEF Terminating, Followed
    <3>5. array' = RevokeAll(found, Reach(Settled) \cup Reach({root}))
      <4> DEFINE before == Reach(Settled)
                 more == Reach({root})
      <4>1. array' = RevokeAll(RevokeAll(found, before), more)
        BY <2>2, <3>4
      <4>2. found \in Seq(Grant)
        OBVIOUS
      <4> HIDE DEF before, more
      <4>3. array' = RevokeAll(found, before \cup more)
        BY ONLY <4>1, <4>2, RevokeTwice
      <4>. QED BY <4>3 DEF before, more
    <3>6. array' = RevokeAll(found', Reachable(DOMAIN found', ChildEdges(found'), Settled'))
      BY <2>2, <3>3, <3>5
    <3>7. Terminating'
      BY <1>1, <2>2, <2>4, <3>1, <3>6 DEF Terminating
    <3>. QED BY <1>1, <2>2, <2>4, <3>1, <3>7
             DEF Revoking, Cascading, Walking, LoopsComputeClosures
  <2>. QED BY <1>1, <2>3, <2>4 DEF Cascading
<1>. QED BY <1>5, <1>6

\* The next cascade of a termination.
LEMMA NextRootStep == LoopInv /\ NextRoot => LoopInv'
<1> SUFFICES ASSUME LoopInv, NextRoot PROVE LoopInv'
  OBVIOUS
<1> USE DEF LoopInv, LoopTypeOK
<1> DEFINE first == FirstOf(roots)
<1>1. /\ DOMAIN found = 1..Len(found) /\ Len(found) \in Nat
      /\ doing = "next" /\ call = "revokeAndBlock"
      /\ \A e \in Followed : e[1] \in DOMAIN found /\ e[2] \in DOMAIN found
  BY ArrayFacts DEF NextRoot, Followed
<1>2. roots \subseteq HeldUnrevoked(found, argument) /\ roots \subseteq DOMAIN found
      /\ roots # {}
  BY <1>1 DEF Terminating, HeldUnrevoked, NextRoot
<1>3. first \in roots
  BY <1>1, <1>2, FirstOfMember
<1>4. /\ doing' = "cascade" /\ root' = first /\ reached' = {first} /\ cursor' = 1
      /\ roots' = roots \ {first} /\ rounds' = 0
      /\ array' = array /\ found' = found /\ call' = call /\ argument' = argument
      /\ grew' = grew
  BY DEF NextRoot, Cascade
<1>5. Followed' = Followed
  BY <1>4 DEF Followed
<1>6. Settled' = Settled
  BY <1>1, <1>3, <1>4 DEF Settled
<1>7. {first} \subseteq Reachable(DOMAIN found, Followed, {first}) /\ Cardinality({first}) = 1
  <2> HIDE DEF first
  <2>1. {first} \subseteq DOMAIN found
    BY <1>2, <1>3
  <2>2. {first} \subseteq Reachable(DOMAIN found, Followed, {first})
    BY ONLY <2>1, ReachableContains
  <2>. QED BY <2>2, FS_Singleton
<1>8. Cascading'
  BY <1>1, <1>2, <1>3, <1>4, <1>5, <1>7 DEF Cascading
<1>9. Terminating'
  BY <1>1, <1>2, <1>3, <1>4, <1>6 DEF Terminating
<1>. QED BY <1>1, <1>4, <1>8, <1>9 DEF Revoking, Walking, LoopsComputeClosures

\* The termination has cascaded from every grant the agent held.
LEMMA TerminatedStep == LoopInv /\ Terminated => LoopInv'
<1> SUFFICES ASSUME LoopInv, Terminated PROVE LoopInv'
  OBVIOUS
<1>1. Settled = HeldUnrevoked(found, argument)
  BY DEF Terminated, Settled
<1>2. array = RevokeAll(found, Reachable(DOMAIN found, ChildEdges(found),
                                         HeldUnrevoked(found, argument)))
  BY <1>1 DEF Terminated, Terminating, LoopInv
<1>. QED BY <1>2 DEF Terminated, LoopInv, LoopTypeOK, Cascading, Revoking, Terminating,
                     Walking, LoopsComputeClosures

\* The walk goes on with the parent.
LEMMA WalkUpStep == LoopInv /\ WalkUp => LoopInv'
<1> SUFFICES ASSUME LoopInv, WalkUp PROVE LoopInv'
  OBVIOUS
<1> USE DEF LoopInv, LoopTypeOK
<1> DEFINE parent == found[cursor].parent
<1>1. /\ doing = "walk" /\ array = found /\ cursor \in Lineage(found, argument)
      /\ cursor \notin reached /\ ~found[cursor].revoked
      /\ ~Expired(found[cursor], instant) /\ parent # NoParent /\ LinkSound(found, cursor)
  BY DEF WalkUp, Ascends, Dead, Walking
<1>2. /\ cursor \in DOMAIN found /\ parent \in DOMAIN found
      /\ reached \subseteq DOMAIN found
  BY <1>1 DEF Lineage, Reachable, LinkSound, Walking
<1>3. parent \in Lineage(found, argument)
  <2>1. Closed(ParentEdges(found), Lineage(found, argument))
    BY ArrayFacts, ReachableClosed DEF Lineage
  <2>2. <<cursor, parent>> \in ParentEdges(found)
    BY <1>2 DEF ParentEdges
  <2>. QED BY <1>1, <2>1, <2>2 DEF Closed
<1>4. Cardinality(reached \cup {cursor}) = Cardinality(reached) + 1
      /\ Cardinality(reached \cup {cursor}) <= Len(found)
  BY <1>1, <1>2, ArrayFacts, FS_AddElement
<1>5. /\ reached' = reached \cup {cursor} /\ cursor' = parent /\ rounds' = rounds + 1
      /\ array' = array /\ found' = found /\ call' = call /\ doing' = doing
      /\ argument' = argument /\ instant' = instant /\ grew' = grew
  BY <1>1 DEF WalkUp
<1>6. Walking'
  BY <1>1, <1>3, <1>4, <1>5 DEF Walking
<1>. QED BY <1>1, <1>4, <1>5, <1>6
         DEF Cascading, Revoking, Terminating, Walking, LoopsComputeClosures

\* Where the walk stops, its answer is that of the definition over lineages.
LEMMA WalkAnswers ==
  ASSUME LoopInv, doing = "walk", ~Ascends
  PROVE  (cursor \notin reached /\ ~Dead(cursor) /\ array[cursor].parent = NoParent)
           <=> IsGrantChainLive(found, argument, instant)
<1> USE DEF LoopInv
<1> DEFINE line == Lineage(found, argument)
<1>1. /\ array = found /\ argument \in DOMAIN found /\ cursor \in line /\ reached \subseteq line
      /\ argument \in reached \cup {cursor}
      /\ \A j \in reached : /\ ~found[j].revoked /\ ~Expired(found[j], instant)
                           /\ found[j].parent # NoParent /\ LinkSound(found, j)
                           /\ found[j].parent \in reached \cup {cursor}
  BY DEF Walking
<1>2. line \subseteq DOMAIN found
  BY DEF Lineage, Reachable
<1>3. NoParent \notin DOMAIN found
  BY ArrayFacts DEF LoopTypeOK
<1>4. CASE cursor \in reached
  <2>1. Closed(ParentEdges(found), reached)
    BY <1>1, <1>4 DEF Closed, ParentEdges
  <2>2. line \subseteq reached
    <3>1. {argument} \subseteq reached /\ reached \in SUBSET DOMAIN found
      BY <1>1, <1>2, <1>4
    <3>. QED BY <2>1, <3>1, ReachableLeast DEF Lineage
  <2>3. ~IsGrantChainLive(found, argument, instant)
    BY <1>1, <2>2 DEF IsGrantChainLive
  <2>. QED BY <1>4, <2>3
<1>5. CASE cursor \notin reached /\ Dead(cursor)
  BY <1>1, <1>5 DEF IsGrantChainLive, Dead
<1>6. CASE cursor \notin reached /\ ~Dead(cursor) /\ array[cursor].parent # NoParent
  BY <1>1, <1>6 DEF IsGrantChainLive, Ascends
<1>7. CASE cursor \notin reached /\ ~Dead(cursor) /\ array[cursor].parent = NoParent
  <2> DEFINE seen == reached \cup {cursor}
  <2>1. Closed(ParentEdges(found), seen)
    BY <1>1, <1>3, <1>7 DEF Closed, ParentEdges
  <2>2. line \subseteq seen
    <3>1. seen \in SUBSET DOMAIN found /\ {argument} \subseteq seen
      BY <1>1, <1>2
    <3>. HIDE DEF seen
    <3>. QED BY ONLY <2>1, <3>1, ReachableLeast DEF Lineage, line
  <2>3. IsGrantChainLive(found, argument, instant)
    BY <1>1, <1>7, <2>2 DEF IsGrantChainLive, Dead
  <2>. QED BY <1>7, <2>3
<1>. QED BY <1>4, <1>5, <1>6, <1>7

LEMMA WalkEndsStep == LoopInv /\ WalkEnds => LoopInv'
<1> SUFFICES ASSUME LoopInv, WalkEnds PROVE LoopInv'
  OBVIOUS
<1>1. doing = "walk" /\ ~Ascends
  BY DEF WalkEnds
<1>2. verdict' = "live" <=> IsGrantChainLive(found, argument, instant)
  BY <1>1, WalkAnswers DEF WalkEnds
<1>3. /\ doing' = "done" /\ call' = "isGrantChainLive" /\ array' = found /\ found' = found
      /\ argument' = argument /\ instant' = instant /\ rounds' = rounds /\ grew' = grew
      /\ array' = array
  BY <1>1 DEF WalkEnds, LoopInv, Walking
<1>4. LoopsComputeClosures'
  BY <1>1, <1>2, <1>3 DEF LoopInv, LoopTypeOK, LoopsComputeClosures
<1>. QED BY <1>1, <1>3, <1>4 DEF LoopInv, LoopTypeOK, Cascading, Revoking, Terminating, Walking

\* The inductive invariant of the loops.
THEOREM LoopInvariant == LoopSpec => []LoopInv
<1>1. ASSUME LoopInv, [LoopNext]_loopVars PROVE LoopInv'
  <2>1. CASE UNCHANGED loopVars
    BY <1>1, <2>1 DEF loopVars, LoopInv, LoopTypeOK, Cascading, Revoking, Terminating,
       Walking, LoopsComputeClosures, Followed, Settled
  <2>2. CASE LoopNext
    BY <1>1, <2>2, AddAnyStep, StartStep, CandidateStep, PassEndsStep, NextRootStep,
       TerminatedStep, WalkUpStep, WalkEndsStep DEF LoopNext
  <2>. QED BY <1>1, <2>1, <2>2
<1>. QED BY <1>1, LoopInvInit, PTL DEF LoopSpec

\* Whatever the links and the length of the array, the loops of revokeGrant and of
\* a termination revoke the closures that Grants' operations revoke, the walk
\* answers as the definition over lineages, and none goes round more often than
\* there are grants.
THEOREM LoopsAreClosures == LoopSpec => []LoopsComputeClosures
BY LoopInvariant, PTL DEF LoopInv

-----------------------------------------------------------------------------
(* Loading a data file, of any length.                                     *)

\* Every grant is of the current shape.
GrantsLoaded(gs) ==
  /\ gs = [i \in DOMAIN gs |-> gs[i]]
  /\ \A i \in DOMAIN gs : gs[i] \in StoredGrant /\ gs[i].lifted = TRUE

RunsLoaded(runs) ==
  /\ runs = [i \in DOMAIN runs |-> runs[i]]
  /\ \A i \in DOMAIN runs : runs[i].by # Null

\* A database of the current shape.
Loaded(d) ==
  /\ d = [version |-> 5, agents |-> d.agents, chats |-> d.chats, runs |-> d.runs,
          grants |-> d.grants, memories |-> TRUE]
  /\ EveryAgentHasItsChat(d)
  /\ RunsLoaded(d.runs)
  /\ GrantsLoaded(d.grants)

\* What is lifted already is left as it is.
LEMMA LoadedIsLeft ==
  ASSUME NEW d, Loaded(d)
  PROVE  Migrate(d) = d
<1>1. d.version = 5 /\ d.memories = TRUE
  BY DEF Loaded
<1>2. Migrate(d) = LoadV5(d)
  BY <1>1 DEF Migrate
<1>3. LiftRuns(d.runs) = d.runs
  BY DEF LiftRuns, Loaded, RunsLoaded
<1>4. LiftGrants(d.grants) = d.grants
  <2>1. \A i \in DOMAIN d.grants : [d.grants[i] EXCEPT !.lifted = TRUE] = d.grants[i]
    BY DEF Loaded, GrantsLoaded, StoredGrant
  <2>. QED BY <2>1 DEF LiftGrants, Loaded, GrantsLoaded
<1>. QED BY <1>1, <1>2, <1>3, <1>4 DEF LoadV5, MigrateV4ToV5, Loaded

\* A run of an early file once it has its chat.
PlacedRun ==
  [agent : Agents, chat : ChatIds \cup {Null} \cup {NewChat(a) : a \in Agents},
   by : Humans \cup {Null}]

\* Lifting runs names who started each and leaves the rest.
LEMMA RunsAreLifted ==
  ASSUME NEW runs, \A i \in DOMAIN runs : runs[i] \in PlacedRun
  PROVE  /\ RunsLoaded(LiftRuns(runs)) /\ DOMAIN LiftRuns(runs) = DOMAIN runs
         /\ \A i \in DOMAIN runs : /\ LiftRuns(runs)[i].agent = runs[i].agent
                                  /\ LiftRuns(runs)[i].chat = runs[i].chat
<1>1. DOMAIN LiftRuns(runs) = DOMAIN runs
  BY DEF LiftRuns
<1>2. \A i \in DOMAIN runs : /\ LiftRuns(runs)[i].agent = runs[i].agent
                            /\ LiftRuns(runs)[i].chat = runs[i].chat
                            /\ LiftRuns(runs)[i].by # Null
  BY MigrationAssumption DEF LiftRuns, PlacedRun
<1>3. LiftRuns(runs) = [i \in DOMAIN runs |-> LiftRuns(runs)[i]]
  BY DEF LiftRuns
<1>. QED BY <1>1, <1>2, <1>3 DEF RunsLoaded

\* Lifting grants keeps them.
LEMMA GrantsAreLifted ==
  ASSUME NEW old, \A i \in DOMAIN old : old[i] \in StoredGrant
  PROVE  GrantsLoaded(LiftGrants(old))
<1> DEFINE lifted == LiftGrants(old)
<1>1. DOMAIN lifted = DOMAIN old /\ lifted = [i \in DOMAIN lifted |-> lifted[i]]
  BY DEF LiftGrants
<1>2. \A i \in DOMAIN old : lifted[i] \in StoredGrant /\ lifted[i].lifted = TRUE
  BY DEF LiftGrants, StoredGrant
<1>. QED BY <1>1, <1>2 DEF GrantsLoaded

\* In a file, every parent is an older grant.
LEMMA FileGrants ==
  ASSUME NEW f \in StoredFile, IssuedInOrder(f)
  PROVE  /\ DOMAIN f.grants \subseteq Nat \ {0}
         /\ \A i \in DOMAIN f.grants : f.grants[i] \in StoredGrant
         /\ \A i \in DOMAIN f.grants : f.grants[i].parent # NoParent =>
               f.grants[i].parent \in DOMAIN f.grants /\ f.grants[i].parent < i
<1>1. DOMAIN f.grants = 1..Len(f.grants) /\ Len(f.grants) \in Nat
      /\ \A i \in DOMAIN f.grants : f.grants[i] \in StoredGrant
  BY ElementOfSeq, LenProperties DEF StoredFile
<1>2. \A i \in DOMAIN f.grants : f.grants[i].parent \in Nat
  BY <1>1 DEF StoredGrant
<1>. QED BY <1>1, <1>2 DEF IssuedInOrder

LEMMA FileRuns ==
  ASSUME NEW f \in StoredFile
  PROVE  \A i \in DOMAIN f.runs : f.runs[i] \in StoredRun /\ f.runs[i] \in PlacedRun
<1>1. \A i \in DOMAIN f.runs : f.runs[i] \in StoredRun
  BY ElementOfSeq, LenProperties DEF StoredFile
<1>. QED BY <1>1 DEF StoredRun, PlacedRun

\* Nothing was granted before version 4.
LEMMA NoGrantsLoaded == GrantsLoaded(LiftGrants(<<>>))
<1>1. DOMAIN <<>> = {}
  OBVIOUS
<1>. QED BY <1>1, GrantsAreLifted

\* Lifting the runs leaves every agent and run with its chat.
LEMMA ChatsStay ==
  ASSUME NEW f, EveryAgentHasItsChat(f), \A i \in DOMAIN f.runs : f.runs[i] \in PlacedRun,
         NEW d, d.agents = f.agents, d.chats = f.chats, d.runs = LiftRuns(f.runs)
  PROVE  EveryAgentHasItsChat(d) /\ RunsLoaded(d.runs)
<1>1. /\ RunsLoaded(d.runs) /\ DOMAIN d.runs = DOMAIN f.runs
      /\ \A i \in DOMAIN f.runs : /\ d.runs[i].agent = f.runs[i].agent
                                 /\ d.runs[i].chat = f.runs[i].chat
  BY RunsAreLifted
<1>2. \A a, chat : Has(d, a, chat) <=> Has(f, a, chat)
  BY DEF Has
<1>. QED BY <1>1, <1>2 DEF EveryAgentHasItsChat

LEMMA LoadsVersion5 ==
  ASSUME NEW f \in StoredFile, ChatsKept(f), IssuedInOrder(f), f.version = 5
  PROVE  Loaded(Migrate(f))
<1>1. Migrate(f) = LoadV5(f)
  BY DEF Migrate
<1>3. GrantsLoaded(LiftGrants(f.grants))
  BY FileGrants, GrantsAreLifted
<1>4. LoadV5(f) = [version |-> 5, agents |-> f.agents, chats |-> f.chats,
                   runs |-> LiftRuns(f.runs), grants |-> LiftGrants(f.grants), memories |-> TRUE]
  BY DEF LoadV5, MigrateV4ToV5
<1>5. EveryAgentHasItsChat(f)
  BY DEF ChatsKept
<1>6. EveryAgentHasItsChat(LoadV5(f)) /\ RunsLoaded(LiftRuns(f.runs))
  BY <1>4, <1>5, FileRuns, ChatsStay
<1>. QED BY <1>1, <1>3, <1>4, <1>6 DEF Loaded

\* A file of version 4 whose unverified roots are revoked.
LEMMA LoadsVersion4 ==
  ASSUME NEW f \in StoredFile, ChatsKept(f), IssuedInOrder(f), f.version = 4
  PROVE  Loaded(Migrate(f))
<1> DEFINE closed == CloseUnsafeRoots(f.grants)
<1>1. DOMAIN closed = DOMAIN f.grants
  BY DEF CloseUnsafeRoots, RevokeAll
<1>2. \A i \in DOMAIN f.grants : closed[i] \in StoredGrant
  BY FileGrants DEF CloseUnsafeRoots, RevokeAll, StoredGrant
<1>4. GrantsLoaded(LiftGrants(closed))
  BY <1>1, <1>2, GrantsAreLifted
<1>5. Migrate(f) = [version |-> 5, agents |-> f.agents, chats |-> f.chats,
                    runs |-> LiftRuns(f.runs), grants |-> LiftGrants(closed), memories |-> TRUE]
  BY DEF Migrate, MigrateV4ToV5
<1>6. EveryAgentHasItsChat(f)
  BY DEF ChatsKept
<1>7. EveryAgentHasItsChat(Migrate(f)) /\ RunsLoaded(LiftRuns(f.runs))
  BY <1>5, <1>6, FileRuns, ChatsStay
<1>. QED BY <1>4, <1>5, <1>7 DEF Loaded

LEMMA LoadsVersion3 ==
  ASSUME NEW f \in StoredFile, ChatsKept(f), f.version = 3
  PROVE  Loaded(Migrate(f))
<1>1. Migrate(f) = [version |-> 5, agents |-> f.agents, chats |-> f.chats,
                    runs |-> LiftRuns(f.runs), grants |-> LiftGrants(<<>>), memories |-> TRUE]
  BY DEF Migrate, MigrateV4ToV5, MigrateV3ToV4
<1>2. EveryAgentHasItsChat(f)
  BY DEF ChatsKept
<1>3. EveryAgentHasItsChat(Migrate(f)) /\ RunsLoaded(LiftRuns(f.runs))
  BY <1>1, <1>2, FileRuns, ChatsStay
<1>. QED BY <1>1, <1>3, NoGrantsLoaded DEF Loaded

\* Versions 1 and 2: an agent without a chat gets one, under the name it uses.
LEMMA ChatsAreAttached ==
  ASSUME NEW f \in StoredFile, ChatsKept(f), f.version \in {1, 2}
  PROVE  LET g == AttachChats(f) IN
           /\ EveryAgentHasItsChat(g)
           /\ \A i \in DOMAIN g.runs : g.runs[i] \in PlacedRun
<1> DEFINE g == AttachChats(f)
           made(a) == <<IF f.agents[a] # Null THEN f.agents[a] ELSE NewChat(a)>>
           chats == [a \in Agents |-> IF a \in Bare(f) THEN made(a) ELSE f.chats[a]]
           first(a) == IF chats[a] = <<>> THEN Null ELSE Head(chats[a])
<1>1. /\ g.chats = chats /\ DOMAIN g.agents = DOMAIN f.agents /\ DOMAIN g.runs = DOMAIN f.runs
      /\ \A a \in DOMAIN f.agents :
            g.agents[a] = IF f.agents[a] # Null THEN f.agents[a] ELSE first(a)
      /\ \A i \in DOMAIN f.runs :
            g.runs[i] = IF f.runs[i].chat # Null THEN f.runs[i]
                        ELSE [f.runs[i] EXCEPT !.chat = first(f.runs[i].agent)]
  BY DEF AttachChats
<1>2. DOMAIN f.agents \subseteq Agents /\ f.chats \in [Agents -> Seq(ChatIds)]
  BY DEF StoredFile
<1>3. \A i \in DOMAIN f.runs : f.runs[i] \in StoredRun
  BY FileRuns
<1>4. ASSUME NEW a \in DOMAIN f.agents, a \in Bare(f)
      PROVE  /\ first(a) = made(a)[1] /\ Has(g, a, made(a)[1])
             /\ f.agents[a] # Null => made(a)[1] = f.agents[a]
  <2>1. a \in Agents /\ chats[a] = made(a) /\ g.chats[a] = made(a)
    BY <1>1, <1>2, <1>4
  <2>2. PICK n : made(a) = <<n>> /\ (f.agents[a] # Null => n = f.agents[a])
    OBVIOUS
  <2>3. Head(<<n>>) = n /\ <<n>>[1] = n /\ 1 \in DOMAIN <<n>> /\ <<n>> # <<>>
    OBVIOUS
  <2>. HIDE DEF made, chats
  <2>4. first(a) = n /\ made(a)[1] = n
    BY <2>1, <2>2, <2>3
  <2>5. Has(g, a, n)
    BY <2>1, <2>2, <2>3 DEF Has
  <2>. QED BY <2>2, <2>4, <2>5
<1>5. ASSUME NEW a \in DOMAIN f.agents, a \notin Bare(f)
      PROVE  /\ chats[a] = f.chats[a] /\ Has(g, a, first(a))
             /\ \A chat : Has(f, a, chat) => Has(g, a, chat)
  <2>1. chats[a] = f.chats[a] /\ f.chats[a] \in Seq(ChatIds) /\ f.chats[a] # <<>>
    BY <1>2, <1>5 DEF Bare
  <2>2. first(a) = f.chats[a][1] /\ 1 \in DOMAIN f.chats[a]
    BY <2>1, EmptySeq, LenProperties, HeadTailProperties
  <2>3. g.chats[a] = f.chats[a]
    BY <1>1, <2>1
  <2>4. \A chat : Has(f, a, chat) <=> Has(g, a, chat)
    BY <2>3 DEF Has
  <2>5. Has(f, a, first(a))
    BY <2>2 DEF Has
  <2>. HIDE DEF chats, first
  <2>. QED BY <2>1, <2>4, <2>5
<1>6. ASSUME NEW a \in DOMAIN f.agents
      PROVE  Has(g, a, first(a)) /\ \A chat : Has(f, a, chat) => Has(g, a, chat)
  <2>1. ASSUME a \in Bare(f), NEW chat PROVE ~Has(f, a, chat)
    <3>1. f.chats[a] = <<>> /\ DOMAIN <<>> = {}
      BY <2>1 DEF Bare
    <3>. QED BY <3>1 DEF Has
  <2>. QED BY <1>4, <1>5, <2>1
<1>9. ASSUME NEW a \in Agents
      PROVE  first(a) \in ChatIds \cup {Null} \cup {NewChat(b) : b \in Agents}
  <2>1. CASE a \in Bare(f)
    <3>1. a \in DOMAIN f.agents /\ f.agents[a] \in ChatIds \cup {Null}
      BY <2>1 DEF Bare, StoredFile
    <3>. QED BY <1>4, <2>1, <3>1
  <2>2. CASE a \notin Bare(f)
    <3>1. chats[a] \in Seq(ChatIds)
      BY <1>2, <2>2
    <3>. QED BY <3>1, HeadTailProperties
  <2>. QED BY <2>1, <2>2
<1>7. ASSUME NEW a \in DOMAIN f.agents
      PROVE  Has(g, a, g.agents[a])
  <2>1. CASE f.agents[a] = Null
    BY <1>1, <1>6, <2>1
  <2>2. CASE f.agents[a] # Null /\ a \in Bare(f)
    BY <1>1, <1>4, <2>2
  <2>3. CASE f.agents[a] # Null /\ a \notin Bare(f)
    BY <1>1, <1>6, <2>3 DEF ChatsKept, Bare
  <2>. QED BY <2>1, <2>2, <2>3
<1>8. ASSUME NEW i \in DOMAIN f.runs
      PROVE  /\ g.runs[i].agent = f.runs[i].agent /\ g.runs[i] \in PlacedRun
             /\ f.runs[i].agent \in DOMAIN f.agents => Has(g, f.runs[i].agent, g.runs[i].chat)
  <2>1. f.runs[i] \in StoredRun /\ f.runs[i] \in PlacedRun
    BY FileRuns
  <2>2. CASE f.runs[i].chat # Null
    BY <1>1, <1>6, <2>1, <2>2 DEF ChatsKept
  <2>3. CASE f.runs[i].chat = Null
    <3>1. g.runs[i] = [f.runs[i] EXCEPT !.chat = first(f.runs[i].agent)]
      BY <1>1, <2>3
    <3>2. first(f.runs[i].agent) \in ChatIds \cup {Null} \cup {NewChat(a) : a \in Agents}
      <4>1. f.runs[i].agent \in Agents
        BY <2>1 DEF StoredRun
      <4>. QED BY <4>1, <1>9
    <3> HIDE DEF g, first
    <3>3. /\ g.runs[i].agent = f.runs[i].agent /\ g.runs[i] \in PlacedRun
          /\ g.runs[i].chat = first(f.runs[i].agent)
      BY <2>1, <3>1, <3>2 DEF PlacedRun
    <3>. QED BY <1>6, <3>3
  <2>. QED BY <2>2, <2>3
<1>10. EveryAgentHasItsChat(g)
  BY <1>1, <1>7, <1>8 DEF EveryAgentHasItsChat
<1>. QED BY <1>1, <1>8, <1>10

LEMMA LoadsEarlyVersions ==
  ASSUME NEW f \in StoredFile, ChatsKept(f), f.version \in {1, 2}
  PROVE  Loaded(Migrate(f))
<1> DEFINE g == AttachChats(f)
<1>1. Migrate(f) = [version |-> 5, agents |-> g.agents, chats |-> g.chats,
                    runs |-> LiftRuns(g.runs), grants |-> LiftGrants(<<>>), memories |-> TRUE]
  BY DEF Migrate, MigrateV4ToV5, MigrateV3ToV4
<1>2. EveryAgentHasItsChat(Migrate(f)) /\ RunsLoaded(LiftRuns(g.runs))
  <2>1. EveryAgentHasItsChat(g) /\ \A i \in DOMAIN g.runs : g.runs[i] \in PlacedRun
    BY ChatsAreAttached
  <2> HIDE DEF g
  <2>. QED BY <1>1, <2>1, ChatsStay
<1>. QED BY <1>1, <1>2, NoGrantsLoaded DEF Loaded

\* A grant's lineage is the grant and its parent's lineage.
LEMMA LineageOfParent ==
  ASSUME NEW gs, NEW i \in DOMAIN gs, gs[i].parent \in DOMAIN gs
  PROVE  Lineage(gs, i) \subseteq {i} \cup Lineage(gs, gs[i].parent)
<1> DEFINE p == gs[i].parent
           line == {i} \cup Lineage(gs, p)
<1>1. p \in Lineage(gs, p) /\ Lineage(gs, p) \subseteq DOMAIN gs
  BY LineageProperties
<1>2. Closed(ParentEdges(gs), line)
  <2> SUFFICES ASSUME NEW j \in line, NEW q \in DOMAIN gs, gs[j].parent = q PROVE q \in line
    BY DEF Closed, ParentEdges
  <2>1. CASE j = i
    BY <1>1, <2>1
  <2>2. CASE j \in Lineage(gs, p)
    BY <2>2, LineageProperties
  <2>. QED BY <2>1, <2>2
<1>3. line \subseteq DOMAIN gs /\ i \in line
  BY <1>1
<1>. QED BY <1>2, <1>3, ReachableLeast DEF Lineage

\* A chain has one root.
LEMMA RootIsUnique ==
  ASSUME NEW gs, NoParent \notin DOMAIN gs, NEW i \in DOMAIN gs,
         NEW h \in Lineage(gs, i), gs[h].parent = NoParent,
         NEW j \in Lineage(gs, i), gs[j].parent = NoParent
  PROVE  j = h
<1> DEFINE S == {k \in DOMAIN gs : h \in Lineage(gs, k)}
<1>1. Closed(ParentEdges(gs), S)
  <2> SUFFICES ASSUME NEW k \in S, NEW q \in DOMAIN gs, gs[k].parent = q PROVE h \in Lineage(gs, q)
    BY DEF Closed, ParentEdges
  <2>1. h # k
    OBVIOUS
  <2>. QED BY <2>1, LineageOfParent
<1>2. Lineage(gs, i) \subseteq S
  <2>1. S \in SUBSET (DOMAIN gs) /\ {i} \subseteq S /\ {i} \subseteq DOMAIN gs
    OBVIOUS
  <2> HIDE DEF S
  <2>. QED BY <1>1, <2>1, ReachableLeast DEF Lineage
<1>3. j \in DOMAIN gs /\ h \in Lineage(gs, j)
  BY <1>2
<1>4. Closed(ParentEdges(gs), {j})
  BY DEF Closed, ParentEdges
<1>5. Lineage(gs, j) \subseteq {j}
  BY <1>3, <1>4, ReachableLeast DEF Lineage
<1>. QED BY <1>3, <1>5

\* A chain of a file has a root, since parents come before children.
LEMMA ChainHasRoot ==
  ASSUME NEW f \in StoredFile, IssuedInOrder(f), NEW i \in DOMAIN f.grants
  PROVE  \E j \in Lineage(f.grants, i) : f.grants[j].parent = NoParent
<1> DEFINE line == Lineage(f.grants, i)
<1>1. line \subseteq DOMAIN f.grants /\ line \subseteq Nat /\ line # {}
  BY LineageProperties, FileGrants
<1>2. PICK j \in line : \A k \in line : j <= k
  BY <1>1, LeastNatural
<1>3. CASE f.grants[j].parent # NoParent
  <2>1. f.grants[j].parent \in DOMAIN f.grants /\ f.grants[j].parent < j
    BY <1>1, <1>3, FileGrants
  <2>2. f.grants[j].parent \in line
    BY <2>1, LineageProperties
  <2>. QED BY <1>1, <1>2, <2>1, <2>2
<1>. QED BY <1>3

\* The same grants with the same links, and the same revoked but for S.
SameChains(old, new, S) ==
  /\ DOMAIN new = DOMAIN old
  /\ \A i \in DOMAIN old : /\ new[i].parent = old[i].parent
                           /\ new[i].grantedBy = old[i].grantedBy
                           /\ new[i].revoked <=> old[i].revoked \/ i \in S

\* Lifting and revoking leave the links.
LEMMA LiftedChains ==
  ASSUME NEW old, \A i \in DOMAIN old : old[i] \in StoredGrant, NEW S
  PROVE  /\ SameChains(old, LiftGrants(old), {})
         /\ SameChains(old, LiftGrants(RevokeAll(old, S)), S)
<1>1. SameChains(old, LiftGrants(old), {})
  BY DEF SameChains, LiftGrants, StoredGrant
<1>2. /\ DOMAIN RevokeAll(old, S) = DOMAIN old
      /\ \A i \in DOMAIN old : RevokeAll(old, S)[i] =
            IF i \in S THEN [old[i] EXCEPT !.revoked = TRUE] ELSE old[i]
  BY DEF RevokeAll
<1>3. \A i \in DOMAIN old : /\ RevokeAll(old, S)[i] \in StoredGrant
                            /\ RevokeAll(old, S)[i].parent = old[i].parent
                            /\ RevokeAll(old, S)[i].grantedBy = old[i].grantedBy
                            /\ RevokeAll(old, S)[i].revoked <=> old[i].revoked \/ i \in S
  BY <1>2 DEF StoredGrant
<1>4. \A i \in DOMAIN old : LiftGrants(RevokeAll(old, S))[i] =
         [RevokeAll(old, S)[i] EXCEPT !.lifted = TRUE]
  BY <1>2 DEF LiftGrants
<1>5. DOMAIN LiftGrants(RevokeAll(old, S)) = DOMAIN old
  BY <1>2 DEF LiftGrants
<1>6. SameChains(old, LiftGrants(RevokeAll(old, S)), S)
  BY <1>3, <1>4, <1>5 DEF SameChains, StoredGrant
<1>. QED BY <1>1, <1>6

\* So chains lead where they led.
LEMMA SameLineage ==
  ASSUME NEW old, NEW new, NEW S, SameChains(old, new, S), NEW i
  PROVE  Lineage(new, i) = Lineage(old, i)
<1>1. ParentEdges(new) = ParentEdges(old)
  BY DEF ParentEdges, SameChains
<1>. QED BY <1>1 DEF Lineage, SameChains

\* What a file's grants and the loaded ones have to do with each other.
AuthorityKept(f, d) ==
  /\ InForce(d.grants) \subseteq InForce(f.grants)
  /\ f.version # 5 => InForce(d.grants) \subseteq FromHuman(d.grants)
  /\ InForce(f.grants) \cap FromHuman(f.grants) \subseteq InForce(d.grants)

\* Loading a file makes it so: what version 4 revokes is the root of no chain that a human
\* started, and of every other one.
LEMMA LoadingKeeps ==
  ASSUME NEW f \in StoredFile, IssuedInOrder(f) PROVE AuthorityKept(f, Migrate(f))
<1> DEFINE new == Migrate(f).grants
           old == f.grants
<1>0. f.version \in 1..5
  BY DEF StoredFile
<1>1. /\ DOMAIN old \subseteq Nat \ {0} /\ NoParent \notin DOMAIN old
      /\ \A i \in DOMAIN old : old[i] \in StoredGrant
  BY FileGrants
<1>2. CASE f.version = 5
  <2>1. new = LiftGrants(old)
    BY <1>2 DEF Migrate, LoadV5, MigrateV4ToV5
  <2>2. SameChains(old, new, {})
    BY <1>1, <2>1, LiftedChains
  <2>. HIDE DEF new
  <2>3. \A i : Lineage(new, i) = Lineage(old, i)
    BY <2>2, SameLineage
  <2>4. \A i \in DOMAIN old : Lineage(old, i) \subseteq DOMAIN old
    BY LineageProperties
  <2>5. InForce(new) = InForce(old)
    BY <2>2, <2>3, <2>4 DEF InForce, SameChains
  <2>. QED BY <1>2, <2>5 DEF AuthorityKept, new
<1>3. CASE f.version = 4
  <2> DEFINE S == {i \in DOMAIN old : old[i].parent = NoParent /\ old[i].grantedBy \in Agents}
  <2>1. new = LiftGrants(RevokeAll(old, S))
    BY <1>3 DEF Migrate, MigrateV4ToV5, CloseUnsafeRoots
  <2>2. SameChains(old, new, S)
    BY <1>1, <2>1, LiftedChains
  <2>. HIDE DEF new
  <2>3. \A i : Lineage(new, i) = Lineage(old, i)
    BY <2>2, SameLineage
  <2>4. \A i \in DOMAIN old : Lineage(old, i) \subseteq DOMAIN old
    BY LineageProperties
  <2>5. InForce(new) \subseteq InForce(old)
    BY <2>2, <2>3, <2>4 DEF InForce, SameChains
  <2>6. ASSUME NEW i \in InForce(new) PROVE i \in FromHuman(new)
    <3>1. i \in DOMAIN old
      BY <2>2, <2>6 DEF InForce, SameChains
    <3>2. PICK j \in Lineage(old, i) : old[j].parent = NoParent
      BY <3>1, ChainHasRoot
    <3>3. j \in DOMAIN old /\ ~new[j].revoked
      BY <2>3, <2>4, <2>6, <3>1, <3>2 DEF InForce
    <3>4. old[j].grantedBy \in Humans
      BY <1>1, <2>2, <3>2, <3>3 DEF SameChains, StoredGrant, Principals
    <3>. QED BY <2>2, <2>3, <3>1, <3>2, <3>3, <3>4 DEF FromHuman, SameChains
  <2>7. ASSUME NEW i \in InForce(old), i \in FromHuman(old) PROVE i \in InForce(new)
    <3>1. i \in DOMAIN old
      BY DEF InForce
    <3>2. PICK h \in Lineage(old, i) : old[h].parent = NoParent /\ old[h].grantedBy \in Humans
      BY <2>7 DEF FromHuman
    <3>3. ASSUME NEW j \in Lineage(old, i) PROVE ~new[j].revoked
      <4>1. j \in DOMAIN old /\ ~old[j].revoked
        BY <2>4, <3>1 DEF InForce
      <4>2. j \notin S
        <5>1. SUFFICES ASSUME old[j].parent = NoParent, old[j].grantedBy \in Agents PROVE FALSE
          OBVIOUS
        <5>2. j = h
          BY <1>1, <3>1, <3>2, <5>1, RootIsUnique
        <5>. QED BY <3>2, <5>1, <5>2, PrincipalsAssumption
      <4>. QED BY <2>2, <4>1, <4>2 DEF SameChains
    <3>. QED BY <2>2, <2>3, <3>1, <3>3 DEF InForce, SameChains
  <2>. QED BY <2>5, <2>6, <2>7 DEF AuthorityKept, new
<1>4. CASE f.version < 4
  <2>1. old = <<>> /\ DOMAIN <<>> = {}
    BY <1>4 DEF IssuedInOrder
  <2>2. new = LiftGrants(<<>>)
    BY <1>0, <1>4 DEF Migrate, MigrateV4ToV5, MigrateV3ToV4
  <2>3. DOMAIN new = {}
    BY <2>1, <2>2 DEF LiftGrants
  <2>4. InForce(new) = {} /\ InForce(old) = {}
    BY <2>1, <2>3 DEF InForce
  <2>. QED BY <2>4 DEF AuthorityKept
<1>. QED BY <1>0, <1>2, <1>3, <1>4

\* Whatever the file, what is loaded has the current shape, gives the authority the file
\* justifies, and stays as it is.
LoadingInv ==
  database # Null => Loaded(database) /\ AuthorityKept(loadedFrom, database)
THEOREM LoadingInvariant == MigrationSpec => []LoadingInv
<1>1. MigrationInit => LoadingInv
  BY DEF MigrationInit, LoadingInv
<1>2. LoadingInv /\ [MigrationNext]_migrationVars => LoadingInv'
  <2> SUFFICES ASSUME LoadingInv, [MigrationNext]_migrationVars PROVE LoadingInv'
    OBVIOUS
  <2>1. CASE Load
    <3>1. PICK f \in StoredFile : /\ ChatsKept(f) /\ IssuedInOrder(f)
                                  /\ database' = Migrate(f) /\ loadedFrom' = f
      BY <2>1, MigrationAssumption DEF Load
    <3>2. f.version \in 1..5
      BY DEF StoredFile
    <3>3. Loaded(Migrate(f))
      BY <3>1, <3>2, LoadsVersion5, LoadsVersion4, LoadsVersion3, LoadsEarlyVersions
    <3>. QED BY <3>1, <3>3, LoadingKeeps DEF LoadingInv
  <2>2. CASE LoadAgain
    <3>1. UNCHANGED <<database, loadedFrom>>
      BY <2>2, LoadedIsLeft DEF LoadAgain, LoadingInv
    <3>. QED BY <3>1 DEF LoadingInv
  <2>3. CASE UNCHANGED migrationVars
    BY <2>3 DEF LoadingInv, migrationVars
  <2>. QED BY <2>1, <2>2, <2>3 DEF MigrationNext
<1>. QED BY <1>1, <1>2, PTL DEF MigrationSpec

\* Loading revives no chain of grants, takes none that a human started, and from a file of an
\* earlier version than 5 keeps no other (store.ts:183-304).
THEOREM LoadingKeepsAuthority == MigrationSpec => []LoadingKeepsHumanAuthority
<1>1. LoadingInv => LoadingKeepsHumanAuthority
  BY DEF LoadingInv, AuthorityKept, LoadingKeepsHumanAuthority
<1>. QED BY <1>1, LoadingInvariant, PTL

\* Whatever file is loaded, the data have the current shape, every agent and run has
\* its chat, and loading what was written changes nothing.
THEOREM LoadingIsComplete == MigrationSpec => []LoadedIsCurrent
<1>1. LoadingInv => LoadedIsCurrent
  <2> SUFFICES ASSUME Loaded(database) PROVE LoadedIsCurrent
    BY DEF LoadedIsCurrent, LoadingInv
  <2>1. database.version = 5 /\ database.memories = TRUE
    BY DEF Loaded
  <2>2. \A i \in DOMAIN database.grants : database.grants[i].lifted = TRUE
    BY DEF Loaded, GrantsLoaded
  <2>3. EveryAgentHasItsChat(database) /\ Migrate(database) = database
        /\ \A i \in DOMAIN database.runs : database.runs[i].by # Null
    BY LoadedIsLeft DEF Loaded, RunsLoaded
  <2>. QED BY <2>1, <2>2, <2>3 DEF LoadedIsCurrent
<1>. QED BY <1>1, LoadingInvariant, PTL
=============================================================================
