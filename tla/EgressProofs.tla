----------------------------- MODULE EgressProofs -----------------------------
(***************************************************************************)
(* Proofs about Egress, for any number of connections, checks, terminations *)
(* and places for held requests, and about the sidecar they go through     *)
(* (EgressNetwork), for any number of callers and restarts, and the        *)
(* addresses the proxy refuses (Addresses), for every address.             *)
(***************************************************************************)
EXTENDS Egress, EgressNetwork, Addresses, FiniteSetTheorems, SequenceTheorems, TLAPS

\* The counter is in its range and every variable has its type.
THEOREM EgressTypeCorrect == Spec => []TypeOK
<1>. USE EgressAssumption DEF TypeOK, Ask, Phases, Rules, vars, serverVars, askVars, proxyVars
<1>1. Init => TypeOK
  BY DEF Init
<1>2. TypeOK /\ [Next]_vars => TypeOK'
  <2>. SUFFICES ASSUME TypeOK, [Next]_vars PROVE TypeOK'
    OBVIOUS
  <2>1. CASE Server
    <3>1. CASE BeginRun \/ CancelEnds \/ StartAgent
      BY <3>1 DEF BeginRun, CancelEnds, StartAgent
    <3>2. CASE EndRun
      BY <3>2 DEF EndRun, Orphan
    <3>3. CASE CreateGrant \/ GrantEnds \/ Revoke \/ Kill \/ DrainFails
      BY <3>3 DEF CreateGrant, GrantEnds, Revoke, Kill, DrainFails, CancelAgent
    <3>4. CASE Drain
      BY <3>4 DEF Drain, CloseAll
    <3>. QED BY <2>1, <3>1, <3>2, <3>3, <3>4 DEF Server
  <2>2. ASSUME NEW a \in Asks, Answering(a) \/ EndHold(a, "approved") \/ RecordFails(a)
        PROVE  TypeOK'
    <3>1. CASE Authorize(a)
      BY <3>1 DEF Authorize, Platform, ByGrant, Flood, Hold, NobodyToAsk, Decide
    <3>2. CASE EndHold(a, "denied") \/ EndHold(a, "approved")
      BY <3>2 DEF EndHold, Decide
    <3>3. CASE Recorded(a)
      BY <3>3 DEF Recorded
    <3>4. CASE Blocked(a) \/ QuarantineReturns(a)
      BY <3>4 DEF Blocked, QuarantineReturns, Return, CancelAgent
    <3>5. CASE RecordFails(a)
      BY <3>5 DEF RecordFails
    <3>. QED BY <2>2, <3>1, <3>2, <3>3, <3>4, <3>5 DEF Answering
  <2>3. ASSUME NEW c \in Conns,
               Carrying(c) \/ Open(c) \/ TurnAway(c) \/ Connected(c)
               \/ UpstreamEnds(c) \/ AgentCloses(c)
        PROVE  TypeOK'
    <3>. <<c, 0>> \in Asks /\ <<c, "client">> \in Ends /\ <<c, "upstream">> \in Ends
      BY DEF Asks, Ends
    <3>. USE DEF End, Hangup
    <3>1. CASE Decided(c)
      BY <3>1 DEF Decided
    <3>2. CASE Abandon(c)
      BY <3>2 DEF Abandon
    <3>3. CASE Resolved(c)
      BY <3>3 DEF Resolved
    <3>4. CASE CloseEvent(c)
      BY <3>4 DEF CloseEvent
    <3>5. CASE Open(c)
      BY <3>5 DEF Open
    <3>6. CASE TurnAway(c)
      BY <3>6 DEF TurnAway
    <3>7. CASE Connected(c)
      BY <3>7 DEF Connected
    <3>8. CASE UpstreamEnds(c)
      BY <3>8 DEF UpstreamEnds
    <3>9. CASE AgentCloses(c)
      BY <3>9 DEF AgentCloses
    <3>. QED BY <2>3, <3>1, <3>2, <3>3, <3>4, <3>5, <3>6, <3>7, <3>8, <3>9 DEF Carrying
  <2>4. ASSUME NEW c \in Conns, NEW k \in 1..Rechecks, Recheck(c, k) \/ Rechecked(c, k)
        PROVE  TypeOK'
    <3>1. <<c, k>> \in Asks
      BY DEF Asks
    <3>2. CASE Recheck(c, k)
      BY <3>1, <3>2 DEF Recheck
    <3>3. CASE Rechecked(c, k)
      BY <3>1, <3>3 DEF Rechecked, Hangup
    <3>. QED BY <2>4, <3>2, <3>3
  <2>5. CASE UNCHANGED vars
    BY <2>5
  <2>. QED BY <2>1, <2>2, <2>3, <2>4, <2>5 DEF Next
<1>. QED BY <1>1, <1>2, PTL DEF Spec
-----------------------------------------------------------------------------
(* The inductive invariant.                                                *)

\* A connection that was not opened has asked nothing.
UnusedAsksNothing ==
  \A c \in Conns : stage[c] = "unused" => phase[Ask(c)] = "idle" /\ rule[Ask(c)] = "none"

\* Once the verdict on a connection has arrived it is positive and stays.
CarriedIsAllowed ==
  \A c \in Conns : stage[c] \in {"resolving", "connecting", "piping"} =>
    phase[Ask(c)] = "idle" /\ Allowed(Ask(c))

\* What carries bytes, or will without another check, is where a drain finds it.
CarriedIsTracked ==
  \A c \in Conns : stage[c] = "piping" \/ (stage[c] = "connecting" /\ c \notin Tunnels) =>
    <<c, "upstream">> \in live /\ born[c] = generation

\* Nothing is granted from the revocation to the next start of the Agent, and
\* whatever was granted before the drain was opened before it.
RevokedBeforeDrained ==
  /\ termination # "none" => grant # "live"
  /\ \A c \in Conns : born[c] <= generation
  /\ termination = "drained" =>
       \A c \in Conns : stage[c] # "unused" /\ born[c] = generation => rule[Ask(c)] # "granted"

IInv == TypeOK /\ UnusedAsksNothing /\ CarriedIsAllowed /\ CarriedIsTracked /\ RevokedBeforeDrained

-----------------------------------------------------------------------------
(* Every step preserves it.                                                *)

Rest == UnusedAsksNothing /\ CarriedIsAllowed /\ CarriedIsTracked /\ RevokedBeforeDrained

\* Where the variables of a connection are kept.
LEMMA OwnPlaces ==
  \A c \in Conns : <<c, 0>> \in Asks /\ <<c, "client">> \in Ends /\ <<c, "upstream">> \in Ends
BY EgressAssumption DEF Asks, Ends

\* A step of the server that asks, answers and closes nothing.
LEMMA ServerStep == ASSUME IInv, Server PROVE Rest'
<1>. USE DEF IInv, Rest, UnusedAsksNothing, CarriedIsAllowed, CarriedIsTracked,
             RevokedBeforeDrained, Allowed, TypeOK, serverVars, askVars, proxyVars
<1>1. CASE BeginRun \/ CancelEnds \/ StartAgent \/ CreateGrant \/ GrantEnds
  BY <1>1 DEF BeginRun, CancelEnds, StartAgent, CreateGrant, GrantEnds
<1>2. CASE EndRun
  <2>. \A c \in Conns : Ask(c) \in Asks
    BY OwnPlaces DEF Ask
  <2>. QED BY <1>2 DEF EndRun, Orphan
<1>3. CASE Revoke \/ Kill \/ DrainFails
  BY <1>3 DEF Revoke, Kill, DrainFails
<1>4. CASE Drain
  <2>1. \A c \in Conns : born'[c] # generation'
    BY <1>4 DEF Drain, CloseAll
  <2>2. \A c \in Conns : stage'[c] = stage[c] \/ stage'[c] = "over"
    BY <1>4 DEF Drain, CloseAll
  <2>3. \A c \in Conns : ~(stage'[c] = "piping" \/ (stage'[c] = "connecting" /\ c \notin Tunnels))
    BY <1>4 DEF Drain, CloseAll
  <2>. QED BY <1>4, <2>1, <2>2, <2>3 DEF Drain, CloseAll
<1>. QED BY <1>1, <1>2, <1>3, <1>4 DEF Server

\* A step of the authorizer: it disturbs no question that is idle.
LEMMA AuthorizerStep ==
  ASSUME IInv, NEW a \in Asks, Answering(a) \/ EndHold(a, "approved") \/ RecordFails(a)
  PROVE  Rest'
<1>. USE DEF IInv, TypeOK, serverVars, askVars, proxyVars
<1>1. phase[a] # "idle"
  BY DEF Answering, Authorize, EndHold, Recorded, Blocked, QuarantineReturns, RecordFails
<1>2. UNCHANGED <<proxyVars, termination, grant>>
  BY DEF Answering, Authorize, EndHold, Recorded, Blocked, QuarantineReturns, RecordFails
<1>3. \A b \in Asks \ {a} : phase'[b] = phase[b] /\ rule'[b] = rule[b]
  BY DEF Answering, Authorize, Platform, ByGrant, Flood, Hold, NobodyToAsk, Decide, EndHold,
         Recorded, Blocked, QuarantineReturns, Return, RecordFails
<1>4. rule'[a] = "granted" => grant = "live" \/ rule[a] = "granted"
  BY DEF Answering, Authorize, Platform, ByGrant, Flood, Hold, NobodyToAsk, Decide, EndHold,
         Recorded, Blocked, QuarantineReturns, Return, RecordFails
<1>5. \A c \in Conns : Ask(c) \in Asks
  BY OwnPlaces DEF Ask
<1>. QED BY <1>1, <1>2, <1>3, <1>4, <1>5
         DEF Rest, UnusedAsksNothing, CarriedIsAllowed, CarriedIsTracked, RevokedBeforeDrained, Allowed

\* A step of the proxy that ends one connection or carries it further.
LEMMA ConnectionStep ==
  ASSUME IInv, NEW c \in Conns, UNCHANGED <<serverVars, generation, born>>,
         \A d \in Conns \ {c} :
           /\ stage'[d] = stage[d] /\ rule'[<<d, 0>>] = rule[<<d, 0>>]
           /\ phase'[<<d, 0>>] = phase[<<d, 0>>]
           /\ <<d, "upstream">> \in live => <<d, "upstream">> \in live',
         \/ stage'[c] = "over" /\ rule'[<<c, 0>>] = "none"
         \/ /\ rule'[<<c, 0>>] = rule[<<c, 0>>]
            /\ stage'[c] = "unused" => stage[c] = "unused" /\ phase'[<<c, 0>>] = phase[<<c, 0>>]
            /\ stage'[c] \in {"resolving", "connecting", "piping"} =>
                 phase'[<<c, 0>>] = "idle" /\ rule[<<c, 0>>] \in {"platform", "granted", "approved"}
            /\ stage'[c] = "piping" \/ (stage'[c] = "connecting" /\ c \notin Tunnels)
                 => <<c, "upstream">> \in live' /\ born[c] = generation
  PROVE  Rest'
<1>. USE DEF IInv, Ask, TypeOK, serverVars
<1>1. UnusedAsksNothing'
  BY DEF UnusedAsksNothing
<1>2. CarriedIsAllowed'
  BY DEF CarriedIsAllowed, Allowed
<1>3. CarriedIsTracked'
  BY DEF CarriedIsTracked
<1>4. RevokedBeforeDrained'
  BY DEF RevokedBeforeDrained, UnusedAsksNothing
<1>. QED BY <1>1, <1>2, <1>3, <1>4 DEF Rest

\* A step of the proxy, which concerns one connection.
LEMMA ProxyStep ==
  ASSUME IInv, NEW c \in Conns,
         \/ Carrying(c) \/ Open(c) \/ TurnAway(c) \/ Connected(c)
         \/ UpstreamEnds(c) \/ AgentCloses(c)
         \/ \E k \in 1..Rechecks : Recheck(c, k) \/ Rechecked(c, k)
  PROVE  Rest'
<1>. USE OwnPlaces DEF IInv, Rest, UnusedAsksNothing, CarriedIsAllowed, CarriedIsTracked,
                       RevokedBeforeDrained, Allowed, Ask, TypeOK, serverVars, askVars,
                       proxyVars, End, Hangup
<1>1. CASE Decided(c)
  <2>1. UNCHANGED <<serverVars, generation, live, born>>
    BY <1>1 DEF Decided
  <2>2. \A d \in Conns : phase'[<<d, 0>>] = IF d = c THEN "idle" ELSE phase[<<d, 0>>]
    BY <1>1 DEF Decided
  <2>3. \A d \in Conns \ {c} : stage'[d] = stage[d] /\ rule'[<<d, 0>>] = rule[<<d, 0>>]
    BY <1>1 DEF Decided
  <2>4. \/ stage'[c] = "resolving" /\ rule' = rule /\ rule[<<c, 0>>] \in {"platform", "granted", "approved"}
        \/ stage'[c] = "over" /\ rule'[<<c, 0>>] = "none"
    BY <1>1 DEF Decided
  <2>. QED BY ONLY <2>1, <2>2, <2>3, <2>4, ConnectionStep, IInv
<1>2. CASE Abandon(c)
  BY <1>2 DEF Abandon
<1>3. CASE Resolved(c) \/ Connected(c)
  <2>1. UNCHANGED <<serverVars, generation, born, phase>>
    BY <1>3 DEF Resolved, Connected
  <2>2. /\ live \subseteq live' /\ stage[c] \in {"resolving", "connecting"}
        /\ \A d \in Conns \ {c} : stage'[d] = stage[d] /\ rule'[<<d, 0>>] = rule[<<d, 0>>]
    BY <1>3 DEF Resolved, Connected
  <2>3. \/ stage'[c] = "over" /\ rule'[<<c, 0>>] = "none"
        \/ /\ rule' = rule /\ stage'[c] \in {"connecting", "piping"}
           /\ stage'[c] = "piping" \/ c \notin Tunnels
                => <<c, "upstream">> \in live' /\ born[c] = generation
    BY <1>3 DEF Resolved, Connected, Current
  <2>4. phase[<<c, 0>>] = "idle" /\ rule[<<c, 0>>] \in {"platform", "granted", "approved"}
    BY <2>2
  <2>. QED BY ONLY <2>1, <2>2, <2>3, <2>4, ConnectionStep, IInv
<1>4. CASE CloseEvent(c)
  <2>1. UNCHANGED <<serverVars, generation, born, phase>>
    BY <1>4 DEF CloseEvent
  <2>2. \A d \in Conns \ {c} :
          /\ stage'[d] = stage[d] /\ rule'[<<d, 0>>] = rule[<<d, 0>>]
          /\ phase'[<<d, 0>>] = phase[<<d, 0>>]
          /\ <<d, "upstream">> \in live => <<d, "upstream">> \in live'
    BY <1>4 DEF CloseEvent
  <2>3. \/ stage'[c] = "over" /\ rule'[<<c, 0>>] = "none"
        \/ /\ stage' = stage /\ rule' = rule
           /\ <<c, "upstream">> \in live => <<c, "upstream">> \in live'
    BY <1>4 DEF CloseEvent
  <2>4. \/ stage'[c] = "over" /\ rule'[<<c, 0>>] = "none"
        \/ /\ rule'[<<c, 0>>] = rule[<<c, 0>>]
           /\ stage'[c] = "unused" => stage[c] = "unused" /\ phase'[<<c, 0>>] = phase[<<c, 0>>]
           /\ stage'[c] \in {"resolving", "connecting", "piping"} =>
                phase'[<<c, 0>>] = "idle" /\ rule[<<c, 0>>] \in {"platform", "granted", "approved"}
           /\ stage'[c] = "piping" \/ (stage'[c] = "connecting" /\ c \notin Tunnels)
                => <<c, "upstream">> \in live' /\ born[c] = generation
    BY <2>1, <2>3
  <2>5. UNCHANGED <<serverVars, generation, born>>
    BY <2>1
  <2>. QED BY ONLY <2>2, <2>4, <2>5, ConnectionStep, IInv
<1>5. CASE Open(c)
  BY <1>5 DEF Open
<1>6. CASE TurnAway(c)
  BY <1>6 DEF TurnAway
<1>7. CASE UpstreamEnds(c)
  BY <1>7 DEF UpstreamEnds
<1>8. CASE AgentCloses(c)
  BY <1>8 DEF AgentCloses
<1>9. ASSUME NEW k \in 1..Rechecks, Recheck(c, k) \/ Rechecked(c, k)
       PROVE  Rest'
  <2>1. <<c, k>> \in Asks /\ \A d \in Conns : <<d, 0>> # <<c, k>>
    BY DEF Asks
  <2>2. CASE Recheck(c, k)
    BY <2>1, <2>2 DEF Recheck
  <2>3. CASE Rechecked(c, k)
    BY <2>1, <2>3 DEF Rechecked
  <2>. QED BY <1>9, <2>2, <2>3
<1>. QED BY <1>1, <1>2, <1>3, <1>4, <1>5, <1>6, <1>7, <1>8, <1>9 DEF Carrying

\* The inductive invariant holds in every reachable state.
THEOREM EgressInvariant == Spec => []IInv
<1>1. Init => Rest
  BY EgressAssumption DEF Init, Rest, UnusedAsksNothing, CarriedIsAllowed, CarriedIsTracked,
         RevokedBeforeDrained, Ask, Asks
<1>2. IInv /\ [Next]_vars => Rest'
  <2>. SUFFICES ASSUME IInv, [Next]_vars PROVE Rest'
    OBVIOUS
  <2>1. CASE UNCHANGED vars
    BY <2>1 DEF vars, serverVars, askVars, proxyVars, IInv, Rest, UnusedAsksNothing,
                CarriedIsAllowed, CarriedIsTracked, RevokedBeforeDrained, Allowed
  <2>2. CASE Next
    BY <2>2, ServerStep, AuthorizerStep, ProxyStep DEF Next
  <2>. QED BY <2>1, <2>2
<1>3. IInv <=> TypeOK /\ Rest
  BY DEF IInv, Rest
<1>. QED BY <1>1, <1>2, <1>3, EgressTypeCorrect, PTL DEF Spec

\* A drained principal stays closed: no connection opened before the drain
\* carries a byte after it, however its checks interleave with the drain.
THEOREM DrainCloses == Spec => []DrainedStaysClosed
<1>1. IInv => DrainedStaysClosed
  BY DEF IInv, CarriedIsTracked, DrainedStaysClosed
<1>. QED BY <1>1, EgressInvariant, PTL

\* Revoking before draining leaves nothing that flows by a grant.
THEOREM RevokedThenDrained == Spec => []NothingFlowsOnRevokedAuthority
<1>1. IInv => NothingFlowsOnRevokedAuthority
  BY DEF IInv, CarriedIsTracked, CarriedIsAllowed, Allowed, RevokedBeforeDrained,
         NothingFlowsOnRevokedAuthority
<1>. QED BY <1>1, EgressInvariant, PTL

-----------------------------------------------------------------------------
(* Held requests.                                                          *)

\* The requests that wait are finitely many.
LEMMA WaitingFinite == IsFiniteSet(Waiting) /\ Cardinality(Waiting) \in Nat
<1>1. IsFiniteSet(Asks)
  <2>1. IsFiniteSet(0..Rechecks)
    BY EgressAssumption, FS_Interval
  <2>. QED BY <2>1, EgressAssumption, FS_Product DEF Asks
<1>2. Waiting \in SUBSET Asks
  BY DEF Waiting
<1>. QED BY <1>1, <1>2, FS_Subset, FS_CardinalityType

\* A step that moves no request in or out of Waiting, and counts none in.
LEMMA CountStays ==
  ASSUME TypeOK, CountNeverOverstates,
         heldByAgent' \in {0, heldByAgent},
         \A a \in Asks : (phase[a] \in {"held", "orphaned"}) <=> (phase'[a] \in {"held", "orphaned"})
  PROVE  CountNeverOverstates'
<1>1. Waiting' = Waiting
  BY DEF Waiting
<1>. QED BY <1>1, WaitingFinite DEF CountNeverOverstates, TypeOK

\* The count never exceeds the requests that wait, for any cap and any number
\* of requests, orphaned by their runs or forgotten by a start of the Agent.
THEOREM CountIsHonest == Spec => []CountNeverOverstates
<1>. USE DEF vars, serverVars, askVars, proxyVars
<1>1. Init => CountNeverOverstates
  BY WaitingFinite DEF Init, CountNeverOverstates
<1>2. TypeOK /\ UnusedAsksNothing /\ CountNeverOverstates /\ [Next]_vars => CountNeverOverstates'
  <2>. SUFFICES ASSUME TypeOK, UnusedAsksNothing, CountNeverOverstates, [Next]_vars
                      PROVE  CountNeverOverstates'
    OBVIOUS
  <2>1. CASE Server
    <3>1. CASE EndRun
      BY <3>1, CountStays DEF EndRun, Orphan
    <3>2. CASE BeginRun \/ CancelEnds \/ StartAgent \/ CreateGrant \/ GrantEnds \/ Revoke
               \/ Kill \/ Drain \/ DrainFails
      BY <3>2, CountStays DEF BeginRun, CancelEnds, StartAgent, CreateGrant, GrantEnds, Revoke,
                              Kill, Drain, DrainFails
    <3>. QED BY <2>1, <3>1, <3>2 DEF Server
  <2>2. ASSUME NEW a \in Asks, Authorize(a)
        PROVE  CountNeverOverstates'
    <3>. USE <2>2 DEF Authorize, TypeOK
    <3>1. CASE Hold(a)
      <4>1. Waiting' = Waiting \cup {a} /\ a \notin Waiting /\ heldByAgent' = heldByAgent + 1
        BY <3>1 DEF Hold, Waiting
      <4>2. Cardinality(Waiting') = Cardinality(Waiting) + 1
        BY <4>1, WaitingFinite, FS_AddElement
      <4>. QED BY <4>1, <4>2, WaitingFinite DEF CountNeverOverstates
    <3>2. CASE Platform(a) \/ ByGrant(a) \/ Flood(a) \/ NobodyToAsk(a)
      BY <3>2, CountStays DEF Platform, ByGrant, Flood, NobodyToAsk, Decide
    <3>. QED BY <2>2, <3>1, <3>2
  <2>3. ASSUME NEW a \in Asks, NEW r \in Rules, EndHold(a, r)
        PROVE  CountNeverOverstates'
    <3>1. Waiting' = Waiting \ {a} /\ a \in Waiting
      BY <2>3 DEF EndHold, Decide, Waiting, TypeOK
    <3>2. heldByAgent' = IF heldByAgent > 0 THEN heldByAgent - 1 ELSE 0
      BY <2>3 DEF EndHold
    <3>3. Cardinality(Waiting') = Cardinality(Waiting) - 1 /\ Cardinality(Waiting') \in Nat
      BY <3>1, WaitingFinite, FS_RemoveElement, FS_CardinalityType
    <3>. QED BY <3>2, <3>3, WaitingFinite DEF CountNeverOverstates, TypeOK
  <2>4. ASSUME NEW a \in Asks, Recorded(a) \/ Blocked(a) \/ QuarantineReturns(a) \/ RecordFails(a)
        PROVE  CountNeverOverstates'
    BY <2>4, CountStays DEF Recorded, Blocked, QuarantineReturns, RecordFails, Return, TypeOK
  <2>5. ASSUME NEW c \in Conns,
               Carrying(c) \/ Open(c) \/ TurnAway(c) \/ Connected(c)
               \/ UpstreamEnds(c) \/ AgentCloses(c)
        PROVE  CountNeverOverstates'
    <3>. <<c, 0>> \in Asks
      BY EgressAssumption DEF Asks
    <3>1. CASE Open(c)
      <4>1. phase[<<c, 0>>] = "idle" /\ phase' = [phase EXCEPT ![<<c, 0>>] = "sent"]
        BY <3>1 DEF Open, UnusedAsksNothing, Ask
      <4>. QED BY <4>1, <3>1, CountStays DEF Open, TypeOK
    <3>2. CASE Carrying(c)
      BY <3>2, CountStays DEF Carrying, Decided, Abandon, Resolved, CloseEvent, Ask, TypeOK
    <3>3. CASE TurnAway(c) \/ Connected(c) \/ UpstreamEnds(c) \/ AgentCloses(c)
      BY <3>3, CountStays DEF TurnAway, Connected, UpstreamEnds, AgentCloses
    <3>. QED BY <2>5, <3>1, <3>2, <3>3
  <2>6. ASSUME NEW c \in Conns, NEW k \in 1..Rechecks, Recheck(c, k) \/ Rechecked(c, k)
        PROVE  CountNeverOverstates'
    <3>. <<c, k>> \in Asks
      BY EgressAssumption DEF Asks
    <3>. QED BY <2>6, CountStays DEF Recheck, Rechecked, TypeOK
  <2>7. CASE UNCHANGED vars
    BY <2>7, CountStays
  <2>. QED BY <2>1, <2>2, <2>3, <2>4, <2>5, <2>6, <2>7 DEF Next, Answering, Rules
<1>3. IInv => TypeOK /\ UnusedAsksNothing
  BY DEF IInv
<1>. QED BY <1>1, <1>2, <1>3, EgressInvariant, PTL DEF Spec

-----------------------------------------------------------------------------
(* Strikes.                                                                *)

\* A step that counts no strike, returns from no authorize and brings no
\* stopped Agent back.
LEMMA StrikesStay ==
  ASSUME ThresholdQuarantines, strikesByAgent' \in {0, strikesByAgent}, strikes' = strikes,
         \A b \in Asks : phase'[b] = "quarantining" => phase[b] = "quarantining",
         agent \in {"cancelling", "stopped"} =>
           agent' \in {"cancelling", "stopped"} \/ strikesByAgent' = 0
  PROVE  ThresholdQuarantines'
<1>1. Threshold \in Nat \ {0}
  BY EgressAssumption
<1>2. CASE strikesByAgent' = 0
  BY <1>1, <1>2 DEF ThresholdQuarantines
<1>3. CASE strikesByAgent' = strikesByAgent
  BY <1>3, <1>1 DEF ThresholdQuarantines
<1>. QED BY <1>2, <1>3

\* With Threshold denials an Agent is cancelled, stopped, or an answer is on
\* its way, for any threshold and any overlap of requests, failed writes,
\* quarantines and starts.
THEOREM ThresholdIsKept == Spec => []ThresholdQuarantines
<1>. USE DEF vars, serverVars, askVars, proxyVars
<1>1. Init => ThresholdQuarantines
  BY EgressAssumption DEF Init, ThresholdQuarantines
<1>2. TypeOK /\ ThresholdQuarantines /\ [Next]_vars => ThresholdQuarantines'
  <2>. SUFFICES ASSUME TypeOK, ThresholdQuarantines, [Next]_vars
                PROVE  ThresholdQuarantines'
    OBVIOUS
  <2>1. CASE Server
    <3>1. CASE EndRun
      BY <3>1, StrikesStay DEF EndRun, Orphan
    <3>2. CASE BeginRun \/ CancelEnds \/ CreateGrant \/ GrantEnds \/ Revoke \/ Drain \/ DrainFails
      BY <3>2, StrikesStay DEF BeginRun, CancelEnds, CreateGrant, GrantEnds, Revoke, Drain, DrainFails
    <3>3. CASE StartAgent
      BY <3>3, StrikesStay DEF StartAgent
    <3>4. CASE Kill
      BY <3>4, StrikesStay DEF Kill, CancelAgent
    <3>. QED BY <2>1, <3>1, <3>2, <3>3, <3>4 DEF Server
  <2>2. ASSUME NEW a \in Asks, NEW r \in Rules,
               Authorize(a) \/ EndHold(a, r) \/ RecordFails(a)
        PROVE  ThresholdQuarantines'
    BY <2>2, StrikesStay DEF Authorize, Platform, ByGrant, Flood, Hold, NobodyToAsk, EndHold,
                             Decide, RecordFails, TypeOK
  <2>3. ASSUME NEW a \in Asks, Recorded(a) PROVE ThresholdQuarantines'
    <3>1. CASE Allowed(a)
      BY <2>3, <3>1, StrikesStay DEF Recorded, TypeOK
    <3>2. CASE ~Allowed(a)
      <4>1. /\ phase' = [phase EXCEPT ![a] = "blocking"]
            /\ strikesByAgent' = strikesByAgent + 1
            /\ strikes' = [strikes EXCEPT ![a] = strikesByAgent + 1]
        BY <2>3, <3>2 DEF Recorded
      <4>2. strikes'[a] = strikesByAgent' /\ phase'[a] = "blocking"
        BY <4>1 DEF TypeOK
      <4>. QED BY <4>2 DEF ThresholdQuarantines
    <3>. QED BY <3>1, <3>2
  <2>4. ASSUME NEW a \in Asks, Blocked(a) PROVE ThresholdQuarantines'
    <3>1. CASE strikes[a] >= Threshold
      <4>1. Threshold \in Nat /\ strikes[a] \in Nat
        BY EgressAssumption DEF TypeOK
      <4>2. agent' \in {"cancelling", "stopped"}
        BY <2>4, <3>1, <4>1 DEF Blocked, CancelAgent
      <4>. QED BY <4>2 DEF ThresholdQuarantines
    <3>2. CASE ~(strikes[a] >= Threshold)
      <4>1. UNCHANGED <<agent, strikesByAgent>> /\ Return(a)
        BY <2>4, <3>2 DEF Blocked
      <4>2. \A b \in Asks \ {a} : strikes'[b] = strikes[b] /\ phase'[b] = phase[b]
        BY <4>1 DEF Return, TypeOK
      <4>. QED BY <3>2, <4>1, <4>2 DEF ThresholdQuarantines
    <3>. QED BY <3>1, <3>2
  <2>5. ASSUME NEW a \in Asks, QuarantineReturns(a) PROVE ThresholdQuarantines'
    <3>1. UNCHANGED <<agent, strikesByAgent>> /\ phase[a] = "quarantining"
      BY <2>5 DEF QuarantineReturns
    <3>2. \A b \in Asks \ {a} : strikes'[b] = strikes[b] /\ phase'[b] = phase[b]
      BY <2>5 DEF QuarantineReturns, Return, TypeOK
    <3>. QED BY <3>1, <3>2 DEF ThresholdQuarantines
  <2>6. ASSUME NEW c \in Conns,
               Carrying(c) \/ Open(c) \/ TurnAway(c) \/ Connected(c)
               \/ UpstreamEnds(c) \/ AgentCloses(c)
        PROVE  ThresholdQuarantines'
    <3>1. CASE Open(c)
      BY <3>1, StrikesStay DEF Open, Ask, TypeOK
    <3>2. CASE Carrying(c)
      BY <3>2, StrikesStay DEF Carrying, Decided, Abandon, Resolved, CloseEvent, Ask, TypeOK
    <3>3. CASE TurnAway(c) \/ Connected(c) \/ UpstreamEnds(c) \/ AgentCloses(c)
      BY <3>3, StrikesStay DEF TurnAway, Connected, UpstreamEnds, AgentCloses
    <3>. QED BY <2>6, <3>1, <3>2, <3>3
  <2>7. ASSUME NEW c \in Conns, NEW k \in 1..Rechecks, Recheck(c, k) \/ Rechecked(c, k)
        PROVE  ThresholdQuarantines'
    BY <2>7, StrikesStay DEF Recheck, Rechecked, TypeOK
  <2>8. CASE UNCHANGED vars
    BY <2>8, StrikesStay
  <2>. QED BY <2>1, <2>2, <2>3, <2>4, <2>5, <2>6, <2>7, <2>8 DEF Next, Answering, Rules
<1>. QED BY <1>1, <1>2, EgressTypeCorrect, PTL DEF Spec

-----------------------------------------------------------------------------
(* The sidecar.                                                            *)

\* Once this process has created the container, and as long as it believes that
\* it has, the container is its own.
OwnOnceMade ==
  /\ ready = TRUE => maker = server
  /\ pending \in {"connecting", "waiting", "done"} => maker = server

NetworkInv == NetworkTypeOK /\ OwnOnceMade

\* Types, and whose container it is, hold in every reachable state.
THEOREM NetworkInvariant == NetworkSpec => []NetworkInv
<1>. USE NetworkAssumption DEF NetworkInv, NetworkTypeOK, OwnOnceMade, ProvisionSteps,
                               networkVars, sidecar
<1>1. NetworkInit => NetworkInv
  <2>. SUFFICES ASSUME NetworkInit PROVE NetworkInv
    OBVIOUS
  <2>1. NetworkTypeOK
    BY DEF NetworkInit
  <2>2. ~(ready = TRUE)
    BY Zenon DEF NetworkInit
  <2>. QED BY <2>1, <2>2 DEF NetworkInit
<1>2. NetworkInv /\ [NetworkNext]_networkVars => NetworkInv'
  <2>. SUFFICES ASSUME NetworkInv, [NetworkNext]_networkVars PROVE NetworkInv'
    OBVIOUS
  <2>1. CASE Check
    BY <2>1 DEF Check, Advance
  <2>2. CASE CreateNetwork("internal", "uplink") \/ CreateNetwork("uplink", "removing")
    BY <2>2 DEF CreateNetwork, Advance
  <2>3. CASE RemoveProxy \/ RunProxy \/ ConnectUplink
    BY <2>3 DEF RemoveProxy, RunProxy, ConnectUplink, Advance
  <2>4. CASE Heard \/ ProvisionFails
    BY <2>4 DEF Heard, ProvisionFails, Advance
  <2>5. CASE Settle
    BY <2>5 DEF Settle
  <2>6. CASE ProxyListens \/ ProxyExits
    BY <2>6 DEF ProxyListens, ProxyExits, Running
  <2>7. CASE ShutDown \/ ServerStartsAgain
    <3>1. ~(ready' = TRUE)
      BY <2>7, Zenon DEF ShutDown, ServerStartsAgain
    <3>2. CASE ShutDown
      BY <3>1, <3>2 DEF ShutDown
    <3>3. CASE ServerStartsAgain
      <4>1. /\ ready' = FALSE /\ stopping' = FALSE /\ pending' = "none"
            /\ server' = server + 1
        BY ONLY <3>3, Zenon DEF ServerStartsAgain
      <4>2. /\ ensuring' = [c \in Callers |-> "idle"]
            /\ UNCHANGED <<network, proxy, uplinked, maker>>
        BY <3>3 DEF ServerStartsAgain
      <4>3. ready' \in BOOLEAN /\ stopping' \in BOOLEAN
        BY ONLY <4>1, Zenon
      <4>4. server' \in Nat
        BY <4>1
      <4>. QED BY <3>1, <4>1, <4>2, <4>3, <4>4
    <3>. QED BY <2>7, <3>2, <3>3
  <2>8. ASSUME NEW c \in Callers, Ensure(c) \/ CallAgain(c)
        PROVE  NetworkInv'
    BY <2>8 DEF Ensure, CallAgain
  <2>9. CASE UNCHANGED networkVars
    BY <2>9
  <2>. QED BY <2>1, <2>2, <2>3, <2>4, <2>5, <2>6, <2>7, <2>8, <2>9 DEF NetworkNext, Provision
<1>. QED BY <1>1, <1>2, PTL DEF NetworkSpec

\* Nobody is handed the container of an earlier server process, however the
\* calls, failures, shutdowns and restarts overlap.
THEOREM EnsuredCorrect == NetworkSpec => EnsuredIsOwn
<1>1. NetworkInv /\ [NetworkNext]_networkVars =>
        [\A c \in Callers : ensuring[c] = "waiting" /\ ensuring'[c] = "ensured"
                              => maker = server]_networkVars
  <2>. SUFFICES ASSUME NetworkInv, NetworkNext,
                       NEW c \in Callers, ensuring[c] = "waiting", ensuring'[c] = "ensured"
                PROVE  maker = server
    OBVIOUS
  <2>. USE DEF NetworkInv, NetworkTypeOK
  <2>1. CASE Settle
    BY <2>1 DEF Settle, OwnOnceMade
  <2>2. ~ UNCHANGED ensuring
    OBVIOUS
  <2>3. ASSUME NEW d \in Callers, Ensure(d) \/ CallAgain(d)
        PROVE  FALSE
    BY <2>3 DEF Ensure, CallAgain
  <2>4. ~ServerStartsAgain
    BY DEF ServerStartsAgain
  <2>5. CASE Provision
    BY <2>1, <2>2, <2>5 DEF Provision, Check, CreateNetwork, RemoveProxy, RunProxy, ConnectUplink,
                            Heard, ProvisionFails
  <2>. QED BY <2>2, <2>3, <2>4, <2>5 DEF NetworkNext, ProxyListens, ProxyExits, ShutDown
<1>. QED BY <1>1, NetworkInvariant, PTL DEF NetworkSpec, EnsuredIsOwn
-----------------------------------------------------------------------------
(* Addresses.                                                              *)

Octet == 0..255

\* The words of an address, by their bounds.
LEMMA WordBounds ==
  /\ \A w \in Word : w \in Int /\ 0 <= w /\ w <= 65535
  /\ 0 \in Word /\ 1 \in Word
BY DEF Word

\* The two octets of a word.
LEMMA Halves == ASSUME NEW w \in Word PROVE High(w) \in Octet /\ Low(w) \in Octet
<1>1. w \in Int /\ 0 <= w /\ w <= 65535
  BY WordBounds
<1>2. w \div 256 \in 0..255
  BY <1>1
<1>3. w % 256 \in 0..255
  BY <1>1
<1>. QED BY <1>2, <1>3 DEF Octet, High, Low

\* The refused IPv4 addresses are those of the blocks.
LEMMA IPv4Blocks ==
  ASSUME NEW a \in Octet, NEW b \in Octet
  PROVE  IsPrivateIPv4(a, b) <=> ReservedIPv4(a, b)
<1>. USE DEF Octet
<1>1. InBlock(a, b, <<0, 0, 8>>) <=> a = 0
  <2>. 2 ^ (16 - 8) = 256
    OBVIOUS
  <2>. QED BY DEF InBlock
<1>2. InBlock(a, b, <<10, 0, 8>>) <=> a = 10
  <2>. 2 ^ (16 - 8) = 256
    OBVIOUS
  <2>. QED BY DEF InBlock
<1>3. InBlock(a, b, <<127, 0, 8>>) <=> a = 127
  <2>. 2 ^ (16 - 8) = 256
    OBVIOUS
  <2>. QED BY DEF InBlock
<1>4. InBlock(a, b, <<100, 64, 10>>) <=> a = 100 /\ b \in 64..127
  <2>. 2 ^ (16 - 10) = 64
    OBVIOUS
  <2>. QED BY DEF InBlock
<1>5. InBlock(a, b, <<169, 254, 16>>) <=> a = 169 /\ b = 254
  <2>. 2 ^ (16 - 16) = 1
    OBVIOUS
  <2>. QED BY DEF InBlock
<1>6. InBlock(a, b, <<172, 16, 12>>) <=> a = 172 /\ b \in 16..31
  <2>. 2 ^ (16 - 12) = 16
    OBVIOUS
  <2>. QED BY DEF InBlock
<1>7. InBlock(a, b, <<192, 168, 16>>) <=> a = 192 /\ b = 168
  <2>. 2 ^ (16 - 16) = 1
    OBVIOUS
  <2>. QED BY DEF InBlock
<1>8. InBlock(a, b, <<224, 0, 3>>) <=> a >= 224
  <2>. 2 ^ (16 - 3) = 8192
    OBVIOUS
  <2>. QED BY DEF InBlock
<1>9. ReservedIPv4(a, b) <=>
        \/ InBlock(a, b, <<0, 0, 8>>) \/ InBlock(a, b, <<10, 0, 8>>)
        \/ InBlock(a, b, <<127, 0, 8>>) \/ InBlock(a, b, <<100, 64, 10>>)
        \/ InBlock(a, b, <<169, 254, 16>>) \/ InBlock(a, b, <<172, 16, 12>>)
        \/ InBlock(a, b, <<192, 168, 16>>) \/ InBlock(a, b, <<224, 0, 3>>)
  BY ONLY ZenonT(60) DEF ReservedIPv4, Blocks
<1>. QED BY <1>1, <1>2, <1>3, <1>4, <1>5, <1>6, <1>7, <1>8, <1>9 DEF IsPrivateIPv4

\* A mask of leading ones selects the addresses between two bounds.
LEMMA Masks ==
  ASSUME NEW w \in Word
  PROVE  /\ Masked(w, 64) = \hFE80 <=> w \in \hFE80..\hFEBF
         /\ Masked(w, 512) = \hFC00 <=> w \in \hFC00..\hFDFF
         /\ Masked(w, 256) = \hFF00 <=> w \in \hFF00..\hFFFF
<1>1. w \in Int /\ 0 <= w /\ w <= 65535
  BY WordBounds
<1>2. w - (w % 64) = \hFE80 <=> w \in \hFE80..\hFEBF
  BY <1>1
<1>3. w - (w % 512) = \hFC00 <=> w \in \hFC00..\hFDFF
  BY <1>1
<1>4. w - (w % 256) = \hFF00 <=> w \in \hFF00..\hFFFF
  BY <1>1
<1>. QED BY <1>2, <1>3, <1>4 DEF Masked

\* An address is a sequence of eight words.
LEMMA AddressIsSeq ==
  ASSUME NEW w \in [1..8 -> Word]
  PROVE  w \in Seq(Int) /\ Len(w) = 8
<1>1. w \in [1..8 -> Int]
  BY WordBounds
<1>2. w \in Seq(Int)
  BY <1>1, SeqDef
<1>3. DOMAIN w = 1..8
  BY <1>1
<1>. QED BY <1>2, <1>3, LenProperties

\* What a run of words of an address is.
LEMMA Run ==
  ASSUME NEW w \in [1..8 -> Word], NEW i \in 1..9, NEW j \in 0..8
  PROVE  /\ SubSeq(w, i, j) \in Seq(Int)
         /\ Len(SubSeq(w, i, j)) = IF i <= j THEN j - i + 1 ELSE 0
         /\ \A k \in 1..(j - i + 1) : SubSeq(w, i, j)[k] = w[i + k - 1]
<1>1. \A k \in 1..8 : w[k] \in Int
  BY WordBounds
<1>2. \A k \in i..j : w[k] \in Int
  BY <1>1
<1>. QED BY <1>2, SubSeqProperties

LEMMA ZeroRun ==
  ASSUME NEW w \in [1..8 -> Word], NEW i \in 1..8, NEW j \in i..8
  PROVE  AllZero(SubSeq(w, i, j)) <=> \A k \in i..j : w[k] = 0
<1>. DEFINE s == SubSeq(w, i, j)
<1>1. s \in Seq(Int) /\ Len(s) = j - i + 1 /\ \A k \in 1..(j - i + 1) : s[k] = w[i + k - 1]
  BY Run
<1>. HIDE DEF s
<1>2. DOMAIN s = 1..(j - i + 1)
  BY <1>1
<1>3. AllZero(s) <=> \A k \in 1..(j - i + 1) : w[i + k - 1] = 0
  BY <1>1, <1>2 DEF AllZero
<1>4. ASSUME \A k \in 1..(j - i + 1) : w[i + k - 1] = 0
      PROVE  \A k \in i..j : w[k] = 0
  <2>. SUFFICES ASSUME NEW k \in i..j PROVE w[k] = 0
    OBVIOUS
  <2>1. k - i + 1 \in 1..(j - i + 1) /\ i + (k - i + 1) - 1 = k
    OBVIOUS
  <2>. QED BY <1>4, <2>1
<1>5. ASSUME \A k \in i..j : w[k] = 0
      PROVE  \A k \in 1..(j - i + 1) : w[i + k - 1] = 0
  <2>. SUFFICES ASSUME NEW k \in 1..(j - i + 1) PROVE w[i + k - 1] = 0
    OBVIOUS
  <2>1. i + k - 1 \in i..j
    OBVIOUS
  <2>. QED BY <1>5, <2>1
<1>. QED BY <1>3, <1>4, <1>5 DEF s

\* Putting the zeros back gives the address, whichever run of zeros was left out.
LEMMA ElidedIsRead ==
  ASSUME NEW w \in [1..8 -> Word], NEW i \in 1..8, NEW j \in i..8, AllZero(SubSeq(w, i, j))
  PROVE  ParseIPv6(SubSeq(w, 1, i - 1), SubSeq(w, j + 1, 8)) = w
<1>. DEFINE left == SubSeq(w, 1, i - 1)
            right == SubSeq(w, j + 1, 8)
            middle == Zeros(j - i + 1)
<1>1. /\ left \in Seq(Int) /\ Len(left) = i - 1
      /\ \A k \in 1..(i - 1) : left[k] = w[k]
  <2>1. i - 1 \in 0..8 /\ 1 \in 1..9
    OBVIOUS
  <2>. QED BY <2>1, Run
<1>2. /\ right \in Seq(Int) /\ Len(right) = 8 - j
      /\ \A k \in 1..(8 - j) : right[k] = w[j + k]
  <2>1. j + 1 \in 1..9 /\ 8 \in 0..8
    OBVIOUS
  <2>. QED BY <2>1, Run
<1>3. /\ middle \in Seq(Int) /\ Len(middle) = j - i + 1
      /\ \A k \in 1..(j - i + 1) : middle[k] = 0
  BY DEF Zeros
<1>4. ParseIPv6(left, right) = (left \o middle) \o right
  <2>1. 8 - Len(left) - Len(right) = j - i + 1
    BY <1>1, <1>2
  <2>. QED BY <2>1 DEF ParseIPv6
<1>5. \A k \in i..j : w[k] = 0
  BY ZeroRun
<1>. HIDE DEF left, right, middle
<1>6. /\ left \o middle \in Seq(Int) /\ Len(left \o middle) = j
      /\ \A k \in 1..j : (left \o middle)[k] = IF k <= i - 1 THEN left[k] ELSE middle[k - (i - 1)]
  <2>1. /\ left \o middle \in Seq(Int) /\ Len(left \o middle) = Len(left) + Len(middle)
        /\ \A k \in 1..Len(left) + Len(middle) :
             (left \o middle)[k] = IF k <= Len(left) THEN left[k] ELSE middle[k - Len(left)]
    BY ONLY <1>1, <1>3, ConcatProperties
  <2>2. Len(left) + Len(middle) = j
    BY <1>1, <1>3
  <2>. QED BY <2>1, <2>2, <1>1
<1>7. /\ (left \o middle) \o right \in Seq(Int) /\ Len((left \o middle) \o right) = 8
      /\ \A k \in 1..8 : ((left \o middle) \o right)[k]
                            = IF k <= j THEN (left \o middle)[k] ELSE right[k - j]
  <2>. DEFINE start == left \o middle
  <2>0. start \in Seq(Int) /\ Len(start) = j
    BY <1>6
  <2>. HIDE DEF start
  <2>1. /\ start \o right \in Seq(Int) /\ Len(start \o right) = Len(start) + Len(right)
        /\ \A k \in 1..Len(start) + Len(right) :
             (start \o right)[k] = IF k <= Len(start) THEN start[k] ELSE right[k - Len(start)]
    BY ONLY <2>0, <1>2, ConcatProperties
  <2>2. Len(start) + Len(right) = 8
    BY <2>0, <1>2
  <2>3. /\ start \o right \in Seq(Int) /\ Len(start \o right) = 8
        /\ \A k \in 1..8 : (start \o right)[k] = IF k <= j THEN start[k] ELSE right[k - j]
    BY <2>0, <2>1, <2>2
  <2>. QED BY <2>3 DEF start
<1>. DEFINE start == left \o middle
            whole == start \o right
<1>8. /\ \A k \in 1..j : start[k] = IF k <= i - 1 THEN left[k] ELSE middle[k - (i - 1)]
      /\ \A k \in 1..8 : whole[k] = IF k <= j THEN start[k] ELSE right[k - j]
      /\ whole \in Seq(Int) /\ Len(whole) = 8
  BY <1>6, <1>7
<1>. HIDE DEF start, whole
<1>9. whole = w
  <2>1. \A k \in 1..8 : whole[k] = w[k]
    <3>. SUFFICES ASSUME NEW k \in 1..8 PROVE whole[k] = w[k]
      OBVIOUS
    <3>1. CASE k <= i - 1
      <4>1. k \in 1..j /\ k <= j
        BY <3>1
      <4>2. whole[k] = start[k] /\ start[k] = left[k]
        BY ONLY <3>1, <4>1, <1>8, k \in 1..8
      <4>. QED BY <3>1, <4>2, <1>1
    <3>2. CASE k \in i..j
      <4>1. k - (i - 1) \in 1..(j - i + 1)
        BY <3>2
      <4>2. k \in 1..j /\ ~(k <= i - 1) /\ k <= j
        BY <3>2
      <4>3. whole[k] = start[k] /\ start[k] = middle[k - (i - 1)]
        BY ONLY <4>2, <1>8, k \in 1..8
      <4>. QED BY <3>2, <4>1, <4>3, <1>3, <1>5
    <3>3. CASE k > j
      <4>1. k - j \in 1..(8 - j) /\ j + (k - j) = k
        BY <3>3
      <4>2. ~(k <= j)
        BY <3>3
      <4>3. whole[k] = right[k - j]
        BY ONLY <4>2, <1>8, k \in 1..8
      <4>. QED BY <4>1, <4>3, <1>2
    <3>. QED BY <3>1, <3>2, <3>3
  <2>2. w \in Seq(Int) /\ Len(w) = 8
    BY AddressIsSeq
  <2>. QED BY ONLY <1>8, <2>1, <2>2, SeqEqual
<1>. QED BY <1>4, <1>9 DEF left, right, start, whole

\* What is refused is what is reserved, for every address there is.
LEMMA PrivateIsReserved ==
  ASSUME NEW w \in [1..8 -> Word]
  PROVE  LET embedded == AllZero(SubSeq(w, 1, 5)) /\ w[6] \in {0, \hFFFF}
             reserved ==
               IF embedded THEN ReservedIPv4(High(w[7]), Low(w[7]))
               ELSE \/ w[1] \in \hFE80..\hFEBF
                    \/ w[1] \in \hFC00..\hFDFF
                    \/ w[1] \in \hFF00..\hFFFF
         IN IsPrivateIPv6(w) <=> reserved
<1>. DEFINE zero(n) == \A k \in 1..n : w[k] = 0
<1>1. /\ AllZero(SubSeq(w, 1, 5)) <=> zero(5)
      /\ AllZero(SubSeq(w, 1, 6)) <=> zero(5) /\ w[6] = 0
      /\ AllZero(SubSeq(w, 1, 7)) <=> zero(5) /\ w[6] = 0 /\ w[7] = 0
  <2>1. \A n \in {5, 6, 7} : AllZero(SubSeq(w, 1, n)) <=> zero(n)
    BY ZeroRun
  <2>2. zero(6) <=> zero(5) /\ w[6] = 0
    OBVIOUS
  <2>3. zero(7) <=> zero(6) /\ w[7] = 0
    OBVIOUS
  <2>. HIDE DEF zero
  <2>. QED BY <2>1, <2>2, <2>3
<1>2. zero(5) => w[1] = 0
  OBVIOUS
<1>3. IsPrivateIPv4(High(w[7]), Low(w[7])) <=> ReservedIPv4(High(w[7]), Low(w[7]))
  BY Halves, IPv4Blocks
<1>4. w[7] = 0 => ReservedIPv4(High(w[7]), Low(w[7]))
  <2>1. w[7] = 0 => IsPrivateIPv4(High(w[7]), Low(w[7]))
    BY DEF High, IsPrivateIPv4
  <2>. QED BY <2>1, <1>3
<1>5. /\ Masked(w[1], 64) = \hFE80 <=> w[1] \in \hFE80..\hFEBF
      /\ Masked(w[1], 512) = \hFC00 <=> w[1] \in \hFC00..\hFDFF
      /\ Masked(w[1], 256) = \hFF00 <=> w[1] \in \hFF00..\hFFFF
  BY Masks
<1>6. w[1] \in Word /\ w[6] \in Word /\ w[7] \in Word /\ w[8] \in Word
  OBVIOUS
<1>. HIDE DEF zero
<1>7. CASE zero(5) /\ w[6] \in {0, \hFFFF}
  <2>1. IsPrivateIPv6(w) <=> ReservedIPv4(High(w[7]), Low(w[7]))
    <3>1. CASE IsMapped(w) \/ IsCompatible(w)
      BY <3>1, <1>3 DEF IsPrivateIPv6
    <3>2. CASE ~(IsMapped(w) \/ IsCompatible(w))
      <4>1. w[7] = 0 /\ w[8] \in {0, 1} /\ w[6] = 0
        BY <3>2, <1>1, <1>7 DEF IsMapped, IsCompatible
      <4>2. IsPrivateIPv6(w)
        BY <3>2, <4>1, <1>1, <1>7 DEF IsPrivateIPv6
      <4>. QED BY <4>1, <4>2, <1>4
    <3>. QED BY <3>1, <3>2
  <2>. QED BY <1>1, <1>7, <2>1
<1>8. CASE ~(zero(5) /\ w[6] \in {0, \hFFFF})
  <2>1. ~IsMapped(w) /\ ~IsCompatible(w) /\ ~AllZero(SubSeq(w, 1, 7))
    BY <1>1, <1>8 DEF IsMapped, IsCompatible
  <2>2. IsPrivateIPv6(w) <=> \/ w[1] \in \hFE80..\hFEBF
                            \/ w[1] \in \hFC00..\hFDFF
                            \/ w[1] \in \hFF00..\hFFFF
    BY <2>1, <1>5 DEF IsPrivateIPv6
  <2>. QED BY <1>1, <1>8, <2>2
<1>. QED BY <1>7, <1>8

\* Every address that is looked up is read as itself and refused exactly when it is
\* reserved; the words may be any of sixteen bits.
THEOREM RefusedCorrect == AddressSpec => []RefusedIsReserved
<1>. DEFINE Inv == looked # <<>> => looked \in [1..8 -> Word]
<1>1. AddressInit => Inv
  BY DEF AddressInit
<1>2. Inv /\ [AddressNext]_looked => Inv'
  <2>. SUFFICES ASSUME LookUp PROVE looked' \in [1..8 -> Word]
    BY DEF AddressNext
  <2>1. PICK first \in FirstWords, middle \in {0, 1}, sixth \in SixthWords,
             seventh \in SeventhWords, last \in LastWords :
               looked' = <<first, 0, middle, 0, 0, sixth, seventh, last>>
    BY DEF LookUp
  <2>2. first \in Word /\ middle \in Word /\ sixth \in Word /\ seventh \in Word /\ last \in Word
        /\ 0 \in Word
    BY WordAssumption, WordBounds
  <2>. QED BY <2>1, <2>2
<1>3. Inv => RefusedIsReserved
  <2>. SUFFICES ASSUME Inv PROVE RefusedIsReserved
    OBVIOUS
  <2>1. CASE looked = <<>>
    BY <2>1 DEF RefusedIsReserved
  <2>2. CASE looked \in [1..8 -> Word]
    <3>1. \A i \in 1..8 : \A j \in i..8 :
            AllZero(SubSeq(looked, i, j)) =>
              ParseIPv6(SubSeq(looked, 1, i - 1), SubSeq(looked, j + 1, 8)) = looked
      BY <2>2, ElidedIsRead
    <3>2. IsPrivateIPv6(looked) <=>
            IF AllZero(SubSeq(looked, 1, 5)) /\ looked[6] \in {0, \hFFFF}
            THEN ReservedIPv4(High(looked[7]), Low(looked[7]))
            ELSE \/ looked[1] \in \hFE80..\hFEBF
                 \/ looked[1] \in \hFC00..\hFDFF
                 \/ looked[1] \in \hFF00..\hFFFF
      BY <2>2, PrivateIsReserved
    <3>. QED BY ONLY <3>1, <3>2 DEF RefusedIsReserved
  <2>. QED BY <2>1, <2>2
<1>. QED BY <1>1, <1>2, <1>3, PTL DEF AddressSpec
=============================================================================
