------------------------------- MODULE Egress -------------------------------
(***************************************************************************)
(* Outbound connections of one Agent: the proxy that carries them          *)
(* (egress-proxy.ts, its own container) and the authorizer it asks         *)
(* (egress-authorizer.ts, in the server).  Proxy and authorizer keep all   *)
(* state per principal, so one Agent is enough.                            *)
(*                                                                         *)
(* A question to the authorizer is <<c, 0>>, asked when c is opened, or    *)
(* <<c, k>>, a later check of an established tunnel.  Grants, runs and     *)
(* terminations appear as far as these two files see them; Grants and      *)
(* AgentRuns model them.                                                   *)
(***************************************************************************)
EXTENDS Naturals, FiniteSets

CONSTANTS
  Conns,      \* connections the Agent's container opens, each once
  Tunnels,    \* those opened by CONNECT; the others are plain HTTP requests
  Rechecks,   \* checks of one tunnel that may be in flight together
  MaxHeld,    \* MAX_CONCURRENT_HELD_REQUESTS, 3
  Threshold,  \* quarantineThreshold
  MaxDrains   \* bound: terminations of the Agent

ASSUME EgressAssumption ==
  /\ IsFiniteSet(Conns) /\ Tunnels \subseteq Conns
  /\ Rechecks \in Nat /\ MaxHeld \in Nat \ {0}
  /\ Threshold \in Nat \ {0} /\ MaxDrains \in Nat

VARIABLES
  grant,        \* of the host the Agent wants: "none", "live" or "spent"
  agent,        \* "ready", "busy", "cancelling" or "stopped"
  termination,  \* "none", "revoked", "drained" or "failed"
  heldByAgent,  \* the authorizer's counters
  strikesByAgent,
  phase,        \* where each question is
  rule,         \* the decision taken on it, "none" before
  strikes,      \* authorize's local copy of the strike count
  generation,   \* generationByPrincipal
  live,         \* liveByPrincipal: the ends <<c, "client">>, <<c, "upstream">>
  stage,        \* where the handler of each connection is
  born,         \* the generation it captured
  target,       \* "platform" or "host"
  client        \* the Agent's socket: "open", "destroyed", "closed"

serverVars == <<grant, agent, termination, heldByAgent, strikesByAgent>>
askVars == <<phase, rule, strikes>>
proxyVars == <<generation, live, stage, born, target, client>>
vars == <<serverVars, askVars, proxyVars>>

Asks == Conns \X (0..Rechecks)
Ends == Conns \X {"client", "upstream"}
Ask(c) == <<c, 0>>
Phases == {"idle", "sent", "held", "orphaned", "recording", "blocking",
           "quarantining", "answered"}
Rules == {"none", "platform", "granted", "spent", "flood", "approved",
          "denied", "error"}
Allowed(a) == rule[a] \in {"platform", "granted", "approved"}

\* Requests that really wait for a decision.  An orphaned one belongs to a run
\* that is over: nobody can approve it, and its timer is still running.
Waiting == {a \in Asks : phase[a] \in {"held", "orphaned"}}

TypeOK ==
  /\ grant \in {"none", "live", "spent"}
  /\ agent \in {"ready", "busy", "cancelling", "stopped"}
  /\ termination \in {"none", "revoked", "drained", "failed"}
  /\ heldByAgent \in 0..MaxHeld
  /\ strikesByAgent \in Nat
  /\ phase \in [Asks -> Phases] /\ rule \in [Asks -> Rules]
  /\ strikes \in [Asks -> Nat]
  /\ generation \in Nat /\ live \subseteq Ends
  /\ stage \in [Conns -> {"unused", "deciding", "resolving", "connecting",
                          "piping", "over"}]
  /\ born \in [Conns -> Nat]
  /\ target \in [Conns -> {"platform", "host"}]
  /\ client \in [Conns -> {"open", "destroyed", "closed"}]

Init ==
  /\ grant = "none" /\ agent = "ready" /\ termination = "none"
  /\ heldByAgent = 0 /\ strikesByAgent = 0
  /\ phase = [a \in Asks |-> "idle"] /\ rule = [a \in Asks |-> "none"]
  /\ strikes = [a \in Asks |-> 0]
  /\ generation = 0 /\ live = {}
  /\ stage = [c \in Conns |-> "unused"] /\ born = [c \in Conns |-> 0]
  /\ target = [c \in Conns |-> "host"] /\ client = [c \in Conns |-> "open"]

-----------------------------------------------------------------------------
(* The authorizer. *)

Decide(a, r) ==
  /\ rule' = [rule EXCEPT ![a] = r]
  /\ phase' = [phase EXCEPT ![a] = "recording"]

Platform(a) ==
  /\ target[a[1]] = "platform"
  /\ rule' = [rule EXCEPT ![a] = "platform"]
  /\ phase' = [phase EXCEPT ![a] = "answered"]
  /\ UNCHANGED heldByAgent

\* evaluateEgress finds a grant, live or spent.
ByGrant(a) ==
  /\ target[a[1]] = "host" /\ grant # "none"
  /\ Decide(a, IF grant = "live" THEN "granted" ELSE "spent")
  /\ UNCHANGED heldByAgent

Flood(a) ==
  /\ target[a[1]] = "host" /\ grant = "none" /\ heldByAgent >= MaxHeld
  /\ Decide(a, "flood")
  /\ UNCHANGED heldByAgent

Hold(a) ==
  /\ target[a[1]] = "host" /\ grant = "none" /\ heldByAgent < MaxHeld
  /\ agent = "busy"
  /\ heldByAgent' = heldByAgent + 1
  /\ phase' = [phase EXCEPT ![a] = "held"]
  /\ UNCHANGED rule

\* requestApproval refuses without an active run; the finally takes the count
\* back before anything else runs.
NobodyToAsk(a) ==
  /\ target[a[1]] = "host" /\ grant = "none" /\ heldByAgent < MaxHeld
  /\ agent # "busy"
  /\ Decide(a, "denied")
  /\ UNCHANGED heldByAgent

Authorize(a) ==
  /\ phase[a] = "sent"
  /\ Platform(a) \/ ByGrant(a) \/ Flood(a) \/ Hold(a) \/ NobodyToAsk(a)
  /\ UNCHANGED <<grant, agent, termination, strikesByAgent, strikes, proxyVars>>

\* Slip: a held request that is refused leaves its place taken.
EndHoldLeaks(a, r) ==
  /\ phase[a] \in {"held", "orphaned"}
  /\ r = "approved" => phase[a] = "held" /\ agent = "busy"
  /\ Decide(a, r)
  /\ heldByAgent' = IF heldByAgent > 0 /\ r = "approved"
                    THEN heldByAgent - 1 ELSE heldByAgent
  /\ UNCHANGED <<grant, agent, termination, strikesByAgent, strikes, proxyVars>>

\* Slip: the timer of a request whose run is over is refused and dropped.
EndHoldOfRunOnly(a, r) ==
  /\ phase[a] = "held"
  /\ r = "approved" => agent = "busy"
  /\ Decide(a, r)
  /\ heldByAgent' = IF heldByAgent > 0 THEN heldByAgent - 1 ELSE 0
  /\ UNCHANGED <<grant, agent, termination, strikesByAgent, strikes, proxyVars>>

\* An operator approves while the run goes on; an operator, the five-minute
\* timer, a disconnection or a cancellation denies at any time.
EndHold(a, r) ==
  /\ phase[a] \in {"held", "orphaned"}
  /\ r = "approved" => phase[a] = "held" /\ agent = "busy"
  /\ Decide(a, r)
  /\ heldByAgent' = IF heldByAgent > 0 THEN heldByAgent - 1 ELSE 0
  /\ UNCHANGED <<grant, agent, termination, strikesByAgent, strikes, proxyVars>>

\* recordDecision returned.  The strike is counted in the same step.
Recorded(a) ==
  /\ phase[a] = "recording"
  /\ \/ /\ Allowed(a)
        /\ phase' = [phase EXCEPT ![a] = "answered"]
        /\ UNCHANGED <<strikesByAgent, strikes>>
     \/ /\ ~Allowed(a)
        /\ phase' = [phase EXCEPT ![a] = "blocking"]
        /\ strikesByAgent' = strikesByAgent + 1
        /\ strikes' = [strikes EXCEPT ![a] = strikesByAgent + 1]
  /\ UNCHANGED <<grant, agent, termination, heldByAgent, rule, proxyVars>>

\* A failed write of the decision or of the block: authorize throws, the route
\* answers 500 and the proxy refuses.  A strike that was counted stays counted.
RecordFails(a) ==
  /\ phase[a] \in {"recording", "blocking"}
  /\ phase' = [phase EXCEPT ![a] = "answered"]
  /\ rule' = [rule EXCEPT ![a] = "error"]
  /\ UNCHANGED <<serverVars, strikes, proxyVars>>

\* The call of authorize returns and its locals go.
Return(a) ==
  /\ phase' = [phase EXCEPT ![a] = "answered"]
  /\ strikes' = [strikes EXCEPT ![a] = 0]

CancelAgent == agent' = IF agent \in {"busy", "cancelling"}
                        THEN "cancelling" ELSE "stopped"

\* Slip: one denial too many.
BlockedBeyond(a) ==
  /\ phase[a] = "blocking"
  /\ \/ /\ strikes[a] > Threshold
        /\ phase' = [phase EXCEPT ![a] = "quarantining"]
        /\ CancelAgent
        /\ UNCHANGED strikes
     \/ /\ strikes[a] <= Threshold
        /\ Return(a)
        /\ UNCHANGED agent
  /\ UNCHANGED <<grant, termination, heldByAgent, strikesByAgent, rule, proxyVars>>

\* recordBlocked returned; at the threshold quarantineAgent is called.
Blocked(a) ==
  /\ phase[a] = "blocking"
  /\ \/ /\ strikes[a] >= Threshold
        /\ phase' = [phase EXCEPT ![a] = "quarantining"]
        /\ CancelAgent
        /\ UNCHANGED strikes
     \/ /\ strikes[a] < Threshold
        /\ Return(a)
        /\ UNCHANGED agent
  /\ UNCHANGED <<grant, termination, heldByAgent, strikesByAgent, rule, proxyVars>>

QuarantineReturns(a) ==
  /\ phase[a] = "quarantining" /\ agent # "cancelling"
  /\ Return(a)
  /\ UNCHANGED <<serverVars, rule, proxyVars>>

-----------------------------------------------------------------------------
(* What the rest of the server does meanwhile. *)

Orphan == phase' = [a \in Asks |-> IF phase[a] = "held" THEN "orphaned" ELSE phase[a]]

BeginRun ==
  /\ agent = "ready" /\ termination = "none"
  /\ agent' = "busy"
  /\ UNCHANGED <<grant, termination, heldByAgent, strikesByAgent, askVars, proxyVars>>

EndRun ==
  /\ agent = "busy" /\ agent' = "ready" /\ Orphan
  /\ UNCHANGED <<grant, termination, heldByAgent, strikesByAgent, rule, strikes, proxyVars>>

\* cancelExecution denied what its run held, and the runtime is gone.
CancelEnds ==
  /\ agent = "cancelling" /\ \A a \in Asks : phase[a] # "held"
  /\ agent' = "stopped"
  /\ UNCHANGED <<grant, termination, heldByAgent, strikesByAgent, askVars, proxyVars>>

\* startAgent ends with resetStrikes.
StartAgent ==
  /\ agent \in {"ready", "stopped"} /\ termination # "revoked"
  /\ agent = "stopped" \/ termination = "none"
  /\ agent' = "ready" /\ termination' = "none"
  /\ strikesByAgent' = 0 /\ heldByAgent' = 0
  /\ UNCHANGED <<grant, askVars, proxyVars>>

CreateGrant ==
  /\ grant # "live" /\ termination = "none"
  /\ grant' = "live"
  /\ UNCHANGED <<agent, termination, heldByAgent, strikesByAgent, askVars, proxyVars>>

\* Revoked by an operator, or expired.
GrantEnds ==
  /\ grant = "live" /\ grant' = "spent"
  /\ UNCHANGED <<agent, termination, heldByAgent, strikesByAgent, askVars, proxyVars>>

\* Slip: grants are revoked after the drain.
RevokeLater ==
  /\ termination = "none" /\ generation < MaxDrains
  /\ termination' = "revoked"
  /\ UNCHANGED <<grant, agent, heldByAgent, strikesByAgent, askVars, proxyVars>>

\* revokeAndBlock, up to the drain.
Revoke ==
  /\ termination = "none" /\ generation < MaxDrains
  /\ termination' = "revoked"
  /\ grant' = IF grant = "live" THEN "spent" ELSE grant
  /\ UNCHANGED <<agent, heldByAgent, strikesByAgent, askVars, proxyVars>>

\* kill, after the drain was answered or given up.
Kill ==
  /\ termination \in {"drained", "failed"} /\ agent \in {"ready", "busy"}
  /\ CancelAgent
  /\ UNCHANGED <<grant, termination, heldByAgent, strikesByAgent, askVars, proxyVars>>

-----------------------------------------------------------------------------
(* The proxy. *)

\* generationIsCurrent and not destroyed, checked after every await.
Current(c) == born[c] = generation /\ client[c] = "open"

Hangup(c) == client' = [client EXCEPT ![c] = IF @ = "open" THEN "destroyed" ELSE @]
\* The handler of the connection is done, and its verdict forgotten.
End(c) ==
  /\ stage' = [stage EXCEPT ![c] = "over"]
  /\ rule' = [rule EXCEPT ![Ask(c)] = "none"]

Open(c) ==
  /\ agent \in {"busy", "cancelling"} /\ stage[c] = "unused"
  /\ stage' = [stage EXCEPT ![c] = "deciding"]
  /\ born' = [born EXCEPT ![c] = generation]
  /\ live' = live \cup {<<c, "client">>}
  /\ \E t \in {"platform", "host"} : target' = [target EXCEPT ![c] = t]
  /\ phase' = [phase EXCEPT ![Ask(c)] = "sent"]
  /\ UNCHANGED <<serverVars, rule, strikes, generation, client>>

\* No principal, or a tunnel to the control plane.
TurnAway(c) ==
  /\ agent \in {"busy", "cancelling"} /\ stage[c] = "unused"
  /\ End(c) /\ Hangup(c)
  /\ UNCHANGED <<serverVars, phase, strikes, generation, live, born, target>>

\* The verdict arrived.
Decided(c) ==
  /\ stage[c] = "deciding" /\ phase[Ask(c)] = "answered"
  /\ phase' = [phase EXCEPT ![Ask(c)] = "idle"]
  /\ \/ /\ Current(c) /\ Allowed(Ask(c))
        /\ stage' = [stage EXCEPT ![c] = "resolving"]
        /\ UNCHANGED <<client, rule>>
     \/ /\ ~(Current(c) /\ Allowed(Ask(c)))
        /\ End(c) /\ Hangup(c)
  /\ UNCHANGED <<serverVars, strikes, generation, live, born, target>>

\* The client went away, which aborts the question.
Abandon(c) ==
  /\ stage[c] = "deciding" /\ client[c] = "closed"
  /\ stage' = [stage EXCEPT ![c] = "over"]
  /\ UNCHANGED <<serverVars, askVars, generation, live, born, target, client>>

\* Slip: the upstream of a plain request is not tracked.
ResolvedUntracked(c) ==
  /\ stage[c] = "resolving"
  /\ \/ /\ ~Current(c) \/ target[c] = "host"
        /\ End(c) /\ Hangup(c)
     \/ /\ Current(c)
        /\ stage' = [stage EXCEPT ![c] = "connecting"]
        /\ UNCHANGED <<client, rule>>
  /\ UNCHANGED <<serverVars, phase, strikes, generation, live, born, target>>

\* resolveTarget answered.  A host may resolve to a private address or not at
\* all; a platform endpoint is used as it is.  The upstream of a plain request
\* is tracked as soon as it exists.
Resolved(c) ==
  /\ stage[c] = "resolving"
  /\ \/ /\ ~Current(c) \/ target[c] = "host"
        /\ End(c) /\ Hangup(c)
        /\ UNCHANGED live
     \/ /\ Current(c)
        /\ stage' = [stage EXCEPT ![c] = "connecting"]
        /\ live' = IF c \in Tunnels THEN live
                   ELSE live \cup {<<c, "upstream">>, <<c, "client">>}
        /\ UNCHANGED <<client, rule>>
  /\ UNCHANGED <<serverVars, phase, strikes, generation, born, target>>

\* The upstream is connected.  The callback of a tunnel checks once more.
Connected(c) ==
  /\ stage[c] = "connecting"
  /\ \/ /\ c \in Tunnels /\ ~Current(c)
        /\ End(c) /\ Hangup(c)
        /\ UNCHANGED live
     \/ /\ c \in Tunnels => Current(c)
        /\ stage' = [stage EXCEPT ![c] = "piping"]
        /\ live' = IF c \in Tunnels
                   THEN live \cup {<<c, "upstream">>, <<c, "client">>} ELSE live
        /\ UNCHANGED <<client, rule>>
  /\ UNCHANGED <<serverVars, phase, strikes, generation, born, target>>

\* Done, failed or timed out.
UpstreamEnds(c) ==
  /\ stage[c] \in {"connecting", "piping"}
  /\ End(c) /\ Hangup(c)
  /\ live' = live \ {<<c, "upstream">>}
  /\ UNCHANGED <<serverVars, phase, strikes, generation, born, target>>

AgentCloses(c) ==
  /\ stage[c] \notin {"unused", "over"} /\ client[c] = "open"
  /\ Hangup(c)
  /\ UNCHANGED <<serverVars, askVars, generation, live, stage, born, target>>

Upstream(c) == stage[c] \in {"connecting", "piping"}

\* The socket's close event: forget it, and tear the upstream down.  A plain
\* request that was sent completely leaves its upstream to finish.
CloseEvent(c) ==
  /\ client[c] = "destroyed"
  /\ client' = [client EXCEPT ![c] = "closed"]
  /\ \/ /\ Upstream(c) /\ End(c)
        /\ live' = live \ {<<c, "client">>, <<c, "upstream">>}
     \/ /\ Upstream(c) => c \notin Tunnels
        /\ live' = live \ {<<c, "client">>}
        /\ UNCHANGED <<stage, rule>>
  /\ UNCHANGED <<serverVars, phase, strikes, generation, born, target>>

\* The interval of an established tunnel fires.
Recheck(c, k) ==
  /\ k # 0 /\ c \in Tunnels /\ stage[c] = "piping" /\ phase[<<c, k>>] = "idle"
  /\ phase' = [phase EXCEPT ![<<c, k>>] = "sent"]
  /\ UNCHANGED <<serverVars, rule, strikes, proxyVars>>

\* Slip: a grant that was revoked or expired does not tear the tunnel down.
RecheckedNeverSpent(c, k) ==
  /\ k # 0 /\ phase[<<c, k>>] = "answered"
  /\ phase' = [phase EXCEPT ![<<c, k>>] = "idle"]
  /\ rule' = [rule EXCEPT ![<<c, k>>] = "none"]
  /\ IF Allowed(<<c, k>>) \/ rule[<<c, k>>] = "spent"
     THEN UNCHANGED <<stage, client, live>>
     ELSE /\ stage' = [stage EXCEPT ![c] = "over"]
          /\ Hangup(c) /\ live' = live \ {<<c, "upstream">>}
  /\ UNCHANGED <<serverVars, strikes, generation, born, target>>

Rechecked(c, k) ==
  /\ k # 0 /\ phase[<<c, k>>] = "answered"
  /\ phase' = [phase EXCEPT ![<<c, k>>] = "idle"]
  /\ rule' = [rule EXCEPT ![<<c, k>>] = "none"]
  /\ IF Allowed(<<c, k>>)
     THEN UNCHANGED <<stage, client, live>>
     ELSE /\ stage' = [stage EXCEPT ![c] = "over"]
          /\ Hangup(c) /\ live' = live \ {<<c, "upstream">>}
  /\ UNCHANGED <<serverVars, strikes, generation, born, target>>

\* closePrincipalConnections.
CloseAll ==
  /\ generation' = generation + 1
  /\ client' = [c \in Conns |-> IF <<c, "client">> \in live /\ client[c] = "open"
                                THEN "destroyed" ELSE client[c]]
  /\ stage' = [c \in Conns |-> IF <<c, "upstream">> \in live THEN "over" ELSE stage[c]]
  /\ live' = {}
  /\ UNCHANGED <<born, target>>

\* drainPrincipal: carried out, and its answer received or lost.
Drain ==
  /\ termination = "revoked"
  /\ CloseAll
  /\ termination' \in {"drained", "failed"}
  /\ UNCHANGED <<grant, agent, heldByAgent, strikesByAgent, askVars>>

DrainFails ==
  /\ termination = "revoked" /\ termination' = "failed"
  /\ UNCHANGED <<grant, agent, heldByAgent, strikesByAgent, askVars, proxyVars>>

-----------------------------------------------------------------------------
Answering(a) == Authorize(a) \/ EndHold(a, "denied") \/ Recorded(a) \/ Blocked(a)
                \/ QuarantineReturns(a)
Carrying(c) == Decided(c) \/ Abandon(c) \/ Resolved(c) \/ CloseEvent(c)

Server == BeginRun \/ EndRun \/ CancelEnds \/ StartAgent \/ CreateGrant \/ GrantEnds
          \/ Revoke \/ Kill \/ Drain \/ DrainFails
Next ==
  \/ Server
  \/ \E a \in Asks : Answering(a) \/ EndHold(a, "approved") \/ RecordFails(a)
  \/ \E c \in Conns : \/ Carrying(c) \/ Open(c) \/ TurnAway(c) \/ Connected(c)
                      \/ UpstreamEnds(c) \/ AgentCloses(c)
                      \/ \E k \in 1..Rechecks : Recheck(c, k) \/ Rechecked(c, k)

Spec == Init /\ [][Next]_vars

\* Continuations run, timers fire (the five-minute denial, the interval of a
\* tunnel, the connect timeout), and a cancellation reaches its end.
EgressFairness ==
  /\ WF_vars(CancelEnds)
  /\ \A a \in Asks : WF_vars(Answering(a))
  /\ \A c \in Conns : WF_vars(Carrying(c))
  /\ \A c \in Tunnels, k \in 1..Rechecks : WF_vars(Recheck(c, k)) /\ WF_vars(Rechecked(c, k))

FairSpec == Spec /\ EgressFairness

-----------------------------------------------------------------------------
(* Properties. *)

\* After a principal was drained no connection opened before carries a byte
\* upstream: not one that was established, nor one whose authorization, DNS
\* answer or TCP connection was in flight (egress-proxy.ts:251-294).
DrainedStaysClosed ==
  \A c \in Conns : stage[c] = "piping" => born[c] = generation

\* When a termination has drained the proxy, and until the Agent is started
\* again, nothing flows on the strength of a grant: revoking comes before
\* draining, and what was authorized just before is caught by the drain.
NothingFlowsOnRevokedAuthority ==
  termination = "drained" =>
    \A c \in Conns : stage[c] = "piping" => rule[Ask(c)] \in {"platform", "approved"}

\* The count of held requests never overstates them, whatever ends a hold and
\* whatever a start of the Agent resets: a place is never lost for good, and a
\* request refused as flooding found MaxHeld others really waiting.
CountNeverOverstates == heldByAgent <= Cardinality(Waiting)

\* An Agent with enough denials is stopped or about to be, whichever way its
\* requests overlap, or the write that precedes its quarantine failed
\* (egress-authorizer.ts:237-247).
ThresholdQuarantines ==
  strikesByAgent >= Threshold =>
    \/ agent \in {"cancelling", "stopped"}
    \/ \E a \in Asks : /\ strikes[a] >= Threshold
                       /\ phase[a] # "quarantining"

\* A connection that was opened is answered or given up, also when it is held
\* for a decision nobody takes, or its run ends meanwhile.
ConnectionsSettle ==
  \A c \in Conns : stage[c] = "deciding" ~> stage[c] # "deciding"

\* A tunnel goes down once its grant is spent, unless a new grant comes
\* (egress-proxy.ts:575-599, docs/AGENT-PASSPORT.md:124; docs/ARCHITECTURE.md:150
\* and 250-251 still deny it).
SpentTunnelsGoDown ==
  \A c \in Tunnels : (stage[c] = "piping" /\ target[c] = "host" /\ grant = "spent")
                       ~> (stage[c] = "over" \/ grant # "spent")
=============================================================================
