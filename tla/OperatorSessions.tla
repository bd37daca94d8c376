-------------------------- MODULE OperatorSessions --------------------------
(***************************************************************************)
(* The session an operator acts in: the server's bounded table of tokens   *)
(* (app.ts:100-117, 192-223) and the console that obtains one per          *)
(* principal, shares it between its requests, and asks for another when it *)
(* is refused (web/src/api.ts:31-113).  One principal of one console, and  *)
(* other consoles that take up room in the table.                          *)
(***************************************************************************)
EXTENDS Naturals, FiniteSets

CONSTANTS
  Requests,     \* calls of request() by this console
  MaxSessions,  \* MAX_MOCK_SESSIONS, 1000
  MaxTokens     \* bound: tokens minted

ASSUME SessionAssumption == MaxSessions \in Nat \ {0} /\ MaxTokens \in Nat

NoToken == 0

VARIABLES
  sessions,   \* tokens in the server's table; a later one is greater
  stale,      \* those past their eight hours
  minted,     \* tokens so far
  cached,     \* the console's token of the principal, or NoToken
  login,      \* the request for one: "none", "flying", "answered"
  answered,   \* the token it brings
  waiting,    \* requests that wait for it
  using,      \* the token each request was sent with
  outcome,    \* "new", "waiting", "sent", "refused", "served", "failed"
  refusals    \* of each request

sessionVars == <<sessions, stale, minted, cached, login, answered, waiting, using,
                 outcome, refusals>>
serverSide == <<sessions, stale, minted>>

\* The table keeps its limit.
SessionTypeOK ==
  /\ sessions \subseteq Nat /\ stale \subseteq Nat /\ minted \in Nat
  /\ IsFiniteSet(sessions) /\ Cardinality(sessions) <= MaxSessions
  /\ cached \in Nat /\ login \in {"none", "flying", "answered"} /\ answered \in Nat
  /\ waiting \subseteq Requests /\ using \in [Requests -> Nat]
  /\ outcome \in [Requests -> {"new", "waiting", "sent", "refused", "served", "failed"}]
  /\ refusals \in [Requests -> 0..2]

SessionInit ==
  /\ sessions = {} /\ stale = {} /\ minted = 0
  /\ cached = NoToken /\ login = "none" /\ answered = NoToken /\ waiting = {}
  /\ using = [r \in Requests |-> NoToken] /\ outcome = [r \in Requests |-> "new"]
  /\ refusals = [r \in Requests |-> 0]

Younger(t) == {u \in sessions \ stale : t < u}

\* Slip: a table that is just full is taken to have room.
SparedWhenFull == {t \in sessions \ stale : Cardinality(Younger(t)) < MaxSessions}

\* Expired tokens are swept, and the oldest evicted until there is room for one.
Spared == {t \in sessions \ stale : Cardinality(Younger(t)) + 1 < MaxSessions}

Mint ==
  /\ minted < MaxTokens /\ minted' = minted + 1
  /\ sessions' = Spared \cup {minted + 1}
  /\ UNCHANGED stale

LogInElsewhere ==
  Mint /\ UNCHANGED <<cached, login, answered, waiting, using, outcome, refusals>>

\* Tokens live equally long, so the oldest expires first.
Lapse ==
  /\ \E t \in sessions \ stale :
        /\ \A u \in sessions \ stale : t <= u
        /\ stale' = stale \cup {t}
  /\ UNCHANGED <<sessions, minted, cached, login, answered, waiting, using, outcome,
                 refusals>>

\* The table is in memory only.
ServerRestarts ==
  /\ sessions # {} /\ sessions' = {}
  /\ UNCHANGED <<stale, minted, cached, login, answered, waiting, using, outcome,
                 refusals>>

-----------------------------------------------------------------------------
\* principalSessionToken: the cached token, the request under way, or a new one.
Obtain(r, token) ==
  IF token # NoToken
  THEN /\ using' = [using EXCEPT ![r] = token]
       /\ outcome' = [outcome EXCEPT ![r] = "sent"]
       /\ UNCHANGED <<login, waiting>>
  ELSE /\ outcome' = [outcome EXCEPT ![r] = "waiting"]
       /\ waiting' = waiting \cup {r}
       /\ login' = IF login = "none" THEN "flying" ELSE login
       /\ UNCHANGED using

BeginRequest(r) ==
  /\ outcome[r] = "new" /\ Obtain(r, cached)
  /\ UNCHANGED <<serverSide, cached, answered, refusals>>

LoginServed ==
  /\ login = "flying" /\ Mint
  /\ login' = "answered" /\ answered' = minted + 1
  /\ UNCHANGED <<cached, waiting, using, outcome, refusals>>

\* Slip: whoever waits is not told.
LoginFailsUnnoticed ==
  /\ login = "flying" /\ waiting' = {} /\ login' = "none"
  /\ UNCHANGED <<serverSide, cached, answered, using, outcome, refusals>>

\* Refused or unreachable: whoever waits fails, and the next request asks anew.
LoginFails ==
  /\ login = "flying"
  /\ outcome' = [r \in Requests |-> IF r \in waiting THEN "failed" ELSE outcome[r]]
  /\ waiting' = {} /\ login' = "none"
  /\ UNCHANGED <<serverSide, cached, answered, using, refusals>>

LoginReturns ==
  /\ login = "answered" /\ login' = "none" /\ cached' = answered
  /\ using' = [r \in Requests |-> IF r \in waiting THEN answered ELSE using[r]]
  /\ outcome' = [r \in Requests |-> IF r \in waiting THEN "sent" ELSE outcome[r]]
  /\ waiting' = {}
  /\ UNCHANGED <<serverSide, answered, refusals>>

\* sessionActor, and whatever the route then does.  A refused token is dropped.
Serve(r) ==
  /\ outcome[r] = "sent"
  /\ IF using[r] \in sessions \ stale
     THEN /\ outcome' = [outcome EXCEPT ![r] = "served"]
          /\ UNCHANGED <<sessions, refusals>>
     ELSE /\ outcome' = [outcome EXCEPT ![r] = "refused"]
          /\ refusals' = [refusals EXCEPT ![r] = @ + 1]
          /\ sessions' = sessions \ {using[r]}
  /\ UNCHANGED <<stale, minted, cached, login, answered, waiting, using>>

\* Slip: the request is sent again as often as it is refused.
RefusedEndlessly(r) ==
  /\ outcome[r] = "refused"
  /\ cached' = NoToken /\ Obtain(r, NoToken)
  /\ UNCHANGED <<serverSide, answered, refusals>>

\* The refusal reaches the console: the cached token goes, whichever it is by
\* now, and the request is sent once more; a second refusal is reported.
Refused(r) ==
  /\ outcome[r] = "refused"
  /\ \/ /\ refusals[r] = 1 /\ cached' = NoToken /\ Obtain(r, NoToken)
     \/ /\ refusals[r] = 2 /\ outcome' = [outcome EXCEPT ![r] = "failed"]
        /\ UNCHANGED <<cached, login, waiting, using>>
  /\ UNCHANGED <<serverSide, answered, refusals>>

Console == \/ LoginServed \/ LoginFails \/ LoginReturns
           \/ \E r \in Requests : Serve(r) \/ Refused(r)

SessionNext == \/ LogInElsewhere \/ Lapse \/ ServerRestarts \/ Console
               \/ \E r \in Requests : BeginRequest(r)

SessionSpec == SessionInit /\ [][SessionNext]_sessionVars
SessionFairness == WF_sessionVars(Console)
FairSessionSpec == SessionSpec /\ SessionFairness

-----------------------------------------------------------------------------
\* Every request is served or fails, whatever happens to its session: it is not
\* sent over and over, and nobody waits for a login that is no longer under way.
RequestsSettle ==
  \A r \in Requests : outcome[r] # "new" ~> outcome[r] \in {"served", "failed"}
=============================================================================
