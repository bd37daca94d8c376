------------------------------- MODULE Pacing -------------------------------
(***************************************************************************)
(* Turns of many Agents through one paced model endpoint                   *)
(* (gemini-adapter.ts:33-86, 270-312): each call claims a slot, waits for  *)
(* it, is sent; one 429 is retried after a back-off, in a slot of its own. *)
(***************************************************************************)
EXTENDS Naturals, FiniteSets

CONSTANTS
  Turns,     \* requests to the adapter
  Interval,  \* MIN_REQUEST_INTERVAL_MS, 4200
  Backoff,   \* RATE_LIMIT_BACKOFF_MS, 6000
  MaxQueue,  \* MAX_PACING_QUEUE_MS, 60 000
  MaxClock   \* bound: instants

ASSUME PacingAssumption ==
  Interval \in Nat \ {0} /\ Backoff \in Nat /\ MaxQueue \in Nat /\ MaxClock \in Nat

VARIABLES
  clock,            \* Date.now()
  nextRequestSlot,
  turn,             \* where each turn is
  attempt,          \* the call it is at, the first or the retry
  wake,             \* when its timer is due
  claims            \* the slots claimed: <<turn, attempt, instant>>

pacingVars == <<clock, nextRequestSlot, turn, attempt, wake, claims>>

Attempts == {1, 2}

PacingTypeOK ==
  /\ clock \in Nat /\ nextRequestSlot \in Nat
  /\ turn \in [Turns -> {"new", "queued", "sent", "backing off", "replied"}]
  /\ attempt \in [Turns -> Attempts] /\ wake \in [Turns -> Nat]
  /\ claims \subseteq Turns \X Attempts \X Nat

PacingInit ==
  /\ clock = 0 /\ nextRequestSlot = 0
  /\ turn = [t \in Turns |-> "new"] /\ attempt = [t \in Turns |-> 1]
  /\ wake = [t \in Turns |-> 0]
  /\ claims = {}

NextFree == IF nextRequestSlot > clock THEN nextRequestSlot ELSE clock
QueueFull == NextFree - clock > MaxQueue

\* PacingQueueFullError: 429 to the Agent, and no slot is consumed.
Refuse(t) ==
  /\ QueueFull
  /\ turn' = [turn EXCEPT ![t] = "replied"]
  /\ UNCHANGED <<nextRequestSlot, wake, claims>>

\* Slip: the slot is computed now and claimed when the turn wakes up.
ClaimLate(t, k) ==
  /\ ~QueueFull
  /\ nextRequestSlot' = clock + Interval
  /\ claims' = claims \cup {<<t, k, NextFree>>}
  /\ wake' = [wake EXCEPT ![t] = NextFree]
  /\ turn' = [turn EXCEPT ![t] = "queued"]

Claim(t, k) ==
  /\ ~QueueFull
  /\ nextRequestSlot' = NextFree + Interval
  /\ claims' = claims \cup {<<t, k, NextFree>>}
  /\ wake' = [wake EXCEPT ![t] = NextFree]
  /\ turn' = [turn EXCEPT ![t] = "queued"]

\* The claim is synchronous: nothing runs between reading and writing the slot.
ReserveRequestSlot(t, k) ==
  /\ Refuse(t) \/ Claim(t, k)
  /\ attempt' = [attempt EXCEPT ![t] = k]
  /\ UNCHANGED clock

FirstCall(t) == turn[t] = "new" /\ ReserveRequestSlot(t, 1)
Retry(t) == turn[t] = "backing off" /\ clock >= wake[t] /\ ReserveRequestSlot(t, 2)

\* The timer fired, on time or late.
SendCall(t) ==
  /\ turn[t] = "queued" /\ clock >= wake[t]
  /\ turn' = [turn EXCEPT ![t] = "sent"]
  /\ UNCHANGED <<clock, nextRequestSlot, attempt, wake, claims>>

\* The endpoint answers, or the 120 s deadline aborts the call.
Reply(t) ==
  /\ turn[t] = "sent" /\ turn' = [turn EXCEPT ![t] = "replied"]
  /\ UNCHANGED <<clock, nextRequestSlot, attempt, wake, claims>>

RateLimited(t) ==
  /\ turn[t] = "sent" /\ attempt[t] = 1
  /\ turn' = [turn EXCEPT ![t] = "backing off"]
  /\ wake' = [wake EXCEPT ![t] = clock + Backoff]
  /\ UNCHANGED <<clock, nextRequestSlot, attempt, claims>>

PassTime ==
  /\ clock < MaxClock /\ clock' = clock + 1
  /\ UNCHANGED <<nextRequestSlot, turn, attempt, wake, claims>>

TurnStep(t) == SendCall(t) \/ Reply(t) \/ Retry(t)

PacingNext == PassTime \/ \E t \in Turns : FirstCall(t) \/ TurnStep(t) \/ RateLimited(t)

PacingSpec == PacingInit /\ [][PacingNext]_pacingVars

-----------------------------------------------------------------------------
\* However many turns queue, retry or are refused, no two calls were given slots
\* closer than the interval (gemini-adapter.ts:46-54).
SlotsAreSpaced ==
  \A x, y \in claims : x # y => (x[3] + Interval <= y[3] \/ y[3] + Interval <= x[3])

\* Turns that were refused leave no trace in the queue: it never reaches further
\* than one interval beyond what a turn may wait.
QueueDoesNotRunAway == nextRequestSlot <= clock + MaxQueue + Interval
=============================================================================
