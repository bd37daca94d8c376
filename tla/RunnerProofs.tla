---------------------------- MODULE RunnerProofs ----------------------------
(***************************************************************************)
(* Proofs about what a host-process run goes through: the pacing of its    *)
(* model requests (Pacing), for any number of turns and any interval,      *)
(* back-off and limit of the queue, and its process group (HostProcess),   *)
(* for any behaviour of its processes.                                     *)
(***************************************************************************)
EXTENDS Pacing, HostProcess, TLAPS

-----------------------------------------------------------------------------
(* Pacing                                                                  *)

\* What a step makes of the clock and of the slot.
LEMMA Instants ==
  ASSUME PacingTypeOK
  PROVE  /\ clock \in Nat /\ clock + 1 \in Nat /\ clock + Backoff \in Nat
         /\ nextRequestSlot \in Nat /\ Interval \in Nat
         /\ NextFree \in Nat /\ NextFree + Interval \in Nat /\ nextRequestSlot <= NextFree
<1>1. clock \in Nat /\ nextRequestSlot \in Nat
  BY Zenon DEF PacingTypeOK
<1>2. Interval \in Nat /\ Backoff \in Nat
  BY PacingAssumption
<1>. QED BY <1>1, <1>2 DEF NextFree

\* Every variable has its type.
THEOREM PacingTypeCorrect == PacingSpec => []PacingTypeOK
<1>1. PacingInit => PacingTypeOK
  BY DEF PacingInit, PacingTypeOK, Attempts
<1>2. PacingTypeOK /\ [PacingNext]_pacingVars => PacingTypeOK'
  <2>. SUFFICES ASSUME PacingTypeOK, [PacingNext]_pacingVars PROVE PacingTypeOK'
    OBVIOUS
  <2>. USE DEF PacingTypeOK
  <2>1. CASE PassTime
    <3>1. clock + 1 \in Nat
      BY Instants
    <3>. QED BY <2>1, <3>1 DEF PassTime
  <2>2. ASSUME NEW t \in Turns, NEW k \in Attempts, ReserveRequestSlot(t, k)
        PROVE  PacingTypeOK'
    <3>1. NextFree \in Nat /\ NextFree + Interval \in Nat
      BY Instants
    <3>2. <<t, k, NextFree>> \in Turns \X Attempts \X Nat
      BY <3>1
    <3>3. CASE Refuse(t)
      BY <2>2, <3>3 DEF ReserveRequestSlot, Refuse
    <3>4. CASE Claim(t, k)
      BY <2>2, <3>1, <3>2, <3>4 DEF ReserveRequestSlot, Claim
    <3>. QED BY <2>2, <3>3, <3>4 DEF ReserveRequestSlot
  <2>3. ASSUME NEW t \in Turns, SendCall(t)
        PROVE  PacingTypeOK'
    BY <2>3 DEF SendCall
  <2>4. ASSUME NEW t \in Turns, Reply(t) \/ RateLimited(t)
        PROVE  PacingTypeOK'
    <3>1. clock + Backoff \in Nat
      BY Instants
    <3>. QED BY <2>4, <3>1 DEF Reply, RateLimited
  <2>5. CASE UNCHANGED pacingVars
    BY <2>5 DEF pacingVars
  <2>6. 1 \in Attempts /\ 2 \in Attempts
    BY DEF Attempts
  <2>. QED BY <2>1, <2>2, <2>3, <2>4, <2>5, <2>6 DEF PacingNext, TurnStep, FirstCall, Retry
<1>. QED BY <1>1, <1>2, PTL DEF PacingSpec

\* Every slot that was claimed ends before the next one that will be.
ClaimsAreBehind == \A x \in claims : x[3] + Interval <= nextRequestSlot

\* No two slots are closer than the interval: a claim is read and written in one
\* step, a refused turn claims nothing and a retry claims a slot of its own.
THEOREM SlotsStaySpaced == PacingSpec => []SlotsAreSpaced
<1>. USE PacingAssumption DEF ClaimsAreBehind, SlotsAreSpaced
<1>1. PacingInit => ClaimsAreBehind /\ SlotsAreSpaced
  BY DEF PacingInit
<1>2. PacingTypeOK /\ ClaimsAreBehind /\ SlotsAreSpaced /\ [PacingNext]_pacingVars
        => ClaimsAreBehind' /\ SlotsAreSpaced'
  <2>. SUFFICES ASSUME PacingTypeOK, ClaimsAreBehind, SlotsAreSpaced, [PacingNext]_pacingVars
                PROVE  ClaimsAreBehind' /\ SlotsAreSpaced'
    OBVIOUS
  <2>0. \A x \in claims : x[3] \in Nat
    BY DEF PacingTypeOK
  <2>1. CASE UNCHANGED <<nextRequestSlot, claims>>
    BY <2>1
  <2>2. ASSUME NEW t \in Turns, NEW k \in Attempts, Claim(t, k)
        PROVE  ClaimsAreBehind' /\ SlotsAreSpaced'
    <3>1. NextFree \in Nat /\ nextRequestSlot <= NextFree /\ nextRequestSlot \in Nat
      BY Instants
    <3>2. nextRequestSlot' = NextFree + Interval /\ claims' = claims \cup {<<t, k, NextFree>>}
      BY <2>2 DEF Claim
    <3>3. \A x \in claims : x[3] + Interval <= NextFree
      BY <3>1, <2>0
    <3>. QED BY <3>1, <3>2, <3>3, <2>0
  <2>3. ASSUME NEW t \in Turns, NEW k \in Attempts, ReserveRequestSlot(t, k)
        PROVE  ClaimsAreBehind' /\ SlotsAreSpaced'
    BY <2>1, <2>2, <2>3 DEF ReserveRequestSlot, Refuse
  <2>. QED BY <2>1, <2>3 DEF PacingNext, PassTime, TurnStep, FirstCall, Retry, SendCall, Reply,
                             RateLimited, pacingVars, Attempts
<1>. QED BY <1>1, <1>2, PacingTypeCorrect, PTL DEF PacingSpec

\* However many turns were refused, the queue never reaches further than what a
\* turn may wait and one interval.
THEOREM QueueIsBounded == PacingSpec => []QueueDoesNotRunAway
<1>. USE PacingAssumption DEF QueueDoesNotRunAway
<1>1. PacingInit => QueueDoesNotRunAway
  BY DEF PacingInit
<1>2. PacingTypeOK /\ QueueDoesNotRunAway /\ [PacingNext]_pacingVars => QueueDoesNotRunAway'
  <2>. SUFFICES ASSUME PacingTypeOK, QueueDoesNotRunAway, [PacingNext]_pacingVars
                PROVE  QueueDoesNotRunAway'
    OBVIOUS
  <2>1. clock \in Nat /\ nextRequestSlot \in Nat
    BY DEF PacingTypeOK
  <2>2. CASE UNCHANGED <<clock, nextRequestSlot>>
    BY <2>2
  <2>3. CASE PassTime
    BY <2>1, <2>3 DEF PassTime
  <2>4. ASSUME NEW t \in Turns, NEW k \in Attempts, ReserveRequestSlot(t, k)
        PROVE  QueueDoesNotRunAway'
    BY <2>1, <2>2, <2>4 DEF ReserveRequestSlot, Refuse, Claim, QueueFull, NextFree
  <2>. QED BY <2>2, <2>3, <2>4 DEF PacingNext, TurnStep, FirstCall, Retry, SendCall, Reply,
                                   RateLimited, pacingVars, Attempts
<1>. QED BY <1>1, <1>2, PacingTypeCorrect, PTL DEF PacingSpec

-----------------------------------------------------------------------------
(* The process group                                                       *)

GroupTypeOK ==
  process \in [Members -> {"none", "running", "stopped", "dead"}] /\ pendingTerm \subseteq Members

\* The variables about the run itself and about who waits for it keep their types.
LEMMA RunTypeStep ==
  ASSUME ProcessTypeOK, [ProcessNext]_processVars
  PROVE  /\ active' \in BOOLEAN /\ cancelled' \in BOOLEAN /\ inherits' \in BOOLEAN
         /\ forceKill' \in {"none", "armed", "fired"} /\ closed' \in BOOLEAN
         /\ reader' \in {"reading", "held", "done"}
         /\ caller' \in {"none", "waiting", "answered"} /\ runs' \in Nat /\ down' \in BOOLEAN
<1>. USE DEF ProcessTypeOK
<1>0. CASE SpawnTool
  <2>1. UNCHANGED <<active, cancelled, forceKill, closed, reader, caller, runs, down>>
        /\ inherits' \in BOOLEAN
    BY <1>0 DEF SpawnTool
  <2>. QED BY <2>1
<1>1. CASE SpawnChild
  <2>1. /\ active' = TRUE /\ cancelled' = FALSE /\ inherits' = FALSE /\ closed' = FALSE
        /\ down' = down
    BY <1>1, Zenon DEF SpawnChild
  <2>2. /\ runs' = runs + 1 /\ forceKill' = "none" /\ reader' = "reading" /\ caller' = "none"
    BY <1>1 DEF SpawnChild
  <2>3. /\ active' \in BOOLEAN /\ cancelled' \in BOOLEAN /\ inherits' \in BOOLEAN
        /\ closed' \in BOOLEAN
    BY <2>1, Zenon
  <2>4. down' \in BOOLEAN
    BY <2>1
  <2>. QED BY <2>2, <2>3, <2>4
<1>2. ASSUME NEW p \in Members, Exit(p)
      PROVE  UNCHANGED <<active, cancelled, inherits, forceKill, closed, reader, caller, runs,
                         down>>
  BY <1>2 DEF Exit
<1>3. CASE Cancel \/ RunTimesOut \/ ReadingFails
  BY <1>3 DEF Cancel, RunTimesOut, ReadingFails, Terminate
<1>4. CASE Pause \/ Resume \/ HoldReader \/ ReleaseReader
  BY <1>4 DEF Pause, Resume, HoldReader, ReleaseReader
<1>5. CASE ProcessEnds \/ TerminateAll
  BY <1>5 DEF ProcessEnds, Close, ForceKillFires, EndOfOutput, Finish, CancelAnswers, TerminateAll
<1>6. CASE UNCHANGED processVars
  BY <1>6 DEF processVars
<1>. QED BY <1>0, <1>1, <1>2, <1>3, <1>4, <1>5, <1>6 DEF ProcessNext, Members

\* A signal, an exit or the start of a tool keeps a group that is gone gone.
GoneStaysGone == NoneAlive => NoneAlive'

\* What every step preserves.
LEMMA GroupInvariant == ProcessSpec => [](GroupTypeOK /\ NoOrphans)
<1>. USE DEF GroupTypeOK, NoneAlive, Alive
<1>1. ProcessInit => GroupTypeOK /\ NoOrphans
  BY DEF ProcessInit, NoOrphans
<1>2. GroupTypeOK /\ NoOrphans /\ [ProcessNext]_processVars => (GroupTypeOK /\ NoOrphans)'
  <2>. SUFFICES ASSUME GroupTypeOK, NoOrphans, [ProcessNext]_processVars
                PROVE  (GroupTypeOK /\ NoOrphans)'
    OBVIOUS
  <2>1. CASE SpawnChild
    <3>1. GroupTypeOK'
      BY <2>1 DEF SpawnChild
    <3>2. active'
      BY <2>1 DEF SpawnChild
    <3>. QED BY <3>1, <3>2 DEF NoOrphans
  <2>2. CASE SpawnTool
    <3>1. GroupTypeOK' /\ GoneStaysGone
      BY <2>2 DEF SpawnTool, Members, GoneStaysGone
    <3>2. UNCHANGED active
      BY <2>2 DEF SpawnTool
    <3>. QED BY <3>1, <3>2 DEF NoOrphans, GoneStaysGone
  <2>3. ASSUME NEW p \in Members, Exit(p)
        PROVE  (GroupTypeOK /\ NoOrphans)'
    <3>1. GroupTypeOK' /\ GoneStaysGone
      BY <2>3 DEF Exit, GoneStaysGone
    <3>2. UNCHANGED active
      BY <2>3 DEF Exit
    <3>. QED BY <3>1, <3>2 DEF NoOrphans, GoneStaysGone
  <2>4. CASE Cancel \/ RunTimesOut \/ ReadingFails
    <3>1. SigTerm
      BY <2>4 DEF Cancel, RunTimesOut, ReadingFails, Terminate
    <3>2. GroupTypeOK' /\ GoneStaysGone
      BY <3>1 DEF SigTerm, GoneStaysGone
    <3>3. UNCHANGED active
      BY <2>4 DEF Cancel, RunTimesOut, ReadingFails
    <3>. QED BY <3>2, <3>3 DEF NoOrphans, GoneStaysGone
  <2>5. CASE Pause \/ Resume
    <3>1. SigStop \/ SigCont
      BY <2>5 DEF Pause, Resume
    <3>2. GroupTypeOK' /\ GoneStaysGone
      BY <3>1 DEF SigStop, SigCont, GoneStaysGone
    <3>3. UNCHANGED active
      BY <2>5 DEF Pause, Resume
    <3>. QED BY <3>2, <3>3 DEF NoOrphans, GoneStaysGone
  <2>6. CASE ForceKillFires \/ Finish \/ TerminateAll
    <3>1. SigKill
      BY <2>6 DEF ForceKillFires, Finish, TerminateAll
    <3>2. GroupTypeOK' /\ NoneAlive'
      BY <3>1 DEF SigKill
    <3>. QED BY <3>2 DEF NoOrphans
  <2>7. CASE Close \/ HoldReader \/ ReleaseReader \/ EndOfOutput \/ CancelAnswers
             \/ UNCHANGED processVars
    <3>1. UNCHANGED <<process, pendingTerm, active>>
      BY <2>7 DEF Close, HoldReader, ReleaseReader, EndOfOutput, CancelAnswers, processVars, group
    <3>. QED BY <3>1 DEF NoOrphans
  <2>. QED BY <2>1, <2>2, <2>3, <2>4, <2>5, <2>6, <2>7 DEF ProcessNext, ProcessEnds, Members
<1>. QED BY <1>1, <1>2, PTL DEF ProcessSpec

\* A run that is over has left no process behind, whatever its processes do with
\* the signals of a freeze, a cancellation and a timeout.
THEOREM NothingIsLeftRunning == ProcessSpec => []NoOrphans
BY GroupInvariant, PTL

\* Every variable of the run and of its processes has its type.
THEOREM ProcessTypeCorrect == ProcessSpec => []ProcessTypeOK
<1>1. ProcessInit => ProcessTypeOK
  <2>. SUFFICES ASSUME ProcessInit PROVE ProcessTypeOK
    OBVIOUS
  <2>1. /\ active \in BOOLEAN /\ cancelled \in BOOLEAN /\ inherits \in BOOLEAN
        /\ closed \in BOOLEAN /\ down \in BOOLEAN
    BY Zenon DEF ProcessInit
  <2>2. process \in [Members -> {"none", "running", "stopped", "dead"}] /\ pendingTerm \subseteq Members
    BY DEF ProcessInit
  <2>3. /\ forceKill \in {"none", "armed", "fired"} /\ reader \in {"reading", "held", "done"}
        /\ caller \in {"none", "waiting", "answered"} /\ runs \in Nat
    BY DEF ProcessInit
  <2>. QED BY <2>1, <2>2, <2>3 DEF ProcessTypeOK
<1>2. ProcessTypeOK /\ GroupTypeOK' /\ [ProcessNext]_processVars => ProcessTypeOK'
  BY RunTypeStep DEF GroupTypeOK, ProcessTypeOK
<1>. QED BY <1>1, <1>2, GroupInvariant, PTL DEF ProcessSpec
=============================================================================
