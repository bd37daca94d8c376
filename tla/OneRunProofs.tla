---------------------------- MODULE OneRunProofs ----------------------------
(***************************************************************************)
(* Proofs about AgentRuns that rest on one execution being alive at a      *)
(* time: for any number of runs, approvals, stops, deletions and           *)
(* terminations that overlap in any way, with crashes, and no quarantine   *)
(* by the authorizer.  The last of them is the refinement of OneRun.       *)
(***************************************************************************)
EXTENDS AgentRunsProofs

\* A lifecycle operation that has begun and not ended.
InProgress(c) == call[c].pc \notin {"idle", "done", "failed"}

\* What a call may do while a message or a start that came before it is stored:
\* its own first mutation is queued behind that.
Early(c) ==
  \/ At(c, "freezing") \/ At(c, "denying")
  \/ At(c, "revoking") /\ call[c].froze # "failed"

\* It is inside cancelExecution, or at the write that follows.
Cancels(c) == call[c].pc \in {"denying", "killing", "awaiting", "writing"}

\* The execution that is alive is the registered one, and the status says so.
OneAlive == \A r \in Runs : Alive(r) => active = r /\ HasActiveLifecycle

\* While a message or a start is stored, no execution is alive, and no operation has
\* got further than to the mutation it queued behind it.
WriterAlone ==
  writer \in Runs \cup {"start"} =>
    /\ \A r \in Runs : ~Alive(r)
    /\ \A c \in Calls : InProgress(c) => Early(c)

\* What is being stored was let in, and still would be: the Agent is open to a message,
\* the run of an outbound request is alive, nothing is stored of a deleted Agent.
WriterIsLetIn ==
  /\ writer \in Runs => status \notin {"stopped", "deleted"}
  /\ writer \in Approvals => Alive(request[writer].run)
  /\ ~Exists => writer = None

\* Only runs that were marked as running have asked for approvals.
AskedRan == \A p \in Approvals : request[p] # None => runs[request[p].run] \notin {"none", "queued"}

\* The lock of a cancellation that took it stays taken until it ends, and stops and
\* deletions always take it (agent-service.ts:394-409, 435-456).
LockIsHeld ==
  /\ \A c \in Calls : Cancels(c) /\ call[c].owns =>
       /\ locked
       /\ \A d \in Calls : Cancels(d) /\ call[d].owns => d = c
  /\ \A c \in Stops \cup Deletes : InProgress(c) => Cancels(c) /\ call[c].owns

\* Terminations do not overlap, and terminationsInProgress says there is one.
OneTermination ==
  /\ \A c \in Terminations : InProgress(c) => terminating
  /\ \A c, d \in Terminations : InProgress(c) /\ InProgress(d) => c = d

\* A cancellation waits for the execution that is alive, and is past its wait only when
\* none is.
WaitsAlone ==
  \A c \in Calls, r \in Runs : Alive(r) =>
    /\ At(c, "awaiting") => call[c].awaits = r
    /\ ~At(c, "writing")

\* After a receipt that claims containment the Agent is shut, or deleted.
QuietReceipt ==
  \A c \in Terminations : call[c].contained =>
    \/ ~Exists /\ ~authorityBlocked
    \/ /\ authorityBlocked /\ status = "stopped" /\ runtime = None
       /\ writer \notin Runs \cup Approvals
       /\ \A r \in Runs : ~Alive(r)

\* One execution at a time.  ContainedIsQuiet is not inductive: a receipt stays true because
\* no message is being stored when the Agent is found stopped; that one is not, because
\* nothing is let in while an operation holds the lock or a termination is in progress,
\* and because an operation only reaches its last write when no execution is alive.
AloneInv ==
  /\ OneAlive /\ WriterAlone /\ WriterIsLetIn /\ AskedRan /\ LockIsHeld /\ OneTermination
  /\ WaitsAlone /\ QuietReceipt

\* An operation that is where it was; a claim of containment may lapse.
SamePlace(c) ==
  /\ call'[c].pc = call[c].pc /\ call'[c].owns = call[c].owns
  /\ call'[c].awaits = call[c].awaits /\ call'[c].froze = call[c].froze
  /\ call'[c].contained => call[c].contained

\* Steps that are not of an operation leave all operations where they are, and the flags.
LEMMA PlacesStay ==
  ASSUME TypeOK, Admission \/ SendCommits \/ Engine \/ Holding \/ UNCHANGED vars
                 \/ \E r \in Runs : Executing(r)
  PROVE  /\ \A c \in Calls : SamePlace(c)
         /\ UNCHANGED <<locked, terminating, cancelling>>
<1>. USE DEF SamePlace, TypeOK, flags
<1>1. CASE Admission
  <2>1. UNCHANGED call \/ call' = ClaimsLapse
    BY <1>1 DEF Admission, SendMessage, SendBlocked, StartAgent, StartCommits, WriteFails
  <2>2. UNCHANGED <<locked, terminating, cancelling>>
    BY <1>1 DEF Admission, SendMessage, SendBlocked, StartAgent, StartCommits, WriteFails
  <2>. QED BY <2>1, <2>2 DEF ClaimsLapse, CallState
<1>2. CASE SendCommits \/ UNCHANGED vars
  BY <1>2 DEF SendCommits, vars
<1>3. CASE Engine
  BY <1>3 DEF Engine, Exits, TimesOut, CanaryCancels, OrphanEnds
<1>4. CASE Holding
  BY <1>4 DEF Holding, EgressCommits, EgressWriteFails, Approve, Deny, Decide,
      EgressAbandoned, HoldEgress
<1>5. ASSUME NEW r \in Runs, Executing(r)
      PROVE  UNCHANGED <<call, locked, terminating, cancelling>>
  BY <1>5 DEF Executing, RunStep, CanaryStep, StepRefused, StepFails, StepIntercepted,
      BeginRun, BeginFails, CheckBarrier, PrepareFails, Launch, RunnerReturns,
      RemoveDoomed, PauseForApproval, PublishStep, PublishStepFails, StepReleased,
      ResumeAfterApproval, RecordResumed, EndRun, EndFails, GoesTo, EndsAs, Throws
<1>. QED BY <1>1, <1>2, <1>3, <1>4, <1>5

\* A step of one operation leaves the others.
LEMMA OtherCalls ==
  ASSUME TypeOK, NEW c \in Calls, NEW d \in Calls \ {c}, Lifecycle(c) PROVE call'[d] = call[d]
<1>. USE DEF TypeOK
<1>1. CASE Freeze(c) \/ Revoke(c)
  BY <1>1 DEF Freeze, Revoke, Quarantine
<1>2. CASE ~Freeze(c) /\ ~Revoke(c)
  BY <1>2 DEF Lifecycle, CallStopOrDelete, CallQuarantine, BeginTermination, CallStep,
      DenyPending, DenyFails, CancelRuntime, AwaitExecution, CancelEnds, WriteStopped,
      WriteDeleted, LastWriteFails, Freeze, Revoke, Verify, RecordReceipt, RecordFails,
      Quarantine
<1>. QED BY <1>1, <1>2

\* Where an operation is, what it keeps, and where it goes when it fails.
Place(c) == call[c].pc
Kept(c) ==
  /\ call'[c].awaits = call[c].awaits /\ call'[c].froze = call[c].froze
  /\ call'[c].contained = call[c].contained
AfterFailing(c) ==
  IF c \notin Terminations THEN "failed"
  ELSE IF call[c].froze = "failed" THEN "revoking" ELSE "verifying"

\* What AfterFailure does.
LEMMA AfterFailureParts ==
  ASSUME TypeOK, NEW c \in Calls, call' = [call EXCEPT ![c] = AfterFailure(c)]
  PROVE  Place(c)' = AfterFailing(c) /\ Kept(c) /\ call'[c].owns = call[c].owns
<1>. DEFINE place == AfterFailing(c)
<1>1. call[c] \in CallState /\ call'[c] = [call[c] EXCEPT !.failed = TRUE, !.pc = place]
  BY DEF TypeOK, AfterFailure, AfterFailing
<1>. HIDE DEF place
<1>2. /\ call'[c].pc = place /\ call'[c].owns = call[c].owns
      /\ call'[c].awaits = call[c].awaits /\ call'[c].froze = call[c].froze
      /\ call'[c].contained = call[c].contained
  BY ONLY <1>1 DEF CallState
<1>. QED BY <1>2 DEF Kept, Place, place

\* What the quarantine within a termination does.
LEMMA QuarantineParts ==
  ASSUME TypeOK, NEW c \in Calls, NEW progress \in CallState, Quarantine(c, progress)
  PROVE  /\ Place(c)' = "denying" /\ call'[c].owns = ~locked
         /\ call'[c].awaits = progress.awaits /\ call'[c].froze = progress.froze
         /\ call'[c].contained = progress.contained
         /\ locked' /\ cancelling'
<1>. DEFINE free == ~locked
<1>1. /\ call'[c] = [progress EXCEPT !.pc = "denying", !.owns = free]
      /\ locked' /\ cancelling'
  BY DEF TypeOK, Quarantine
<1>. HIDE DEF free
<1>2. /\ call'[c].pc = "denying" /\ call'[c].owns = free
      /\ call'[c].awaits = progress.awaits /\ call'[c].froze = progress.froze
      /\ call'[c].contained = progress.contained
  BY <1>1 DEF CallState
<1>. QED BY <1>1, <1>2 DEF Place, free

\* A freeze that fails is followed by the kill, one that does not by the revocation.
LEMMA FreezeMoves ==
  ASSUME TypeOK, NEW c \in Calls, Freeze(c)
  PROVE  /\ Place(c) = "freezing"
         /\ call'[c].awaits = call[c].awaits /\ call'[c].contained = call[c].contained
         /\ \/ /\ Place(c)' = "denying" /\ call'[c].owns = ~locked
               /\ call'[c].froze = "failed" /\ locked' /\ cancelling'
            \/ /\ Place(c)' = "revoking" /\ call'[c].owns = call[c].owns
               /\ call'[c].froze # "failed" /\ UNCHANGED <<locked, cancelling>>
<1>1. PICK froze \in {"idle", "blocked", "paused", "failed"}, failed \in BOOLEAN :
        LET progress == [call[c] EXCEPT !.froze = froze, !.failed = failed] IN
        IF froze = "failed" THEN Quarantine(c, progress)
        ELSE /\ call' = [call EXCEPT ![c] = [progress EXCEPT !.pc = "revoking"]]
             /\ UNCHANGED <<locked, cancelling>>
  BY DEF Freeze, Frozen
<1>. DEFINE progress == [call[c] EXCEPT !.froze = froze, !.failed = failed]
<1>2. call[c] \in CallState /\ call \in [Calls -> CallState]
  BY DEF TypeOK
<1>3. /\ progress \in CallState /\ progress.froze = froze /\ progress.awaits = call[c].awaits
      /\ progress.contained = call[c].contained /\ progress.owns = call[c].owns
  BY <1>2 DEF CallState
<1>4. IF froze = "failed" THEN Quarantine(c, progress)
      ELSE /\ call' = [call EXCEPT ![c] = [progress EXCEPT !.pc = "revoking"]]
           /\ UNCHANGED <<locked, cancelling>>
  BY <1>1
<1>5. Place(c) = "freezing"
  BY DEF Freeze, At, Place
<1>. HIDE DEF progress
<1>6. CASE froze = "failed"
  BY <1>3, <1>4, <1>5, <1>6, QuarantineParts
<1>7. CASE froze # "failed"
  <2>1. call'[c] = [progress EXCEPT !.pc = "revoking"]
    BY <1>2, <1>4, <1>7
  <2>. QED BY <1>3, <1>4, <1>5, <1>7, <2>1 DEF Place, CallState
<1>. QED BY <1>6, <1>7

\* A revocation is followed by the kill, unless that came first.
LEMMA RevokeMoves ==
  ASSUME TypeOK, NEW c \in Calls, Revoke(c)
  PROVE  /\ Place(c) = "revoking" /\ StoreIdle /\ Kept(c)
         /\ \/ /\ Place(c)' = "denying" /\ call'[c].owns = ~locked
               /\ locked' /\ cancelling'
            \/ /\ Place(c)' = "verifying" /\ call'[c].owns = call[c].owns
               /\ UNCHANGED <<locked, cancelling>>
<1>1. PICK failed \in BOOLEAN :
        LET progress == [call[c] EXCEPT !.failed = failed] IN
        \/ Quarantine(c, progress)
        \/ /\ call' = [call EXCEPT ![c] = [progress EXCEPT !.pc = "verifying"]]
           /\ UNCHANGED <<locked, cancelling>>
  BY DEF Revoke, TypeOK, CallState
<1>. DEFINE progress == [call[c] EXCEPT !.failed = failed]
<1>2. call[c] \in CallState /\ call \in [Calls -> CallState]
  BY DEF TypeOK
<1>3. /\ progress \in CallState /\ progress.awaits = call[c].awaits /\ progress.froze = call[c].froze
      /\ progress.contained = call[c].contained /\ progress.owns = call[c].owns
  BY <1>2 DEF CallState
<1>4. \/ Quarantine(c, progress)
      \/ /\ call' = [call EXCEPT ![c] = [progress EXCEPT !.pc = "verifying"]]
         /\ UNCHANGED <<locked, cancelling>>
  BY <1>1
<1>5. Place(c) = "revoking" /\ StoreIdle
  BY DEF Revoke, At, Place
<1>. HIDE DEF progress
<1>6. CASE Quarantine(c, progress)
  BY <1>3, <1>5, <1>6, QuarantineParts DEF Kept
<1>7. CASE /\ call' = [call EXCEPT ![c] = [progress EXCEPT !.pc = "verifying"]]
           /\ UNCHANGED <<locked, cancelling>>
  <2>1. call'[c] = [progress EXCEPT !.pc = "verifying"]
    BY <1>2, <1>7
  <2>. QED BY <1>3, <1>5, <1>7, <2>1 DEF Place, Kept, CallState
<1>. QED BY <1>4, <1>6, <1>7

\* The ways an operation proceeds: it opens, a termination begins or reaches its kill, it
\* goes on, finds nothing left to wait for, gives back the lock, or reports.
Turns(c, from, to) ==
  Place(c) = from /\ Place(c)' = to /\ Kept(c) /\ call'[c].owns = call[c].owns

Opens(c) ==
  /\ c \in Stops \cup Deletes /\ ~locked /\ Exists
  /\ Place(c) = "idle" /\ Place(c)' = "denying" /\ Kept(c) /\ call'[c].owns
  /\ locked' /\ cancelling' /\ UNCHANGED terminating
Begins(c) ==
  /\ c \in Terminations /\ Exists /\ ~terminating
  /\ Turns(c, "idle", "freezing") /\ terminating' /\ UNCHANGED <<locked, cancelling>>
Kills(c) ==
  /\ \/ Place(c) = "freezing" /\ call'[c].froze = "failed"
     \/ Place(c) = "revoking" /\ StoreIdle /\ call'[c].froze = call[c].froze
  /\ call'[c].awaits = call[c].awaits /\ call'[c].contained = call[c].contained
  /\ Place(c)' = "denying" /\ call'[c].owns = ~locked
  /\ locked' /\ cancelling' /\ UNCHANGED terminating
Proceeds(c) ==
  /\ \/ /\ Place(c) = "freezing" /\ Place(c)' = "revoking" /\ call'[c].froze # "failed"
        /\ call'[c].awaits = call[c].awaits /\ call'[c].contained = call[c].contained
        /\ call'[c].owns = call[c].owns
     \/ Turns(c, "revoking", "verifying") /\ StoreIdle
     \/ Turns(c, "denying", "killing") /\ StoreIdle
     \/ Turns(c, "recording", "failed")
     \/ /\ Place(c) = "verifying" /\ Place(c)' = "recording"
        /\ call'[c].awaits = call[c].awaits /\ call'[c].owns = call[c].owns
        /\ call'[c].contained =>
             authorityBlocked /\ status = "stopped" /\ active = None /\ runtime = None
     \/ /\ Place(c) = "killing" /\ Place(c)' = "awaiting" /\ active # None
        /\ call'[c].awaits = active /\ call'[c].owns = call[c].owns
        /\ call'[c].contained = call[c].contained
     \/ SamePlace(c)
  /\ UNCHANGED <<locked, cancelling, terminating>>
IsSpared(c) ==
  /\ CancelDue(c) /\ Place(c)' = "writing" /\ Kept(c) /\ call'[c].owns = call[c].owns
  /\ ~cancelling' /\ UNCHANGED <<locked, terminating>>
GivesBack(c) ==
  /\ \/ CancelDue(c) /\ ~cancelling'
     \/ At(c, "writing") /\ StoreIdle /\ UNCHANGED cancelling
     \/ At(c, "denying") /\ StoreIdle /\ ~cancelling'
  /\ Place(c)' \in {"done", AfterFailing(c)} /\ (c \in Terminations => Place(c)' = AfterFailing(c))
  /\ Kept(c) /\ call'[c].owns = call[c].owns
  /\ locked' = (locked /\ ~call[c].owns) /\ UNCHANGED terminating
Reports(c) ==
  Turns(c, "recording", "done") /\ ~terminating' /\ UNCHANGED <<locked, cancelling>>

\* There are no others, when the authorizer does not quarantine the Agent.
LEMMA CallMoves ==
  ASSUME TypeOK, Quarantines = {}, NEW c \in Calls, Lifecycle(c)
  PROVE  \/ Opens(c) \/ Begins(c) \/ Kills(c) \/ Proceeds(c) \/ IsSpared(c)
         \/ GivesBack(c) \/ Reports(c)
<1>. USE DEF flags
<1>0. call \in [Calls -> CallState]
  BY DEF TypeOK
<1>1. CASE CallStopOrDelete(c)
  BY <1>0, <1>1 DEF CallStopOrDelete, Opens, Place, Kept, At, CallState
<1>2. CASE BeginTermination(c)
  BY <1>0, <1>2 DEF BeginTermination, Begins, Turns, Place, Kept, At, CallState
<1>3. CASE Freeze(c)
  <2>1. UNCHANGED terminating
    BY <1>3 DEF Freeze
  <2>. QED BY <1>3, <2>1, FreezeMoves DEF Kills, Proceeds
<1>4. CASE Revoke(c)
  <2>1. UNCHANGED terminating
    BY <1>4 DEF Revoke
  <2>. QED BY <1>4, <2>1, RevokeMoves DEF Kills, Proceeds, Turns, Kept
<1>5. CASE DenyPending(c)
  BY <1>0, <1>5 DEF DenyPending, Proceeds, Turns, Place, Kept, At, CallState
<1>6. CASE AwaitExecution(c)
  BY <1>0, <1>6 DEF AwaitExecution, Proceeds, Place, At, CallState
<1>7. CASE CancelRuntime(c)
  BY <1>0, <1>7 DEF CancelRuntime, Proceeds, SamePlace, CallState
<1>8. CASE DenyFails(c) \/ LastWriteFails(c)
  <2>1. call' = [call EXCEPT ![c] = AfterFailure(c)]
    BY <1>8 DEF DenyFails, LastWriteFails
  <2>. QED BY <1>8, <2>1, AfterFailureParts DEF DenyFails, LastWriteFails, GivesBack,
      Unlocks, store
<1>9. CASE CancelEnds(c)
  <2>1. CASE call' = [call EXCEPT ![c] = AfterFailure(c)] /\ Unlocks(c)
    BY <1>9, <2>1, AfterFailureParts DEF CancelEnds, GivesBack, Unlocks
  <2>2. CASE call' = [call EXCEPT ![c].pc = "writing"] /\ UNCHANGED locked
    BY <1>0, <1>9, <2>2 DEF CancelEnds, IsSpared, Place, Kept, CallState
  <2>. QED BY <1>9, <2>1, <2>2 DEF CancelEnds
<1>10. CASE WriteStopped(c)
  <2>. DEFINE place == IF c \notin Terminations THEN "done"
                       ELSE IF call[c].froze = "failed" THEN "revoking" ELSE "verifying"
  <2>1. call' = [call EXCEPT ![c].pc = place]
    BY <1>10 DEF WriteStopped
  <2>2. place \in {"done", AfterFailing(c)} /\ (c \in Terminations => place = AfterFailing(c))
    BY DEF AfterFailing
  <2>. HIDE DEF place
  <2>3. Place(c)' = place /\ Kept(c) /\ call'[c].owns = call[c].owns
    BY <1>0, <2>1 DEF Place, Kept, CallState
  <2>. QED BY <1>10, <2>2, <2>3 DEF WriteStopped, GivesBack, Unlocks
<1>11. CASE WriteDeleted(c)
  <2>1. Place(c)' = "done" /\ Kept(c) /\ call'[c].owns = call[c].owns
    BY <1>0, <1>11 DEF WriteDeleted, Place, Kept, CallState
  <2>. QED BY <1>11, <2>1, CallsAreDistinct DEF WriteDeleted, GivesBack, Unlocks
<1>12. CASE Verify(c)
  <2>1. PICK claimed \in BOOLEAN, confirmed \in BOOLEAN :
          /\ call' = [call EXCEPT ![c].pc = "recording", ![c].contained = claimed,
                                  ![c].confirmed = confirmed]
          /\ claimed => authorityBlocked /\ status = "stopped" /\ active = None /\ runtime = None
    BY <1>12 DEF Verify
  <2>2. /\ Place(c)' = "recording" /\ call'[c].contained = claimed
        /\ call'[c].awaits = call[c].awaits /\ call'[c].owns = call[c].owns
    BY <1>0, <2>1 DEF Place, CallState
  <2>. QED BY <1>12, <2>1, <2>2 DEF Verify, Proceeds, Place, At
<1>13. CASE RecordReceipt(c)
  BY <1>0, <1>13 DEF RecordReceipt, Reports, Turns, Place, Kept, At, CallState
<1>14. CASE RecordFails(c)
  BY <1>0, <1>14 DEF RecordFails, Proceeds, Turns, Place, Kept, At, CallState
<1>15. ~CallQuarantine(c)
  BY DEF CallQuarantine
<1>. QED BY <1>1, <1>2, <1>3, <1>4, <1>5, <1>6, <1>7, <1>8, <1>9, <1>10, <1>11, <1>12,
    <1>13, <1>14, <1>15
     DEF Lifecycle, CallStep

\* Where a restart leaves everything.
LEMMA RestartParts ==
  ASSUME TypeOK, Restart
  PROVE  /\ \A c \in Calls : /\ ~InProgress(c)' /\ ~Cancels(c)'
                               /\ (call'[c].contained => call[c].contained)
         /\ \A r \in Runs : ~Alive(r)'
         /\ writer' = None /\ runtime' = None /\ ~terminating' /\ ~cancelling'
         /\ status' = IF HasActiveLifecycle THEN "ready" ELSE status
         /\ UNCHANGED <<authorityBlocked, request>>
<1>1. \A c \in Calls : ~InProgress(c)' /\ ~Cancels(c)' /\ (call'[c].contained => call[c].contained)
  <2>. SUFFICES ASSUME NEW c \in Calls
                PROVE  ~InProgress(c)' /\ ~Cancels(c)' /\ (call'[c].contained => call[c].contained)
    OBVIOUS
  <2>1. call[c] \in CallState
    BY DEF TypeOK
  <2>2. CASE At(c, "idle")
    <3>1. call'[c] = call[c]
      BY <2>2 DEF Restart
    <3>. QED BY <2>2, <3>1 DEF At, InProgress, Cancels
  <2>3. CASE ~At(c, "idle")
    <3>1. call'[c] = [call[c] EXCEPT !.pc = "failed", !.killed = "failed"]
      BY <2>3 DEF Restart
    <3>. QED BY <2>1, <3>1 DEF InProgress, Cancels, CallState
  <2>. QED BY <2>2, <2>3
<1>. QED BY <1>1 DEF Restart, RuntimesAfterCrash, TypeOK, Alive

\* The steps that are not of a lifecycle operation.
Quiescent == Admission \/ SendCommits \/ Engine \/ Holding \/ UNCHANGED vars
             \/ \E r \in Runs : Executing(r)

\* Every step is one of those, a restart, or the step of an operation.
LEMMA MainCases ==
  ASSUME [Next]_vars PROVE Quiescent \/ Restart \/ \E c \in Calls : Lifecycle(c)
BY NextCases DEF Quiescent

\* No step takes a lock twice or leaves it to nobody.
LEMMA LockStep ==
  ASSUME Quarantines = {}, TypeOK, LockIsHeld, [Next]_vars PROVE LockIsHeld'
<1>. USE CallsAreDistinct DEF LockIsHeld
<1>1. CASE Restart
  BY <1>1, RestartParts DEF Calls
<1>2. CASE Quiescent
  <2>1. /\ \A c \in Calls : SamePlace(c)
        /\ UNCHANGED <<locked, terminating, cancelling>>
    BY <1>2, PlacesStay DEF Quiescent
  <2>. QED BY <2>1 DEF SamePlace, Calls, InProgress, Cancels
<1>3. ASSUME NEW c \in Calls, Lifecycle(c) PROVE LockIsHeld'
  <2>0. locked \in BOOLEAN /\ call[c].owns \in BOOLEAN
    BY DEF TypeOK, CallState
  <2>1. \A d \in Calls \ {c} : call'[d] = call[d]
    BY <1>3, OtherCalls
  <2>. USE <2>1 DEF Cancels, InProgress, Place, Turns, SamePlace, At
  <2>2. CASE Opens(c)
    BY <2>0, <2>2 DEF Opens, Calls
  <2>3. CASE Begins(c)
    BY <2>0, <2>3 DEF Begins, Calls
  <2>4. CASE Kills(c)
    <3>1. c \in Terminations
      BY <2>4 DEF Kills, Calls
    <3>2. CASE locked
      <4>1. ~call'[c].owns /\ locked'
        BY <2>4, <3>2 DEF Kills
      <4>. QED BY <3>1, <3>2, <4>1 DEF Calls
    <3>3. CASE ~locked
      <4>1. locked' /\ \A d \in Calls : ~(Cancels(d) /\ call[d].owns)
        BY <2>4, <3>3 DEF Kills
      <4>. QED BY <3>1, <4>1 DEF Calls
    <3>. QED BY <3>2, <3>3
  <2>5. CASE Proceeds(c)
    BY <2>0, <2>5 DEF Proceeds, Calls
  <2>6. CASE IsSpared(c) \/ Reports(c)
    BY <2>0, <2>6 DEF IsSpared, Reports, CancelDue, Calls
  <2>7. CASE GivesBack(c)
    BY <2>0, <2>7 DEF GivesBack, CancelDue, AfterFailing, Calls
  <2>. QED BY <1>3, <2>2, <2>3, <2>4, <2>5, <2>6, <2>7, CallMoves
<1>. QED BY <1>1, <1>2, <1>3, MainCases

\* No termination begins while one is in progress.
LEMMA TerminationStep ==
  ASSUME Quarantines = {}, TypeOK, LockIsHeld, OneTermination, [Next]_vars PROVE OneTermination'
<1>. USE CallsAreDistinct DEF OneTermination
<1>1. CASE Restart
  BY <1>1, RestartParts DEF Calls
<1>2. CASE Quiescent
  <2>1. /\ \A c \in Calls : SamePlace(c)
        /\ UNCHANGED <<locked, terminating, cancelling>>
    BY <1>2, PlacesStay DEF Quiescent
  <2>. QED BY <2>1 DEF SamePlace, Calls, InProgress
<1>3. ASSUME NEW c \in Calls, Lifecycle(c) PROVE OneTermination'
  <2>1. \A d \in Calls \ {c} : call'[d] = call[d]
    BY <1>3, OtherCalls
  <2>. USE <2>1 DEF InProgress, Place, Turns, SamePlace, At
  <2>2. CASE Opens(c)
    BY <2>2 DEF Opens, Calls
  <2>3. CASE Begins(c)
    BY <2>3 DEF Begins, Calls
  <2>4. CASE Kills(c) \/ Proceeds(c) \/ IsSpared(c)
    BY <2>4 DEF Kills, Proceeds, IsSpared, CancelDue, Calls
  <2>5. CASE Reports(c)
    BY <2>5 DEF Reports, LockIsHeld, Cancels, Calls
  <2>6. CASE GivesBack(c)
    BY <2>6 DEF GivesBack, CancelDue, AfterFailing, Calls
  <2>. QED BY <1>3, <2>2, <2>3, <2>4, <2>5, <2>6, CallMoves
<1>. QED BY <1>1, <1>2, <1>3, MainCases

\* What the step of an execution may do to the status and to the registered execution.
LEMMA ExecutionMoves ==
  ASSUME TypeOK, RuntimeIsTracked, NEW r \in Runs, Executing(r)
  PROVE  /\ Alive(r) /\ \A q \in Runs \ {r} : step'[q] = step[q]
         /\ \/ Alive(r)' /\ UNCHANGED active
            \/ ~Alive(r)' /\ StoreIdle /\ active' = IF active = r THEN None ELSE active
         /\ \/ UNCHANGED status
            \/ status' = "waiting_approval" /\ Exists
            \/ ~Alive(r)' /\ status' = StatusAfter(r)
         /\ UNCHANGED <<writer, authorityBlocked>>
<1>. USE DEF TypeOK, Alive
<1>1. Alive(r)
  BY DEF Executing, RunStep, CanaryStep, StepRefused, StepFails, StepIntercepted,
      BeginRun, BeginFails, CheckBarrier, PrepareFails, Launch, RunnerReturns,
      RemoveDoomed, PauseForApproval, PublishStep, PublishStepFails, StepReleased,
      ResumeAfterApproval, RecordResumed, EndRun, EndFails, GoesTo, EndsAs, Throws,
      RuntimeIsTracked, InRuntime
<1>2. \A q \in Runs \ {r} : step'[q] = step[q]
  BY OthersStay, TypeParts
<1>3. \/ Alive(r)' /\ UNCHANGED active
      \/ ~Alive(r)' /\ StoreIdle /\ active' = IF active = r THEN None ELSE active
  BY <1>1 DEF Executing, RunStep, CanaryStep, StepRefused, StepFails, StepIntercepted,
      BeginRun, BeginFails, CheckBarrier, PrepareFails, Launch, RunnerReturns,
      RemoveDoomed, PauseForApproval, PublishStep, PublishStepFails, StepReleased,
      ResumeAfterApproval, RecordResumed, EndRun, EndFails, GoesTo, EndsAs, Throws,
      execution
<1>4. \/ UNCHANGED status
      \/ status' = "waiting_approval" /\ Exists
      \/ ~Alive(r)' /\ status' = StatusAfter(r)
  BY DEF Executing, RunStep, CanaryStep, StepRefused, StepFails, StepIntercepted,
      BeginRun, BeginFails, CheckBarrier, PrepareFails, Launch, RunnerReturns,
      RemoveDoomed, PauseForApproval, PublishStep, PublishStepFails, StepReleased,
      ResumeAfterApproval, RecordResumed, EndRun, EndFails, GoesTo, EndsAs, Throws, store
<1>5. UNCHANGED <<writer, authorityBlocked>>
  BY DEF Executing, RunStep, CanaryStep, StepRefused, StepFails, StepIntercepted,
      BeginRun, BeginFails, CheckBarrier, PrepareFails, Launch, RunnerReturns,
      RemoveDoomed, PauseForApproval, PublishStep, PublishStepFails, StepReleased,
      ResumeAfterApproval, RecordResumed, EndRun, EndFails, GoesTo, EndsAs, Throws, store
<1>. QED BY <1>1, <1>2, <1>3, <1>4, <1>5

\* Where a message or a start is let in, no operation is in progress.
LEMMA NobodyWorks ==
  ASSUME LockIsHeld, OneTermination, Quarantines = {},
         QueueEmpty, ~locked, ~terminating
  PROVE  \A c \in Calls : ~InProgress(c)
BY DEF LockIsHeld, OneTermination, Calls

\* Only SendCommits brings an execution to life.
LEMMA WhoAlive ==
  ASSUME IInv, [Next]_vars, NEW r \in Runs, Alive(r)'
  PROVE  Alive(r) \/ (SendCommits /\ r = writer)
<1>0. TypeOK /\ RuntimeIsTracked
  BY DEF IInv
<1>1. CASE Elsewhere
  <2>1. UNCHANGED step
    BY <1>1, ExecutionFrame DEF execution
  <2>. QED BY <2>1 DEF Alive
<1>2. CASE SendCommits
  <2>1. step' = [step EXCEPT ![writer] = "queued"] /\ step \in [Runs -> Step]
    BY <1>0, <1>2 DEF SendCommits, TypeOK
  <2>. QED BY <1>2, <2>1 DEF Alive
<1>3. CASE Restart
  BY <1>0, <1>3, RestartParts
<1>4. ASSUME NEW q \in Runs, Executing(q) PROVE Alive(r)
  <2>1. Alive(q) /\ \A d \in Runs \ {q} : step'[d] = step[d]
    BY <1>0, <1>4, ExecutionMoves
  <2>. QED BY <2>1 DEF Alive
<1>. QED BY <1>1, <1>2, <1>3, <1>4, StepCases

\* No step leaves two executions alive, or one with a status that hides it.
LEMMA OneAliveStep ==
  ASSUME IInv, AloneInv, [Next]_vars PROVE OneAlive'
<1>. USE DEF OneAlive, HasActiveLifecycle
<1>0. TypeOK /\ RuntimeIsTracked
  BY DEF IInv
<1>1. CASE Restart
  BY <1>0, <1>1, RestartParts
<1>2. CASE SendCommits
  <2>1. writer \in Runs /\ active' = writer /\ status' = "busy"
    BY <1>2 DEF SendCommits
  <2>. QED BY <1>2, <2>1, WhoAlive DEF AloneInv, WriterAlone
<1>3. ASSUME NEW r \in Runs, Executing(r) PROVE OneAlive'
  <2>. SUFFICES ASSUME NEW q \in Runs, Alive(q)' PROVE active' = q /\ HasActiveLifecycle'
    OBVIOUS
  <2>1. Alive(q) /\ active = q /\ HasActiveLifecycle
    <3>1. Alive(q)
      BY <1>0, <1>3, ExecutionMoves DEF Alive
    <3>. QED BY <3>1 DEF AloneInv
  <2>2. q = r
    BY <1>0, <1>3, <2>1, ExecutionMoves DEF AloneInv
  <2>. QED BY <1>0, <1>3, <2>1, <2>2, ExecutionMoves
<1>4. CASE Elsewhere
  <2>. SUFFICES ASSUME NEW q \in Runs, Alive(q)' PROVE HasActiveLifecycle'
    BY <1>4, ExecutionFrame DEF AloneInv, execution, Alive
  <2>1. Alive(q) /\ HasActiveLifecycle
    BY <1>4, ExecutionFrame DEF AloneInv, execution, Alive
  <2>2. CASE Admission
    <3>1. UNCHANGED status
      BY <2>1, <2>2 DEF Admission, SendMessage, SendBlocked, StartAgent, StartCommits,
          WriteFails, Admits, AloneInv, WriterAlone, store
    <3>. QED BY <2>1, <3>1
  <2>3. CASE Engine \/ UNCHANGED vars
    BY <2>1, <2>3 DEF Engine, Exits, TimesOut, CanaryCancels, OrphanEnds, store, vars
  <2>4. CASE Holding
    <3>1. ASSUME NEW p \in Approvals, Approve(p) \/ Deny(p) PROVE HasActiveLifecycle'
      <4>1. runs[request[p].run] \in {"queued", "running"} /\ request[p] # None
        BY <3>1 DEF Approve, Deny, Decide, Resolvable, IInv, ApprovalsAreAsked
      <4>2. runs[request[p].run] = "running"
        BY <4>1 DEF AloneInv, AskedRan
      <4>. QED BY <2>1, <3>1, <4>2 DEF Approve, Deny, Decide
    <3>2. CASE EgressCommits
      BY <3>2 DEF EgressCommits
    <3>. QED BY <2>1, <2>4, <3>1, <3>2 DEF Holding, EgressWriteFails, EgressAbandoned,
        HoldEgress, store
  <2>5. ASSUME NEW c \in Calls, Lifecycle(c) PROVE HasActiveLifecycle'
    <3>1. ~At(c, "writing")
      BY <2>1 DEF AloneInv, WaitsAlone
    <3>2. UNCHANGED status
      BY <2>5, <3>1 DEF Lifecycle, CallStopOrDelete, CallQuarantine, BeginTermination,
          CallStep, DenyPending, DenyFails, CancelRuntime, AwaitExecution, CancelEnds,
          WriteStopped, WriteDeleted, LastWriteFails, Freeze, Revoke, Verify,
          RecordReceipt, RecordFails, store
    <3>. QED BY <2>1, <3>2
  <2>. QED BY <1>4, <2>2, <2>3, <2>4, <2>5 DEF Elsewhere
<1>. QED BY <1>1, <1>2, <1>3, <1>4, StepCases

\* An approval is asked for once, by the step that asks.
LEMMA RequestMoves ==
  ASSUME TypeOK, [Next]_vars, NEW p \in Approvals
  PROVE  \/ request'[p] = request[p]
         \/ /\ request[p] = None
            /\ \E r \in Runs : /\ request'[p].run = r
                               /\ (StepIntercepted(r, p) /\ Executing(r)) \/ (HoldEgress(r, p) /\ Holding)
<1>. USE DEF TypeOK
<1>1. CASE Holding
  <2>1. UNCHANGED request \/ \E r \in Runs, q \in Approvals : HoldEgress(r, q)
    BY <1>1 DEF Holding, EgressCommits, EgressWriteFails, Approve, Deny, Decide,
        EgressAbandoned, HoldEgress, holds
  <2>2. ASSUME NEW r \in Runs, NEW q \in Approvals, HoldEgress(r, q)
        PROVE  \/ request'[p] = request[p]
               \/ p = q /\ request[p] = None /\ request'[p].run = r
    BY <2>2 DEF HoldEgress
  <2>. QED BY <1>1, <2>1, <2>2
<1>2. CASE Admission \/ SendCommits \/ Restart \/ Engine \/ UNCHANGED vars
  BY <1>2 DEF Admission, SendMessage, SendBlocked, StartAgent, StartCommits, WriteFails,
      SendCommits, Restart, Engine, Exits, TimesOut, CanaryCancels, OrphanEnds, vars, holds
<1>3. ASSUME NEW r \in Runs, Executing(r)
      PROVE  \/ UNCHANGED request
             \/ \E q \in Approvals : StepIntercepted(r, q)
  BY <1>3, HoldsOfExecution
<1>4. ASSUME NEW r \in Runs, NEW q \in Approvals, StepIntercepted(r, q)
      PROVE  \/ request'[p] = request[p]
             \/ p = q /\ request[p] = None /\ request'[p].run = r /\ Executing(r)
  BY <1>4 DEF StepIntercepted, Executing
<1>5. ASSUME NEW c \in Calls, Lifecycle(c) PROVE UNCHANGED request
  BY <1>5, HoldsOfLifecycle
<1>. QED BY <1>1, <1>2, <1>3, <1>4, <1>5, NextCases

\* A run that asks is running.
LEMMA AskedRanStep ==
  ASSUME IInv, AskedRan, [Next]_vars PROVE AskedRan'
<1>0. TypeOK /\ RuntimeIsTracked
  BY DEF IInv
<1>. SUFFICES ASSUME NEW p \in Approvals, request'[p] # None
              PROVE  runs'[request'[p].run] \notin {"none", "queued"}
  BY DEF AskedRan
<1>1. CASE request'[p] = request[p]
  <2>1. request[p].run \in Runs /\ runs[request[p].run] \notin {"none", "queued"}
    BY <1>0, <1>1 DEF AskedRan, TypeOK, Requests
  <2>2. \A r \in Runs : runs[r] \notin {"none", "queued"} => runs'[r] \notin {"none", "queued"}
    <3>. USE <1>0 DEF TypeOK, RunStatus
    <3>1. CASE Admission
      BY <3>1 DEF Admission, SendMessage, SendBlocked, StartAgent, StartCommits,
          WriteFails, store
    <3>2. CASE Holding
      BY <3>2 DEF Holding, EgressCommits, EgressWriteFails, Approve, Deny, Decide,
          EgressAbandoned, HoldEgress, store
    <3>3. CASE SendCommits
      BY <3>3 DEF SendCommits, IInv, WriterIsNew
    <3>4. CASE Restart \/ UNCHANGED vars
      BY <3>4 DEF Restart, vars, store
    <3>5. CASE Engine
      BY <3>5 DEF Engine, Exits, TimesOut, CanaryCancels, OrphanEnds, store
    <3>6. ASSUME NEW r \in Runs, Executing(r)
          PROVE  runs[r] \notin {"none", "queued"} => runs'[r] \notin {"none", "queued"}
      BY <3>6 DEF Executing, RunStep, CanaryStep, StepRefused, StepFails, StepIntercepted,
          BeginRun, BeginFails, CheckBarrier, PrepareFails, Launch, RunnerReturns,
          RemoveDoomed, PauseForApproval, PublishStep, PublishStepFails, StepReleased,
          ResumeAfterApproval, RecordResumed, EndRun, EndFails, GoesTo, EndsAs, Throws,
          store
    <3>7. ASSUME NEW c \in Calls, Lifecycle(c)
          PROVE  \A r \in Runs : runs[r] \notin {"none", "queued"}
                                => runs'[r] \notin {"none", "queued"}
      BY <3>7 DEF Lifecycle, CallStopOrDelete, CallQuarantine, BeginTermination, CallStep,
          DenyPending, DenyFails, CancelRuntime, AwaitExecution, CancelEnds, WriteStopped,
          WriteDeleted, LastWriteFails, Freeze, Revoke, Verify, RecordReceipt,
          RecordFails, store
    <3>8. ASSUME NEW r \in Runs, Executing(r), NEW q \in Runs \ {r} PROVE runs'[q] = runs[q]
      BY <3>8, OthersStay, TypeParts
    <3>. QED BY <3>1, <3>2, <3>3, <3>4, <3>5, <3>6, <3>7, <3>8, NextCases
  <2>. QED BY <1>1, <2>1, <2>2
<1>2. ASSUME NEW r \in Runs, request'[p].run = r, StepIntercepted(r, p)
      PROVE  runs'[request'[p].run] \notin {"none", "queued"}
  BY <1>2 DEF StepIntercepted, store, IInv, RunFollowsStep, Stored
<1>3. ASSUME NEW r \in Runs, request'[p].run = r, HoldEgress(r, p)
      PROVE  runs'[request'[p].run] \notin {"none", "queued"}
  BY <1>3 DEF HoldEgress, store
<1>. QED BY <1>0, <1>1, <1>2, <1>3, RequestMoves

\* Who begins a mutation of two steps.
LEMMA WriterMoves ==
  ASSUME TypeOK, [Next]_vars
  PROVE  \/ UNCHANGED writer
         \/ writer' = None
         \/ /\ Admission /\ Admits /\ Exists /\ status # "stopped" /\ writer' \in Runs
            /\ UNCHANGED <<call, status>>
         \/ Admission /\ StartAgent
         \/ /\ Holding /\ Exists /\ writer' \in Approvals /\ UNCHANGED <<status, step>>
            /\ \E r \in Runs : request'[writer'].run = r /\ (HasRuntime(r) \/ step[r] = "ending")
<1>. USE DEF TypeOK
<1>1. CASE Admission
  BY <1>1 DEF Admission, SendMessage, SendBlocked, StartAgent, StartCommits, WriteFails,
      Admits, store
<1>2. CASE Holding
  <2>1. UNCHANGED writer \/ writer' = None \/ \E r \in Runs, p \in Approvals : HoldEgress(r, p)
    BY <1>2 DEF Holding, EgressCommits, EgressWriteFails, Approve, Deny, Decide,
        EgressAbandoned
  <2>2. ASSUME NEW r \in Runs, NEW p \in Approvals, HoldEgress(r, p)
        PROVE  /\ Exists /\ writer' = p /\ UNCHANGED <<status, step>>
               /\ request'[p].run = r /\ (HasRuntime(r) \/ step[r] = "ending")
    BY <2>2 DEF HoldEgress, store, execution
  <2>. QED BY <1>2, <2>1, <2>2
<1>3. CASE SendCommits \/ Restart \/ UNCHANGED vars
  BY <1>3 DEF SendCommits, Restart, vars
<1>4. CASE Engine
  BY <1>4 DEF Engine, Exits, TimesOut, CanaryCancels, OrphanEnds
<1>5. ASSUME NEW r \in Runs, Executing(r) PROVE UNCHANGED writer
  BY <1>5 DEF Executing, RunStep, CanaryStep, StepRefused, StepFails, StepIntercepted,
      BeginRun, BeginFails, CheckBarrier, PrepareFails, Launch, RunnerReturns,
      RemoveDoomed, PauseForApproval, PublishStep, PublishStepFails, StepReleased,
      ResumeAfterApproval, RecordResumed, EndRun, EndFails, GoesTo, EndsAs, Throws
<1>6. ASSUME NEW c \in Calls, Lifecycle(c) PROVE UNCHANGED writer
  BY <1>6 DEF Lifecycle, CallStopOrDelete, CallQuarantine, BeginTermination, CallStep,
      DenyPending, DenyFails, CancelRuntime, AwaitExecution, CancelEnds, WriteStopped,
      WriteDeleted, LastWriteFails, Freeze, Revoke, Verify, RecordReceipt, RecordFails
<1>. QED BY <1>1, <1>2, <1>3, <1>4, <1>5, <1>6, NextCases

\* Nothing overtakes a message or a start that is being stored.
LEMMA WriterAloneStep ==
  ASSUME IInv, AloneInv, TerminationKeepsBarrier, Quarantines = {}, [Next]_vars
  PROVE  WriterAlone'
<1>0. TypeOK /\ RuntimeIsTracked
  BY DEF IInv
<1>. SUFFICES ASSUME writer' \in Runs \cup {"start"}
              PROVE  /\ \A r \in Runs : ~Alive(r)'
                     /\ \A c \in Calls : InProgress(c)' => Early(c)'
  BY DEF WriterAlone
<1>. USE NamesAreDistinct
<1>1. CASE UNCHANGED writer
  <2>1. /\ \A r \in Runs : ~Alive(r)
        /\ \A c \in Calls : InProgress(c) => Early(c)
    BY <1>1 DEF AloneInv, WriterAlone
  <2>2. ~SendCommits /\ writer # None
    BY <1>0, <1>1 DEF SendCommits, TypeOK
  <2>3. \A r \in Runs : ~Alive(r)'
    BY <2>1, <2>2, WhoAlive
  <2>4. CASE Restart
    BY <1>0, <2>2, <2>4, <1>1, RestartParts
  <2>5. CASE Quiescent
    BY <1>0, <2>1, <2>3, <2>5, PlacesStay DEF Quiescent, SamePlace, InProgress, Early, At
  <2>6. ASSUME NEW c \in Calls, Lifecycle(c), NEW d \in Calls, InProgress(d)' PROVE Early(d)'
    <3>1. CASE d # c
      BY <1>0, <2>1, <2>6, <3>1, OtherCalls DEF InProgress, Early, At
    <3>2. CASE d = c
      <4>. USE <2>1, <2>2 DEF InProgress, Early, At, Place, StoreIdle
      <4>1. CASE Opens(c) \/ Begins(c)
        BY <2>6, <3>2, <4>1 DEF Opens, Begins, Turns, Kept
      <4>2. CASE Kills(c)
        BY <2>6, <3>2, <4>2 DEF Kills
      <4>3. CASE Proceeds(c)
        BY <2>6, <3>2, <4>3 DEF Proceeds, SamePlace, Turns, Kept
      <4>4. ~IsSpared(c) /\ ~GivesBack(c) /\ ~Reports(c)
        BY <2>6 DEF IsSpared, GivesBack, Reports, Turns, CancelDue
      <4>. QED BY <1>0, <2>6, <4>1, <4>2, <4>3, <4>4, CallMoves
    <3>. QED BY <3>1, <3>2
  <2>. QED BY <2>3, <2>4, <2>5, <2>6, MainCases
<1>2. CASE QueueEmpty /\ ~locked /\ ~terminating /\ ~HasActiveLifecycle /\ Admission
  <2>1. \A c \in Calls : ~InProgress(c)
    BY <1>2, NobodyWorks DEF AloneInv
  <2>2. \A c \in Calls : ~InProgress(c)'
    BY <1>0, <1>2, <2>1, PlacesStay DEF SamePlace, InProgress
  <2>3. \A r \in Runs : ~Alive(r)
    BY <1>2 DEF AloneInv, OneAlive
  <2>4. UNCHANGED step
    BY <1>2, ExecutionFrame DEF Elsewhere, execution
  <2>. QED BY <2>2, <2>3, <2>4 DEF Alive
<1>3. CASE Admission /\ Admits
  BY <1>2, <1>3 DEF Admits, TerminationKeepsBarrier
<1>4. CASE Admission /\ StartAgent
  BY <1>2, <1>4 DEF StartAgent
<1>5. writer' # None /\ writer' \notin Approvals
  OBVIOUS
<1>. QED BY <1>0, <1>1, <1>3, <1>4, <1>5, WriterMoves

\* What was let in is not shut out while it is being stored.
LEMMA LetInStep ==
  ASSUME IInv, AloneInv, [Next]_vars PROVE WriterIsLetIn'
<1>0. TypeOK /\ RuntimeIsTracked
  BY DEF IInv
<1>. USE NamesAreDistinct
<1>1. CASE writer' = None
  BY <1>1 DEF WriterIsLetIn
<1>2. CASE /\ Admission /\ Admits /\ Exists /\ status # "stopped" /\ writer' \in Runs
           /\ UNCHANGED <<call, status>>
  BY <1>2 DEF WriterIsLetIn, Exists
<1>3. CASE Admission /\ StartAgent
  <2>1. writer' = "start" /\ Exists'
    BY <1>3 DEF StartAgent, store, Exists
  <2>. QED BY <2>1 DEF WriterIsLetIn
<1>4. CASE /\ Holding /\ Exists /\ writer' \in Approvals /\ UNCHANGED <<status, step>>
           /\ \E r \in Runs : request'[writer'].run = r /\ (HasRuntime(r) \/ step[r] = "ending")
  <2>1. \A r \in Runs : HasRuntime(r) \/ step[r] = "ending" => Alive(r)
    BY <1>0 DEF RuntimeIsTracked, InRuntime, Alive
  <2>. QED BY <1>4, <2>1 DEF WriterIsLetIn, Exists, Alive
<1>5. CASE UNCHANGED writer /\ writer # None
  <2>1. Exists /\ ~StoreIdle
    BY <1>5 DEF AloneInv, WriterIsLetIn, StoreIdle
  <2>2. UNCHANGED status \/ status' \in {"ready", "busy", "waiting_approval"}
    <3>1. CASE Admission
      BY <2>1, <3>1 DEF Admission, SendMessage, SendBlocked, StartAgent, StartCommits,
          WriteFails, store
    <3>2. CASE Holding
      BY <2>1, <3>2 DEF Holding, EgressCommits, EgressWriteFails, Approve, Deny, Decide,
          EgressAbandoned, HoldEgress, store
    <3>3. CASE SendCommits \/ Restart \/ UNCHANGED vars
      BY <3>3 DEF SendCommits, Restart, vars, store
    <3>4. CASE Engine
      BY <3>4 DEF Engine, Exits, TimesOut, CanaryCancels, OrphanEnds, store
    <3>5. ASSUME NEW r \in Runs, Executing(r) PROVE UNCHANGED status
      BY <2>1, <3>5 DEF Executing, RunStep, CanaryStep, StepRefused, StepFails,
          StepIntercepted, BeginRun, BeginFails, CheckBarrier, PrepareFails, Launch,
          RunnerReturns, RemoveDoomed, PauseForApproval, PublishStep, PublishStepFails,
          StepReleased, ResumeAfterApproval, RecordResumed, EndRun, EndFails, GoesTo,
          EndsAs, Throws, store
    <3>6. ASSUME NEW c \in Calls, Lifecycle(c) PROVE UNCHANGED status
      BY <2>1, <3>6 DEF Lifecycle, CallStopOrDelete, CallQuarantine, BeginTermination,
          CallStep, DenyPending, DenyFails, CancelRuntime, AwaitExecution, CancelEnds,
          WriteStopped, WriteDeleted, LastWriteFails, Freeze, Revoke, Verify,
          RecordReceipt, RecordFails, store
    <3>. QED BY <3>1, <3>2, <3>3, <3>4, <3>5, <3>6, NextCases
  <2>3. ASSUME writer \in Approvals PROVE Alive(request[writer].run)'
    <3>1. PICK r \in Runs : r = request[writer].run /\ Alive(r)
      BY <1>0, <2>3 DEF AloneInv, WriterIsLetIn, IInv, WriterIsNew, TypeOK, Requests
    <3>2. request'[writer'].run = r
      BY <1>0, <1>5, <2>3, <3>1, RequestMoves DEF IInv, WriterIsNew
    <3>3. ~Restart
      BY <1>0, <1>5, RestartParts
    <3>4. CASE Elsewhere
      <4>1. UNCHANGED step
        BY <3>4, ExecutionFrame DEF execution
      <4>. QED BY <3>1, <3>2, <4>1 DEF Alive
    <3>5. ~SendCommits
      BY <2>3 DEF SendCommits
    <3>6. ASSUME NEW q \in Runs, Executing(q) PROVE Alive(request[writer].run)'
      <4>1. Alive(q)' /\ \A d \in Runs \ {q} : step'[d] = step[d]
        BY <1>0, <2>1, <3>6, ExecutionMoves
      <4>. QED BY <3>1, <3>2, <4>1 DEF Alive
    <3>. QED BY <3>3, <3>4, <3>5, <3>6, StepCases
  <2>4. Exists'
    BY <2>1, <2>2 DEF Exists
  <2>5. writer \in Runs => status' \notin {"stopped", "deleted"}
    BY <2>2 DEF AloneInv, WriterIsLetIn
  <2>. QED BY <1>5, <2>3, <2>4, <2>5 DEF WriterIsLetIn
<1>. QED BY <1>0, <1>1, <1>2, <1>3, <1>4, <1>5, WriterMoves

\* No execution comes to life between a wait and the write that follows it.
LEMMA WaitsStep ==
  ASSUME IInv, AloneInv, Quarantines = {}, [Next]_vars PROVE WaitsAlone'
<1>0. TypeOK /\ RuntimeIsTracked
  BY DEF IInv
<1>1. CASE SendCommits
  <2>1. \A c \in Calls : ~At(c, "awaiting") /\ ~At(c, "writing")
    BY <1>1 DEF SendCommits, AloneInv, WriterAlone, InProgress, Early, At
  <2>2. UNCHANGED call
    BY <1>1 DEF SendCommits
  <2>. QED BY <2>1, <2>2 DEF WaitsAlone, At
<1>2. CASE Restart
  BY <1>0, <1>2, RestartParts DEF WaitsAlone
<1>3. CASE ~SendCommits
  <2>1. \A r \in Runs : Alive(r)' => Alive(r)
    BY <1>3, WhoAlive
  <2>2. CASE Quiescent
    <3>1. \A c \in Calls : SamePlace(c)
      BY <1>0, <2>2, PlacesStay DEF Quiescent
    <3>. QED BY <2>1, <3>1 DEF WaitsAlone, AloneInv, SamePlace, At
  <2>3. ASSUME NEW c \in Calls, Lifecycle(c) PROVE WaitsAlone'
    <3>. SUFFICES ASSUME NEW d \in Calls, NEW r \in Runs, Alive(r), Alive(r)'
                  PROVE  /\ At(d, "awaiting")' => call'[d].awaits = r
                         /\ ~At(d, "writing")'
      BY <2>1 DEF WaitsAlone
    <3>0. /\ At(d, "awaiting") => call[d].awaits = r
          /\ ~At(d, "writing") /\ active = r
      BY DEF AloneInv, WaitsAlone, OneAlive
    <3>1. CASE d # c
      BY <1>0, <2>3, <3>0, <3>1, OtherCalls DEF At
    <3>2. CASE d = c
      <4>. USE <3>0, <3>2 DEF At, Place
      <4>1. CASE Opens(c) \/ Begins(c) \/ Kills(c) \/ Reports(c)
        BY <4>1 DEF Opens, Begins, Kills, Reports, Turns
      <4>2. CASE Proceeds(c)
        BY <4>2 DEF Proceeds, SamePlace, Turns
      <4>3. ~CancelDue(c)
        BY <1>0, NamesAreDistinct DEF CancelDue
      <4>4. CASE GivesBack(c)
        BY <4>3, <4>4 DEF GivesBack, AfterFailing
      <4>. QED BY <1>0, <2>3, <4>1, <4>2, <4>3, <4>4, CallMoves DEF IsSpared
    <3>. QED BY <3>1, <3>2
  <2>. QED BY <1>2, <2>2, <2>3, MainCases
<1>. QED BY <1>1, <1>3

\* What a receipt claims.
Shut ==
  /\ authorityBlocked /\ status = "stopped" /\ runtime = None
  /\ writer \notin Runs \cup Approvals /\ \A r \in Runs : ~Alive(r)

\* A shut Agent stays shut until it is started or deleted.
LEMMA ShutStays ==
  ASSUME IInv, Shut, [Next]_vars, ~StartCommits
  PROVE  Shut' \/ (~Exists' /\ ~authorityBlocked')
<1>0. TypeOK /\ RuntimeIsTracked
  BY DEF IInv
<1>. USE NamesAreDistinct DEF Shut
<1>1. CASE Restart
  BY <1>0, <1>1, RestartParts DEF HasActiveLifecycle
<1>2. CASE Elsewhere
  <2>1. UNCHANGED step /\ runtime' = None
    BY <1>0, <1>2, ExecutionFrame, RuntimeFrame DEF TypeOK, execution, RuntimeStays
  <2>2. \/ authorityBlocked' /\ status' = "stopped" /\ writer' \notin Runs \cup Approvals
        \/ ~Exists' /\ ~authorityBlocked'
    <3>1. CASE Admission
      BY <3>1 DEF Admission, SendMessage, SendBlocked, StartAgent, StartCommits,
          WriteFails, Admits, store
    <3>2. CASE Holding
      <4>1. \A r \in Runs : ~(HasRuntime(r) \/ step[r] = "ending")
        BY <1>0 DEF HasRuntime, Alive
      <4>2. UNCHANGED <<status, authorityBlocked>> /\ ~(writer' \in Runs \cup Approvals)
        BY <3>2, <4>1 DEF Holding, EgressCommits, EgressWriteFails, Approve, Deny, Decide,
            EgressAbandoned, HoldEgress, store
      <4>. QED BY <4>2
    <3>3. CASE Engine \/ UNCHANGED vars
      BY <3>3 DEF Engine, Exits, TimesOut, CanaryCancels, OrphanEnds, vars, store
    <3>4. ASSUME NEW c \in Calls, Lifecycle(c)
          PROVE  \/ authorityBlocked' /\ status' = "stopped" /\ UNCHANGED writer
                 \/ ~Exists' /\ ~authorityBlocked'
      BY <3>4 DEF Lifecycle, CallStopOrDelete, CallQuarantine, BeginTermination, CallStep,
          DenyPending, DenyFails, CancelRuntime, AwaitExecution, CancelEnds, WriteStopped,
          WriteDeleted, LastWriteFails, Freeze, Revoke, Verify, RecordReceipt,
          RecordFails, store, Exists
    <3>. QED BY <1>2, <3>1, <3>2, <3>3, <3>4 DEF Elsewhere
  <2>. QED BY <2>1, <2>2 DEF Alive
<1>3. ~SendCommits
  BY DEF SendCommits
<1>4. ASSUME NEW r \in Runs, Executing(r) PROVE FALSE
  BY <1>0, <1>4, ExecutionMoves
<1>. QED BY <1>1, <1>2, <1>3, <1>4, StepCases

\* A deleted Agent stays deleted.
LEMMA GoneStays ==
  ASSUME IInv, AloneInv, ~Exists, ~authorityBlocked, [Next]_vars
  PROVE  ~Exists' /\ ~authorityBlocked'
<1>0. TypeOK /\ RuntimeIsTracked
  BY DEF IInv
<1>1. writer = None
  BY DEF AloneInv, WriterIsLetIn
<1>2. \A r \in Runs : ~Alive(r)
  BY DEF AloneInv, OneAlive, HasActiveLifecycle, Exists
<1>. USE <1>1, NamesAreDistinct DEF Exists
<1>3. CASE Admission
  BY <1>3 DEF Admission, SendMessage, SendBlocked, StartAgent, StartCommits, WriteFails,
      Admits, store
<1>4. CASE Holding
  <2>1. ASSUME NEW p \in Approvals, Approve(p) \/ Deny(p) PROVE UNCHANGED <<status, authorityBlocked>>
    BY <2>1 DEF Approve, Deny, Decide
  <2>2. ~EgressCommits
    BY DEF EgressCommits
  <2>3. UNCHANGED <<status, authorityBlocked>>
    BY <1>4, <2>1, <2>2 DEF Holding, EgressWriteFails, EgressAbandoned, HoldEgress, store
  <2>. QED BY <2>3
<1>5. CASE SendCommits \/ UNCHANGED vars \/ Engine
  BY <1>5 DEF SendCommits, vars, store, Engine, Exits, TimesOut, CanaryCancels, OrphanEnds
<1>6. CASE Restart
  BY <1>6 DEF Restart, HasActiveLifecycle
<1>7. ASSUME NEW c \in Calls, Lifecycle(c) PROVE ~Exists' /\ ~authorityBlocked'
  <2>1. CASE Revoke(c)
    BY <1>0, <2>1 DEF Revoke, TypeOK
  <2>2. CASE ~Revoke(c)
    BY <1>7, <2>2 DEF Lifecycle, CallStopOrDelete, CallQuarantine, BeginTermination,
        CallStep, DenyPending,
       DenyFails, CancelRuntime, AwaitExecution, CancelEnds, WriteStopped, WriteDeleted, LastWriteFails,
       Freeze, Verify, RecordReceipt, RecordFails, store
  <2>. QED BY <2>1, <2>2
<1>8. ASSUME NEW r \in Runs, Executing(r) PROVE FALSE
  BY <1>0, <1>2, <1>8, ExecutionMoves
<1>. QED BY <1>3, <1>4, <1>5, <1>6, <1>7, <1>8, NextCases

\* A receipt claims what is so.
LEMMA ReceiptStep ==
  ASSUME IInv, AloneInv, Quarantines = {}, [Next]_vars PROVE QuietReceipt'
<1>0. TypeOK /\ RuntimeIsTracked
  BY DEF IInv
<1>. SUFFICES ASSUME NEW c \in Terminations, call'[c].contained
              PROVE  (~Exists' /\ ~authorityBlocked') \/ Shut'
  BY DEF QuietReceipt, Shut
<1>. c \in Calls
  BY DEF Calls
<1>1. ~StartCommits
  BY <1>0 DEF StartCommits, ClaimsLapse, TypeOK, CallState
<1>2. CASE call[c].contained
  BY <1>1, <1>2, ShutStays, GoneStays DEF AloneInv, QuietReceipt, Shut
<1>3. CASE ~call[c].contained
  <2>1. Lifecycle(c)
    <3>1. ~Quiescent
      BY <1>0, <1>3, PlacesStay DEF Quiescent, SamePlace
    <3>2. ~Restart
      BY <1>0, <1>3, RestartParts
    <3>. QED BY <1>0, <1>3, <3>1, <3>2, MainCases, OtherCalls
  <2>2. /\ Place(c) = "verifying" /\ Place(c)' = "recording"
        /\ authorityBlocked /\ status = "stopped" /\ active = None /\ runtime = None
    BY <1>0, <1>3, <2>1, CallMoves
    DEF Opens, Begins, Kills, Proceeds, SamePlace, IsSpared, GivesBack, Reports, Turns, Kept
  <2>3. Shut
    <3>1. \A r \in Runs : ~Alive(r)
      BY <2>2, NamesAreDistinct DEF AloneInv, OneAlive
    <3>. QED BY <1>0, <2>2, <3>1 DEF Shut, AloneInv, WriterIsLetIn, IInv, WriterIsNew,
        TypeOK, Requests
  <2>. QED BY <1>1, <2>3, ShutStays
<1>. QED BY <1>2, <1>3

\* It holds at the start.
LEMMA AloneInit == Init => AloneInv
<1>. SUFFICES ASSUME Init PROVE AloneInv
  OBVIOUS
<1>1. \A c \in Calls : /\ ~InProgress(c) /\ ~Cancels(c) /\ ~call[c].contained
                       /\ ~At(c, "awaiting") /\ ~At(c, "writing")
  BY DEF Init, InProgress, Cancels, At
<1>2. \A r \in Runs : ~Alive(r)
  BY DEF Init, Alive
<1>3. writer = None /\ \A p \in Approvals : request[p] = None
  BY DEF Init
<1>. QED BY <1>1, <1>2, <1>3, NamesAreDistinct
     DEF AloneInv, OneAlive, WriterAlone, WriterIsLetIn, AskedRan, LockIsHeld, OneTermination,
         WaitsAlone, QuietReceipt, Calls

\* Every step preserves it.
LEMMA AloneStep ==
  ASSUME Quarantines = {}
  PROVE  IInv /\ TerminationKeepsBarrier /\ AloneInv /\ [Next]_vars => AloneInv'
<1>. SUFFICES ASSUME IInv, TerminationKeepsBarrier, AloneInv, [Next]_vars PROVE AloneInv'
  OBVIOUS
<1>1. TypeOK /\ LockIsHeld /\ OneTermination /\ AskedRan
  BY DEF IInv, AloneInv
<1>. QED BY <1>1, OneAliveStep, WriterAloneStep, LetInStep, AskedRanStep, LockStep,
    TerminationStep,
        WaitsStep, ReceiptStep DEF AloneInv

\* One execution at a time, as long as the authorizer does not quarantine it: a quarantine
\* takes no notice of the lock, and the run find_overlap shows two executions alive.
\* A termination is covered, with the quarantine it has within.
THEOREM AloneHolds == ASSUME Quarantines = {} PROVE Spec => []AloneInv
<1>1. IInv /\ TerminationKeepsBarrier /\ AloneInv /\ [Next]_vars => AloneInv'
  BY AloneStep
<1>. QED BY <1>1, AloneInit, IInvHolds, BarrierCorrect, PTL DEF Spec

\* A container runtime, which reconciles, or one server that never dies: a process group that
\* outlives its server is known to nobody.
OneServer == ~HostProcess \/ MaxRestarts = 0

\* The one server does not die.
LEMMA NeverDies == ASSUME TypeOK, OneServer, HostProcess PROVE ~Restart
<1>1. MaxRestarts = 0
  BY DEF OneServer
<1>2. restarts \in 0..MaxRestarts
  BY DEF TypeOK
<1>3. ~(restarts < MaxRestarts)
  BY <1>1, <1>2
<1>. QED BY <1>3 DEF Restart

\* A runtime the runner does not track comes of a tracked one, by a container that could not be
\* removed or by a process group whose server died.
LEMMA OrphanMoves ==
  ASSUME [Next]_vars, orphan'
  PROVE  orphan \/ (runtime # None /\ ((~HostProcess /\ Fault) \/ (HostProcess /\ Restart)))
<1>1. CASE Admission \/ Holding
  <2>1. UNCHANGED orphan
    BY <1>1 DEF Admission, SendMessage, SendBlocked, StartAgent, StartCommits, WriteFails,
        Holding, EgressCommits, EgressWriteFails, Approve, Deny, Decide, EgressAbandoned,
        HoldEgress, engine
  <2>. QED BY <2>1
<1>2. CASE SendCommits \/ UNCHANGED vars
  BY <1>2 DEF SendCommits, vars, engine
<1>3. CASE Restart
  BY <1>3 DEF Restart, RuntimesAfterCrash
<1>4. CASE Engine
  BY <1>4 DEF Engine, Exits, TimesOut, CanaryCancels, OrphanEnds
<1>5. ASSUME NEW r \in Runs, Executing(r)
      PROVE  orphan \/ (runtime # None /\ ~HostProcess /\ Fault)
  BY <1>5 DEF Executing, RunStep, CanaryStep, StepRefused, StepFails, StepIntercepted,
      BeginRun, BeginFails, CheckBarrier, PrepareFails, Launch, RunnerReturns, RemoveDoomed,
      PauseForApproval, PublishStep, PublishStepFails, StepReleased, ResumeAfterApproval,
      RecordResumed, EndRun, EndFails, GoesTo, EndsAs, Throws, HasRuntime, engine
<1>6. ASSUME NEW c \in Calls, Lifecycle(c)
      PROVE  orphan \/ (runtime # None /\ ~HostProcess /\ Fault)
  <2>1. CASE CancelRuntime(c)
    BY <2>1 DEF CancelRuntime, RunnerCancels
  <2>2. CASE ~CancelRuntime(c)
    BY <1>6, <2>2 DEF Lifecycle, CallStopOrDelete, CallQuarantine, BeginTermination,
        CallStep, DenyPending, DenyFails, AwaitExecution, CancelEnds, WriteStopped,
        WriteDeleted, LastWriteFails, Freeze, Revoke, Verify, RecordReceipt, RecordFails,
        engine
  <2>. QED BY <2>1, <2>2
<1>. QED BY <1>1, <1>2, <1>3, <1>4, <1>5, <1>6, NextCases

\* A receipt says no more than it said.
ClaimsNoMore(c) ==
  call'[c].confirmed = call[c].confirmed /\ (call'[c].contained => call[c].contained)

\* Only the verification of containment claims more, and where the container engine answered
\* it claims containment only if nothing is left.
LEMMA ReceiptMoves ==
  ASSUME TypeOK, [Next]_vars, NEW c \in Calls
  PROVE  \/ ClaimsNoMore(c)
         \/ /\ Verify(c) /\ UNCHANGED orphan
            /\ call'[c].contained /\ call'[c].confirmed => HostProcess \/ ~orphan
<1>. USE DEF ClaimsNoMore
<1>0. call[c] \in CallState /\ call \in [Calls -> CallState]
  BY DEF TypeOK
<1>1. CASE Quiescent
  <2>1. UNCHANGED call \/ call' = ClaimsLapse
    BY <1>1 DEF Quiescent, Admission, SendMessage, SendBlocked, StartAgent, StartCommits,
        WriteFails, SendCommits, vars, Engine, Exits, TimesOut, CanaryCancels, OrphanEnds,
        Holding, EgressCommits, EgressWriteFails, Approve, Deny, Decide, EgressAbandoned,
        HoldEgress, Executing, RunStep, CanaryStep, StepRefused, StepFails, StepIntercepted,
        BeginRun, BeginFails, CheckBarrier, PrepareFails, Launch, RunnerReturns,
        RemoveDoomed, PauseForApproval, PublishStep, PublishStepFails, StepReleased,
        ResumeAfterApproval, RecordResumed, EndRun, EndFails, GoesTo, EndsAs, Throws
  <2>. QED BY <1>0, <2>1 DEF ClaimsLapse, CallState
<1>2. CASE Restart
  <2>1. \/ call'[c] = call[c]
        \/ call'[c] = [call[c] EXCEPT !.pc = "failed", !.killed = "failed"]
    BY <1>2 DEF Restart
  <2>. QED BY <1>0, <2>1 DEF CallState
<1>3. ASSUME NEW d \in Calls, d # c, Lifecycle(d) PROVE ClaimsNoMore(c)
  BY <1>3, OtherCalls
<1>4. CASE Lifecycle(c)
  <2>0. ASSUME NEW progress \in CallState, Quarantine(c, progress)
        PROVE  call'[c].confirmed = progress.confirmed /\ call'[c].contained = progress.contained
    <3>. DEFINE free == ~locked
    <3>1. call'[c] = [progress EXCEPT !.pc = "denying", !.owns = free]
      BY <1>0, <2>0 DEF Quarantine
    <3>. HIDE DEF free
    <3>. QED BY <2>0, <3>1 DEF CallState
  <2>1. ASSUME call' = [call EXCEPT ![c] = AfterFailure(c)]
        PROVE  ClaimsNoMore(c)
    BY <1>0, <2>1 DEF AfterFailure, CallState
  <2>2. CASE CallStopOrDelete(c) \/ BeginTermination(c)
    BY <1>0, <2>2 DEF CallStopOrDelete, BeginTermination, CallState
  <2>3. CASE CallQuarantine(c)
    BY <1>0, <2>0, <2>3 DEF CallQuarantine
  <2>4. CASE DenyPending(c) \/ AwaitExecution(c)
    BY <1>0, <2>4 DEF DenyPending, AwaitExecution, CallState
  <2>5. CASE CancelRuntime(c)
    BY <1>0, <2>5 DEF CancelRuntime, CallState
  <2>6. CASE DenyFails(c) \/ LastWriteFails(c)
    BY <2>1, <2>6 DEF DenyFails, LastWriteFails
  <2>7. CASE CancelEnds(c)
    <3>1. \/ call' = [call EXCEPT ![c] = AfterFailure(c)]
          \/ call' = [call EXCEPT ![c].pc = "writing"]
      BY <2>7 DEF CancelEnds
    <3>. QED BY <1>0, <2>1, <3>1 DEF CallState
  <2>8. CASE WriteStopped(c) \/ WriteDeleted(c)
    <3>1. PICK place \in {"done", "revoking", "verifying"} : call' = [call EXCEPT ![c].pc = place]
      BY <2>8 DEF WriteStopped, WriteDeleted
    <3>. QED BY <1>0, <3>1 DEF CallState
  <2>9. CASE Freeze(c)
    <3>1. PICK froze \in {"idle", "blocked", "paused", "failed"}, failed \in BOOLEAN :
            LET progress == [call[c] EXCEPT !.froze = froze, !.failed = failed] IN
            \/ Quarantine(c, progress)
            \/ call' = [call EXCEPT ![c] = [progress EXCEPT !.pc = "revoking"]]
      BY <2>9 DEF Freeze, Frozen
    <3>. DEFINE progress == [call[c] EXCEPT !.froze = froze, !.failed = failed]
    <3>2. /\ progress \in CallState /\ progress.confirmed = call[c].confirmed
          /\ progress.contained = call[c].contained
      BY ONLY <1>0, <3>1 DEF CallState
    <3>3. \/ Quarantine(c, progress)
          \/ call' = [call EXCEPT ![c] = [progress EXCEPT !.pc = "revoking"]]
      BY <3>1
    <3>. HIDE DEF progress
    <3>4. ASSUME call' = [call EXCEPT ![c] = [progress EXCEPT !.pc = "revoking"]]
          PROVE  call'[c].confirmed = progress.confirmed /\ call'[c].contained = progress.contained
      BY <1>0, <3>2, <3>4 DEF CallState
    <3>. QED BY <2>0, <3>2, <3>3, <3>4
  <2>10. CASE Revoke(c)
    <3>1. PICK failed \in BOOLEAN :
            LET progress == [call[c] EXCEPT !.failed = failed] IN
            \/ Quarantine(c, progress)
            \/ call' = [call EXCEPT ![c] = [progress EXCEPT !.pc = "verifying"]]
      BY <2>10 DEF Revoke, TypeOK, CallState
    <3>. DEFINE progress == [call[c] EXCEPT !.failed = failed]
    <3>2. /\ progress \in CallState /\ progress.confirmed = call[c].confirmed
          /\ progress.contained = call[c].contained
      BY ONLY <1>0, <3>1 DEF CallState
    <3>3. \/ Quarantine(c, progress)
          \/ call' = [call EXCEPT ![c] = [progress EXCEPT !.pc = "verifying"]]
      BY <3>1
    <3>. HIDE DEF progress
    <3>4. ASSUME call' = [call EXCEPT ![c] = [progress EXCEPT !.pc = "verifying"]]
          PROVE  call'[c].confirmed = progress.confirmed /\ call'[c].contained = progress.contained
      BY <1>0, <3>2, <3>4 DEF CallState
    <3>. QED BY <2>0, <3>2, <3>3, <3>4
  <2>11. CASE Verify(c)
    <3>1. PICK claimed \in BOOLEAN, confirmed \in BOOLEAN :
            /\ call' = [call EXCEPT ![c].pc = "recording", ![c].contained = claimed,
                                    ![c].confirmed = confirmed]
            /\ claimed /\ confirmed => HostProcess \/ ~orphan
      BY <2>11 DEF Verify
    <3>2. call'[c].contained = claimed /\ call'[c].confirmed = confirmed
      BY <1>0, <3>1 DEF CallState
    <3>3. UNCHANGED orphan
      BY <2>11 DEF Verify, engine
    <3>. QED BY <2>11, <3>1, <3>2, <3>3
  <2>12. CASE RecordReceipt(c) \/ RecordFails(c)
    BY <1>0, <2>12 DEF RecordReceipt, RecordFails, CallState
  <2>. QED BY <1>4, <2>2, <2>3, <2>4, <2>5, <2>6, <2>7, <2>8, <2>9, <2>10, <2>11, <2>12
       DEF Lifecycle, CallStep
<1>. QED BY <1>1, <1>2, <1>3, <1>4, MainCases

\* The part of ContainedIsQuiet about runtimes nobody tracks: none is left once the runner
\* confirmed the stop, and one server loses track of no process group.
ConfirmedGone ==
  /\ HostProcess => ~orphan
  /\ \A c \in Terminations : call[c].contained /\ call[c].confirmed /\ authorityBlocked => ~orphan

\* Every step preserves it: where a receipt claims containment nothing is tracked, so nothing can
\* be lost track of.
LEMMA ConfirmedStep ==
  ASSUME IInv, AloneInv, ConfirmedGone, Quarantines = {}, OneServer, [Next]_vars
  PROVE  ConfirmedGone'
<1>0. TypeOK /\ RuntimeIsTracked
  BY DEF IInv
<1>1. HostProcess => ~orphan'
  <2>. SUFFICES ASSUME HostProcess, orphan' PROVE FALSE
    OBVIOUS
  <2>1. Restart
    BY OrphanMoves DEF ConfirmedGone
  <2>. QED BY <1>0, <2>1, NeverDies
<1>2. ASSUME NEW c \in Terminations, call'[c].contained, call'[c].confirmed, authorityBlocked'
      PROVE  ~orphan'
  <2>0. c \in Calls
    BY DEF Calls
  <2>1. CASE ClaimsNoMore(c)
    <3>1. call[c].contained /\ call[c].confirmed
      BY <1>2, <2>1 DEF ClaimsNoMore
    <3>2. authorityBlocked /\ runtime = None
      BY <1>2, <3>1, GoneStays DEF AloneInv, QuietReceipt
    <3>3. ~orphan
      BY <3>1, <3>2 DEF ConfirmedGone
    <3>. QED BY <3>2, <3>3, OrphanMoves
  <2>2. CASE ~ClaimsNoMore(c)
    <3>1. UNCHANGED orphan /\ (HostProcess \/ ~orphan)
      BY <1>0, <1>2, <2>0, <2>2, ReceiptMoves
    <3>. QED BY <3>1 DEF ConfirmedGone
  <2>. QED BY <2>1, <2>2
<1>. QED BY <1>1, <1>2 DEF ConfirmedGone

\* It holds of every state.
THEOREM ConfirmedHolds ==
  ASSUME Quarantines = {}, OneServer PROVE Spec => []ConfirmedGone
<1>1. Init => ConfirmedGone
  BY DEF Init, ConfirmedGone
<1>2. IInv /\ AloneInv /\ ConfirmedGone /\ [Next]_vars => ConfirmedGone'
  BY ConfirmedStep
<1>. QED BY <1>1, <1>2, IInvHolds, AloneHolds, PTL DEF Spec

\* After a receipt that claims containment nothing of the Agent runs until it is started
\* or deleted, and if the runner confirmed the stop nothing it lost track of is left, whatever
\* failed or overlapped; through crashes too, on the container runtime, which looks for what an
\* earlier server left (terminator.ts:28-77, 168-235, agent-service.ts:118).
THEOREM ContainmentCorrect ==
  ASSUME Quarantines = {}, OneServer PROVE Spec => []ContainedIsQuiet
<1>1. AloneInv /\ ConfirmedGone => ContainedIsQuiet
  <2>. SUFFICES ASSUME AloneInv, ConfirmedGone, NEW c \in Terminations,
                       call[c].contained, authorityBlocked
                PROVE  /\ status = "stopped" /\ runtime = None /\ writer \notin Runs
                       /\ \A r \in Runs : ~Alive(r)
                       /\ call[c].confirmed => ~orphan
    BY DEF ContainedIsQuiet
  <2>. QED BY DEF AloneInv, QuietReceipt, ConfirmedGone
<1>. QED BY <1>1, AloneHolds, ConfirmedHolds, PTL

\* Without faults no execution rejects.
NoneRejected == \A r \in Runs : step[r] # "rejected"
\* A status that says so means that an execution is alive.
BusyMeansAlive == HasActiveLifecycle => \E r \in Runs : Alive(r)
\* A run in progress is not deleted.
RunsOfAlive == \A r \in Runs : Alive(r) => runs[r] # "deleted"
\* While there is something to cancel, the flag of a cancellation stays up.
CancellingHolds ==
  (\E c \in Calls : Cancels(c) /\ ~At(c, "writing")) =>
    cancelling \/ (writer \notin Runs /\ \A r \in Runs : ~Alive(r))
\* A runtime whose step is published or held is not running.
HeldIsPaused == \A r \in Runs : step[r] \in {"publishing", "held"} => runtime.state # "live"
\* An approval that is published, or about to be, has someone waiting for it.
HasOwner ==
  /\ \A r \in Runs : step[r] = "publishing" => gate[r] \in pending \/ cancelling
  /\ \A p \in Approvals : approval[p] = "pending" /\ request[p].kind = "step" => p \in pending

\* What holds besides when no write and no engine call fails.  HeldActionIsFrozen rests on
\* HasOwner, which rests on CancellingHolds: a cancellation takes all waiters, and a step
\* that is about to publish must then see the flag.
WellInv ==
  NoneRejected /\ BusyMeansAlive /\ RunsOfAlive /\ CancellingHolds /\ HeldIsPaused /\ HasOwner

\* Nothing fails.
LEMMA NoFault == ASSUME TypeOK, MaxFaults = 0 PROVE ~Fault
BY DEF TypeOK, Fault

\* No step leaves a rejected execution.
LEMMA NoneRejectedStep ==
  ASSUME TypeOK, RuntimeIsTracked, NoneRejected, MaxFaults = 0, [Next]_vars PROVE NoneRejected'
<1>0. ~Fault
  BY NoFault
<1>1. \A r \in Runs : step'[r] # "rejected"
  <2>1. CASE Elsewhere
    BY <2>1, ExecutionFrame DEF NoneRejected, execution
  <2>2. CASE SendCommits \/ Restart
    BY <2>2 DEF SendCommits, Restart, NoneRejected, TypeOK, Alive
  <2>3. ASSUME NEW r \in Runs, Executing(r) PROVE \A q \in Runs : step'[q] # "rejected"
    <3>1. step'[r] # "rejected"
      BY <1>0, <2>3 DEF Executing, RunStep, CanaryStep, StepRefused, StepFails,
          StepIntercepted, BeginRun, BeginFails, CheckBarrier, PrepareFails, Launch,
          RunnerReturns, RemoveDoomed, PauseForApproval, PublishStep, PublishStepFails,
          StepReleased, ResumeAfterApproval, RecordResumed, EndRun, EndFails, GoesTo,
          EndsAs, Throws, NoneRejected, TypeOK, execution
    <3>. QED BY <2>3, <3>1, ExecutionMoves DEF NoneRejected
  <2>. QED BY <2>1, <2>2, <2>3, StepCases
<1>. QED BY <1>1 DEF NoneRejected

\* Records are deleted when no execution is alive.
LEMMA RunsOfAliveStep ==
  ASSUME IInv, AloneInv, RunsOfAlive, [Next]_vars PROVE RunsOfAlive'
<1>0. TypeOK /\ RuntimeIsTracked
  BY DEF IInv
<1>1. CASE SendCommits
  <2>1. runs'[writer] = "queued" /\ \A r \in Runs \ {writer} : runs'[r] = runs[r]
    BY <1>0, <1>1 DEF SendCommits, TypeOK
  <2>. QED BY <1>1, <2>1, WhoAlive DEF RunsOfAlive
<1>2. CASE ~SendCommits
  <2>. SUFFICES ASSUME NEW r \in Runs, Alive(r), Alive(r)' PROVE runs'[r] # "deleted"
    BY <1>2, WhoAlive DEF RunsOfAlive
  <2>0. runs[r] # "deleted"
    BY DEF RunsOfAlive
  <2>. USE <1>0, <2>0 DEF TypeOK
  <2>1. CASE Admission
    BY <2>1 DEF Admission, SendMessage, SendBlocked, StartAgent, StartCommits, WriteFails,
        store
  <2>2. CASE Holding
    BY <2>2 DEF Holding, EgressCommits, EgressWriteFails, Approve, Deny, Decide,
        EgressAbandoned, HoldEgress, store
  <2>3. CASE Restart \/ UNCHANGED vars \/ Engine
    BY <2>3 DEF Restart, vars, Engine, Exits, TimesOut, CanaryCancels, OrphanEnds, store
  <2>4. ASSUME NEW q \in Runs, Executing(q) PROVE runs'[r] # "deleted"
    <3>1. runs'[q] # "deleted" \/ runs[q] = "deleted"
      BY <2>4 DEF Executing, RunStep, CanaryStep, StepRefused, StepFails, StepIntercepted,
          BeginRun, BeginFails, CheckBarrier, PrepareFails, Launch, RunnerReturns,
          RemoveDoomed, PauseForApproval, PublishStep, PublishStepFails, StepReleased,
          ResumeAfterApproval, RecordResumed, EndRun, EndFails, GoesTo, EndsAs, Throws,
          store
    <3>2. q # r => runs'[r] = runs[r]
      BY <2>4, OthersStay, TypeParts
    <3>. QED BY <3>1, <3>2
  <2>5. ASSUME NEW c \in Calls, Lifecycle(c) PROVE runs'[r] # "deleted"
    <3>1. ~At(c, "writing")
      BY DEF AloneInv, WaitsAlone
    <3>. QED BY <2>5, <3>1 DEF Lifecycle, CallStopOrDelete, CallQuarantine,
        BeginTermination, CallStep, DenyPending, DenyFails, CancelRuntime, AwaitExecution,
        CancelEnds, WriteStopped, WriteDeleted, LastWriteFails, Freeze, Revoke, Verify,
        RecordReceipt, RecordFails, store
  <2>. QED BY <1>2, <2>1, <2>2, <2>3, <2>4, <2>5, NextCases
<1>. QED BY <1>1, <1>2

\* The last execution to end leaves a status that is not busy.
LEMMA BusyStep ==
  ASSUME IInv, AloneInv, NoneRejected, RunsOfAlive, BusyMeansAlive, MaxFaults = 0, [Next]_vars
  PROVE  BusyMeansAlive'
<1>0. TypeOK /\ RuntimeIsTracked /\ ~Fault
  BY NoFault DEF IInv
<1>. SUFFICES ASSUME HasActiveLifecycle' PROVE \E r \in Runs : Alive(r)'
  BY DEF BusyMeansAlive
<1>. USE DEF HasActiveLifecycle
<1>1. CASE SendCommits
  <2>1. writer \in Runs /\ step'[writer] = "queued"
    BY <1>0, <1>1 DEF SendCommits, TypeOK
  <2>. QED BY <2>1 DEF Alive
<1>2. CASE Restart
  BY <1>2 DEF Restart
<1>3. ASSUME NEW r \in Runs, Executing(r) PROVE \E q \in Runs : Alive(q)'
  <2>. SUFFICES ASSUME ~Alive(r)' PROVE FALSE
    OBVIOUS
  <2>1. Alive(r) /\ runs[r] # "deleted" /\ status \in {"busy", "waiting_approval"}
    BY <1>0, <1>3, ExecutionMoves DEF RunsOfAlive, AloneInv, OneAlive
  <2>2. EndRun(r)
    BY <1>0, <1>3, <2>1 DEF Alive, Executing, RunStep, CanaryStep, StepRefused, StepFails,
        StepIntercepted, BeginRun, BeginFails, CheckBarrier, PrepareFails, Launch,
        RunnerReturns, RemoveDoomed, PauseForApproval, PublishStep, PublishStepFails,
        StepReleased, ResumeAfterApproval, RecordResumed, EndRun, EndFails, GoesTo,
        EndsAs, Throws, execution, TypeOK
  <2>. QED BY <2>1, <2>2 DEF EndRun, StatusAfter, Exists
<1>4. CASE Elsewhere
  <2>. SUFFICES \E r \in Runs : Alive(r)
    BY <1>4, ExecutionFrame DEF execution, Alive
  <2>. SUFFICES ASSUME ~HasActiveLifecycle PROVE \E r \in Runs : Alive(r)
    BY DEF BusyMeansAlive
  <2>1. ~Admission
    BY DEF Admission, SendMessage, SendBlocked, StartAgent, StartCommits, WriteFails, store
  <2>2. ~Engine /\ ~UNCHANGED vars
    BY DEF Engine, Exits, TimesOut, CanaryCancels, OrphanEnds, vars, store
  <2>3. CASE Holding
    <3>1. EgressCommits
      BY <2>3 DEF Holding, EgressCommits, EgressWriteFails, Approve, Deny, Decide,
          EgressAbandoned, HoldEgress, store
    <3>2. PICK r \in Runs : r = request[writer].run /\ Alive(r)
      BY <1>0, <3>1 DEF EgressCommits, AloneInv, WriterIsLetIn, IInv, WriterIsNew, TypeOK,
          Requests
    <3>. QED BY <3>2
  <2>4. ASSUME NEW c \in Calls, Lifecycle(c) PROVE FALSE
    BY <2>4 DEF Lifecycle, CallStopOrDelete, CallQuarantine, BeginTermination, CallStep,
        DenyPending, DenyFails, CancelRuntime, AwaitExecution, CancelEnds, WriteStopped,
        WriteDeleted, LastWriteFails, Freeze, Revoke, Verify, RecordReceipt, RecordFails,
        store
  <2>. QED BY <1>4, <2>1, <2>2, <2>3, <2>4 DEF Elsewhere
<1>. QED BY <1>1, <1>2, <1>3, <1>4, StepCases

\* A cancellation that is due has nobody left to cancel.
LEMMA NobodyLeft ==
  ASSUME TypeOK, AloneInv, NEW c \in Calls, CancelDue(c)
  PROVE  writer \notin Runs /\ \A r \in Runs : ~Alive(r)
<1>1. writer \notin Runs
  BY DEF AloneInv, WriterAlone, InProgress, Early, CancelDue, At
<1>2. ASSUME NEW r \in Runs, Alive(r) PROVE FALSE
  BY <1>2, NamesAreDistinct DEF AloneInv, OneAlive, WaitsAlone, CancelDue, At, TypeOK
<1>. QED BY <1>1, <1>2

\* The flag is taken down when there is nothing left to cancel.
LEMMA CancellingStep ==
  ASSUME IInv, AloneInv, TerminationKeepsBarrier, CancellingHolds, Quarantines = {}, MaxFaults = 0,
         [Next]_vars
  PROVE  CancellingHolds'
<1>0. TypeOK /\ RuntimeIsTracked /\ ~Fault
  BY NoFault DEF IInv
<1>. SUFFICES ASSUME writer' \in Runs \/ \E r \in Runs : Alive(r)',
                     NEW c \in Calls, Cancels(c)', ~At(c, "writing")'
              PROVE  cancelling'
  BY DEF CancellingHolds
<1>1. CASE Restart
  BY <1>0, <1>1, RestartParts, NamesAreDistinct
<1>2. CASE Quiescent
  <2>1. Cancels(c) /\ ~At(c, "writing") /\ UNCHANGED cancelling
    BY <1>0, <1>2, PlacesStay DEF Quiescent, SamePlace, Cancels, At
  <2>2. CASE writer \in Runs \/ \E r \in Runs : Alive(r)
    BY <2>1, <2>2 DEF CancellingHolds
  <2>3. CASE ~(writer \in Runs \/ \E r \in Runs : Alive(r))
    <3>1. writer' \in Runs
      BY <2>3, WhoAlive DEF SendCommits
    <3>2. Admission /\ Admits
      BY <1>0, <2>3, <3>1, NamesAreDistinct, WriterMoves DEF StartAgent
    <3>3. \A d \in Calls : ~InProgress(d)
      BY <3>2, NobodyWorks DEF Admits, AloneInv, TerminationKeepsBarrier
    <3>. QED BY <2>1, <3>3 DEF InProgress, Cancels
  <2>. QED BY <2>2, <2>3
<1>3. ASSUME NEW d \in Calls, Lifecycle(d) PROVE cancelling'
  <2>1. writer \in Runs \/ \E r \in Runs : Alive(r)
    <3>1. UNCHANGED writer
      BY <1>3 DEF Lifecycle, CallStopOrDelete, CallQuarantine, BeginTermination, CallStep,
          DenyPending, DenyFails, CancelRuntime, AwaitExecution, CancelEnds, WriteStopped,
          WriteDeleted, LastWriteFails, Freeze, Revoke, Verify, RecordReceipt, RecordFails
    <3>2. ~SendCommits
      BY <3>1, NamesAreDistinct DEF SendCommits
    <3>. QED BY <3>1, <3>2, WhoAlive
  <2>2. ~CancelDue(d)
    BY <1>0, <2>1, NobodyLeft
  <2>3. ~DenyFails(d)
    BY <1>0 DEF DenyFails
  <2>4. CASE c = d
    <3>. USE <2>4 DEF Cancels, At, Place
    <3>1. CASE Opens(d) \/ Kills(d)
      BY <3>1 DEF Opens, Kills
    <3>2. CASE Begins(d) \/ Reports(d)
      BY <3>2 DEF Begins, Reports, Turns
    <3>3. CASE Proceeds(d)
      BY <2>1, <3>3 DEF Proceeds, SamePlace, Turns, CancellingHolds
    <3>4. CASE GivesBack(d)
      BY <3>4 DEF GivesBack, AfterFailing
    <3>. QED BY <1>0, <1>3, <2>2, <3>1, <3>2, <3>3, <3>4, CallMoves DEF IsSpared
  <2>5. CASE c # d
    <3>1. call'[c] = call[c]
      BY <1>0, <1>3, <2>5, OtherCalls
    <3>2. cancelling
      BY <2>1, <3>1 DEF CancellingHolds, Cancels, At
    <3>3. cancelling' \/ UNCHANGED cancelling
      BY <1>0, <1>3, <2>2, <2>3 DEF Lifecycle, CallStopOrDelete, CallQuarantine,
          BeginTermination, CallStep, DenyPending, DenyFails, CancelRuntime,
          AwaitExecution, CancelEnds, WriteStopped, WriteDeleted, LastWriteFails, Freeze,
          Revoke, Verify, RecordReceipt, RecordFails, Quarantine, flags
    <3>. QED BY <3>2, <3>3
  <2>. QED BY <2>4, <2>5
<1>. QED BY <1>1, <1>2, <1>3, MainCases

\* At most one execution is inside runner.run.
LEMMA InRuntimeIsOne ==
  ASSUME RuntimeIsTracked, NEW r \in Runs, NEW q \in Runs, step[r] \in InRuntime, step[q] \in InRuntime
  PROVE  r = q /\ runtime # None /\ runtime.run = r
BY DEF RuntimeIsTracked, HasRuntime

\* Nothing but the step itself continues the runtime.
LEMMA HeldIsPausedStep ==
  ASSUME IInv, HeldIsPaused, [Next]_vars PROVE HeldIsPaused'
<1>0. TypeOK /\ RuntimeIsTracked
  BY DEF IInv
<1>. SUFFICES ASSUME NEW r \in Runs, step'[r] \in {"publishing", "held"} PROVE runtime'.state # "live"
  BY DEF HeldIsPaused
<1>1. CASE Restart \/ SendCommits
  BY <1>0, <1>1 DEF Restart, SendCommits, TypeOK, Alive, HeldIsPaused, engine
<1>2. CASE step[r] \in {"publishing", "held"}
  <2>1. step[r] \in InRuntime /\ runtime # None /\ runtime.state # "live" /\ runtime.run = r
    BY <1>0, <1>2 DEF InRuntime, HeldIsPaused, RuntimeIsTracked, HasRuntime
  <2>2. runtime' # None
    BY <1>0, <2>1, TrackedStep DEF RuntimeIsTracked, HasRuntime, InRuntime
  <2>3. CASE Elsewhere
    <3>. USE <1>0, <2>1 DEF TypeOK, Runtimes
    <3>1. CASE Admission \/ Holding \/ UNCHANGED vars
      BY <3>1 DEF Admission, SendMessage, SendBlocked, StartAgent, StartCommits,
          WriteFails, Holding, EgressCommits, EgressWriteFails, Approve, Deny, Decide,
          EgressAbandoned, HoldEgress, vars, engine
    <3>2. CASE Engine
      BY <3>2 DEF Engine, Exits, TimesOut, CanaryCancels, OrphanEnds
    <3>3. ASSUME NEW c \in Calls, CancelRuntime(c) PROVE runtime'.state # "live"
      BY <3>3 DEF CancelRuntime, RunnerCancels
    <3>4. ASSUME NEW c \in Calls, Freeze(c) PROVE runtime'.state # "live"
      BY <3>4 DEF Freeze
    <3>5. ASSUME NEW c \in Calls, Lifecycle(c), ~CancelRuntime(c), ~Freeze(c) PROVE UNCHANGED runtime
      BY <3>5 DEF Lifecycle, CallStopOrDelete, CallQuarantine, BeginTermination, CallStep,
          DenyPending, DenyFails, AwaitExecution, CancelEnds, WriteStopped, WriteDeleted,
          LastWriteFails, Revoke, Verify, RecordReceipt, RecordFails, engine
    <3>. QED BY <2>3, <3>1, <3>2, <3>3, <3>4, <3>5 DEF Elsewhere
  <2>4. ASSUME NEW q \in Runs, Executing(q) PROVE runtime'.state # "live"
    <3>1. CASE step[q] \in InRuntime
      <4>1. q = r
        BY <1>0, <2>1, <3>1, InRuntimeIsOne
      <4>2. UNCHANGED runtime
        BY <1>0, <1>2, <2>4, <4>1 DEF Executing, RunStep, CanaryStep, StepRefused,
            StepFails, StepIntercepted, BeginRun, BeginFails, CheckBarrier, PrepareFails,
            Launch, RunnerReturns, RemoveDoomed, PauseForApproval, PublishStep,
            PublishStepFails, StepReleased, ResumeAfterApproval, RecordResumed, EndRun,
            EndFails, GoesTo, EndsAs, Throws, engine, TypeOK
      <4>. QED BY <2>1, <4>2
    <3>2. CASE step[q] \notin InRuntime
      BY <1>0, <2>1, <2>4, <3>2, RuntimeOfExecution
    <3>. QED BY <3>1, <3>2
  <2>. QED BY <1>1, <2>3, <2>4, StepCases
<1>3. CASE step[r] \notin {"publishing", "held"}
  <2>1. CASE Elsewhere
    BY <1>3, <2>1, ExecutionFrame DEF execution
  <2>2. ASSUME NEW q \in Runs, Executing(q) PROVE runtime'.state # "live"
    <3>1. q = r
      BY <1>0, <1>3, <2>2, ExecutionMoves
    <3>2. PauseForApproval(r) /\ step[r] = "pausing"
      BY <1>0, <1>3, <2>2, <3>1 DEF Executing, RunStep, CanaryStep, StepRefused,
          StepFails, StepIntercepted, BeginRun, BeginFails, CheckBarrier, PrepareFails,
          Launch, RunnerReturns, RemoveDoomed, PauseForApproval, PublishStep,
          PublishStepFails, StepReleased, ResumeAfterApproval, RecordResumed, EndRun,
          EndFails, GoesTo, EndsAs, Throws, execution, TypeOK
    <3>3. runtime # None
      BY <1>0, <3>2 DEF RuntimeIsTracked, InRuntime, HasRuntime
    <3>. QED BY <1>0, <3>2, <3>3 DEF PauseForApproval, Throws, GoesTo, TypeOK, Runtimes
  <2>. QED BY <1>1, <2>1, <2>2, StepCases
<1>. QED BY <1>2, <1>3

\* A waiter goes with its approval.
LEMMA HasOwnerStep ==
  ASSUME IInv, AloneInv, CancellingHolds, HasOwner, MaxFaults = 0, [Next]_vars PROVE HasOwner'
<1>0. TypeOK /\ RuntimeIsTracked /\ ~Fault
  BY NoFault DEF IInv
<1>1. ASSUME NEW r \in Runs, step'[r] = "publishing" PROVE gate'[r] \in pending' \/ cancelling'
  <2>1. CASE step[r] # "publishing"
    <3>1. ~Elsewhere
      BY <1>1, <2>1, ExecutionFrame DEF execution
    <3>2. ~SendCommits /\ ~Restart
      BY <1>0, <1>1, <2>1 DEF SendCommits, Restart, TypeOK
    <3>3. PICK q \in Runs : Executing(q)
      BY <3>1, <3>2, StepCases
    <3>4. q = r
      BY <1>0, <1>1, <2>1, <3>3, ExecutionMoves
    <3>5. PauseForApproval(r)
      BY <1>0, <1>1, <2>1, <3>3, <3>4 DEF Executing, RunStep, CanaryStep, StepRefused,
          StepFails, StepIntercepted, BeginRun, BeginFails, CheckBarrier, PrepareFails,
          Launch, RunnerReturns, RemoveDoomed, PauseForApproval, PublishStep,
          PublishStepFails, StepReleased, ResumeAfterApproval, RecordResumed, EndRun,
          EndFails, GoesTo, EndsAs, Throws, execution, TypeOK
    <3>. QED BY <1>0, <1>1, <3>5 DEF PauseForApproval, Throws, GoesTo, TypeOK
  <2>2. CASE step[r] = "publishing"
    <3>. DEFINE p == gate[r]
    <3>1. /\ Alive(r) /\ (p \in pending \/ cancelling) /\ p \in Approvals
          /\ request[p].kind = "step" /\ approval[p] = "none"
      <4>1. request[p] = [run |-> r, kind |-> "step"] /\ p \in Approvals /\ approval[p] = "none"
        BY <2>2 DEF IInv, GatesAreOwn, AtGate
      <4>. QED BY <2>2, <4>1 DEF Alive, HasOwner
    <3>2. UNCHANGED <<step, gate>> => gate'[r] = p
      OBVIOUS
    <3>. HIDE DEF p
    <3>3. CASE Elsewhere
      <4>1. gate'[r] = p
        BY <3>2, <3>3, ExecutionFrame DEF execution
      <4>2. CASE Admission \/ Engine \/ UNCHANGED vars
        BY <3>1, <4>1, <4>2 DEF Admission, SendMessage, SendBlocked, StartAgent,
            StartCommits, WriteFails, Engine, Exits, TimesOut, CanaryCancels, OrphanEnds, vars, flags,
            holds
      <4>3. CASE Holding
        BY <1>0, <3>1, <4>1, <4>3 DEF Holding, EgressCommits, EgressWriteFails, Approve,
            Deny, Decide, EgressAbandoned, HoldEgress, flags, holds, Cleared
      <4>4. ASSUME NEW c \in Calls, Lifecycle(c) PROVE p \in pending' \/ cancelling'
        <5>1. ~CancelDue(c)
          BY <1>0, <3>1, NobodyLeft
        <5>2. CASE DenyPending(c)
          <6>1. cancelling
            BY <3>1, <4>4, <5>2 DEF DenyPending, CancellingHolds, Cancels, At
          <6>. QED BY <5>2, <6>1 DEF DenyPending, flags
        <5>3. CASE ~DenyPending(c)
          BY <1>0, <3>1, <4>4, <5>1, <5>3
          DEF Lifecycle, CallStopOrDelete, CallQuarantine, BeginTermination, CallStep, DenyFails,
              CancelRuntime, AwaitExecution, CancelEnds, WriteStopped, WriteDeleted, LastWriteFails,
              Freeze, Revoke, Verify, RecordReceipt, RecordFails, Quarantine, flags, holds
        <5>. QED BY <5>2, <5>3
      <4>. QED BY <3>3, <4>1, <4>2, <4>3, <4>4 DEF Elsewhere
    <3>4. ~Restart
      BY <1>0, <1>1, RestartParts DEF Alive
    <3>5. CASE SendCommits
      BY <3>1, <3>5 DEF SendCommits, flags, holds, p
    <3>6. ASSUME NEW q \in Runs, Executing(q) PROVE gate'[r] \in pending' \/ cancelling'
      <4>1. q = r
        BY <1>0, <3>1, <3>6, ExecutionMoves DEF AloneInv, OneAlive
      <4>2. FALSE
        BY <1>0, <1>1, <2>2, <3>6, <4>1 DEF Executing, RunStep, CanaryStep, StepRefused,
            StepFails, StepIntercepted, BeginRun, BeginFails, CheckBarrier, PrepareFails,
            Launch, RunnerReturns, RemoveDoomed, PauseForApproval, PublishStep,
            PublishStepFails, StepReleased, ResumeAfterApproval, RecordResumed, EndRun,
            EndFails, GoesTo, EndsAs, Throws, execution, TypeOK
      <4>. QED BY <4>2
    <3>. QED BY <3>3, <3>4, <3>5, <3>6, StepCases
  <2>. QED BY <2>1, <2>2
<1>2. ASSUME NEW p \in Approvals, approval'[p] = "pending", request'[p].kind = "step" PROVE p \in pending'
  <2>. USE <1>0 DEF TypeOK
  <2>1. CASE Elsewhere
    <3>1. CASE Admission \/ Engine \/ UNCHANGED vars
      BY <1>2, <3>1 DEF Admission, SendMessage, SendBlocked, StartAgent, StartCommits,
          WriteFails, Engine, Exits, TimesOut, CanaryCancels, OrphanEnds, vars, holds, store, HasOwner
    <3>2. CASE Holding
      <4>1. ASSUME NEW r \in Runs, NEW q \in Approvals, HoldEgress(r, q) PROVE p \in pending'
        BY <1>2, <4>1 DEF HoldEgress, store, HasOwner, IInv, ApprovalsAreAsked
      <4>2. CASE EgressCommits
        BY <1>2, <4>2 DEF EgressCommits, holds, HasOwner, IInv, WriterIsNew
      <4>3. ASSUME NEW q \in Approvals, Approve(q) \/ Deny(q) PROVE p \in pending'
        BY <1>2, <4>3 DEF Approve, Deny, Decide, HasOwner
      <4>4. ASSUME NEW q \in Approvals, EgressAbandoned(q) PROVE p \in pending'
        BY <1>2, <4>4 DEF EgressAbandoned, Cleared, HasOwner, store
      <4>. QED BY <3>2, <4>1, <4>2, <4>3, <4>4 DEF Holding, EgressWriteFails
    <3>3. ASSUME NEW c \in Calls, Lifecycle(c) PROVE p \in pending'
      BY <1>2, <3>3, HoldsOfLifecycle DEF HasOwner
    <3>. QED BY <2>1, <3>1, <3>2, <3>3 DEF Elsewhere
  <2>2. CASE SendCommits \/ Restart
    <3>1. CASE SendCommits
      BY <1>2, <3>1 DEF SendCommits, holds, HasOwner
    <3>2. ASSUME Restart PROVE approval'[p] # "pending"
      BY ONLY <3>2, p \in Approvals DEF Restart
    <3>. QED BY <1>2, <2>2, <3>1, <3>2
  <2>3. ASSUME NEW r \in Runs, Executing(r) PROVE p \in pending'
    <3>1. CASE UNCHANGED approval
      <4>1. request'[p] = request[p]
        BY <1>2, <3>1, RequestMoves DEF IInv, ApprovalsAreAsked
      <4>2. p \in pending
        BY <1>2, <3>1, <4>1 DEF HasOwner
      <4>3. pending' \subseteq pending => PublishStep(r) \/ UNCHANGED pending
        BY <1>0, <2>3 DEF Executing, RunStep, CanaryStep, StepRefused, StepFails,
            StepIntercepted, BeginRun, BeginFails, CheckBarrier, PrepareFails, Launch,
            RunnerReturns, RemoveDoomed, PauseForApproval, PublishStep, PublishStepFails,
            StepReleased, ResumeAfterApproval, RecordResumed, EndRun, EndFails, GoesTo,
            EndsAs, Throws, holds
      <4>4. CASE PublishStep(r)
        BY <1>2, <3>1, <4>2, <4>4 DEF PublishStep, IInv, GatesAreOwn, AtGate
      <4>. QED BY <2>3, <4>2, <4>3, <4>4, HoldsOfExecution
    <3>2. CASE ~UNCHANGED approval
      <4>1. PublishStep(r) /\ ~cancelling /\ UNCHANGED <<pending, request>>
        BY <2>3, <3>2 DEF Executing, RunStep, CanaryStep, StepRefused, StepFails,
            StepIntercepted, BeginRun, BeginFails, CheckBarrier, PrepareFails, Launch,
            RunnerReturns, RemoveDoomed, PauseForApproval, PublishStep, PublishStepFails,
            StepReleased, ResumeAfterApproval, RecordResumed, EndRun, EndFails, GoesTo,
            EndsAs, Throws, store
      <4>2. CASE p = gate[r]
        BY <4>1, <4>2 DEF PublishStep, HasOwner
      <4>3. CASE p # gate[r]
        BY <1>2, <4>1, <4>3 DEF PublishStep, HasOwner
      <4>. QED BY <4>2, <4>3
    <3>. QED BY <3>1, <3>2
  <2>. QED BY <2>1, <2>2, <2>3, StepCases
<1>. QED BY <1>1, <1>2 DEF HasOwner

\* Every step preserves all of it.
LEMMA WellStep ==
  ASSUME Quarantines = {}, MaxFaults = 0
  PROVE  IInv /\ TerminationKeepsBarrier /\ AloneInv /\ WellInv /\ [Next]_vars => WellInv'
<1>. SUFFICES ASSUME IInv, TerminationKeepsBarrier, AloneInv, WellInv, [Next]_vars PROVE WellInv'
  OBVIOUS
<1>1. TypeOK /\ RuntimeIsTracked
  BY DEF IInv
<1>. QED BY <1>1, NoneRejectedStep, BusyStep, RunsOfAliveStep, CancellingStep,
    HeldIsPausedStep, HasOwnerStep
         DEF WellInv

\* It holds at the start.
LEMMA WellInit == Init => WellInv
<1>. SUFFICES ASSUME Init PROVE WellInv
  OBVIOUS
<1>1. /\ \A c \in Calls : ~Cancels(c)
      /\ \A r \in Runs : ~Alive(r) /\ step[r] = "none"
      /\ \A p \in Approvals : approval[p] = "none"
      /\ status = "ready"
  BY DEF Init, Cancels, Alive
<1>2. writer \notin Runs
  BY NamesAreDistinct DEF Init
<1>. QED BY <1>1, <1>2
     DEF WellInv, NoneRejected, BusyMeansAlive, HasActiveLifecycle, RunsOfAlive,
         CancellingHolds, HeldIsPaused, HasOwner

\* All that is known of every state.
AllInv == IInv /\ AloneInv /\ WellInv

\* It holds of every state: without faults, and with no quarantine by the authorizer.  Both are
\* needed; the README names what the code does otherwise.
THEOREM WellHolds ==
  ASSUME Quarantines = {}, MaxFaults = 0 PROVE Spec => []AllInv
<1>1. IInv /\ TerminationKeepsBarrier /\ AloneInv /\ WellInv /\ [Next]_vars => WellInv'
  BY WellStep
<1>2. Spec => []AloneInv
  BY AloneHolds
<1>. QED BY <1>1, <1>2, WellInit, IInvHolds, BarrierCorrect, PTL DEF Spec, AllInv

\* The stored status tells what is going on: the Agent is busy or waiting exactly while one
\* execution is alive (agent-service.ts:865-954, 1350, 1380, 1445).
THEOREM BusyCorrect == ASSUME Quarantines = {}, MaxFaults = 0 PROVE Spec => []BusyIffExecuting
<1>1. AllInv => BusyIffExecuting
  <2>. SUFFICES ASSUME AllInv PROVE BusyIffExecuting
    OBVIOUS
  <2>. USE DEF AllInv
  <2>1. \A r, q \in Runs : Alive(r) /\ Alive(q) => r = q
    BY DEF AloneInv, OneAlive
  <2>2. HasActiveLifecycle <=> \E r \in Runs : Alive(r)
    BY DEF AloneInv, OneAlive, WellInv, BusyMeansAlive
  <2>3. \A r \in Runs : Alive(r) <=> runs[r] \in {"queued", "running"}
    BY DEF IInv, TypeOK, Step, Alive, RunFollowsStep, Stored, WellInv, RunsOfAlive,
        NoneRejected
  <2>. QED BY <2>1, <2>2, <2>3 DEF BusyIffExecuting
<1>. QED BY <1>1, WellHolds, PTL

\* While the operator is asked about a step its runtime does not run, and the answer has
\* somewhere to go (agent-service.ts:1083-1164).
THEOREM HeldCorrect == ASSUME Quarantines = {}, MaxFaults = 0 PROVE Spec => []HeldActionIsFrozen
<1>1. AllInv => HeldActionIsFrozen
  <2>. SUFFICES ASSUME AllInv, NEW p \in Approvals, approval[p] = "pending", request[p].kind = "step"
                PROVE  /\ p \in pending /\ verdict[p] = "waiting"
                       /\ step[request[p].run] = "held" /\ gate[request[p].run] = p
                       /\ runtime.state # "live"
    BY DEF HeldActionIsFrozen
  <2>. USE DEF AllInv
  <2>1. p \in pending /\ verdict[p] = "waiting"
    BY DEF IInv, WaitersWait, WellInv, HasOwner
  <2>2. step[request[p].run] = "held" /\ gate[request[p].run] = p /\ request[p].run \in Runs
    BY <2>1 DEF IInv, PendingIsHeld, ApprovalsAreAsked, TypeOK, Requests
  <2>. QED BY <2>1, <2>2 DEF WellInv, HeldIsPaused
<1>. QED BY <1>1, WellHolds, PTL

\* Without faults nothing is lost track of, on the container runtime or as long as the server
\* does not die.
NothingLost == ~orphan
THEOREM NothingLostHolds == ASSUME MaxFaults = 0, OneServer PROVE Spec => []NothingLost
<1>1. Init => NothingLost
  BY DEF Init, NothingLost
<1>2. IInv /\ NothingLost /\ [Next]_vars => NothingLost'
  <2>. SUFFICES ASSUME TypeOK, ~orphan, [Next]_vars, orphan' PROVE FALSE
    BY DEF NothingLost, IInv
  <2>1. HostProcess /\ Restart
    BY NoFault, OrphanMoves
  <2>. QED BY <2>1, NeverDies
<1>. QED BY <1>1, <1>2, IInvHolds, PTL DEF Spec

\* Nothing of an Agent that was stopped, deleted or terminated runs, tracked or not, with the
\* same exception: the process group that a dead server left (agent-service.ts:542-554, 394-409,
\* 435-456, terminator.ts:28-77).
THEOREM ClosedCorrect ==
  ASSUME Quarantines = {}, MaxFaults = 0, OneServer PROVE Spec => []ClosedIsQuiet
<1>1. AllInv /\ NothingLost /\ ContainedIsQuiet => ClosedIsQuiet
  <2>. SUFFICES ASSUME AllInv, NothingLost, ContainedIsQuiet PROVE ClosedIsQuiet
    OBVIOUS
  <2>. USE DEF AllInv
  <2>1. ASSUME status \in {"stopped", "deleted"} PROVE \A r \in Runs : ~Alive(r)
    BY <2>1 DEF AloneInv, OneAlive, HasActiveLifecycle
  <2>2. ASSUME \A r \in Runs : ~Alive(r) PROVE runtime = None
    BY <2>2 DEF IInv, TypeOK, Runtimes, RuntimeIsTracked, HasRuntime, InRuntime, Alive
  <2>. QED BY <2>1, <2>2 DEF ClosedIsQuiet, StoppedIsQuiet, NothingLost
<1>. QED BY <1>1, WellHolds, NothingLostHolds, ContainmentCorrect, PTL

\* The Agent takes runs.
Open == status \notin {"stopped", "deleted"}

\* The run in progress is the one that is alive.
LEMMA CurrentRun ==
  ASSUME OneAlive
  PROVE  /\ \A r \in Runs : Alive(r) => Current = r
         /\ (\A r \in Runs : ~Alive(r)) => Current = None
BY DEF OneAlive, Current

\* So it is after the step.
LEMMA CurrentRunAfter ==
  ASSUME OneAlive'
  PROVE  /\ \A r \in Runs : Alive(r)' => Current' = r
         /\ (\A r \in Runs : ~Alive(r)') => Current' = None
BY DEF OneAlive, Current

\* It stays while the same executions are alive.
LEMMA StutterKeeps ==
  ASSUME OneAlive, OneAlive', \A r \in Runs : Alive(r)' <=> Alive(r)
  PROVE  UNCHANGED Current
<1>1. CASE \A r \in Runs : ~Alive(r)
  BY <1>1, CurrentRun, CurrentRunAfter
<1>2. ASSUME NEW r \in Runs, Alive(r) PROVE UNCHANGED Current
  BY <1>2, CurrentRun, CurrentRunAfter
<1>. QED BY <1>1, <1>2

\* What is over, alive and open, by what the store says of a run.
LEMMA OverIs ==
  ASSUME AllInv, NEW r \in Runs
  PROVE  /\ r \in Over <=> runs[r] \notin {"none", "queued", "running"}
         /\ Alive(r) <=> runs[r] \in {"queued", "running"}
         /\ Alive(r) => Open /\ HasActiveLifecycle
<1>. USE DEF AllInv
<1>1. runs[r] \in RunStatus
  BY DEF IInv, TypeOK
<1>2. Alive(r) <=> runs[r] \in {"queued", "running"}
  BY DEF IInv, TypeOK, Step, Alive, RunFollowsStep, Stored, WellInv, RunsOfAlive,
      NoneRejected
<1>3. Alive(r) => Open /\ HasActiveLifecycle
  BY DEF AloneInv, OneAlive, HasActiveLifecycle, Open
<1>. QED BY <1>1, <1>2, <1>3 DEF Over, Terminal, RunStatus

\* So it is after the step.
LEMMA OverIsAfter ==
  ASSUME AllInv', NEW r \in Runs
  PROVE  /\ r \in Over' <=> runs'[r] \notin {"none", "queued", "running"}
         /\ Alive(r)' <=> runs'[r] \in {"queued", "running"}
         /\ Alive(r)' => Open' /\ HasActiveLifecycle'
<1>. USE DEF AllInv
<1>1. runs'[r] \in RunStatus
  BY DEF IInv, TypeOK
<1>2. Alive(r)' <=> runs'[r] \in {"queued", "running"}
  BY DEF IInv, TypeOK, Step, Alive, RunFollowsStep, Stored, WellInv, RunsOfAlive,
      NoneRejected
<1>3. Alive(r)' => Open' /\ HasActiveLifecycle'
  BY DEF AloneInv, OneAlive, HasActiveLifecycle, Open
<1>. QED BY <1>1, <1>2, <1>3 DEF Over, Terminal, RunStatus

\* Nothing that OneRun speaks of changes.
Same == UNCHANGED <<Current, Over, Open>>
\* A step after which the store says the same of every run, up to its having begun, is one.
LEMMA Invisible ==
  ASSUME AllInv, AllInv', UNCHANGED Open,
         \A r \in Runs : runs'[r] = runs[r] \/ (runs[r] = "queued" /\ runs'[r] = "running")
  PROVE  Same
<1>1. \A r \in Runs : Alive(r)' <=> Alive(r)
  BY OverIs, OverIsAfter
<1>2. UNCHANGED Current
  BY <1>1, StutterKeeps DEF AllInv, AloneInv
<1>3. Over = {r \in Runs : r \in Over} /\ Over' = {r \in Runs : r \in Over'}
  BY DEF Over
<1>4. \A r \in Runs : r \in Over <=> r \in Over'
  BY OverIs, OverIsAfter
<1>5. UNCHANGED Over
  BY <1>3, <1>4
<1>. QED BY <1>2, <1>5 DEF Same

\* The initial states of AgentRuns are those of OneRun.
LEMMA PromiseInit == Init => Promise!Init
<1>. SUFFICES ASSUME Init PROVE Promise!Init
  OBVIOUS
<1>1. \A r \in Runs : ~Alive(r)
  BY DEF Init, Alive
<1>2. Current = None
  BY <1>1 DEF Current
<1>3. Over = {}
  BY DEF Init, Over, Terminal
<1>4. status \notin {"stopped", "deleted"}
  BY DEF Init
<1>. QED BY <1>2, <1>3, <1>4 DEF Promise!Init

\* What is over grows by the runs that ended.
LEMMA OverGrows ==
  ASSUME AllInv, AllInv', NEW S \in SUBSET Runs,
         \A r \in S : runs'[r] \notin {"none", "queued", "running"},
         \A r \in Runs \ S : runs'[r] \in {"none", "queued", "running"}
                             <=> runs[r] \in {"none", "queued", "running"}
  PROVE  Over' = Over \cup S
<1>1. Over \subseteq Runs /\ Over' \subseteq Runs
  BY DEF Over
<1>2. ASSUME NEW r \in Runs PROVE r \in Over' <=> r \in Over \cup S
  <2>1. r \in Over' <=> runs'[r] \notin {"none", "queued", "running"}
    BY OverIsAfter
  <2>2. r \in Over <=> runs[r] \notin {"none", "queued", "running"}
    BY OverIs
  <2>. QED BY <2>1, <2>2
<1>. QED BY <1>1, <1>2

\* SendCommits admits a run, SendBlocked refuses one, the end of an execution or a restart
\* finishes it, the last write of an operation closes the Agent, a start opens it; every
\* other step stutters.
LEMMA PromiseStep ==
  ASSUME AllInv, AllInv', TerminationKeepsBarrier, Quarantines = {}, MaxFaults = 0, [Next]_vars
  PROVE  Promise!Next \/ Same
<1>0. /\ TypeOK /\ RuntimeIsTracked /\ ~Fault /\ Open \in BOOLEAN
      /\ OneAlive /\ OneAlive'
  BY NoFault DEF AllInv, IInv, AloneInv, Open
<1>. USE DEF AllInv
<1>1. CASE SendCommits
  <2>1. PICK r \in Runs : r = writer
    BY <1>1 DEF SendCommits
  <2>2. \A q \in Runs : ~Alive(q)
    BY <2>1 DEF AloneInv, WriterAlone
  <2>3. runs[r] = "none" /\ Open /\ Open'
    BY <1>1, <2>1 DEF SendCommits, IInv, WriterIsNew, AloneInv, WriterIsLetIn, Open
  <2>4. runs' = [runs EXCEPT ![r] = "queued"] /\ runs \in [Runs -> RunStatus]
    BY <1>0, <1>1, <2>1 DEF SendCommits, TypeOK
  <2>5. Alive(r)'
    BY <2>4, OverIsAfter
  <2>6. Current = None /\ Current' = r
    BY <1>0, <2>2, <2>5, CurrentRun, CurrentRunAfter
  <2>7. r \notin Over
    BY <2>3, OverIs
  <2>8. Over' = Over \cup {}
    BY <2>3, <2>4, OverGrows
  <2>9. Promise!Admit(r)
    BY <2>3, <2>6, <2>7, <2>8 DEF Promise!Admit, Open
  <2>. QED BY <2>9 DEF Promise!Next
<1>2. CASE Restart
  <2>1. \A r \in Runs : runs'[r] = IF runs[r] \in {"queued", "running"} THEN "cancelled" ELSE runs[r]
    BY <1>2 DEF Restart, Interrupted
  <2>2. CASE \A r \in Runs : ~Alive(r)
    <3>1. \A r \in Runs : runs'[r] = runs[r]
      BY <2>1, <2>2, OverIs
    <3>2. UNCHANGED Open
      BY <1>2, <2>2 DEF Restart, WellInv, BusyMeansAlive, Open
    <3>. QED BY <3>1, <3>2, Invisible
  <2>3. ASSUME NEW r \in Runs, Alive(r) PROVE Promise!Finish
    <3>1. \A q \in Runs \ {r} : runs'[q] = runs[q]
      BY <1>0, <2>1, <2>3, OverIs DEF OneAlive
    <3>2. runs'[r] = "cancelled"
      BY <2>1, <2>3, OverIs
    <3>3. Over' = Over \cup {r}
      BY <3>1, <3>2, OverGrows
    <3>4. Current = r /\ Current' = None
      BY <1>0, <1>2, <2>3, RestartParts, CurrentRun, CurrentRunAfter
    <3>5. Open /\ Open'
      BY <1>2, <2>3, OverIs DEF Restart, Open
    <3>. QED BY <3>3, <3>4, <3>5, NamesAreDistinct DEF Promise!Finish, Open
  <2>. QED BY <2>2, <2>3 DEF Promise!Next
<1>3. ASSUME NEW r \in Runs, Executing(r) PROVE Promise!Next \/ Same
  <2>0. /\ Alive(r) /\ Open /\ Current = r /\ runs[r] \in {"queued", "running"}
        /\ \A q \in Runs \ {r} : runs'[q] = runs[q]
    BY <1>0, <1>3, ExecutionMoves, OverIs, CurrentRun, OthersStay, TypeParts
  <2>1. CASE Alive(r)'
    <3>1. runs'[r] = runs[r] \/ (runs[r] = "queued" /\ runs'[r] = "running")
      <4>1. ~EndRun(r)
        BY <1>0, <2>1 DEF EndRun, GoesTo, TypeOK, Alive
      <4>. QED BY <1>0, <1>3, <4>1 DEF Executing, RunStep, CanaryStep, StepRefused,
          StepFails, StepIntercepted, BeginRun, BeginFails, CheckBarrier, PrepareFails,
          Launch, RunnerReturns, RemoveDoomed, PauseForApproval, PublishStep,
          PublishStepFails, StepReleased, ResumeAfterApproval, RecordResumed, EndRun,
          EndFails, GoesTo, EndsAs, Throws, store, TypeOK
    <3>2. UNCHANGED Open
      BY <2>0, <2>1, OverIsAfter DEF Open
    <3>. QED BY <2>0, <3>1, <3>2, Invisible
  <2>2. CASE ~Alive(r)'
    <3>1. \A q \in Runs : ~Alive(q)'
      <4>1. \A q \in Runs \ {r} : ~Alive(q)
        BY <1>0, <2>0 DEF OneAlive
      <4>2. \A q \in Runs \ {r} : step'[q] = step[q]
        BY <1>0, <1>3, ExecutionMoves
      <4>. QED BY <2>2, <4>1, <4>2 DEF Alive
    <3>2. Current' = None
      BY <1>0, <3>1, CurrentRunAfter
    <3>3. runs'[r] \notin {"none", "queued", "running"}
      <4>1. runs'[r] \notin {"queued", "running"}
        BY <2>2, OverIsAfter
      <4>2. runs'[r] # "none"
        BY <1>0, <1>3, <2>0 DEF Executing, RunStep, CanaryStep, StepRefused, StepFails,
            StepIntercepted, BeginRun, BeginFails, CheckBarrier, PrepareFails, Launch,
            RunnerReturns, RemoveDoomed, PauseForApproval, PublishStep, PublishStepFails,
            StepReleased, ResumeAfterApproval, RecordResumed, EndRun, EndFails, GoesTo,
            EndsAs, Throws, store, TypeOK
      <4>. QED BY <4>1, <4>2
    <3>4. Over' = Over \cup {r}
      BY <2>0, <3>3, OverGrows
    <3>. QED BY <2>0, <3>2, <3>4, NamesAreDistinct DEF Promise!Next, Promise!Finish, Open
  <2>. QED BY <2>1, <2>2
<1>4. CASE Admission
  <2>1. ASSUME NEW r \in Runs, SendBlocked(r) PROVE Promise!Refuse(r)
    <3>1. \A q \in Runs : ~Alive(q) /\ ~Alive(q)'
      BY <1>0, <1>4, <2>1, ExecutionFrame DEF SendBlocked, Admits, OneAlive, Elsewhere,
          execution, Alive
    <3>2. Current = None /\ Current' = None
      BY <1>0, <3>1, CurrentRun, CurrentRunAfter
    <3>3. runs[r] = "none" /\ runs' = [runs EXCEPT ![r] = "failed"] /\ runs \in [Runs -> RunStatus]
      BY <1>0, <2>1 DEF SendBlocked, TypeOK
    <3>4. r \notin Over
      BY <3>3, OverIs
    <3>5. Over' = Over \cup {r}
      BY <3>3, OverGrows
    <3>6. Open /\ Open'
      BY <2>1 DEF SendBlocked, Admits, Exists, Open
    <3>. QED BY <3>2, <3>4, <3>5, <3>6 DEF Promise!Refuse, Open
  <2>2. CASE StartCommits
    <3>1. \A q \in Runs : ~Alive(q) /\ ~Alive(q)'
      BY <1>4, <2>2, ExecutionFrame DEF StartCommits, AloneInv, WriterAlone, Elsewhere,
          execution, Alive
    <3>2. Current = None /\ Current' = None
      BY <1>0, <3>1, CurrentRun, CurrentRunAfter
    <3>3. Over' = Over \cup {}
      BY <2>2, OverGrows DEF StartCommits
    <3>4. Open'
      BY <2>2 DEF StartCommits, Open
    <3>. QED BY <3>2, <3>3, <3>4 DEF Promise!Next, Promise!Reopen, Open
  <2>3. CASE StartAgent \/ WriteFails \/ \E r \in Runs : SendMessage(r)
    BY <2>3, Invisible DEF StartAgent, WriteFails, SendMessage, store, Open
  <2>. QED BY <1>4, <2>1, <2>2, <2>3 DEF Admission, Promise!Next
<1>5. CASE Engine \/ UNCHANGED vars
  BY <1>5, Invisible DEF Engine, Exits, TimesOut, CanaryCancels, OrphanEnds, vars, store, Open
<1>6. CASE Holding
  <2>1. UNCHANGED runs
    BY <1>6 DEF Holding, EgressCommits, EgressWriteFails, Approve, Deny, Decide,
        EgressAbandoned, HoldEgress, store
  <2>2. \A r \in Runs : Alive(r)' <=> Alive(r)
    BY <1>6, ExecutionFrame DEF Elsewhere, execution, Alive
  <2>3. UNCHANGED Open
    <3>1. ASSUME NEW p \in Approvals, Approve(p) \/ Deny(p) PROVE UNCHANGED Open
      BY <3>1 DEF Approve, Deny, Decide, Open
    <3>2. CASE EgressCommits
      <4>1. PICK r \in Runs : Alive(r)
        BY <1>0, <3>2 DEF EgressCommits, AloneInv, WriterIsLetIn, IInv, WriterIsNew,
            TypeOK, Requests
      <4>2. Open /\ Open'
        BY <2>2, <4>1, OverIs, OverIsAfter
      <4>. QED BY <4>2 DEF Open
    <3>. QED BY <1>6, <3>1, <3>2 DEF Holding, EgressWriteFails, EgressAbandoned,
        HoldEgress, store, Open
  <2>. QED BY <2>1, <2>3, Invisible
<1>7. ASSUME NEW c \in Calls, Lifecycle(c) PROVE Promise!Next \/ Same
  <2>1. CASE WriteStopped(c) \/ WriteDeleted(c)
    <3>1. \A r \in Runs : ~Alive(r) /\ ~Alive(r)'
      <4>1. \A r \in Runs : ~Alive(r)
        BY <2>1 DEF WriteStopped, WriteDeleted, AloneInv, WaitsAlone
      <4>. QED BY <1>7, <4>1, ExecutionFrame DEF Elsewhere, execution, Alive
    <3>2. Current = None /\ Current' = None
      BY <1>0, <3>1, CurrentRun, CurrentRunAfter
    <3>3. \A r \in Runs : runs'[r] = runs[r] \/ (runs[r] # "none" /\ runs'[r] = "deleted")
      BY <1>0, <2>1 DEF WriteStopped, WriteDeleted, TypeOK
    <3>4. Over' = Over \cup {}
      <4>1. \A r \in Runs : runs[r] \notin {"queued", "running"}
        BY <3>1, OverIs
      <4>. QED BY <3>3, <4>1, OverGrows
    <3>5. ~Open'
      BY <2>1 DEF WriteStopped, WriteDeleted, Open, Exists
    <3>. QED BY <3>2, <3>4, <3>5 DEF Promise!Next, Promise!Close, Open
  <2>2. CASE ~WriteStopped(c) /\ ~WriteDeleted(c)
    <3>1. UNCHANGED <<runs, status>>
      BY <1>7, <2>2 DEF Lifecycle, CallStopOrDelete, CallQuarantine, BeginTermination,
          CallStep,
         DenyPending, DenyFails, CancelRuntime, AwaitExecution, CancelEnds, LastWriteFails,
         Freeze, Revoke, Verify, RecordReceipt, RecordFails, store
    <3>. QED BY <3>1, Invisible DEF Open
  <2>. QED BY <2>1, <2>2
<1>. QED BY <1>1, <1>2, <1>3, <1>4, <1>5, <1>6, <1>7, NextCases

\* AgentRuns implements OneRun: one run at a time, each once, none while the Agent is closed
\* (agent-service.ts:865-954, 530-554, 1350-1380).
THEOREM PromiseKept == ASSUME Quarantines = {}, MaxFaults = 0 PROVE Spec => KeepsPromise
<1>1. AllInv /\ AllInv' /\ TerminationKeepsBarrier /\ [Next]_vars => [Promise!Next]_(Promise!vars)
  BY PromiseStep DEF Same, Promise!vars, Open
<1>. QED BY <1>1, WellHolds, PromiseInit, BarrierCorrect, PTL DEF Spec, KeepsPromise,
    Promise!Spec
=============================================================================
