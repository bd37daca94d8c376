-------------------------- MODULE AgentRunsProofs ---------------------------
(***************************************************************************)
(* Proofs about AgentRuns that hold for every Agent: any number of runs,   *)
(* approvals, stops, quarantines, deletions and terminations, overlapping  *)
(* in any way, with any number of faults and restarts.                     *)
(*                                                                         *)
(* Steps are grouped by who takes them.  Lemmas say what each group leaves *)
(* alone; one lemma for each part of the inductive invariant says that a   *)
(* step preserves it.                                                      *)
(***************************************************************************)
EXTENDS AgentRuns, TLAPS

\* Where an execution has a runtime; where a step of it is at the gate; and where
\* nothing of it has run yet.
InRuntime == {"live", "pausing", "publishing", "held", "resuming", "resumed", "throwing"}
AtGate == {"pausing", "publishing", "held", "resuming", "resumed"}
Unstarted == {"none", "queued", "ensuring", "preparing"}

\* The type invariant, in parts.
StoreTyped ==
  /\ status \in {"ready", "busy", "waiting_approval", "stopped", "error", "deleted"}
  /\ runs \in [Runs -> RunStatus]
  /\ approval \in [Approvals -> ApprovalStatus] /\ result \in [Approvals -> Result]
FlagsTyped == {authorityBlocked, cancelling, barrier, terminating, locked, orphan} \subseteq BOOLEAN
HoldsTyped ==
  /\ request \in [Approvals -> Requests]
  /\ pending \subseteq Approvals
  /\ verdict \in [Approvals -> {"waiting", "granted", "refused"}]
ExecutionTyped ==
  /\ active \in Runs \cup {None}
  /\ step \in [Runs -> Step] /\ outcome \in [Runs -> Outcome]
  /\ gate \in [Runs -> Approvals \cup {None}] /\ canary \in [Runs -> BOOLEAN]
EngineTyped == runtime \in Runtimes
CallsTyped == call \in [Calls -> CallState]
BoundsTyped ==
  /\ writer \in Runs \cup Approvals \cup {None, "start"}
  /\ faults \in 0..MaxFaults /\ restarts \in 0..MaxRestarts

\* The parts are the whole.
LEMMA TypeParts ==
  TypeOK <=> StoreTyped /\ FlagsTyped /\ HoldsTyped /\ ExecutionTyped /\ EngineTyped
             /\ CallsTyped /\ BoundsTyped
BY DEF TypeOK, StoreTyped, FlagsTyped, HoldsTyped, ExecutionTyped, EngineTyped,
    CallsTyped, BoundsTyped

\* runner.run is where the runtime is: an execution is inside it exactly while the
\* runner tracks a runtime of its run (container-codex-runner.ts:73-182).
RuntimeIsTracked == \A r \in Runs : step[r] \in InRuntime <=> HasRuntime(r)
\* A step at the gate is held on an approval.
GatesAreNamed == \A r \in Runs : step[r] \in AtGate => gate[r] \in Approvals
Base == TypeOK /\ RuntimeIsTracked /\ GatesAreNamed

\* The steps, by who takes them: admission, the engine, the gate of outbound requests
\* and the operator, one execution, one lifecycle operation.
Admission ==
  \/ \E r \in Runs : SendMessage(r) \/ SendBlocked(r)
  \/ StartAgent \/ StartCommits \/ WriteFails
Engine == Exits \/ TimesOut \/ CanaryCancels \/ OrphanEnds
Holding ==
  \/ EgressCommits \/ EgressWriteFails
  \/ \E p \in Approvals : Approve(p) \/ Deny(p) \/ EgressAbandoned(p)
  \/ \E r \in Runs, p \in Approvals : HoldEgress(r, p)
Executing(r) ==
  \/ RunStep(r) \/ CanaryStep(r) \/ StepRefused(r) \/ StepFails(r)
  \/ \E p \in Approvals : StepIntercepted(r, p)
Lifecycle(c) ==
  CallStopOrDelete(c) \/ CallQuarantine(c) \/ BeginTermination(c) \/ CallStep(c)

\* Every step is one of these.
LEMMA NextCases ==
  ASSUME [Next]_vars
  PROVE  \/ Admission \/ SendCommits \/ Engine \/ Holding \/ Restart \/ UNCHANGED vars
         \/ \E r \in Runs : Executing(r)
         \/ \E c \in Calls : Lifecycle(c)
BY DEF Next, AgentStep, Admission, Engine, Holding, Executing, Lifecycle

\* The steps that leave every execution where it is.
Elsewhere ==
  Admission \/ Engine \/ Holding \/ UNCHANGED vars \/ \E c \in Calls : Lifecycle(c)

\* Or, for what only executions change:
LEMMA StepCases ==
  ASSUME [Next]_vars
  PROVE  Elsewhere \/ SendCommits \/ Restart \/ \E r \in Runs : Executing(r)
BY NextCases DEF Elsewhere

\* Only an execution, SendCommits and Restart move executions.
LEMMA ExecutionFrame == ASSUME Elsewhere PROVE UNCHANGED execution
<1>. USE DEF execution
<1>1. CASE Admission
  BY <1>1 DEF Admission, SendMessage, SendBlocked, StartAgent, StartCommits, WriteFails
<1>2. CASE Engine
  BY <1>2 DEF Engine, Exits, TimesOut, CanaryCancels, OrphanEnds
<1>3. CASE Holding
  BY <1>3 DEF Holding, EgressCommits, EgressWriteFails, Approve, Deny, Decide,
      EgressAbandoned, HoldEgress
<1>4. ASSUME NEW c \in Calls, Lifecycle(c) PROVE UNCHANGED execution
  BY <1>4 DEF Lifecycle, CallStopOrDelete, CallQuarantine, BeginTermination, CallStep,
      DenyPending, DenyFails, CancelRuntime, AwaitExecution, CancelEnds, WriteStopped,
      WriteDeleted, LastWriteFails, Freeze, Revoke, Verify, RecordReceipt, RecordFails
<1>5. CASE UNCHANGED vars
  BY <1>5 DEF vars
<1>. QED BY <1>1, <1>2, <1>3, <1>4, <1>5 DEF Elsewhere

\* A step of one execution leaves the others, and their runs, as they are.
LEMMA OthersStay ==
  ASSUME ExecutionTyped, StoreTyped, NEW r \in Runs, NEW q \in Runs \ {r}, Executing(r)
  PROVE  /\ step'[q] = step[q] /\ outcome'[q] = outcome[q] /\ gate'[q] = gate[q]
         /\ canary'[q] = canary[q] /\ runs'[q] = runs[q]
<1>. USE DEF ExecutionTyped, StoreTyped, store, execution
<1>1. step'[q] = step[q]
  BY DEF Executing, RunStep, CanaryStep, StepRefused, StepFails, StepIntercepted,
      BeginRun, BeginFails, CheckBarrier, PrepareFails, Launch, RunnerReturns,
      RemoveDoomed, PauseForApproval, PublishStep, PublishStepFails, StepReleased,
      ResumeAfterApproval, RecordResumed, EndRun, EndFails, GoesTo, EndsAs, Throws
<1>2. outcome'[q] = outcome[q]
  BY DEF Executing, RunStep, CanaryStep, StepRefused, StepFails, StepIntercepted,
      BeginRun, BeginFails, CheckBarrier, PrepareFails, Launch, RunnerReturns,
      RemoveDoomed, PauseForApproval, PublishStep, PublishStepFails, StepReleased,
      ResumeAfterApproval, RecordResumed, EndRun, EndFails, GoesTo, EndsAs, Throws
<1>3. gate'[q] = gate[q]
  BY DEF Executing, RunStep, CanaryStep, StepRefused, StepFails, StepIntercepted,
      BeginRun, BeginFails, CheckBarrier, PrepareFails, Launch, RunnerReturns,
      RemoveDoomed, PauseForApproval, PublishStep, PublishStepFails, StepReleased,
      ResumeAfterApproval, RecordResumed, EndRun, EndFails, GoesTo, EndsAs, Throws
<1>4. canary'[q] = canary[q]
  BY DEF Executing, RunStep, CanaryStep, StepRefused, StepFails, StepIntercepted,
      BeginRun, BeginFails, CheckBarrier, PrepareFails, Launch, RunnerReturns,
      RemoveDoomed, PauseForApproval, PublishStep, PublishStepFails, StepReleased,
      ResumeAfterApproval, RecordResumed, EndRun, EndFails, GoesTo, EndsAs, Throws
<1>5. runs'[q] = runs[q]
  BY DEF Executing, RunStep, CanaryStep, StepRefused, StepFails, StepIntercepted,
      BeginRun, BeginFails, CheckBarrier, PrepareFails, Launch, RunnerReturns,
      RemoveDoomed, PauseForApproval, PublishStep, PublishStepFails, StepReleased,
      ResumeAfterApproval, RecordResumed, EndRun, EndFails, GoesTo, EndsAs, Throws
<1>. QED BY <1>1, <1>2, <1>3, <1>4, <1>5

\* A runtime that stays: the run it serves and its doom do not change back.
RuntimeStays ==
  /\ runtime' = None <=> runtime = None
  /\ runtime # None => runtime'.run = runtime.run /\ (runtime.doomed => runtime'.doomed)

\* The ways a runtime is updated in place all let it stay.
LEMMA RuntimeUpdates ==
  ASSUME runtime \in Runtimes,
         NEW d \in BOOLEAN, NEW s \in {"live", "paused", "exited", "removed"},
         \/ UNCHANGED runtime
         \/ runtime # None /\ runtime' = [runtime EXCEPT !.state = s]
         \/ runtime # None /\ runtime' = [runtime EXCEPT !.doomed = @ \/ d]
         \/ runtime # None /\ runtime' = [runtime EXCEPT !.doomed = TRUE]
         \/ runtime # None /\ runtime' = [runtime EXCEPT !.doomed = TRUE, !.state = s]
  PROVE  RuntimeStays /\ runtime' \in Runtimes
<1>. USE NamesAreDistinct DEF RuntimeStays, Runtimes
<1>1. CASE UNCHANGED runtime
  BY <1>1
<1>2. CASE runtime # None /\ runtime' = [runtime EXCEPT !.state = s]
  BY <1>2
<1>3. CASE runtime # None /\ runtime' = [runtime EXCEPT !.doomed = @ \/ d]
  <2>1. PICK b \in BOOLEAN : (runtime.doomed => b) /\ runtime' = [runtime EXCEPT !.doomed = b]
    BY <1>3
  <2>. QED BY <1>3, <2>1
<1>4. CASE runtime # None /\ runtime' = [runtime EXCEPT !.doomed = TRUE]
  BY <1>4
<1>5. CASE runtime # None /\ runtime' = [runtime EXCEPT !.doomed = TRUE, !.state = s]
  BY <1>5
<1>. QED BY <1>1, <1>2, <1>3, <1>4, <1>5

\* No step taken elsewhere starts, ends or exchanges a runtime.
LEMMA RuntimeFrame ==
  ASSUME runtime \in Runtimes, Elsewhere PROVE RuntimeStays /\ runtime' \in Runtimes
<1>1. CASE Admission \/ Holding
  <2>1. UNCHANGED runtime
    BY <1>1 DEF Admission, SendMessage, SendBlocked, StartAgent, StartCommits, WriteFails,
        Holding, EgressCommits, EgressWriteFails, Approve, Deny, Decide, EgressAbandoned,
        HoldEgress, engine
  <2>. QED BY <2>1, RuntimeUpdates
<1>2. CASE Engine
  BY <1>2, RuntimeUpdates DEF Engine, Exits, TimesOut, CanaryCancels, OrphanEnds
<1>3. ASSUME NEW c \in Calls, Lifecycle(c) PROVE RuntimeStays /\ runtime' \in Runtimes
  <2>1. CASE CancelRuntime(c)
    <3>1. CASE runtime = None
      BY <2>1, <3>1, RuntimeUpdates DEF CancelRuntime, RunnerCancels
    <3>2. CASE runtime # None
      <4>1. PICK s \in {"live", "paused", "exited", "removed"} :
              runtime' = [runtime EXCEPT !.doomed = TRUE, !.state = s]
        BY <2>1, <3>2 DEF CancelRuntime, RunnerCancels, Runtimes
      <4>. QED BY <4>1, <3>2, RuntimeUpdates
    <3>. QED BY <3>1, <3>2
  <2>2. CASE Freeze(c)
    <3>1. \/ UNCHANGED runtime
          \/ runtime # None /\ runtime' = [runtime EXCEPT !.state = "paused"]
      BY <2>2 DEF Freeze, Frozen
    <3>. QED BY <3>1, RuntimeUpdates
  <2>3. CASE ~CancelRuntime(c) /\ ~Freeze(c)
    <3>1. UNCHANGED runtime
      BY <1>3, <2>3 DEF engine, Lifecycle, CallStopOrDelete, CallQuarantine,
          BeginTermination, CallStep, DenyPending, DenyFails, AwaitExecution, CancelEnds,
          WriteStopped, WriteDeleted, LastWriteFails, Revoke, Verify, RecordReceipt,
          RecordFails
    <3>. QED BY <3>1, RuntimeUpdates
  <2>. QED BY <2>1, <2>2, <2>3
<1>4. CASE UNCHANGED vars
  BY <1>4, RuntimeUpdates DEF vars, engine
<1>. QED BY <1>1, <1>2, <1>3, <1>4 DEF Elsewhere

\* A step of an execution keeps its runtime, ends it, has none, or starts it.
LEMMA RuntimeOfExecution ==
  ASSUME TypeOK, RuntimeIsTracked, NEW r \in Runs, Executing(r)
  PROVE  \/ /\ step[r] \in InRuntime /\ step'[r] \in InRuntime
            /\ RuntimeStays /\ runtime' \in Runtimes
         \/ step[r] \in InRuntime /\ step'[r] \notin InRuntime /\ runtime' = None
         \/ step[r] \notin InRuntime /\ step'[r] \notin InRuntime /\ UNCHANGED runtime
         \/ /\ step[r] = "preparing" /\ step'[r] = "live"
            /\ runtime = None /\ runtime' = [run |-> r, state |-> "live", doomed |-> FALSE]
<1>. DEFINE Keeps == step[r] \in InRuntime /\ step'[r] \in InRuntime /\ RuntimeStays /\ runtime' \in Runtimes
<1>1. runtime \in Runtimes /\ step \in [Runs -> Step] /\ (step[r] \in InRuntime => runtime # None)
  BY DEF TypeOK, RuntimeIsTracked, HasRuntime
<1>2. ASSUME NEW why, NEW atOnce \in BOOLEAN, step[r] \in InRuntime, Throws(r, why, atOnce)
      PROVE  Keeps
  BY <1>1, <1>2, RuntimeUpdates DEF Throws, GoesTo, InRuntime
<1>. USE DEF engine, execution
<1>3. CASE \/ BeginRun(r) \/ BeginFails(r) \/ CheckBarrier(r) \/ PrepareFails(r)
           \/ EndRun(r) \/ EndFails(r)
  BY <1>1, <1>3 DEF BeginRun, BeginFails, CheckBarrier, PrepareFails, EndRun, EndFails,
                    GoesTo, EndsAs, InRuntime
<1>4. CASE Launch(r)
  BY <1>1, <1>4 DEF Launch, GoesTo, EndsAs, InRuntime
<1>5. CASE RunnerReturns(r)
  BY <1>1, <1>5 DEF RunnerReturns, EndsAs, GoesTo, InRuntime
<1>6. CASE RemoveDoomed(r)
  BY <1>1, <1>6 DEF RemoveDoomed, GoesTo, InRuntime
<1>7. CASE StepRefused(r) \/ StepFails(r) \/ CanaryStep(r)
  BY <1>1, <1>2, <1>7, RuntimeUpdates DEF StepRefused, StepFails, CanaryStep, InRuntime
<1>8. ASSUME NEW p \in Approvals, StepIntercepted(r, p) PROVE Keeps
  BY <1>1, <1>8, RuntimeUpdates DEF StepIntercepted, GoesTo, InRuntime
<1>9. CASE PauseForApproval(r)
  BY <1>1, <1>2, <1>9, RuntimeUpdates DEF PauseForApproval, GoesTo, InRuntime
<1>10. CASE PublishStep(r) \/ PublishStepFails(r)
  BY <1>1, <1>2, <1>10, RuntimeUpdates DEF PublishStep, PublishStepFails, GoesTo, InRuntime
<1>11. CASE StepReleased(r)
  BY <1>1, <1>2, <1>11, RuntimeUpdates DEF StepReleased, GoesTo, InRuntime
<1>12. CASE ResumeAfterApproval(r)
  BY <1>1, <1>2, <1>12, RuntimeUpdates DEF ResumeAfterApproval, GoesTo, InRuntime
<1>13. CASE RecordResumed(r)
  BY <1>1, <1>2, <1>13, RuntimeUpdates DEF RecordResumed, GoesTo, InRuntime
<1>. QED BY <1>3, <1>4, <1>5, <1>6, <1>7, <1>8, <1>9, <1>10, <1>11, <1>12, <1>13
     DEF Executing, RunStep

\* What a step of an execution does to the approvals: it is held on a new one,
\* registers or drops its waiter, or publishes its record.
LEMMA HoldsOfExecution ==
  ASSUME TypeOK, NEW r \in Runs, Executing(r)
  PROVE  /\ UNCHANGED verdict
         /\ \/ pending' \subseteq pending
            \/ step[r] = "pausing" /\ pending' = pending \cup {gate[r]}
         /\ \/ UNCHANGED approval
            \/ /\ step[r] = "publishing" /\ step'[r] = "held"
               /\ approval' = [approval EXCEPT ![gate[r]] = "pending"]
         /\ UNCHANGED <<request, gate>> \/ \E p \in Approvals : StepIntercepted(r, p)
<1>. USE DEF TypeOK, store, holds, execution
<1>1. UNCHANGED verdict
  BY DEF Executing, RunStep, CanaryStep, StepRefused, StepFails, StepIntercepted,
      BeginRun, BeginFails, CheckBarrier, PrepareFails, Launch, RunnerReturns,
      RemoveDoomed, PauseForApproval, PublishStep, PublishStepFails, StepReleased,
      ResumeAfterApproval, RecordResumed, EndRun, EndFails, GoesTo, EndsAs, Throws
<1>2. \/ pending' \subseteq pending
      \/ step[r] = "pausing" /\ pending' = pending \cup {gate[r]}
  BY DEF Executing, RunStep, CanaryStep, StepRefused, StepFails, StepIntercepted,
      BeginRun, BeginFails, CheckBarrier, PrepareFails, Launch, RunnerReturns,
      RemoveDoomed, PauseForApproval, PublishStep, PublishStepFails, StepReleased,
      ResumeAfterApproval, RecordResumed, EndRun, EndFails, GoesTo, EndsAs, Throws
<1>3. \/ UNCHANGED approval
      \/ /\ step[r] = "publishing" /\ step'[r] = "held"
         /\ approval' = [approval EXCEPT ![gate[r]] = "pending"]
  BY DEF Executing, RunStep, CanaryStep, StepRefused, StepFails, StepIntercepted,
      BeginRun, BeginFails, CheckBarrier, PrepareFails, Launch, RunnerReturns,
      RemoveDoomed, PauseForApproval, PublishStep, PublishStepFails, StepReleased,
      ResumeAfterApproval, RecordResumed, EndRun, EndFails, GoesTo, EndsAs, Throws
<1>4. UNCHANGED <<request, gate>> \/ \E p \in Approvals : StepIntercepted(r, p)
  BY DEF Executing, RunStep, CanaryStep, StepRefused, StepFails, StepIntercepted,
      BeginRun, BeginFails, CheckBarrier, PrepareFails, Launch, RunnerReturns,
      RemoveDoomed, PauseForApproval, PublishStep, PublishStepFails, StepReleased,
      ResumeAfterApproval, RecordResumed, EndRun, EndFails, GoesTo, EndsAs, Throws
<1>. QED BY <1>1, <1>2, <1>3, <1>4

\* What a lifecycle operation does to them: it denies what is pending, or
\* deletes the records.
LEMMA HoldsOfLifecycle ==
  ASSUME NEW c \in Calls, Lifecycle(c)
  PROVE  /\ UNCHANGED request
         /\ \/ UNCHANGED <<approval, pending, verdict>>
            \/ /\ approval' = [p \in Approvals |->
                                 IF approval[p] = "pending" THEN "denied" ELSE approval[p]]
               /\ Cleared(pending)
            \/ /\ approval' = [p \in Approvals |->
                                 IF approval[p] = "none" THEN "none" ELSE "deleted"]
               /\ UNCHANGED <<pending, verdict>>
BY DEF Lifecycle, CallStopOrDelete, CallQuarantine, BeginTermination, CallStep,
    DenyPending, DenyFails, CancelRuntime, AwaitExecution, CancelEnds, WriteStopped,
    WriteDeleted, LastWriteFails, Freeze, Revoke, Verify, RecordReceipt, RecordFails,
    store, holds

\* Each part of the type invariant is preserved.
LEMMA StoreStep ==
  ASSUME Base, [Next]_vars PROVE StoreTyped'
<1>. USE TypeParts DEF Base, StoreTyped, RunStatus, ApprovalStatus, Result, store
<1>1. CASE Admission
  BY <1>1 DEF Admission, SendMessage, SendBlocked, StartAgent, StartCommits, WriteFails
<1>2. CASE SendCommits
  BY <1>2 DEF SendCommits
<1>3. CASE Engine
  BY <1>3 DEF Engine, Exits, TimesOut, CanaryCancels, OrphanEnds
<1>4. CASE Holding
  BY <1>4 DEF Holding, EgressCommits, EgressWriteFails, Approve, Deny, Decide,
      EgressAbandoned, HoldEgress
<1>5. CASE Restart
  BY <1>5 DEF Restart
<1>6. ASSUME NEW r \in Runs, Executing(r) PROVE StoreTyped'
  <2>1. CASE BeginRun(r)
    BY <2>1 DEF BeginRun
  <2>2. CASE PublishStep(r)
    BY <2>2 DEF PublishStep, Throws
  <2>3. CASE RecordResumed(r)
    BY <2>3 DEF RecordResumed
  <2>4. CASE EndRun(r)
    <3>1. status' \in {"ready", "busy", "waiting_approval", "stopped", "error", "deleted"}
      BY <2>4 DEF EndRun, StatusAfter
    <3>2. runs' \in [Runs -> RunStatus] /\ approval' \in [Approvals -> ApprovalStatus]
      BY <2>4 DEF EndRun
    <3>3. result' \in [Approvals -> Result]
      BY <2>4 DEF EndRun, Settled
    <3>. QED BY <3>1, <3>2, <3>3
  <2>5. CASE ~(BeginRun(r) \/ PublishStep(r) \/ RecordResumed(r) \/ EndRun(r))
    <3>1. UNCHANGED store
      BY <1>6, <2>5 DEF Executing, RunStep, CanaryStep, StepRefused, StepFails,
          StepIntercepted, BeginFails, CheckBarrier, PrepareFails, Launch, RunnerReturns,
          RemoveDoomed, PauseForApproval, PublishStepFails, StepReleased,
          ResumeAfterApproval, EndFails
    <3>. QED BY <3>1
  <2>. QED BY <2>1, <2>2, <2>3, <2>4, <2>5
<1>7. ASSUME NEW c \in Calls, Lifecycle(c) PROVE StoreTyped'
  <2>1. CASE WriteStopped(c)
    BY <2>1 DEF WriteStopped
  <2>2. CASE WriteDeleted(c)
    BY <2>2 DEF WriteDeleted
  <2>3. CASE DenyPending(c)
    BY <2>3 DEF DenyPending
  <2>4. CASE Revoke(c)
    BY <2>4 DEF Revoke
  <2>5. CASE ~(WriteStopped(c) \/ WriteDeleted(c) \/ DenyPending(c) \/ Revoke(c))
    <3>1. UNCHANGED store
      BY <1>7, <2>5 DEF Lifecycle, CallStopOrDelete, CallQuarantine, BeginTermination,
          CallStep, DenyFails, CancelRuntime, AwaitExecution, CancelEnds, LastWriteFails,
          Freeze, Verify, RecordReceipt, RecordFails
    <3>. QED BY <3>1
  <2>. QED BY <2>1, <2>2, <2>3, <2>4, <2>5
<1>8. CASE UNCHANGED vars
  BY <1>8 DEF vars
<1>. QED BY <1>1, <1>2, <1>3, <1>4, <1>5, <1>6, <1>7, <1>8, NextCases

\* The in-memory sets of AgentService keep their types.
LEMMA FlagsStep ==
  ASSUME Base, [Next]_vars PROVE FlagsTyped'
<1>. USE TypeParts DEF Base, FlagsTyped, store, flags, engine
<1>1. CASE Admission
  BY <1>1 DEF Admission, SendMessage, SendBlocked, StartAgent, StartCommits, WriteFails
<1>2. CASE SendCommits
  BY <1>2 DEF SendCommits
<1>3. CASE Engine
  BY <1>3 DEF Engine, Exits, TimesOut, CanaryCancels, OrphanEnds
<1>4. CASE Holding
  BY <1>4 DEF Holding, EgressCommits, EgressWriteFails, Approve, Deny, Decide,
      EgressAbandoned, HoldEgress
<1>5. CASE Restart
  BY <1>5 DEF Restart, RuntimesAfterCrash
<1>6. ASSUME NEW r \in Runs, Executing(r) PROVE FlagsTyped'
  BY <1>6 DEF Executing, RunStep, CanaryStep, StepRefused, StepFails, StepIntercepted,
      BeginRun, BeginFails, CheckBarrier, PrepareFails, Launch, RunnerReturns,
      RemoveDoomed, PauseForApproval, PublishStep, PublishStepFails, StepReleased,
      ResumeAfterApproval, RecordResumed, EndRun, EndFails, GoesTo, EndsAs, Throws
<1>7. ASSUME NEW c \in Calls, Lifecycle(c) PROVE FlagsTyped'
  BY <1>7 DEF Lifecycle, CallStopOrDelete, CallQuarantine, BeginTermination, CallStep,
      DenyPending, DenyFails, CancelRuntime, AwaitExecution, CancelEnds, WriteStopped,
      WriteDeleted, LastWriteFails, Freeze, Revoke, Verify, RecordReceipt, RecordFails,
      Unlocks, Quarantine, RunnerCancels
<1>8. CASE UNCHANGED vars
  BY <1>8 DEF vars
<1>. QED BY <1>1, <1>2, <1>3, <1>4, <1>5, <1>6, <1>7, <1>8, NextCases

\* A fault stays within its bound.
LEMMA FaultCounts ==
  ASSUME faults \in 0..MaxFaults, Fault
  PROVE  faults' \in 0..MaxFaults /\ restarts' = restarts
BY BoundsAreNaturals DEF Fault

\* So do the writer and the bounds.
LEMMA BoundsStep ==
  ASSUME BoundsTyped, [Next]_vars PROVE BoundsTyped'
<1>. USE DEF BoundsTyped, bounds
<1>1. CASE Admission
  BY <1>1, FaultCounts DEF Admission, SendMessage, SendBlocked, StartAgent, StartCommits,
      WriteFails
<1>2. CASE SendCommits
  BY <1>2 DEF SendCommits
<1>3. CASE Engine
  BY <1>3, FaultCounts DEF Engine, Exits, TimesOut, CanaryCancels, OrphanEnds
<1>4. CASE Holding
  BY <1>4, FaultCounts DEF Holding, EgressCommits, EgressWriteFails, Approve, Deny,
      Decide, EgressAbandoned, HoldEgress
<1>5. CASE Restart
  <2>1. restarts < MaxRestarts /\ restarts' = restarts + 1 /\ faults' = faults /\ writer' = None
    BY <1>5 DEF Restart
  <2>2. restarts' \in 0..MaxRestarts
    BY <2>1, BoundsAreNaturals
  <2>. QED BY <2>1, <2>2
<1>6. ASSUME NEW r \in Runs, Executing(r) PROVE BoundsTyped'
  <2>1. UNCHANGED writer
    BY <1>6 DEF Executing, RunStep, CanaryStep, StepRefused, StepFails, StepIntercepted,
        BeginRun, BeginFails, CheckBarrier, PrepareFails, Launch, RunnerReturns,
        RemoveDoomed, PauseForApproval, PublishStep, PublishStepFails, StepReleased,
        ResumeAfterApproval, RecordResumed, EndRun, EndFails, GoesTo, EndsAs, Throws
  <2>2. UNCHANGED bounds \/ Fault
    BY <1>6 DEF Executing, RunStep, CanaryStep, StepRefused, StepFails, StepIntercepted,
        BeginRun, BeginFails, CheckBarrier, PrepareFails, Launch, RunnerReturns,
        RemoveDoomed, PauseForApproval, PublishStep, PublishStepFails, StepReleased,
        ResumeAfterApproval, RecordResumed, EndRun, EndFails, GoesTo, EndsAs, Throws
  <2>. QED BY <2>1, <2>2, FaultCounts
<1>7. ASSUME NEW c \in Calls, Lifecycle(c) PROVE BoundsTyped'
  <2>1. UNCHANGED writer
    BY <1>7 DEF Lifecycle, CallStopOrDelete, CallQuarantine, BeginTermination, CallStep,
        DenyPending, DenyFails, CancelRuntime, AwaitExecution, CancelEnds, WriteStopped,
        WriteDeleted, LastWriteFails, Freeze, Revoke, Verify, RecordReceipt, RecordFails
  <2>2. UNCHANGED bounds \/ Fault
    BY <1>7 DEF Lifecycle, CallStopOrDelete, CallQuarantine, BeginTermination, CallStep,
        DenyPending, DenyFails, CancelRuntime, AwaitExecution, CancelEnds, WriteStopped,
        WriteDeleted, LastWriteFails, Freeze, Revoke, Verify, RecordReceipt, RecordFails,
        RunnerCancels
  <2>. QED BY <2>1, <2>2, FaultCounts
<1>8. CASE UNCHANGED vars
  BY <1>8 DEF vars
<1>. QED BY <1>1, <1>2, <1>3, <1>4, <1>5, <1>6, <1>7, <1>8, NextCases

\* So do the waiters: what is registered is an approval that was asked for.
LEMMA HoldsStep ==
  ASSUME Base, [Next]_vars PROVE HoldsTyped'
<1>. USE TypeParts DEF Base, HoldsTyped, Requests, holds
<1>1. CASE Admission
  BY <1>1 DEF Admission, SendMessage, SendBlocked, StartAgent, StartCommits, WriteFails
<1>2. CASE SendCommits
  BY <1>2 DEF SendCommits
<1>3. CASE Engine
  BY <1>3 DEF Engine, Exits, TimesOut, CanaryCancels, OrphanEnds
<1>4. CASE Holding
  BY <1>4 DEF Holding, EgressCommits, EgressWriteFails, Approve, Deny, Decide,
      EgressAbandoned, HoldEgress, Cleared
<1>5. CASE Restart
  BY <1>5 DEF Restart
<1>6. ASSUME NEW r \in Runs, Executing(r) PROVE HoldsTyped'
  BY <1>6 DEF Executing, RunStep, CanaryStep, StepRefused, StepFails, StepIntercepted,
      BeginRun, BeginFails, CheckBarrier, PrepareFails, Launch, RunnerReturns,
      RemoveDoomed, PauseForApproval, PublishStep, PublishStepFails, StepReleased,
      ResumeAfterApproval, RecordResumed, EndRun, EndFails, GoesTo, EndsAs, Throws,
      GatesAreNamed, AtGate
<1>7. ASSUME NEW c \in Calls, Lifecycle(c) PROVE HoldsTyped'
  BY <1>7 DEF Lifecycle, CallStopOrDelete, CallQuarantine, BeginTermination, CallStep,
      DenyPending, DenyFails, CancelRuntime, AwaitExecution, CancelEnds, WriteStopped,
      WriteDeleted, LastWriteFails, Freeze, Revoke, Verify, RecordReceipt, RecordFails,
      Cleared
<1>8. CASE UNCHANGED vars
  BY <1>8 DEF vars
<1>. QED BY <1>1, <1>2, <1>3, <1>4, <1>5, <1>6, <1>7, <1>8, NextCases

\* So do the executions.
LEMMA ExecutionStep ==
  ASSUME Base, [Next]_vars PROVE ExecutionTyped'
<1>. USE TypeParts DEF Base, ExecutionTyped, Step, Outcome, execution
<1>1. CASE Elsewhere
  BY <1>1, ExecutionFrame
<1>2. CASE SendCommits
  BY <1>2 DEF SendCommits
<1>3. CASE Restart
  BY <1>3 DEF Restart
<1>4. ASSUME NEW r \in Runs, Executing(r) PROVE ExecutionTyped'
  <2>1. step' \in [Runs -> Step] /\ outcome' \in [Runs -> Outcome]
    BY <1>4 DEF Executing, RunStep, CanaryStep, StepRefused, StepFails, StepIntercepted,
        BeginRun, BeginFails, CheckBarrier, PrepareFails, Launch, RunnerReturns,
        RemoveDoomed, PauseForApproval, PublishStep, PublishStepFails, StepReleased,
        ResumeAfterApproval, RecordResumed, EndRun, EndFails, GoesTo, EndsAs, Throws,
        Verdicts
  <2>2. active' \in Runs \cup {None}
    BY <1>4 DEF Executing, RunStep, CanaryStep, StepRefused, StepFails, StepIntercepted,
        BeginRun, BeginFails, CheckBarrier, PrepareFails, Launch, RunnerReturns,
        RemoveDoomed, PauseForApproval, PublishStep, PublishStepFails, StepReleased,
        ResumeAfterApproval, RecordResumed, EndRun, EndFails, GoesTo, EndsAs, Throws
  <2>3. gate' \in [Runs -> Approvals \cup {None}]
    <3>1. UNCHANGED gate \/ \E p \in Approvals : gate' = [gate EXCEPT ![r] = p]
      BY <1>4 DEF Executing, RunStep, CanaryStep, StepRefused, StepFails, StepIntercepted,
          BeginRun, BeginFails, CheckBarrier, PrepareFails, Launch, RunnerReturns,
          RemoveDoomed, PauseForApproval, PublishStep, PublishStepFails, StepReleased,
          ResumeAfterApproval, RecordResumed, EndRun, EndFails, GoesTo, EndsAs, Throws
    <3>. QED BY <3>1
  <2>4. canary' \in [Runs -> BOOLEAN]
    <3>1. UNCHANGED canary \/ canary' = [canary EXCEPT ![r] = TRUE]
      BY <1>4 DEF Executing, RunStep, CanaryStep, StepRefused, StepFails, StepIntercepted,
          BeginRun, BeginFails, CheckBarrier, PrepareFails, Launch, RunnerReturns,
          RemoveDoomed, PauseForApproval, PublishStep, PublishStepFails, StepReleased,
          ResumeAfterApproval, RecordResumed, EndRun, EndFails, GoesTo, EndsAs, Throws
    <3>. QED BY <3>1
  <2>. QED BY <2>1, <2>2, <2>3, <2>4
<1>. QED BY <1>1, <1>2, <1>3, <1>4, StepCases

\* So does the runtime: whoever updates it, there is one to update.
LEMMA EngineStep ==
  ASSUME Base, [Next]_vars PROVE EngineTyped'
<1>. USE DEF Base, TypeOK, EngineTyped
<1>1. CASE Elsewhere
  BY <1>1, RuntimeFrame
<1>2. CASE SendCommits \/ Restart
  BY <1>2 DEF SendCommits, Restart, RuntimesAfterCrash, engine, Runtimes
<1>3. ASSUME NEW r \in Runs, Executing(r) PROVE EngineTyped'
  <2>1. None \in Runtimes /\ [run |-> r, state |-> "live", doomed |-> FALSE] \in Runtimes
    BY DEF Runtimes
  <2>. QED BY <1>3, <2>1, RuntimeOfExecution
<1>. QED BY <1>1, <1>2, <1>3, StepCases

\* So do the lifecycle operations.
LEMMA CallsStep ==
  ASSUME Base, [Next]_vars PROVE CallsTyped'
<1>. USE TypeParts DEF Base, CallsTyped, CallState
<1>1. CASE Admission
  <2>1. ClaimsLapse \in [Calls -> CallState]
    BY DEF ClaimsLapse
  <2>. QED BY <1>1, <2>1 DEF Admission, SendMessage, SendBlocked, StartAgent,
      StartCommits, WriteFails
<1>2. CASE SendCommits
  BY <1>2 DEF SendCommits
<1>3. CASE Engine
  BY <1>3 DEF Engine, Exits, TimesOut, CanaryCancels, OrphanEnds
<1>4. CASE Holding
  BY <1>4 DEF Holding, EgressCommits, EgressWriteFails, Approve, Deny, Decide,
      EgressAbandoned, HoldEgress
<1>5. CASE Restart
  <2>1. ASSUME NEW d \in CallState
        PROVE  [d EXCEPT !.pc = "failed", !.killed = "failed"] \in CallState
    BY ONLY <2>1 DEF CallState
  <2>2. call' = [d \in Calls |-> IF At(d, "idle") THEN call[d]
                  ELSE [call[d] EXCEPT !.pc = "failed", !.killed = "failed"]]
    BY ONLY <1>5 DEF Restart, RuntimesAfterCrash
  <2>. HIDE DEF CallState
  <2>. QED BY <2>1, <2>2 DEF CallsTyped
<1>6. ASSUME NEW r \in Runs, Executing(r) PROVE CallsTyped'
  BY <1>6 DEF Executing, RunStep, CanaryStep, StepRefused, StepFails, StepIntercepted,
      BeginRun, BeginFails, CheckBarrier, PrepareFails, Launch, RunnerReturns,
      RemoveDoomed, PauseForApproval, PublishStep, PublishStepFails, StepReleased,
      ResumeAfterApproval, RecordResumed, EndRun, EndFails, GoesTo, EndsAs, Throws
<1>7. ASSUME NEW c \in Calls, Lifecycle(c) PROVE CallsTyped'
  <2>. USE DEF FlagsTyped, ExecutionTyped
  <2>1. AfterFailure(c) \in CallState
    <3>1. call[c] \in CallState
      OBVIOUS
    <3>. QED BY ONLY <3>1 DEF AfterFailure, CallState
  <2>2. ASSUME NEW progress \in CallState, Quarantine(c, progress) PROVE CallsTyped'
    BY <2>2 DEF Quarantine
  <2>3. CASE CallStopOrDelete(c) \/ CallQuarantine(c) \/ BeginTermination(c)
    BY <2>2, <2>3 DEF CallStopOrDelete, CallQuarantine, BeginTermination
  <2>4. CASE DenyPending(c) \/ DenyFails(c) \/ CancelRuntime(c)
    BY <2>1, <2>4 DEF DenyPending, DenyFails, CancelRuntime
  <2>5. CASE AwaitExecution(c) \/ CancelEnds(c)
    BY <2>1, <2>5 DEF AwaitExecution, CancelEnds
  <2>6. CASE WriteStopped(c) \/ WriteDeleted(c) \/ LastWriteFails(c)
    BY <2>1, <2>6 DEF WriteStopped, WriteDeleted, LastWriteFails
  <2>7. CASE Freeze(c)
    <3>1. PICK froze \in {"idle", "blocked", "paused", "failed"}, failed \in BOOLEAN :
            LET progress == [call[c] EXCEPT !.froze = froze, !.failed = failed] IN
            \/ Quarantine(c, progress)
            \/ call' = [call EXCEPT ![c] = [progress EXCEPT !.pc = "revoking"]]
      BY <2>7 DEF Freeze, Frozen
    <3>. DEFINE progress == [call[c] EXCEPT !.froze = froze, !.failed = failed]
    <3>2. progress \in CallState
      <4>1. call[c] \in CallState
        OBVIOUS
      <4>. QED BY ONLY <4>1, <3>1 DEF CallState
    <3>3. \/ Quarantine(c, progress)
          \/ call' = [call EXCEPT ![c] = [progress EXCEPT !.pc = "revoking"]]
      BY <3>1
    <3>. HIDE DEF progress
    <3>. QED BY <3>2, <3>3, <2>2
  <2>8. CASE Revoke(c)
    <3>1. PICK failed \in BOOLEAN :
            LET progress == [call[c] EXCEPT !.failed = failed] IN
            \/ Quarantine(c, progress)
            \/ call' = [call EXCEPT ![c] = [progress EXCEPT !.pc = "verifying"]]
      BY <2>8 DEF Revoke
    <3>. DEFINE progress == [call[c] EXCEPT !.failed = failed]
    <3>2. progress \in CallState
      <4>1. call[c] \in CallState
        OBVIOUS
      <4>. QED BY ONLY <4>1, <3>1 DEF CallState
    <3>3. \/ Quarantine(c, progress)
          \/ call' = [call EXCEPT ![c] = [progress EXCEPT !.pc = "verifying"]]
      BY <3>1
    <3>. HIDE DEF progress
    <3>. QED BY <3>2, <3>3, <2>2
  <2>0. call[c] \in CallState /\ call \in [Calls -> CallState]
    OBVIOUS
  <2>9. CASE RecordReceipt(c) \/ RecordFails(c)
    <3>1. PICK place \in {"done", "failed"} : call' = [call EXCEPT ![c].pc = place]
      BY <2>9 DEF RecordReceipt, RecordFails
    <3>2. [call[c] EXCEPT !.pc = place] \in CallState
      BY ONLY <2>0, <3>1 DEF CallState
    <3>3. call' = [call EXCEPT ![c] = [call[c] EXCEPT !.pc = place]]
      BY ONLY <2>0, <3>1
    <3>. QED BY ONLY <2>0, <3>2, <3>3 DEF CallsTyped
  <2>10. CASE Verify(c)
    <3>1. PICK claimed \in BOOLEAN, confirmed \in BOOLEAN :
            call' = [call EXCEPT ![c].pc = "recording", ![c].contained = claimed,
                                 ![c].confirmed = confirmed]
      BY <2>10 DEF Verify
    <3>. DEFINE after == [call[c] EXCEPT !.pc = "recording", !.contained = claimed,
                                         !.confirmed = confirmed]
    <3>2. after \in CallState
      BY ONLY <2>0, <3>1 DEF CallState
    <3>3. call' = [call EXCEPT ![c] = after]
      BY ONLY <2>0, <3>1
    <3>. HIDE DEF after
    <3>. QED BY ONLY <2>0, <3>2, <3>3 DEF CallsTyped
  <2>. QED BY <1>7, <2>3, <2>4, <2>5, <2>6, <2>7, <2>8, <2>9, <2>10 DEF Lifecycle, CallStep
<1>8. CASE UNCHANGED vars
  BY <1>8 DEF vars
<1>. QED BY <1>1, <1>2, <1>3, <1>4, <1>5, <1>6, <1>7, <1>8, NextCases

\* What holds of an execution and of the run it serves.
\* What the store may say of a run, by where its execution is.
Stored(r) ==
  CASE step[r] = "none" -> {"none", "failed"}
    [] step[r] = "queued" -> {"queued"}
    [] step[r] = "rejected" -> {"queued", "running", "cancelled"}
    [] step[r] = "lost" -> {"cancelled"}
    [] step[r] = "done" -> {IF outcome[r] \in {"completed", "cancelled"} THEN outcome[r] ELSE "failed"}
    [] OTHER -> {"running"}
\* The stored run follows its execution (agent-service.ts:926-954, 1350-1380).
RunFollowsStep == \A r \in Runs : runs[r] \in Stored(r) \cup {"deleted"}

\* What a mutation in progress is about to store is not stored yet.
WriterIsNew ==
  /\ writer \in Runs => runs[writer] = "none"
  /\ writer \in Approvals =>
       approval[writer] = "none" /\ request[writer] # None /\ request[writer].kind = "egress"

\* An execution that is leaving knows why; only one that has left its runtime can
\* have completed.
OutcomeIsOpen ==
  \A r \in Runs :
    /\ step[r] \in {"throwing", "ending"} => outcome[r] # "none"
    /\ outcome[r] = "completed" => step[r] \in {"ending", "done", "lost"}

\* A run that showed the canary token has started, will not complete, and its
\* runtime is doomed (agent-service.ts:1012-1027).
CanaryIsDoomed ==
  \A r \in Runs :
    canary[r] => /\ step[r] \notin Unstarted /\ outcome[r] # "completed"
                 /\ HasRuntime(r) => runtime.doomed

\* An approval that is stored or waited for was asked for by a run that has started;
\* one that was granted is stored as approved and waited for no more.
ApprovalsAreAsked ==
  \A p \in Approvals :
    /\ approval[p] # "none" \/ p \in pending => request[p] # None
    /\ request[p] # None => step[request[p].run] \notin Unstarted
    /\ verdict[p] = "granted" => p \notin pending /\ approval[p] \in {"approved", "deleted"}

\* A step is held on its own approval, which is not stored before it is published
\* and was granted before the step goes on.
GatesAreOwn ==
  \A r \in Runs :
    /\ step[r] \in AtGate => gate[r] \in Approvals /\ request[gate[r]] = [run |-> r, kind |-> "step"]
    /\ step[r] \in {"pausing", "publishing"} => approval[gate[r]] = "none"
    /\ step[r] \in {"resuming", "resumed"} => verdict[gate[r]] = "granted"

\* Whoever waits for a decision has not been told one.
WaitersWait ==
  /\ \A p \in Approvals : p \in pending \/ request[p] = None => verdict[p] = "waiting"
  /\ \A r \in Runs : step[r] = "pausing" => verdict[gate[r]] = "waiting" /\ gate[r] \notin pending

\* A step whose approval is pending and waited for is held on it.
PendingIsHeld ==
  \A p \in Approvals :
    approval[p] = "pending" /\ p \in pending /\ request[p].kind = "step" =>
      step[request[p].run] = "held" /\ gate[request[p].run] = p

\* An approval of a run that is not over: its evidence is what it will stay, or
\* the step it released will have it replaced.
Backed(p) ==
  LET r == request[p].run IN
  \/ request[p].kind = "egress" /\ result[p] = "execution_authorized"
  \/ request[p].kind = "step" /\ result[p] = "execution_resumed"
  \/ /\ request[p].kind = "step" /\ result[p] = "execution_authorized"
     /\ \/ step[r] \in {"held", "resuming", "resumed"} /\ gate[r] = p
        \/ step[r] \in {"throwing", "ending"} /\ outcome[r] # "completed"
        \/ step[r] = "rejected"

\* What the evidence of an approved action may be, by what became of its run.
Fits(p) ==
  /\ runs[request[p].run] \in {"queued", "running", "cancelled", "failed", "completed"}
  /\ runs[request[p].run] \in {"queued", "running"} => Backed(p)
  /\ runs[request[p].run] = "cancelled" => result[p] = "execution_cancelled"
  /\ runs[request[p].run] = "failed" => result[p] = "execution_failed"
  /\ runs[request[p].run] = "completed" =>
       result[p] = IF request[p].kind = "step" THEN "execution_resumed" ELSE "execution_authorized"

EvidenceFits == \A p \in Approvals : approval[p] = "approved" => Fits(p)

\* The inductive invariant.  None of the properties is inductive alone: that a run
\* with the canary does not complete rests on its runtime being doomed, which rests on
\* the runtime being the one its execution is in; that evidence matches the run rests on
\* which step an approval still holds.
IInv == /\ TypeOK /\ RuntimeIsTracked /\ RunFollowsStep /\ WriterIsNew /\ OutcomeIsOpen
        /\ CanaryIsDoomed /\ ApprovalsAreAsked /\ GatesAreOwn /\ WaitersWait /\ PendingIsHeld
        /\ EvidenceFits

\* The runner tracks the runtime of the execution that is in it: a second one is
\* never launched while one is there, and nobody else removes it.
LEMMA TrackedStep ==
  ASSUME IInv, [Next]_vars PROVE RuntimeIsTracked'
<1>. USE NamesAreDistinct DEF IInv, TypeOK, InRuntime, HasRuntime
<1>1. CASE Elsewhere
  <2>1. UNCHANGED step /\ RuntimeStays
    BY <1>1, ExecutionFrame, RuntimeFrame DEF execution
  <2>. QED BY <2>1 DEF RuntimeIsTracked, RuntimeStays
<1>2. CASE SendCommits
  <2>1. step[writer] = "none"
    BY <1>2 DEF SendCommits, WriterIsNew, RunFollowsStep, Stored, Step
  <2>. QED BY <2>1, <1>2 DEF SendCommits, RuntimeIsTracked, engine
<1>3. CASE Restart
  BY <1>3 DEF Restart, RuntimesAfterCrash, RuntimeIsTracked, Alive
<1>4. ASSUME NEW r \in Runs, Executing(r) PROVE RuntimeIsTracked'
  <2>1. [run |-> r, state |-> "live", doomed |-> FALSE] # None
    <3>1. [run |-> r, state |-> "live", doomed |-> FALSE]
            \in [run : Runs, state : {"live", "paused", "exited", "removed"}, doomed : BOOLEAN]
      OBVIOUS
    <3>. QED BY ONLY <3>1, NamesAreDistinct
  <2>2. (step'[r] \in InRuntime <=> HasRuntime(r)')
        /\ \A q \in Runs \ {r} : HasRuntime(q)' <=> HasRuntime(q)
    BY <1>4, <2>1, RuntimeOfExecution DEF RuntimeStays, RuntimeIsTracked
  <2>3. \A q \in Runs \ {r} : step'[q] = step[q]
    BY <1>4, OthersStay, TypeParts
  <2>. QED BY <2>2, <2>3 DEF RuntimeIsTracked
<1>. QED BY <1>1, <1>2, <1>3, <1>4, StepCases

\* The store is written where the execution moves, and by a deletion.
LEMMA RunFollowsStepStep ==
  ASSUME IInv, [Next]_vars PROVE RunFollowsStep'
<1>. USE DEF IInv, TypeOK, RunFollowsStep, Stored
<1>1. CASE Elsewhere
  <2>1. UNCHANGED <<step, outcome>>
    BY <1>1, ExecutionFrame DEF execution
  <2>2. \/ UNCHANGED runs
        \/ \E r \in Runs : runs[r] = "none" /\ runs' = [runs EXCEPT ![r] = "failed"]
        \/ runs' = [r \in Runs |-> IF runs[r] = "none" THEN "none" ELSE "deleted"]
    <3>. USE DEF store
    <3>1. CASE Admission
      BY <3>1 DEF Admission, SendMessage, SendBlocked, StartAgent, StartCommits, WriteFails
    <3>2. CASE Engine
      BY <3>2 DEF Engine, Exits, TimesOut, CanaryCancels, OrphanEnds
    <3>3. CASE Holding
      BY <3>3 DEF Holding, EgressCommits, EgressWriteFails, Approve, Deny, Decide,
          EgressAbandoned, HoldEgress
    <3>4. ASSUME NEW c \in Calls, Lifecycle(c)
          PROVE  \/ UNCHANGED runs
                 \/ runs' = [r \in Runs |-> IF runs[r] = "none" THEN "none" ELSE "deleted"]
      BY <3>4 DEF Lifecycle, CallStopOrDelete, CallQuarantine, BeginTermination, CallStep,
          DenyPending, DenyFails, CancelRuntime, AwaitExecution, CancelEnds, WriteStopped,
          WriteDeleted, LastWriteFails, Freeze, Revoke, Verify, RecordReceipt, RecordFails
    <3>. QED BY <1>1, <3>1, <3>2, <3>3, <3>4 DEF Elsewhere, vars
  <2>. QED BY <2>1, <2>2 DEF Step
<1>2. CASE SendCommits
  BY <1>2 DEF SendCommits, WriterIsNew, Step
<1>3. CASE Restart
  BY <1>3 DEF Restart, Interrupted, Alive
<1>4. ASSUME NEW r \in Runs, Executing(r) PROVE RunFollowsStep'
  <2>1. (runs[r] \in Stored(r) \cup {"deleted"})'
    BY <1>4 DEF Executing, RunStep, CanaryStep, StepRefused, StepFails, StepIntercepted,
        BeginRun, BeginFails, CheckBarrier, PrepareFails, Launch, RunnerReturns,
        RemoveDoomed, PauseForApproval, PublishStep, PublishStepFails, StepReleased,
        ResumeAfterApproval, RecordResumed, EndRun, EndFails, GoesTo, EndsAs, Throws,
        store, execution
  <2>. QED BY <1>4, <2>1, OthersStay, TypeParts
<1>. QED BY <1>1, <1>2, <1>3, <1>4, StepCases

\* Nothing overtakes a mutation in progress.
LEMMA WriterIsNewStep ==
  ASSUME IInv, [Next]_vars PROVE WriterIsNew'
<1>. USE NamesAreDistinct DEF IInv, TypeOK, WriterIsNew, store, holds
<1>1. CASE Admission
  BY <1>1 DEF Admission, SendMessage, SendBlocked, StartAgent, StartCommits, WriteFails,
      Admits, QueueEmpty
<1>2. CASE SendCommits
  BY <1>2 DEF SendCommits
<1>3. CASE Engine
  BY <1>3 DEF Engine, Exits, TimesOut, CanaryCancels, OrphanEnds
<1>4. CASE Holding
  BY <1>4 DEF Holding, EgressCommits, EgressWriteFails, Approve, Deny, Decide,
      EgressAbandoned, HoldEgress, ApprovalsAreAsked, StoreIdle, Cleared
<1>5. CASE Restart
  BY <1>5 DEF Restart
<1>6. ASSUME NEW r \in Runs, Executing(r) PROVE WriterIsNew'
  BY <1>6 DEF Executing, RunStep, CanaryStep, StepRefused, StepFails, StepIntercepted,
      BeginRun, BeginFails, CheckBarrier, PrepareFails, Launch, RunnerReturns,
      RemoveDoomed, PauseForApproval, PublishStep, PublishStepFails, StepReleased,
      ResumeAfterApproval, RecordResumed, EndRun, EndFails, GoesTo, EndsAs, Throws,
      RunFollowsStep, Stored, StoreIdle
<1>7. ASSUME NEW c \in Calls, Lifecycle(c) PROVE WriterIsNew'
  BY <1>7 DEF Lifecycle, CallStopOrDelete, CallQuarantine, BeginTermination, CallStep,
      DenyPending, DenyFails, CancelRuntime, AwaitExecution, CancelEnds, WriteStopped,
      WriteDeleted, LastWriteFails, Freeze, Revoke, Verify, RecordReceipt, RecordFails,
      Cleared, StoreIdle
<1>8. CASE UNCHANGED vars
  BY <1>8 DEF vars
<1>. QED BY <1>1, <1>2, <1>3, <1>4, <1>5, <1>6, <1>7, <1>8, NextCases

\* The outcome is set when the execution leaves, and revised only by EndFails.
LEMMA OutcomeIsOpenStep ==
  ASSUME IInv, [Next]_vars PROVE OutcomeIsOpen'
<1>. USE DEF IInv, TypeOK, OutcomeIsOpen
<1>1. CASE Elsewhere
  BY <1>1, ExecutionFrame DEF execution
<1>2. CASE SendCommits
  BY <1>2 DEF SendCommits, WriterIsNew, RunFollowsStep, Stored, Step
<1>3. CASE Restart
  BY <1>3 DEF Restart, Alive
<1>4. ASSUME NEW r \in Runs, Executing(r) PROVE OutcomeIsOpen'
  <2>1. /\ step'[r] \in {"throwing", "ending"} => outcome'[r] # "none"
        /\ outcome'[r] = "completed" => step'[r] \in {"ending", "done", "lost"}
    BY <1>4 DEF Executing, RunStep, CanaryStep, StepRefused, StepFails, StepIntercepted,
        BeginRun, BeginFails, CheckBarrier, PrepareFails, Launch, RunnerReturns,
        RemoveDoomed, PauseForApproval, PublishStep, PublishStepFails, StepReleased,
        ResumeAfterApproval, RecordResumed, EndRun, EndFails, GoesTo, EndsAs, Throws,
        Verdicts, execution
  <2>. QED BY <1>4, <2>1, OthersStay, TypeParts
<1>. QED BY <1>1, <1>2, <1>3, <1>4, StepCases

\* A doomed runtime stays doomed until it is gone.
LEMMA CanaryIsDoomedStep ==
  ASSUME IInv, [Next]_vars PROVE CanaryIsDoomed'
<1>. USE DEF IInv, TypeOK, CanaryIsDoomed, Unstarted
<1>1. CASE Elsewhere
  BY <1>1, ExecutionFrame, RuntimeFrame DEF execution, RuntimeStays, HasRuntime
<1>2. CASE SendCommits
  BY <1>2 DEF SendCommits, WriterIsNew, RunFollowsStep, Stored, Step, HasRuntime, engine
<1>3. CASE Restart
  BY <1>3 DEF Restart, RuntimesAfterCrash, Alive, HasRuntime
<1>4. ASSUME NEW r \in Runs, Executing(r) PROVE CanaryIsDoomed'
  <2>1. canary[r] \/ ~canary'[r] \/ CanaryStep(r)
    BY <1>4 DEF Executing, RunStep, CanaryStep, StepRefused, StepFails, StepIntercepted,
        BeginRun, BeginFails, CheckBarrier, PrepareFails, Launch, RunnerReturns,
        RemoveDoomed, PauseForApproval, PublishStep, PublishStepFails, StepReleased,
        ResumeAfterApproval, RecordResumed, EndRun, EndFails, GoesTo, EndsAs, Throws,
        execution
  <2>2. canary'[r] => step'[r] \notin Unstarted /\ outcome'[r] # "completed"
    <3>1. step'[r] \in Unstarted => step[r] \in Unstarted
      BY <1>4 DEF Executing, RunStep, CanaryStep, StepRefused, StepFails, StepIntercepted,
          BeginRun, BeginFails, CheckBarrier, PrepareFails, Launch, RunnerReturns,
          RemoveDoomed, PauseForApproval, PublishStep, PublishStepFails, StepReleased,
          ResumeAfterApproval, RecordResumed, EndRun, EndFails, GoesTo, EndsAs, Throws,
          execution
    <3>2. outcome'[r] = "completed" => outcome[r] = "completed" \/ RunnerReturns(r)
      BY <1>4 DEF Executing, RunStep, CanaryStep, StepRefused, StepFails, StepIntercepted,
          BeginRun, BeginFails, CheckBarrier, PrepareFails, Launch, RunnerReturns,
          RemoveDoomed, PauseForApproval, PublishStep, PublishStepFails, StepReleased,
          ResumeAfterApproval, RecordResumed, EndRun, EndFails, GoesTo, EndsAs, Throws,
          execution
    <3>3. CASE CanaryStep(r)
      BY <3>3, <3>1 DEF CanaryStep, OutcomeIsOpen
    <3>4. CASE RunnerReturns(r) /\ canary'[r]
      BY <3>4, <3>1 DEF RunnerReturns, Verdicts, EndsAs
    <3>. QED BY <2>1, <3>1, <3>2, <3>3, <3>4
  <2>3. canary'[r] /\ HasRuntime(r)' => runtime'.doomed
    <3>1. CASE CanaryStep(r)
      BY <3>1 DEF CanaryStep, HasRuntime, Runtimes
    <3>2. CASE canary[r] /\ ~CanaryStep(r)
      BY <1>4, <3>2, RuntimeOfExecution DEF RuntimeStays, HasRuntime, RuntimeIsTracked
    <3>. QED BY <2>1, <3>1, <3>2
  <2>4. \A q \in Runs \ {r} : HasRuntime(q)' => HasRuntime(q) /\ (runtime.doomed => runtime'.doomed)
    BY <1>4, RuntimeOfExecution DEF RuntimeStays, HasRuntime
  <2>. QED BY <1>4, <2>2, <2>3, <2>4, OthersStay, TypeParts
<1>. QED BY <1>1, <1>2, <1>3, <1>4, StepCases

\* What is asked for is something.
LEMMA RequestParts ==
  ASSUME NEW r \in Runs, NEW k \in {"step", "egress"}
  PROVE  /\ [run |-> r, kind |-> k] # None
         /\ [run |-> r, kind |-> k].run = r /\ [run |-> r, kind |-> k].kind = k
<1>1. [run |-> r, kind |-> k] \in [run : Runs, kind : {"step", "egress"}]
  OBVIOUS
<1>2. [run |-> r, kind |-> k] # None
  BY ONLY <1>1, NamesAreDistinct
<1>. QED BY <1>2

\* The approval an execution is held on is its own.
LEMMA GateParts ==
  ASSUME GatesAreOwn, NEW r \in Runs, step[r] \in AtGate
  PROVE  /\ gate[r] \in Approvals /\ request[gate[r]] # None
         /\ request[gate[r]].run = r /\ request[gate[r]].kind = "step"
<1>1. gate[r] \in Approvals /\ request[gate[r]] = [run |-> r, kind |-> "step"]
  BY DEF GatesAreOwn
<1>2. /\ [run |-> r, kind |-> "step"] # None
      /\ [run |-> r, kind |-> "step"].run = r /\ [run |-> r, kind |-> "step"].kind = "step"
  BY RequestParts
<1>. QED BY <1>1, <1>2

\* Nobody stores or grants what was not asked for.
LEMMA ApprovalsAreAskedStep ==
  ASSUME IInv, [Next]_vars PROVE ApprovalsAreAsked'
<1>. USE NamesAreDistinct DEF IInv, TypeOK, ApprovalsAreAsked, store, holds, execution
<1>1. CASE Admission
  BY <1>1 DEF Admission, SendMessage, SendBlocked, StartAgent, StartCommits, WriteFails
<1>2. CASE SendCommits
  <2>1. step[writer] = "none"
    BY <1>2 DEF SendCommits, WriterIsNew, RunFollowsStep, Stored, Step
  <2>. QED BY <1>2, <2>1 DEF SendCommits, Unstarted
<1>3. CASE Engine
  BY <1>3 DEF Engine, Exits, TimesOut, CanaryCancels, OrphanEnds
<1>4. CASE Holding
  BY <1>4 DEF Holding, EgressCommits, EgressWriteFails, Approve, Deny, Decide,
      EgressAbandoned, HoldEgress, Cleared, WriterIsNew, RuntimeIsTracked, InRuntime,
      Unstarted, Requests
<1>5. CASE Restart
  BY <1>5 DEF Restart, Alive, Unstarted, Requests
<1>6. ASSUME NEW r \in Runs, Executing(r) PROVE ApprovalsAreAsked'
  <2>1. \A p \in Approvals : approval'[p] # "none" \/ p \in pending' => request'[p] # None
    BY <1>6, HoldsOfExecution, GateParts, RequestParts DEF StepIntercepted, AtGate
  <2>2. \A q \in Runs : step'[q] \in Unstarted => step[q] \in Unstarted
    BY <1>6 DEF Executing, RunStep, CanaryStep, StepRefused, StepFails, StepIntercepted,
        BeginRun, BeginFails, CheckBarrier, PrepareFails, Launch, RunnerReturns,
        RemoveDoomed, PauseForApproval, PublishStep, PublishStepFails, StepReleased,
        ResumeAfterApproval, RecordResumed, EndRun, EndFails, GoesTo, EndsAs, Throws,
        Unstarted
  <2>3. \A p \in Approvals : request'[p] # None => step'[request'[p].run] \notin Unstarted
    BY <1>6, <2>2, HoldsOfExecution DEF StepIntercepted, GoesTo, Unstarted, Requests
  <2>4. UNCHANGED verdict
    BY <1>6, HoldsOfExecution
  <2>5. \A p \in Approvals : verdict[p] = "granted" => p \notin pending' /\ approval'[p] = approval[p]
    <3>1. CASE step[r] \in {"pausing", "publishing"}
      <4>1. gate[r] \in Approvals /\ approval[gate[r]] = "none" /\ verdict[gate[r]] # "granted"
        BY <3>1 DEF GatesAreOwn, AtGate
      <4>. QED BY <1>6, <4>1, HoldsOfExecution
    <3>2. CASE step[r] \notin {"pausing", "publishing"}
      BY <1>6, <3>2, HoldsOfExecution
    <3>. QED BY <3>1, <3>2
  <2>. QED BY <2>1, <2>3, <2>4, <2>5
<1>7. ASSUME NEW c \in Calls, Lifecycle(c) PROVE ApprovalsAreAsked'
  <2>1. UNCHANGED step
    BY <1>7, ExecutionFrame DEF Elsewhere
  <2>. QED BY <1>7, <2>1, HoldsOfLifecycle DEF Cleared
<1>8. CASE UNCHANGED vars
  BY <1>8 DEF vars
<1>. QED BY <1>1, <1>2, <1>3, <1>4, <1>5, <1>6, <1>7, <1>8, NextCases

\* Nobody else's approval opens the gate.
LEMMA GatesAreOwnStep ==
  ASSUME IInv, [Next]_vars PROVE GatesAreOwn'
<1>. USE NamesAreDistinct DEF IInv, TypeOK, GatesAreOwn, AtGate, store, holds, execution
<1>1. CASE Admission
  BY <1>1 DEF Admission, SendMessage, SendBlocked, StartAgent, StartCommits, WriteFails
<1>2. CASE SendCommits
  BY <1>2 DEF SendCommits
<1>3. CASE Engine
  BY <1>3 DEF Engine, Exits, TimesOut, CanaryCancels, OrphanEnds
<1>4. CASE Holding
  <2>1. UNCHANGED <<step, gate>>
    BY <1>4, ExecutionFrame DEF Elsewhere
  <2>. USE <2>1 DEF Cleared, ApprovalsAreAsked
  <2>2. CASE EgressCommits \/ EgressWriteFails
    <3>1. \A q \in Runs : step[q] \in AtGate => gate[q] # writer
      BY <2>2, GateParts DEF EgressCommits, EgressWriteFails, WriterIsNew
    <3>. QED BY <2>2, <3>1 DEF EgressCommits, EgressWriteFails
  <2>3. ASSUME NEW p \in Approvals, Approve(p) \/ Deny(p) PROVE GatesAreOwn'
    <3>1. /\ approval[p] = "pending" /\ p \in pending /\ UNCHANGED request
          /\ \A q \in Approvals \ {p} : approval'[q] = approval[q] /\ verdict'[q] = verdict[q]
      BY <2>3 DEF Approve, Deny, Decide, Resolvable
    <3>2. verdict[p] # "granted"
      BY <3>1
    <3>. QED BY ONLY <2>1, <3>1, <3>2, GatesAreOwn DEF GatesAreOwn, AtGate
  <2>5. ASSUME NEW p \in Approvals, EgressAbandoned(p) PROVE GatesAreOwn'
    <3>1. /\ p \in pending /\ UNCHANGED <<request, approval>>
          /\ \A q \in Approvals \ {p} : verdict'[q] = verdict[q]
      BY <2>5 DEF EgressAbandoned
    <3>2. verdict[p] # "granted"
      BY <3>1
    <3>. QED BY ONLY <2>1, <3>1, <3>2, GatesAreOwn DEF GatesAreOwn, AtGate
  <2>4. ASSUME NEW r \in Runs, NEW p \in Approvals, HoldEgress(r, p) PROVE GatesAreOwn'
    <3>1. \A q \in Runs : step[q] \in AtGate => gate[q] # p
      BY <2>4, GateParts DEF HoldEgress
    <3>. QED BY <2>4, <3>1 DEF HoldEgress
  <2>. QED BY <1>4, <2>2, <2>3, <2>4, <2>5 DEF Holding
<1>5. CASE Restart
  BY <1>5 DEF Restart, Alive
<1>6. ASSUME NEW r \in Runs, Executing(r) PROVE GatesAreOwn'
  <2>. USE DEF ApprovalsAreAsked, Requests
  <2>1. \A q \in Runs \ {r} : step'[q] = step[q] /\ gate'[q] = gate[q]
    BY <1>6, OthersStay, TypeParts
  <2>2. \A q \in Runs : step'[q] \in AtGate =>
          gate'[q] \in Approvals /\ request'[gate'[q]] = [run |-> q, kind |-> "step"]
    <3>1. step'[r] \in AtGate => step[r] \in AtGate \/ \E p \in Approvals : StepIntercepted(r, p)
      BY <1>6 DEF Executing, RunStep, CanaryStep, StepRefused, StepFails, StepIntercepted,
          BeginRun, BeginFails, CheckBarrier, PrepareFails, Launch, RunnerReturns,
          RemoveDoomed, PauseForApproval, PublishStep, PublishStepFails, StepReleased,
          ResumeAfterApproval, RecordResumed, EndRun, EndFails, GoesTo, EndsAs, Throws
    <3>. QED BY <1>6, <2>1, <3>1, HoldsOfExecution DEF StepIntercepted
  <2>3. \A q \in Runs : step'[q] \in {"pausing", "publishing"} => approval'[gate'[q]] = "none"
    <3>1. step'[r] \in {"pausing", "publishing"} =>
            step[r] \in {"pausing", "publishing"} \/ \E p \in Approvals : StepIntercepted(r, p)
      BY <1>6 DEF Executing, RunStep, CanaryStep, StepRefused, StepFails, StepIntercepted,
          BeginRun, BeginFails, CheckBarrier, PrepareFails, Launch, RunnerReturns,
          RemoveDoomed, PauseForApproval, PublishStep, PublishStepFails, StepReleased,
          ResumeAfterApproval, RecordResumed, EndRun, EndFails, GoesTo, EndsAs, Throws
    <3>2. ASSUME NEW p \in Approvals, StepIntercepted(r, p) PROVE approval'[p] = "none" /\ gate'[r] = p
      BY <3>2 DEF StepIntercepted
    <3>3. step[r] = "publishing" => \A q \in Runs \ {r} : step[q] \in AtGate => gate[q] # gate[r]
      BY GateParts
    <3>4. ASSUME NEW q \in Runs \ {r}, step'[q] \in {"pausing", "publishing"}
          PROVE  approval'[gate'[q]] = "none"
      <4>1. /\ gate'[q] = gate[q] /\ gate[q] \in Approvals /\ approval[gate[q]] = "none"
            /\ step[r] = "publishing" => gate[q] # gate[r]
        BY <2>1, <3>3, <3>4
      <4>. QED BY <1>6, <4>1, HoldsOfExecution
    <3>5. CASE \E p \in Approvals : StepIntercepted(r, p)
      BY <3>2, <3>4, <3>5
    <3>6. CASE ~\E p \in Approvals : StepIntercepted(r, p)
      <4>1. step'[r] \in {"pausing", "publishing"} =>
              /\ step[r] \in {"pausing", "publishing"} /\ UNCHANGED <<approval, gate>>
        BY <1>6, <3>1, <3>6, HoldsOfExecution
      <4>2. step'[r] \in {"pausing", "publishing"} => approval'[gate'[r]] = "none"
        BY ONLY <4>1, GatesAreOwn, <1>6 DEF GatesAreOwn
      <4>. QED BY ONLY <3>4, <4>2, <1>6
    <3>. QED BY <3>5, <3>6
  <2>4. \A q \in Runs : step'[q] \in {"resuming", "resumed"} => verdict'[gate'[q]] = "granted"
    <3>1. step'[r] \in {"resuming", "resumed"} =>
            \/ step[r] \in {"resuming", "resumed"}
            \/ verdict[gate[r]] = "granted" /\ step[r] = "held"
      <4>1. step'[r] \in {"resuming", "resumed"} =>
              \/ step[r] \in {"resuming", "resumed"} \/ StepReleased(r)
        BY <1>6 DEF Executing, RunStep, CanaryStep, StepRefused, StepFails,
            StepIntercepted, BeginRun, BeginFails, CheckBarrier, PrepareFails, Launch,
            RunnerReturns, RemoveDoomed, PauseForApproval, PublishStep, PublishStepFails,
            StepReleased, ResumeAfterApproval, RecordResumed, EndRun, EndFails, GoesTo,
            EndsAs, Throws
      <4>2. StepReleased(r) /\ step'[r] \in {"resuming", "resumed"} => verdict[gate[r]] = "granted"
        <5>1. SUFFICES ASSUME StepReleased(r), step'[r] \in {"resuming", "resumed"}
                       PROVE  verdict[gate[r]] = "granted"
          OBVIOUS
        <5>2. step[r] = "held" /\ verdict[gate[r]] # "waiting" /\ gate[r] \in Approvals
          BY <5>1 DEF StepReleased
        <5>3. verdict[gate[r]] # "refused"
          BY <5>1 DEF StepReleased, Throws, GoesTo
        <5>. QED BY <5>2, <5>3
      <4>3. StepReleased(r) => step[r] = "held"
        BY DEF StepReleased
      <4>. QED BY <4>1, <4>2, <4>3
    <3>. QED BY <1>6, <2>1, <3>1, HoldsOfExecution DEF StepIntercepted, GoesTo
  <2>. QED BY <2>2, <2>3, <2>4
<1>7. ASSUME NEW c \in Calls, Lifecycle(c) PROVE GatesAreOwn'
  <2>1. UNCHANGED <<step, gate>>
    BY <1>7, ExecutionFrame DEF Elsewhere
  <2>2. \A p \in Approvals : approval[p] = "none" => approval'[p] = "none"
    BY <1>7, HoldsOfLifecycle
  <2>3. \A p \in Approvals : verdict[p] = "granted" => verdict'[p] = "granted"
    BY <1>7, HoldsOfLifecycle DEF Cleared, ApprovalsAreAsked
  <2>. QED BY <1>7, <2>1, <2>2, <2>3, HoldsOfLifecycle
<1>8. CASE UNCHANGED vars
  BY <1>8 DEF vars
<1>. QED BY <1>1, <1>2, <1>3, <1>4, <1>5, <1>6, <1>7, <1>8, NextCases

\* A waiter is removed in the turn in which it is told.
LEMMA WaitersWaitStep ==
  ASSUME IInv, [Next]_vars PROVE WaitersWait'
<1>. USE NamesAreDistinct DEF IInv, TypeOK, WaitersWait, store, holds, execution
<1>1. CASE Admission
  BY <1>1 DEF Admission, SendMessage, SendBlocked, StartAgent, StartCommits, WriteFails
<1>2. CASE SendCommits
  BY <1>2 DEF SendCommits
<1>3. CASE Engine
  BY <1>3 DEF Engine, Exits, TimesOut, CanaryCancels, OrphanEnds
<1>4. CASE Holding
  <2>1. UNCHANGED <<step, gate>>
    BY <1>4, ExecutionFrame DEF Elsewhere
  <2>2. \A r \in Runs : step[r] = "pausing" => gate[r] \in Approvals /\ approval[gate[r]] = "none"
    BY DEF GatesAreOwn, AtGate
  <2>. USE DEF Cleared
  <2>3. CASE EgressCommits \/ EgressWriteFails
    <3>1. \A r \in Runs : step[r] = "pausing" => gate[r] # writer
      BY <2>3, GateParts DEF EgressCommits, EgressWriteFails, WriterIsNew, AtGate
    <3>. QED BY <2>1, <2>2, <2>3, <3>1 DEF EgressCommits, EgressWriteFails, WriterIsNew
  <2>4. ASSUME NEW p \in Approvals, Approve(p) \/ Deny(p) PROVE WaitersWait'
    BY <2>1, <2>2, <2>4 DEF Approve, Deny, Decide, ApprovalsAreAsked
  <2>5. ASSUME NEW p \in Approvals, EgressAbandoned(p) PROVE WaitersWait'
    <3>1. \A r \in Runs : step[r] = "pausing" => gate[r] # p
      BY <2>5, GateParts DEF EgressAbandoned, AtGate
    <3>. QED BY <2>1, <2>2, <2>5, <3>1 DEF EgressAbandoned, ApprovalsAreAsked
  <2>6. ASSUME NEW r \in Runs, NEW p \in Approvals, HoldEgress(r, p) PROVE WaitersWait'
    <3>1. \A q \in Runs : step[q] = "pausing" => gate[q] # p
      BY <2>6, GateParts DEF HoldEgress, AtGate
    <3>. QED BY <2>1, <2>2, <2>6, <3>1 DEF HoldEgress
  <2>. QED BY <1>4, <2>3, <2>4, <2>5, <2>6 DEF Holding
<1>5. CASE Restart
  BY <1>5 DEF Restart, Alive
<1>6. ASSUME NEW r \in Runs, Executing(r) PROVE WaitersWait'
  <2>1. \A p \in Approvals : p \in pending' \/ request'[p] = None => verdict'[p] = "waiting"
    BY <1>6, HoldsOfExecution DEF StepIntercepted
  <2>2. step'[r] = "pausing" => verdict'[gate'[r]] = "waiting" /\ gate'[r] \notin pending'
    <3>1. step'[r] = "pausing" => step[r] = "pausing" \/ \E p \in Approvals : StepIntercepted(r, p)
      BY <1>6 DEF Executing, RunStep, CanaryStep, StepRefused, StepFails, StepIntercepted,
          BeginRun, BeginFails, CheckBarrier, PrepareFails, Launch, RunnerReturns,
          RemoveDoomed, PauseForApproval, PublishStep, PublishStepFails, StepReleased,
          ResumeAfterApproval, RecordResumed, EndRun, EndFails, GoesTo, EndsAs, Throws
    <3>2. step[r] = "pausing" /\ step'[r] = "pausing" => FALSE
      BY <1>6 DEF Executing, RunStep, CanaryStep, StepRefused, StepFails, StepIntercepted,
          BeginRun, BeginFails, CheckBarrier, PrepareFails, Launch, RunnerReturns,
          RemoveDoomed, PauseForApproval, PublishStep, PublishStepFails, StepReleased,
          ResumeAfterApproval, RecordResumed, EndRun, EndFails, GoesTo, EndsAs, Throws
    <3>. QED BY <1>6, <3>1, <3>2 DEF StepIntercepted, ApprovalsAreAsked
  <2>3. \A q \in Runs \ {r} : step'[q] = step[q] /\ gate'[q] = gate[q]
    BY <1>6, OthersStay, TypeParts
  <2>4. step[r] = "pausing" => \A q \in Runs \ {r} : step[q] = "pausing" => gate[q] # gate[r]
    BY GateParts DEF AtGate
  <2>. QED BY <1>6, <2>1, <2>2, <2>3, <2>4, HoldsOfExecution
<1>7. ASSUME NEW c \in Calls, Lifecycle(c) PROVE WaitersWait'
  <2>1. UNCHANGED <<step, gate>>
    BY <1>7, ExecutionFrame DEF Elsewhere
  <2>2. \A r \in Runs : step[r] = "pausing" => gate[r] \in Approvals /\ gate[r] \notin pending
    BY GateParts DEF AtGate
  <2>. QED BY <1>7, <2>1, <2>2, HoldsOfLifecycle DEF Cleared, ApprovalsAreAsked
<1>8. CASE UNCHANGED vars
  BY <1>8 DEF vars
<1>. QED BY <1>1, <1>2, <1>3, <1>4, <1>5, <1>6, <1>7, <1>8, NextCases

\* A step that is held is released only after its waiter was removed.
LEMMA PendingIsHeldStep ==
  ASSUME IInv, [Next]_vars PROVE PendingIsHeld'
<1>. USE NamesAreDistinct DEF IInv, TypeOK, PendingIsHeld, store, holds, execution
<1>1. CASE Admission
  BY <1>1 DEF Admission, SendMessage, SendBlocked, StartAgent, StartCommits, WriteFails
<1>2. CASE SendCommits
  <2>1. step[writer] = "none"
    BY <1>2 DEF SendCommits, WriterIsNew, RunFollowsStep, Stored, Step
  <2>. QED BY <1>2, <2>1, GateParts DEF SendCommits
<1>3. CASE Engine
  BY <1>3 DEF Engine, Exits, TimesOut, CanaryCancels, OrphanEnds
<1>4. CASE Holding
  <2>1. UNCHANGED <<step, gate>>
    BY <1>4, ExecutionFrame DEF Elsewhere
  <2>. USE DEF Cleared
  <2>2. CASE EgressCommits \/ EgressWriteFails
    BY <2>1, <2>2 DEF EgressCommits, EgressWriteFails, WriterIsNew
  <2>3. ASSUME NEW p \in Approvals, Approve(p) \/ Deny(p) \/ EgressAbandoned(p) PROVE PendingIsHeld'
    BY <2>1, <2>3 DEF Approve, Deny, Decide, EgressAbandoned
  <2>4. ASSUME NEW r \in Runs, NEW p \in Approvals, HoldEgress(r, p) PROVE PendingIsHeld'
    BY <2>1, <2>4 DEF HoldEgress, ApprovalsAreAsked
  <2>. QED BY <1>4, <2>2, <2>3, <2>4 DEF Holding
<1>5. CASE Restart
  BY <1>5 DEF Restart
<1>6. ASSUME NEW r \in Runs, Executing(r) PROVE PendingIsHeld'
  <2>1. SUFFICES ASSUME NEW p \in Approvals, approval'[p] = "pending", p \in pending',
                        request'[p].kind = "step"
                 PROVE  step'[request'[p].run] = "held" /\ gate'[request'[p].run] = p
    OBVIOUS
  <2>2. CASE approval[p] = "pending" /\ p \in pending
    <3>1. request'[p] = request[p] /\ verdict[p] = "waiting"
      BY <1>6, <2>2, HoldsOfExecution DEF StepIntercepted, ApprovalsAreAsked, WaitersWait
    <3>2. CASE request[p].run = r
      <4>1. step[r] = "held" /\ gate[r] = p /\ verdict[gate[r]] = "waiting"
        BY <2>1, <2>2, <3>1, <3>2
      <4>2. step'[r] = "held" /\ gate'[r] = gate[r]
        BY <1>6, <4>1 DEF Executing, RunStep, CanaryStep, StepRefused, StepFails,
            StepIntercepted, BeginRun, BeginFails, CheckBarrier, PrepareFails, Launch,
            RunnerReturns, RemoveDoomed, PauseForApproval, PublishStep, PublishStepFails,
            StepReleased, ResumeAfterApproval, RecordResumed, EndRun, EndFails, GoesTo,
            EndsAs, Throws
      <4>. QED BY <3>1, <3>2, <4>1, <4>2
    <3>3. CASE request[p].run # r
      <4>1. request[p] # None /\ request[p].run \in Runs \ {r}
        BY <2>2, <3>3 DEF ApprovalsAreAsked, Requests
      <4>. QED BY <1>6, <2>1, <2>2, <3>1, <4>1, OthersStay, TypeParts
    <3>. QED BY <3>2, <3>3
  <2>3. CASE ~(approval[p] = "pending" /\ p \in pending)
    <3>1. \/ step[r] = "publishing" /\ step'[r] = "held" /\ gate[r] = p
          \/ step[r] = "pausing" /\ gate[r] = p /\ approval[p] = "pending"
      BY <1>6, <2>1, <2>3, HoldsOfExecution
    <3>2. gate'[r] = p /\ request'[p].run = r /\ step'[r] = "held"
      <4>1. step[r] = "publishing" /\ step'[r] = "held" /\ gate[r] = p
        BY <2>3, <3>1 DEF GatesAreOwn
      <4>2. UNCHANGED <<request, gate>>
        BY <1>6, <4>1, HoldsOfExecution DEF StepIntercepted
      <4>. QED BY <4>1, <4>2, GateParts DEF AtGate
    <3>. QED BY <3>2
  <2>. QED BY <2>2, <2>3
<1>7. ASSUME NEW c \in Calls, Lifecycle(c) PROVE PendingIsHeld'
  <2>1. UNCHANGED <<step, gate>>
    BY <1>7, ExecutionFrame DEF Elsewhere
  <2>. QED BY <1>7, <2>1, HoldsOfLifecycle DEF Cleared
<1>8. CASE UNCHANGED vars
  BY <1>8 DEF vars
<1>. QED BY <1>1, <1>2, <1>3, <1>4, <1>5, <1>6, <1>7, <1>8, NextCases

\* The end of a run settles the evidence of every approval it was granted, and
\* nothing else replaces it.
LEMMA EvidenceFitsStep ==
  ASSUME IInv, [Next]_vars PROVE EvidenceFits'
<1>. SUFFICES ASSUME NEW p \in Approvals, approval'[p] = "approved" PROVE Fits(p)'
  BY DEF EvidenceFits
<1>. USE NamesAreDistinct DEF IInv, TypeOK, EvidenceFits, Fits, Backed, store, holds, execution
<1>0. request[p] # None => request[p].run \in Runs /\ request[p].kind \in {"step", "egress"}
  BY DEF Requests
<1>1. CASE Admission
  BY <1>0, <1>1 DEF Admission, SendMessage, SendBlocked, StartAgent, StartCommits,
      WriteFails, ApprovalsAreAsked, RunFollowsStep, Stored, Unstarted
<1>2. CASE SendCommits
  <2>1. step[writer] = "none" /\ approval[p] = "approved"
    BY <1>2 DEF SendCommits, WriterIsNew, RunFollowsStep, Stored, Step
  <2>. QED BY <1>0, <1>2, <2>1 DEF SendCommits, ApprovalsAreAsked, Unstarted
<1>3. CASE Engine
  BY <1>3 DEF Engine, Exits, TimesOut, CanaryCancels, OrphanEnds
<1>4. CASE Holding
  <2>1. UNCHANGED <<step, gate, outcome>>
    BY <1>4, ExecutionFrame DEF Elsewhere
  <2>2. CASE EgressCommits \/ EgressWriteFails
    BY <2>1, <2>2 DEF EgressCommits, EgressWriteFails
  <2>3. ASSUME NEW q \in Approvals, Approve(q) PROVE Fits(p)'
    BY <1>0, <2>1, <2>3 DEF Approve, Decide, Resolvable, PendingIsHeld, ApprovalsAreAsked
  <2>4. ASSUME NEW q \in Approvals, Deny(q) \/ EgressAbandoned(q) PROVE Fits(p)'
    BY <2>1, <2>4 DEF Deny, Decide, EgressAbandoned
  <2>5. ASSUME NEW r \in Runs, NEW q \in Approvals, HoldEgress(r, q) PROVE Fits(p)'
    BY <2>1, <2>5 DEF HoldEgress, ApprovalsAreAsked
  <2>. QED BY <1>4, <2>2, <2>3, <2>4, <2>5 DEF Holding
<1>5. CASE Restart
  BY <1>0, <1>5 DEF Restart, Interrupted, ApprovalsAreAsked
<1>6. ASSUME NEW r \in Runs, Executing(r) PROVE Fits(p)'
  <2>1. approval[p] = "approved" /\ request'[p] = request[p] /\ request[p] # None
    BY <1>6, HoldsOfExecution DEF StepIntercepted, ApprovalsAreAsked
  <2>2. CASE request[p].run # r
    <3>1. result'[p] = result[p]
      BY <1>0, <1>6, <2>1, <2>2, GateParts DEF Executing, RunStep, CanaryStep,
          StepRefused, StepFails, StepIntercepted, BeginRun, BeginFails, CheckBarrier,
          PrepareFails, Launch, RunnerReturns, RemoveDoomed, PauseForApproval,
          PublishStep, PublishStepFails, StepReleased, ResumeAfterApproval, RecordResumed,
          EndRun, EndFails, GoesTo, EndsAs, Throws, Settled, AtGate
    <3>. QED BY <1>0, <1>6, <2>1, <2>2, <3>1, OthersStay, TypeParts
  <2>3. CASE request[p].run = r
    <3>. USE <1>0, <2>1, <2>3
    <3>1. CASE step[r] # "ending" /\ step[r] # "resumed" /\ step[r] # "queued"
      <4>1. UNCHANGED runs /\ result'[p] = result[p]
        BY <1>6, <3>1, GateParts DEF Executing, RunStep, CanaryStep, StepRefused,
            StepFails, StepIntercepted, BeginRun, BeginFails, CheckBarrier, PrepareFails,
            Launch, RunnerReturns, RemoveDoomed, PauseForApproval, PublishStep,
            PublishStepFails, StepReleased, ResumeAfterApproval, RecordResumed, EndRun,
            EndFails, GoesTo, EndsAs, Throws, AtGate, GatesAreOwn
      <4>2. \/ step'[r] = step[r] /\ UNCHANGED <<gate, outcome>>
            \/ step'[r] \in {"throwing", "ending"}
            \/ step[r] = "held" /\ step'[r] = "resuming" /\ UNCHANGED gate
            \/ step[r] = "resuming" /\ step'[r] = "resumed" /\ UNCHANGED gate
            \/ step[r] \notin {"held", "resuming", "throwing"}
        BY <1>6, <3>1 DEF Executing, RunStep, CanaryStep, StepRefused, StepFails,
            StepIntercepted, BeginRun, BeginFails, CheckBarrier, PrepareFails, Launch,
            RunnerReturns, RemoveDoomed, PauseForApproval, PublishStep, PublishStepFails,
            StepReleased, ResumeAfterApproval, RecordResumed, EndRun, EndFails, GoesTo,
            EndsAs, Throws
      <4>3. step[r] \in {"held", "resuming", "throwing"} /\ step'[r] \in {"throwing", "ending"}
              => outcome'[r] # "completed"
        BY <1>6, <3>1 DEF Executing, RunStep, CanaryStep, StepRefused, StepFails,
            StepIntercepted, BeginRun, BeginFails, CheckBarrier, PrepareFails, Launch,
            RunnerReturns, RemoveDoomed, PauseForApproval, PublishStep, PublishStepFails,
            StepReleased, ResumeAfterApproval, RecordResumed, EndRun, EndFails, GoesTo,
            EndsAs, Throws, OutcomeIsOpen
      <4>4. step[r] # "rejected"
        BY <1>6 DEF Executing, RunStep, CanaryStep, StepRefused, StepFails,
            StepIntercepted, BeginRun, BeginFails, CheckBarrier, PrepareFails, Launch,
            RunnerReturns, RemoveDoomed, PauseForApproval, PublishStep, PublishStepFails,
            StepReleased, ResumeAfterApproval, RecordResumed, EndRun, EndFails, GoesTo,
            EndsAs, Throws, RuntimeIsTracked, InRuntime
      <4>. QED BY <3>1, <4>1, <4>2, <4>3, <4>4
    <3>2. CASE step[r] = "queued"
      BY <3>2 DEF ApprovalsAreAsked, Unstarted
    <3>3. CASE step[r] = "resumed"
      <4>1. RecordResumed(r)
        BY <1>6, <3>3 DEF Executing, RunStep, CanaryStep, StepRefused, StepFails,
            StepIntercepted, BeginRun, BeginFails, CheckBarrier, PrepareFails, Launch,
            RunnerReturns, RemoveDoomed, PauseForApproval, PublishStep, PublishStepFails,
            StepReleased, ResumeAfterApproval, RecordResumed, EndRun, EndFails, GoesTo,
            EndsAs, Throws
      <4>2. gate[r] \in Approvals /\ request[gate[r]].kind = "step"
        BY <3>3, GateParts DEF AtGate
      <4>3. \/ step'[r] = "throwing" /\ outcome'[r] # "completed" /\ UNCHANGED <<runs, result>>
            \/ /\ result' = [result EXCEPT ![gate[r]] =
                               IF approval[gate[r]] = "approved" THEN "execution_resumed" ELSE @]
               /\ UNCHANGED runs
        BY <4>1 DEF RecordResumed, Throws, GoesTo
      <4>4. runs[r] = "running"
        BY <3>3 DEF RunFollowsStep, Stored
      <4>5. CASE step'[r] = "throwing" /\ outcome'[r] # "completed" /\ UNCHANGED <<runs, result>>
        BY <3>3, <4>4, <4>5
      <4>6. CASE /\ result' = [result EXCEPT ![gate[r]] =
                                IF approval[gate[r]] = "approved" THEN "execution_resumed" ELSE @]
                 /\ UNCHANGED runs
        BY <3>3, <4>2, <4>4, <4>6
      <4>. QED BY <4>3, <4>5, <4>6
    <3>4. CASE step[r] = "ending"
      <4>1. runs[r] = "running"
        BY <3>4 DEF RunFollowsStep, Stored
      <4>2. EndRun(r) \/ EndFails(r)
        BY <1>6, <3>4 DEF Executing, RunStep, CanaryStep, StepRefused, StepFails,
            StepIntercepted, BeginRun, BeginFails, CheckBarrier, PrepareFails, Launch,
            RunnerReturns, RemoveDoomed, PauseForApproval, PublishStep, PublishStepFails,
            StepReleased, ResumeAfterApproval, RecordResumed, EndRun, EndFails, GoesTo,
            EndsAs, Throws
      <4>3. CASE EndRun(r)
        BY <3>4, <4>1, <4>3 DEF EndRun, Settled, GoesTo
      <4>4. CASE EndFails(r)
        BY <3>4, <4>1, <4>4 DEF EndFails, GoesTo
      <4>. QED BY <4>2, <4>3, <4>4
    <3>. QED BY <3>1, <3>2, <3>3, <3>4
  <2>. QED BY <2>2, <2>3
<1>7. ASSUME NEW c \in Calls, Lifecycle(c) PROVE Fits(p)'
  <2>1. UNCHANGED <<step, gate, outcome>>
    BY <1>7, ExecutionFrame DEF Elsewhere
  <2>2. approval[p] = "approved" /\ UNCHANGED <<runs, request>> /\ result'[p] = result[p]
    <3>1. CASE WriteDeleted(c)
      BY <3>1 DEF WriteDeleted
    <3>2. CASE DenyPending(c)
      BY <3>2 DEF DenyPending, Cleared
    <3>3. CASE ~WriteDeleted(c) /\ ~DenyPending(c)
      BY <1>7, <3>3 DEF Lifecycle, CallStopOrDelete, CallQuarantine, BeginTermination,
          CallStep, DenyFails, CancelRuntime, AwaitExecution, CancelEnds, WriteStopped,
          LastWriteFails, Freeze, Revoke, Verify, RecordReceipt, RecordFails
    <3>. QED BY <3>1, <3>2, <3>3
  <2>. QED BY <2>1, <2>2
<1>8. CASE UNCHANGED vars
  BY <1>8 DEF vars
<1>. QED BY <1>1, <1>2, <1>3, <1>4, <1>5, <1>6, <1>7, <1>8, NextCases

\* It holds at first,
LEMMA IInvInit == Init => IInv
<1>. SUFFICES ASSUME Init PROVE IInv
  OBVIOUS
<1>. USE DEF Init
<1>1. TypeOK
  <2>1. StoreTyped /\ FlagsTyped
    BY DEF StoreTyped, FlagsTyped, RunStatus, ApprovalStatus, Result
  <2>2. HoldsTyped /\ EngineTyped
    BY DEF HoldsTyped, EngineTyped, Requests, Runtimes
  <2>3. ExecutionTyped
    BY DEF ExecutionTyped, Step, Outcome
  <2>4. CallsTyped
    BY DEF CallsTyped, CallState
  <2>5. BoundsTyped
    BY BoundsAreNaturals DEF BoundsTyped
  <2>. QED BY <2>1, <2>2, <2>3, <2>4, <2>5, TypeParts
<1>2. RuntimeIsTracked /\ RunFollowsStep /\ OutcomeIsOpen /\ CanaryIsDoomed
  BY DEF RuntimeIsTracked, RunFollowsStep, OutcomeIsOpen, CanaryIsDoomed, HasRuntime,
      InRuntime, Stored
<1>3. WriterIsNew
  BY NamesAreDistinct DEF WriterIsNew
<1>4. ApprovalsAreAsked /\ GatesAreOwn /\ WaitersWait /\ PendingIsHeld /\ EvidenceFits
  BY DEF ApprovalsAreAsked, GatesAreOwn, WaitersWait, PendingIsHeld, EvidenceFits, AtGate
<1>. QED BY <1>1, <1>2, <1>3, <1>4 DEF IInv

\* and every step preserves it.
LEMMA IInvStep == IInv /\ [Next]_vars => IInv'
<1>. SUFFICES ASSUME IInv, [Next]_vars PROVE IInv'
  OBVIOUS
<1>1. Base
  BY GateParts DEF IInv, Base, GatesAreNamed
<1>2. BoundsTyped
  BY TypeParts DEF IInv
<1>3. TypeOK'
  <2>1. StoreTyped' /\ FlagsTyped' /\ HoldsTyped'
    BY <1>1, StoreStep, FlagsStep, HoldsStep
  <2>2. ExecutionTyped' /\ EngineTyped' /\ CallsTyped' /\ BoundsTyped'
    BY <1>1, <1>2, ExecutionStep, EngineStep, CallsStep, BoundsStep
  <2>. QED BY <2>1, <2>2 DEF TypeOK, StoreTyped, FlagsTyped, HoldsTyped, ExecutionTyped,
         EngineTyped, CallsTyped, BoundsTyped
<1>4. RuntimeIsTracked' /\ RunFollowsStep' /\ WriterIsNew' /\ OutcomeIsOpen' /\ CanaryIsDoomed'
  BY TrackedStep, RunFollowsStepStep, WriterIsNewStep, OutcomeIsOpenStep, CanaryIsDoomedStep
<1>5. ApprovalsAreAsked' /\ GatesAreOwn' /\ WaitersWait' /\ PendingIsHeld' /\ EvidenceFits'
  BY ApprovalsAreAskedStep, GatesAreOwnStep, WaitersWaitStep, PendingIsHeldStep,
      EvidenceFitsStep
<1>. QED BY <1>3, <1>4, <1>5 DEF IInv

\* What the store, the waiters, the executions and the runtime say of each other is
\* consistent in every reachable state, whatever lifecycle operations, faults and
\* restarts overlap (agent-service.ts, container-codex-runner.ts, terminator.ts).
THEOREM IInvHolds == Spec => []IInv
BY IInvInit, IInvStep, PTL DEF Spec

\* Every variable keeps its type.
THEOREM TypeCorrect == Spec => []TypeOK
<1>1. IInv => TypeOK
  BY DEF IInv
<1>. QED BY <1>1, IInvHolds, PTL

\* A run that showed the canary token is never stored as completed, however its
\* runtime ends and whatever overlaps with it (agent-service.ts:1012-1027, 1310,
\* 1360-1372).
THEOREM CanaryCorrect == Spec => []CanaryNeverCompletes
<1>1. IInv => CanaryNeverCompletes
  BY DEF IInv, CanaryNeverCompletes, CanaryIsDoomed, RunFollowsStep, Stored, Unstarted
<1>. QED BY <1>1, IInvHolds, PTL

\* The evidence of an approved action says what became of its run, after any
\* combination of decisions, cancellations, failed writes and restarts
\* (agent-service.ts:1233-1238, 1374-1378, 137-158).
THEOREM EvidenceCorrect == Spec => []EvidenceMatchesRun
<1>1. IInv => EvidenceMatchesRun
  <2>. SUFFICES ASSUME IInv, NEW p \in Approvals, approval[p] = "approved"
                PROVE  CASE runs[request[p].run] = "cancelled" -> result[p] = "execution_cancelled"
                         [] runs[request[p].run] = "failed" -> result[p] = "execution_failed"
                         [] runs[request[p].run] = "completed" ->
                              result[p] = IF request[p].kind = "step"
                                          THEN "execution_resumed" ELSE "execution_authorized"
                         [] OTHER -> result[p] \in {"execution_authorized", "execution_resumed"}
    BY DEF EvidenceMatchesRun
  <2>1. Fits(p)
    BY DEF IInv, EvidenceFits
  <2>. QED BY <2>1 DEF Fits, Backed
<1>. QED BY <1>1, IInvHolds, PTL

\* The termination barrier stands as long as a termination is in progress, also when
\* a start was let in before it (agent-service.ts:530-537, 1441).
THEOREM BarrierCorrect == Spec => []TerminationKeepsBarrier
<1>1. Init => TerminationKeepsBarrier
  BY DEF Init, TerminationKeepsBarrier
<1>2. TypeOK /\ TerminationKeepsBarrier /\ [Next]_vars => TerminationKeepsBarrier'
  <2>. SUFFICES ASSUME TypeOK, TerminationKeepsBarrier, [Next]_vars PROVE TerminationKeepsBarrier'
    OBVIOUS
  <2>. USE DEF TypeOK, TerminationKeepsBarrier, flags
  <2>1. CASE Admission \/ SendCommits
    BY <2>1 DEF Admission, SendMessage, SendBlocked, StartAgent, StartCommits, WriteFails,
        SendCommits
  <2>2. CASE Engine \/ Holding
    BY <2>2 DEF Engine, Exits, TimesOut, CanaryCancels, OrphanEnds, Holding, EgressCommits,
        EgressWriteFails, Approve, Deny, Decide, EgressAbandoned, HoldEgress
  <2>3. CASE Restart \/ UNCHANGED vars
    BY <2>3 DEF Restart, vars
  <2>4. ASSUME NEW r \in Runs, Executing(r) PROVE TerminationKeepsBarrier'
    BY <2>4 DEF Executing, RunStep, CanaryStep, StepRefused, StepFails, StepIntercepted,
        BeginRun, BeginFails, CheckBarrier, PrepareFails, Launch, RunnerReturns,
        RemoveDoomed, PauseForApproval, PublishStep, PublishStepFails, StepReleased,
        ResumeAfterApproval, RecordResumed, EndRun, EndFails, GoesTo, EndsAs, Throws
  <2>5. ASSUME NEW c \in Calls, Lifecycle(c) PROVE TerminationKeepsBarrier'
    BY <2>5 DEF Lifecycle, CallStopOrDelete, CallQuarantine, BeginTermination, CallStep,
        DenyPending, DenyFails, CancelRuntime, AwaitExecution, CancelEnds, WriteStopped,
        WriteDeleted, LastWriteFails, Freeze, Revoke, Verify, RecordReceipt, RecordFails
  <2>. QED BY <2>1, <2>2, <2>3, <2>4, <2>5, NextCases
<1>. QED BY <1>1, <1>2, TypeCorrect, PTL DEF Spec

\* No step replaces a stored decision.
LEMMA ApprovalIsFinal ==
  ASSUME IInv, [Next]_vars, NEW p \in Approvals, approval[p] \in {"approved", "denied"}
  PROVE  approval'[p] \in {approval[p], "deleted"}
<1>. USE DEF store
<1>0. approval \in [Approvals -> ApprovalStatus]
  BY DEF IInv, TypeOK
<1>1. CASE Admission \/ SendCommits \/ Engine \/ UNCHANGED vars
  BY <1>1 DEF Admission, SendMessage, SendBlocked, StartAgent, StartCommits, WriteFails,
      Engine, Exits, TimesOut, CanaryCancels, OrphanEnds, SendCommits, vars
<1>2. CASE Holding
  BY <1>0, <1>2 DEF Holding, EgressCommits, EgressWriteFails, Approve, Deny, Decide,
      EgressAbandoned, HoldEgress, IInv, WriterIsNew
<1>3. CASE Restart
  BY <1>0, <1>3 DEF Restart
<1>4. ASSUME NEW r \in Runs, Executing(r) PROVE approval'[p] = approval[p]
  <2>1. TypeOK /\ (step[r] = "publishing" => gate[r] # p)
    BY DEF IInv, GatesAreOwn
  <2>. QED BY <1>0, <1>4, <2>1, HoldsOfExecution
<1>5. ASSUME NEW c \in Calls, Lifecycle(c) PROVE approval'[p] \in {approval[p], "deleted"}
  BY <1>0, <1>5, HoldsOfLifecycle
<1>. QED BY <1>1, <1>2, <1>3, <1>4, <1>5, NextCases

\* No step changes a run that has ended.
LEMMA RunIsFinal ==
  ASSUME IInv, [Next]_vars, NEW r \in Runs, runs[r] \in Terminal
  PROVE  runs'[r] \in {runs[r], "deleted"}
<1>. USE DEF IInv, TypeOK, Terminal, store
<1>1. CASE Admission \/ SendCommits \/ Engine \/ UNCHANGED vars
  BY <1>1 DEF Admission, SendMessage, SendBlocked, StartAgent, StartCommits, WriteFails,
      Engine, Exits, TimesOut, CanaryCancels, OrphanEnds, SendCommits, WriterIsNew, vars
<1>2. CASE Holding \/ Restart
  <2>1. CASE Holding
    <3>1. UNCHANGED runs
      BY ONLY <2>1 DEF Holding, EgressCommits, EgressWriteFails, Approve, Deny, Decide,
          EgressAbandoned, HoldEgress, store
    <3>. QED BY <3>1
  <2>2. CASE Restart
    BY <2>2 DEF Restart, Interrupted
  <2>. QED BY <1>2, <2>1, <2>2
<1>3. ASSUME NEW q \in Runs, Executing(q) PROVE runs'[r] = runs[r]
  BY <1>3 DEF Executing, RunStep, CanaryStep, StepRefused, StepFails, StepIntercepted,
      BeginRun, BeginFails, CheckBarrier, PrepareFails, Launch, RunnerReturns,
      RemoveDoomed, PauseForApproval, PublishStep, PublishStepFails, StepReleased,
      ResumeAfterApproval, RecordResumed, EndRun, EndFails, GoesTo, EndsAs, Throws,
      RunFollowsStep, Stored
<1>4. ASSUME NEW c \in Calls, Lifecycle(c) PROVE runs'[r] \in {runs[r], "deleted"}
  BY <1>4 DEF Lifecycle, CallStopOrDelete, CallQuarantine, BeginTermination, CallStep,
      DenyPending, DenyFails, CancelRuntime, AwaitExecution, CancelEnds, WriteStopped,
      WriteDeleted, LastWriteFails, Freeze, Revoke, Verify, RecordReceipt, RecordFails
<1>. QED BY <1>1, <1>2, <1>3, <1>4, NextCases

\* Stored decisions and ended runs are final: no timer, late answer, cancellation or
\* restart changes them (agent-service.ts:1166-1250, 1350-1380, 137-158).
THEOREM DecisionsCorrect == Spec => DecisionsAreFinal
<1>1. ASSUME IInv, [Next]_vars
      PROVE  [/\ \A p \in Approvals : approval[p] \in {"approved", "denied"} =>
                     approval'[p] \in {approval[p], "deleted"}
              /\ \A r \in Runs : runs[r] \in Terminal => runs'[r] \in {runs[r], "deleted"}
             ]_<<approval, runs>>
  BY <1>1, ApprovalIsFinal, RunIsFinal
<1>. QED BY <1>1, IInvHolds, PTL DEF Spec, DecisionsAreFinal

\* A runtime that was paused runs again only at the step of ResumeAfterApproval.
LEMMA OnlyApprovalResumes ==
  ASSUME IInv, [Next]_vars, runtime # None, runtime.state = "paused",
         runtime' # None, runtime'.state = "live"
  PROVE  step[runtime.run] = "resuming"
<1>. USE DEF IInv, TypeOK, Runtimes, engine
<1>1. CASE Elsewhere
  <2>1. CASE Admission \/ Holding \/ UNCHANGED vars
    BY <2>1 DEF Admission, SendMessage, SendBlocked, StartAgent, StartCommits, WriteFails,
        Holding, EgressCommits, EgressWriteFails, Approve, Deny, Decide, EgressAbandoned,
        HoldEgress, vars
  <2>2. CASE Engine
    BY <2>2 DEF Engine, Exits, TimesOut, CanaryCancels, OrphanEnds
  <2>3. ASSUME NEW c \in Calls, Lifecycle(c) PROVE FALSE
    <3>1. CASE CancelRuntime(c)
      BY <3>1 DEF CancelRuntime, RunnerCancels
    <3>2. CASE Freeze(c)
      BY <3>2 DEF Freeze
    <3>3. CASE ~CancelRuntime(c) /\ ~Freeze(c)
      BY <2>3, <3>3 DEF Lifecycle, CallStopOrDelete, CallQuarantine, BeginTermination,
          CallStep, DenyPending, DenyFails, AwaitExecution, CancelEnds, WriteStopped,
          WriteDeleted, LastWriteFails, Revoke, Verify, RecordReceipt, RecordFails
    <3>. QED BY <3>1, <3>2, <3>3
  <2>. QED BY <1>1, <2>1, <2>2, <2>3 DEF Elsewhere
<1>2. CASE SendCommits \/ Restart
  BY <1>2 DEF SendCommits, Restart, RuntimesAfterCrash
<1>3. ASSUME NEW r \in Runs, Executing(r) PROVE step[runtime.run] = "resuming"
  <2>1. \A why, atOnce : ~Throws(r, why, atOnce)
    BY DEF Throws
  <2>2. ResumeAfterApproval(r)
    BY <1>3, <2>1 DEF Executing, RunStep, CanaryStep, StepRefused, StepFails,
        StepIntercepted, BeginRun, BeginFails, CheckBarrier, PrepareFails, Launch,
        RunnerReturns, RemoveDoomed, PauseForApproval, PublishStep, PublishStepFails,
        StepReleased, ResumeAfterApproval, RecordResumed, EndRun, EndFails, GoesTo, EndsAs
  <2>. QED BY <2>2 DEF ResumeAfterApproval, RuntimeIsTracked, InRuntime, HasRuntime
<1>. QED BY <1>1, <1>2, <1>3, StepCases

\* What every execution of the model is held to: the action the paused runtime
\* was held for was granted, unless its records are gone.
THEOREM ResumedOnlyIfGranted ==
  Spec => [][runtime # None /\ runtime.state = "paused"
             /\ runtime' # None /\ runtime'.state = "live"
             => /\ approval[gate[runtime.run]] \in {"approved", "deleted"}
                /\ runs[runtime.run] \in {"running", "deleted"}]_runtime
<1>1. ASSUME IInv, [Next]_vars
      PROVE  [runtime # None /\ runtime.state = "paused"
             /\ runtime' # None /\ runtime'.state = "live"
             => /\ approval[gate[runtime.run]] \in {"approved", "deleted"}
                /\ runs[runtime.run] \in {"running", "deleted"}]_runtime
  <2>. SUFFICES ASSUME runtime # None, runtime.state = "paused",
                       runtime' # None, runtime'.state = "live"
                PROVE  /\ approval[gate[runtime.run]] \in {"approved", "deleted"}
                       /\ runs[runtime.run] \in {"running", "deleted"}
    OBVIOUS
  <2>1. runtime.run \in Runs /\ step[runtime.run] = "resuming"
    BY <1>1, OnlyApprovalResumes DEF IInv, TypeOK, Runtimes
  <2>2. gate[runtime.run] \in Approvals /\ verdict[gate[runtime.run]] = "granted"
    BY <1>1, <2>1 DEF IInv, GatesAreOwn, AtGate
  <2>. QED BY <1>1, <2>1, <2>2 DEF IInv, ApprovalsAreAsked, RunFollowsStep, Stored
<1>. QED BY <1>1, IInvHolds, PTL DEF Spec

\* No record was deleted.
NothingDeleted ==
  /\ \A p \in Approvals : approval[p] # "deleted"
  /\ \A r \in Runs : runs[r] # "deleted"

\* Only deleting the Agent deletes its records.
LEMMA NothingDeletedHolds == ASSUME Deletes = {} PROVE Spec => []NothingDeleted
<1>1. Init => NothingDeleted
  BY DEF Init, NothingDeleted
<1>2. ASSUME TypeOK, NothingDeleted, [Next]_vars PROVE NothingDeleted'
  <2>. USE <1>2 DEF TypeOK, NothingDeleted, store
  <2>1. CASE Admission \/ SendCommits
    BY <2>1 DEF Admission, SendMessage, SendBlocked, StartAgent, StartCommits, WriteFails,
        SendCommits
  <2>2. CASE Engine \/ UNCHANGED vars
    BY <2>2 DEF Engine, Exits, TimesOut, CanaryCancels, OrphanEnds, vars
  <2>3. CASE Holding
    <3>1. CASE EgressCommits
      BY <3>1 DEF EgressCommits
    <3>2. ASSUME NEW p \in Approvals, Approve(p) \/ Deny(p) PROVE NothingDeleted'
      BY <3>2 DEF Approve, Deny, Decide
    <3>3. CASE \/ EgressWriteFails
               \/ \E p \in Approvals : EgressAbandoned(p)
               \/ \E r \in Runs, p \in Approvals : HoldEgress(r, p)
      BY <3>3 DEF EgressWriteFails, EgressAbandoned, HoldEgress
    <3>. QED BY <2>3, <3>1, <3>2, <3>3 DEF Holding
  <2>4. CASE Restart
    BY <2>4 DEF Restart
  <2>5. ASSUME NEW r \in Runs, Executing(r) PROVE NothingDeleted'
    BY <2>5 DEF Executing, RunStep, CanaryStep, StepRefused, StepFails, StepIntercepted,
        BeginRun, BeginFails, CheckBarrier, PrepareFails, Launch, RunnerReturns,
        RemoveDoomed, PauseForApproval, PublishStep, PublishStepFails, StepReleased,
        ResumeAfterApproval, RecordResumed, EndRun, EndFails, GoesTo, EndsAs, Throws
  <2>6. ASSUME NEW c \in Calls, Lifecycle(c) PROVE NothingDeleted'
    <3>1. ~WriteDeleted(c)
      BY DEF WriteDeleted
    <3>2. UNCHANGED runs
      BY <2>6, <3>1 DEF Lifecycle, CallStopOrDelete, CallQuarantine, BeginTermination,
          CallStep, DenyPending, DenyFails, CancelRuntime, AwaitExecution, CancelEnds,
          WriteStopped, WriteDeleted, LastWriteFails, Freeze, Revoke, Verify,
          RecordReceipt, RecordFails
    <3>3. \A p \in Approvals : approval'[p] # "deleted"
      BY <2>6, <3>1 DEF Lifecycle, CallStopOrDelete, CallQuarantine, BeginTermination,
          CallStep, DenyPending, DenyFails, CancelRuntime, AwaitExecution, CancelEnds,
          WriteStopped, WriteDeleted, LastWriteFails, Freeze, Revoke, Verify,
          RecordReceipt, RecordFails
    <3>. QED BY <3>2, <3>3
  <2>. QED BY <2>1, <2>2, <2>3, <2>4, <2>5, <2>6, NextCases
<1>. QED BY <1>1, <1>2, TypeCorrect, PTL DEF Spec

\* While the Agent is not deleted, a paused runtime runs again only when the action it
\* was held for is approved in the store and its run is still running.  With deletions
\* the exact statement is false: a quarantine that overlaps with a deletion lets the
\* records go while the step that was granted still unpauses its runtime
\* (agent-service.ts:1083-1164, 430-456).
THEOREM ResumedCorrect == ASSUME Deletes = {} PROVE Spec => ResumedOnlyIfApproved
<1>. DEFINE Resumes == runtime # None /\ runtime.state = "paused"
                       /\ runtime' # None /\ runtime'.state = "live"
<1>1. NothingDeleted /\ IInv /\
      [Resumes => /\ approval[gate[runtime.run]] \in {"approved", "deleted"}
                  /\ runs[runtime.run] \in {"running", "deleted"}]_runtime
      /\ [Next]_vars
      => [Resumes => /\ approval[gate[runtime.run]] = "approved"
                     /\ runs[runtime.run] = "running"]_runtime
  <2>. SUFFICES ASSUME NothingDeleted, IInv, [Next]_vars, Resumes,
                       approval[gate[runtime.run]] \in {"approved", "deleted"},
                       runs[runtime.run] \in {"running", "deleted"}
                PROVE  approval[gate[runtime.run]] = "approved" /\ runs[runtime.run] = "running"
    OBVIOUS
  <2>1. runtime.run \in Runs /\ step[runtime.run] = "resuming"
    BY OnlyApprovalResumes DEF IInv, TypeOK, Runtimes
  <2>2. gate[runtime.run] \in Approvals
    BY <2>1 DEF IInv, GatesAreOwn, AtGate
  <2>. QED BY <2>1, <2>2 DEF NothingDeleted
<1>. QED BY <1>1, IInvHolds, NothingDeletedHolds, ResumedOnlyIfGranted, PTL
     DEF Spec, ResumedOnlyIfApproved
=============================================================================
