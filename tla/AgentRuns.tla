------------------------------ MODULE AgentRuns ------------------------------
(***************************************************************************)
(* One Agent and its runs: apps/server/src/agent-service.ts, with the      *)
(* container runtime of container-codex-runner.ts and the order of a       *)
(* termination in terminator.ts.                                           *)
(*                                                                         *)
(* The server is one Node.js process: code between two awaits is atomic,   *)
(* and everything else interleaves.  Store mutations run one at a time, in *)
(* FIFO order, and persist before the new database is visible.  Three of   *)
(* them read in-memory sets that may change while they persist, and are    *)
(* two steps: `writer' holds the one in progress.  The others are one step,*)
(* taken when no mutation is in progress.                                  *)
(*                                                                         *)
(* Every call of a lifecycle operation is a member of Stops, Quarantines,  *)
(* Deletes or Terminations, and runs once.  A definition introduced as a   *)
(* "Slip" is a wrong version of the one after it, used by nothing: the bug *)
(* a property is there to find.                                            *)
(***************************************************************************)
EXTENDS Naturals, FiniteSets

CONSTANTS
  Runs,          \* the runs the Agent may ever be sent
  Approvals,     \* the approval requests that may ever be made
  Stops, Quarantines, Deletes, Terminations,   \* calls of these operations
  None,
  HostProcess,   \* the local-process runtime: pausing what is paused succeeds, and
                 \* a process group outlives the server that started it
  MaxFaults,     \* bound: store writes and engine calls that fail
  MaxRestarts    \* bound: crashes of the server

Calls == Stops \cup Quarantines \cup Deletes \cup Terminations

ASSUME CallsAreDistinct ==
  /\ Stops \cap Deletes = {} /\ (Stops \cup Deletes) \cap Quarantines = {}
  /\ Terminations \cap (Stops \cup Deletes \cup Quarantines) = {}
ASSUME BoundsAreNaturals ==
  HostProcess \in BOOLEAN /\ MaxFaults \in Nat /\ MaxRestarts \in Nat

\* None and the names of the store's mutations cannot be mistaken for anything.
ASSUME NamesAreDistinct ==
  /\ Runs \cap Approvals = {}
  /\ {None, "start"} \cap (Runs \cup Approvals) = {} /\ None # "start"
  /\ None \notin [run : Runs, kind : {"step", "egress"}]
  /\ None \notin [run : Runs, state : {"live", "paused", "exited", "removed"}, doomed : BOOLEAN]

VARIABLES
  \* the store
  status,           \* agent.status, or "deleted"
  authorityBlocked, \* agent.authorityBlocked
  runs,             \* run.status
  approval,         \* approval.status
  result,           \* approval.evidence.result
  \* AgentService's memory
  cancelling,       \* agent in cancellationRequests
  barrier,          \* agent in terminationBarriers
  terminating,      \* agent in terminationsInProgress
  locked,           \* agent in lifecycleMutations
  active,           \* activeExecutions.get(agent)
  request,          \* what an approval is about: its run and its kind
  pending,          \* pendingApprovals
  verdict,          \* the promise a held action waits on
  \* executeRun
  step,             \* where each execution is
  outcome,          \* how it will end
  gate,             \* the approval its step is held on
  canary,           \* stepViolation was set by the canary tripwire
  \* the runner and the container engine
  runtime,          \* the runner's active entry and its container
  orphan,           \* a container or process group the runner does not track (any more)
  \* lifecycle operations in progress, the store mutation in progress, bounds
  call, writer, faults, restarts

store == <<status, authorityBlocked, runs, approval, result>>
flags == <<cancelling, barrier, terminating, locked>>
holds == <<request, pending, verdict>>
execution == <<active, step, outcome, gate, canary>>
engine == <<runtime, orphan>>
bounds == <<faults, restarts>>
vars == <<store, flags, holds, execution, engine, call, writer, bounds>>

RunStatus == {"none", "queued", "running", "completed", "failed", "cancelled", "deleted"}
Terminal == {"completed", "failed", "cancelled"}
ApprovalStatus == {"none", "pending", "approved", "denied", "deleted"}
Result == {"none", "pending", "execution_authorized", "execution_resumed",
           "execution_blocked", "execution_cancelled", "execution_failed"}
Step == {"none", "queued", "ensuring", "preparing", "live", "pausing", "publishing",
         "held", "resuming", "resumed", "throwing", "ending", "done", "rejected", "lost"}
Outcome == {"none", "completed", "cancelled", "denied", "policy", "error"}

Requests == [run : Runs, kind : {"step", "egress"}] \cup {None}
Runtimes == [run : Runs, state : {"live", "paused", "exited", "removed"},
             doomed : BOOLEAN] \cup {None}

\* A call's progress.  `owns': it took the lifecycle lock.  `killed': what its
\* runner.cancel came to.  `awaits': the execution it waits for.  `froze' and
\* `failed': a termination's freeze result, and whether a step of it failed.
\* `contained': what its receipt claims, until the Agent is started again;
\* `confirmed': whether the runner's answer was part of it.
CallState == [pc : {"idle", "freezing", "revoking", "denying", "killing", "awaiting",
                    "writing", "verifying", "recording", "done", "failed"},
              owns : BOOLEAN, killed : {"no", "ok", "failed"}, awaits : Runs \cup {None},
              froze : {"no", "idle", "blocked", "paused", "failed"}, failed : BOOLEAN,
              contained : BOOLEAN, confirmed : BOOLEAN]

Alive(r) == step[r] \notin {"none", "done", "rejected", "lost"}
HasActiveLifecycle == status \in {"busy", "waiting_approval"}
Exists == status # "deleted"
StoreIdle == writer = None

Init ==
  /\ status = "ready" /\ authorityBlocked = FALSE
  /\ runs = [r \in Runs |-> "none"]
  /\ approval = [p \in Approvals |-> "none"]
  /\ result = [p \in Approvals |-> "none"]
  /\ cancelling = FALSE /\ barrier = FALSE /\ terminating = FALSE /\ locked = FALSE
  /\ active = None
  /\ request = [p \in Approvals |-> None]
  /\ pending = {}
  /\ verdict = [p \in Approvals |-> "waiting"]
  /\ step = [r \in Runs |-> "none"]
  /\ outcome = [r \in Runs |-> "none"]
  /\ gate = [r \in Runs |-> None]
  /\ canary = [r \in Runs |-> FALSE]
  /\ runtime = None /\ orphan = FALSE
  /\ call = [c \in Calls |-> [pc |-> "idle", owns |-> FALSE, killed |-> "no",
                              awaits |-> None, froze |-> "no", failed |-> FALSE,
                              contained |-> FALSE, confirmed |-> FALSE]]
  /\ writer = None /\ faults = 0 /\ restarts = 0

\* A store write or an engine call fails.
Fault == faults < MaxFaults /\ faults' = faults + 1 /\ UNCHANGED restarts

(***************************************************************************)
(* Admission: sendMessage and startAgent                                   *)
(***************************************************************************)
\* Slip: cancelExecution does not wait for the execution it cancelled.
CancelDueAtOnce(c) == call[c].pc \in {"killing", "awaiting"} /\ call[c].killed # "no"

\* cancelExecution has nothing left to wait for, and goes on in this very turn.
CancelDue(c) ==
  \/ call[c].pc = "killing" /\ call[c].killed # "no" /\ active = None
  \/ call[c].pc = "awaiting" /\ ~Alive(call[c].awaits)

\* A request comes after the mutations that were queued before it.
QueueEmpty ==
  writer = None /\ \A c \in Calls : call[c].pc \notin {"denying", "writing"} /\ ~CancelDue(c)

\* Slip: only a busy Agent refuses a message.
AdmitsUnlessBusy == QueueEmpty /\ Exists /\ ~locked /\ ~HasActiveLifecycle

Admits ==
  /\ QueueEmpty
  /\ Exists /\ status # "stopped" /\ ~authorityBlocked
  /\ ~locked
  /\ ~HasActiveLifecycle
  /\ ~barrier

\* The callback of sendMessage's mutation: every check is made here, and the
\* database it leaves becomes visible when the write is done.
SendMessage(r) ==
  /\ Admits /\ runs[r] = "none"
  /\ writer' = r
  /\ UNCHANGED <<store, flags, holds, execution, engine, call, bounds>>

\* The run is stored and its execution registered.
SendCommits ==
  /\ writer \in Runs
  /\ runs' = [runs EXCEPT ![writer] = "queued"]
  /\ status' = "busy"
  /\ step' = [step EXCEPT ![writer] = "queued"]
  /\ active' = writer
  /\ writer' = None
  /\ UNCHANGED <<authorityBlocked, approval, result, outcome, gate, canary>>
  /\ UNCHANGED <<flags, holds, engine, call, bounds>>

\* The write of sendMessage or startAgent fails: nothing changed.
WriteFails ==
  /\ writer \in Runs \cup {"start"} /\ Fault
  /\ writer' = None
  /\ UNCHANGED <<store, flags, holds, execution, engine, call>>

\* The prompt holds the canary token: a failed run is stored, nothing runs.
SendBlocked(r) ==
  /\ Admits /\ runs[r] = "none"
  /\ runs' = [runs EXCEPT ![r] = "failed"]
  /\ status' = "ready"
  /\ UNCHANGED <<authorityBlocked, approval, result>>
  /\ UNCHANGED <<flags, holds, execution, engine, call, writer, bounds>>

\* Slip: an Agent that is working can be started.
StartAgentWhileBusy ==
  /\ QueueEmpty /\ Exists /\ ~terminating /\ ~locked
  /\ writer' = "start"
  /\ UNCHANGED <<store, flags, holds, execution, engine, call, bounds>>

\* startAgent: the checks before and inside setStatus("ready").
StartAgent ==
  /\ QueueEmpty /\ Exists
  /\ ~terminating /\ ~HasActiveLifecycle /\ ~locked
  /\ writer' = "start"
  /\ UNCHANGED <<store, flags, holds, execution, engine, call, bounds>>

\* What a receipt claimed of an Agent that is started is not claimed any more.
ClaimsLapse == [c \in Calls |-> [call[c] EXCEPT !.contained = FALSE]]

\* Slip: the barrier falls whatever began while the write was in progress.
StartCommitsLowersBarrier ==
  /\ writer = "start"
  /\ status' = "ready" /\ authorityBlocked' = FALSE /\ barrier' = FALSE
  /\ writer' = None /\ call' = ClaimsLapse
  /\ UNCHANGED <<runs, approval, result, cancelling, terminating, locked>>
  /\ UNCHANGED <<holds, execution, engine, bounds>>

\* The Agent is ready; the barrier falls unless a termination began meanwhile.
StartCommits ==
  /\ writer = "start"
  /\ status' = "ready" /\ authorityBlocked' = FALSE
  /\ barrier' = (barrier /\ terminating)
  /\ writer' = None /\ call' = ClaimsLapse
  /\ UNCHANGED <<runs, approval, result, cancelling, terminating, locked>>
  /\ UNCHANGED <<holds, execution, engine, bounds>>

(***************************************************************************)
(* executeRun, up to the runtime                                           *)
(***************************************************************************)
GoesTo(r, s) == step' = [step EXCEPT ![r] = s]
EndsAs(r, why) == GoesTo(r, "ending") /\ outcome' = [outcome EXCEPT ![r] = why]

\* The first mutation marks the run as running; a cancelled one goes no further.
BeginRun(r) ==
  /\ step[r] = "queued" /\ StoreIdle
  /\ runs' = [runs EXCEPT ![r] = IF @ = "queued" THEN "running" ELSE @]
  /\ IF cancelling THEN EndsAs(r, "cancelled")
                   ELSE GoesTo(r, "ensuring") /\ UNCHANGED outcome
  /\ UNCHANGED <<status, authorityBlocked, approval, result, active, gate, canary>>
  /\ UNCHANGED <<flags, holds, engine, call, writer, bounds>>

\* Its write fails outside the try: the execution rejects, the run stays queued.
BeginFails(r) ==
  /\ step[r] = "queued" /\ StoreIdle /\ Fault
  /\ GoesTo(r, "rejected")
  /\ active' = IF active = r THEN None ELSE active
  /\ UNCHANGED <<outcome, gate, canary>>
  /\ UNCHANGED <<store, flags, holds, engine, call, writer>>

\* After egress.ensure: the check of the termination barrier.
CheckBarrier(r) ==
  /\ step[r] = "ensuring"
  /\ IF barrier \/ cancelling THEN EndsAs(r, "cancelled")
                              ELSE GoesTo(r, "preparing") /\ UNCHANGED outcome
  /\ UNCHANGED <<active, gate, canary>>
  /\ UNCHANGED <<store, flags, holds, engine, call, writer, bounds>>

\* egress.ensure, memory recall, or the engine's listing of old containers fails.
PrepareFails(r) ==
  /\ step[r] \in {"ensuring", "preparing"} /\ Fault
  /\ EndsAs(r, "error")
  /\ UNCHANGED <<active, gate, canary>>
  /\ UNCHANGED <<store, flags, holds, engine, call, writer>>

\* runner.run: old containers are removed, the new one starts.  An old process
\* group is not looked for.
Launch(r) ==
  /\ step[r] = "preparing"
  /\ IF runtime = None
     THEN /\ runtime' = [run |-> r, state |-> "live", doomed |-> FALSE]
          /\ orphan' = (orphan /\ HostProcess)
          /\ GoesTo(r, "live") /\ UNCHANGED outcome
     ELSE EndsAs(r, "error") /\ UNCHANGED <<runtime, orphan>>
  /\ UNCHANGED <<active, gate, canary>>
  /\ UNCHANGED <<store, flags, holds, call, writer, bounds>>

(***************************************************************************)
(* The runtime                                                             *)
(***************************************************************************)
HasRuntime(r) == runtime # None /\ runtime.run = r

\* The program ends, well or badly.
Exits ==
  /\ runtime # None /\ runtime.state = "live"
  /\ runtime' = [runtime EXCEPT !.state = "exited"]
  /\ UNCHANGED orphan
  /\ UNCHANGED <<store, flags, holds, execution, call, writer, bounds>>

\* The time or output limit: the container is removed under the run, or the
\* removal fails, the client is killed and the container stays behind.  A process
\* group is signalled instead, which leaves nothing (module HostProcess).
TimesOut ==
  /\ runtime # None /\ runtime.state \in {"live", "paused"}
  /\ runtime' = [runtime EXCEPT !.state = "removed"]
  /\ \/ orphan' = orphan /\ UNCHANGED bounds
     \/ ~HostProcess /\ orphan' = TRUE /\ Fault
  /\ UNCHANGED <<store, flags, holds, execution, call, writer>>

\* runner.run returns or throws once the child is gone and no step is pending.
\* Slip: a cancelled run that exits by itself is judged like any other.
VerdictsOfCancelled ==
  IF runtime.state = "removed" THEN {"error", "policy"}
  ELSE {"completed", "error", "policy"}

\* A run that was not cancelled is judged: exit code, output, canary, budget.
Verdicts ==
  IF runtime.doomed THEN {"cancelled"}
  ELSE IF runtime.state = "removed" THEN {"error", "policy"}
  ELSE {"completed", "error", "policy"}

RunnerReturns(r) ==
  /\ step[r] = "live" /\ HasRuntime(r)
  /\ runtime.state \in {"exited", "removed"}
  /\ \E why \in Verdicts : EndsAs(r, why)
  /\ runtime' = None
  /\ UNCHANGED <<active, gate, canary, orphan>>
  /\ UNCHANGED <<store, flags, holds, call, writer, bounds>>

\* A step shows the canary token: a runner.cancel is queued, which nobody waits
\* for, and the step returns.
CanaryStep(r) ==
  /\ step[r] = "live" /\ HasRuntime(r) /\ ~cancelling
  /\ canary' = [canary EXCEPT ![r] = TRUE]
  /\ runtime' = [runtime EXCEPT !.doomed = TRUE]
  /\ UNCHANGED <<active, step, outcome, gate, orphan>>
  /\ UNCHANGED <<store, flags, holds, call, writer, bounds>>

\* It removes the container, or the removal fails and the client is killed.
CanaryCancels ==
  /\ runtime # None /\ runtime.doomed
  /\ runtime.state \in {"live", "paused"} /\ step[runtime.run] = "live"
  /\ runtime' = [runtime EXCEPT !.state = "removed"]
  /\ \/ orphan' = orphan /\ UNCHANGED bounds
     \/ ~HostProcess /\ orphan' = TRUE /\ Fault
  /\ UNCHANGED <<store, flags, holds, execution, call, writer>>

\* onStep throws.  At once, the runner marks the run cancelled in the same turn;
\* otherwise a queued runner.cancel comes first.
Throws(r, why, atOnce) ==
  /\ GoesTo(r, "throwing")
  /\ outcome' = [outcome EXCEPT ![r] = why]
  /\ runtime' = [runtime EXCEPT !.doomed = @ \/ atOnce]
  /\ UNCHANGED <<active, gate, canary, orphan>>

\* The container of a doomed run is removed, or its client is killed and the
\* container stays behind.  runner.run throws what onStep threw.
RemoveDoomed(r) ==
  /\ step[r] = "throwing" /\ HasRuntime(r)
  /\ GoesTo(r, "ending")
  /\ runtime' = None
  /\ \/ orphan' = orphan /\ UNCHANGED bounds
     \/ ~HostProcess /\ runtime.state \in {"live", "paused"} /\ Fault /\ orphan' = TRUE
  /\ UNCHANGED <<outcome, active, gate, canary>>
  /\ UNCHANGED <<store, flags, holds, call, writer>>

\* What is left behind ends by itself.  A runner that still tracks the run goes by
\* the removal that failed.
OrphanEnds ==
  /\ orphan /\ runtime = None
  /\ orphan' = FALSE
  /\ UNCHANGED runtime
  /\ UNCHANGED <<store, flags, holds, execution, call, writer, bounds>>

\* AgentRunner.cancel, with `ok' its result: the container is removed, or the
\* removal fails and is not tried again while the runner tracks this run.  A
\* process group is signalled, if the runner tracks one.
RunnerCancels(ok) ==
  /\ runtime' = IF runtime = None THEN None
                ELSE [runtime EXCEPT
                        !.doomed = TRUE, !.state = IF @ = "exited" THEN @ ELSE "removed"]
  /\ IF HostProcess
     THEN ok /\ UNCHANGED <<orphan, bounds>>
     ELSE IF runtime # None /\ runtime.state \in {"exited", "removed"}
     THEN ok = ~orphan /\ UNCHANGED <<orphan, bounds>>
     ELSE /\ orphan' = (~ok /\ (orphan \/ runtime # None))
          /\ ok \/ Fault
          /\ ok => UNCHANGED bounds

(***************************************************************************)
(* The gate: a step that needs an approval before it runs                  *)
(***************************************************************************)
\* A step arrives after cancellation was asked for.
StepRefused(r) ==
  /\ step[r] = "live" /\ HasRuntime(r) /\ cancelling
  /\ Throws(r, "cancelled", TRUE)
  /\ UNCHANGED <<store, flags, holds, call, writer, bounds>>

StepIntercepted(r, p) ==
  /\ step[r] = "live" /\ HasRuntime(r) /\ ~cancelling
  /\ request[p] = None
  /\ request' = [request EXCEPT ![p] = [run |-> r, kind |-> "step"]]
  /\ gate' = [gate EXCEPT ![r] = p]
  /\ GoesTo(r, "pausing")
  /\ UNCHANGED <<pending, verdict, active, outcome, canary>>
  /\ UNCHANGED <<store, flags, engine, call, writer, bounds>>

\* A container that is paused already refuses; a stopped process does not.
CanPause == runtime.state = "live" \/ (HostProcess /\ runtime.state = "paused")

\* Slip: the approval is published while the runtime goes on.
PublishWithoutPause(r) ==
  /\ step[r] = "pausing" /\ ~cancelling
  /\ pending' = pending \cup {gate[r]}
  /\ GoesTo(r, "publishing")
  /\ UNCHANGED <<bounds, active, outcome, gate, canary, engine>>
  /\ UNCHANGED <<request, verdict, store, flags, call, writer>>

\* Freeze before publishing: the waiter is registered once the pause took.  A
\* pause or an unpause may always fail: the engine's answer is read back, and
\* may be that of another call.
PauseForApproval(r) ==
  /\ step[r] = "pausing"
  /\ \/ /\ cancelling /\ Throws(r, "cancelled", TRUE)
        /\ UNCHANGED <<pending, bounds>>
     \/ /\ ~cancelling /\ CanPause /\ ~runtime.doomed
        /\ runtime' = [runtime EXCEPT !.state = "paused"]
        /\ pending' = pending \cup {gate[r]}
        /\ GoesTo(r, "publishing")
        /\ UNCHANGED <<bounds, active, outcome, gate, canary, orphan>>
     \/ ~cancelling /\ Throws(r, "policy", FALSE) /\ UNCHANGED <<pending, bounds>>
  /\ UNCHANGED <<request, verdict, store, flags, call, writer>>

PublishStep(r) ==
  /\ step[r] = "publishing" /\ StoreIdle
  /\ LET p == gate[r] IN
     IF cancelling
     THEN /\ Throws(r, "cancelled", FALSE)
          /\ pending' = pending \ {p}
          /\ UNCHANGED <<status, approval, result>>
     ELSE /\ approval' = [approval EXCEPT ![p] = "pending"]
          /\ result' = [result EXCEPT ![p] = "pending"]
          /\ status' = IF Exists THEN "waiting_approval" ELSE status
          /\ GoesTo(r, "held")
          /\ UNCHANGED <<pending, active, outcome, gate, canary, engine>>
  /\ UNCHANGED <<authorityBlocked, runs, request, verdict>>
  /\ UNCHANGED <<flags, call, writer, bounds>>

PublishStepFails(r) ==
  /\ step[r] = "publishing" /\ StoreIdle /\ Fault
  /\ Throws(r, "policy", FALSE)
  /\ pending' = pending \ {gate[r]}
  /\ UNCHANGED <<request, verdict, store, flags, call, writer>>

\* Slip: whatever the answer, the step goes on.
StepReleasedAnyway(r) ==
  /\ step[r] = "held" /\ verdict[gate[r]] # "waiting"
  /\ IF cancelling THEN Throws(r, "cancelled", TRUE)
     ELSE GoesTo(r, "resuming") /\ UNCHANGED <<active, outcome, gate, canary, engine>>
  /\ UNCHANGED <<store, flags, holds, call, writer, bounds>>

\* The wait is over.
StepReleased(r) ==
  /\ step[r] = "held" /\ verdict[gate[r]] # "waiting"
  /\ IF cancelling THEN Throws(r, "cancelled", TRUE)
     ELSE IF verdict[gate[r]] = "refused" THEN Throws(r, "denied", FALSE)
     ELSE GoesTo(r, "resuming") /\ UNCHANGED <<active, outcome, gate, canary, engine>>
  /\ UNCHANGED <<store, flags, holds, call, writer, bounds>>

\* The container is unpaused, whoever paused it; the barrier is not looked at.
ResumeAfterApproval(r) ==
  /\ step[r] = "resuming"
  /\ \/ cancelling /\ Throws(r, "cancelled", TRUE)
     \/ /\ ~cancelling /\ runtime.state = "paused" /\ ~runtime.doomed
        /\ runtime' = [runtime EXCEPT !.state = "live"]
        /\ GoesTo(r, "resumed")
        /\ UNCHANGED <<active, outcome, gate, canary, orphan>>
     \/ ~cancelling /\ Throws(r, "policy", FALSE)
  /\ UNCHANGED <<store, flags, holds, call, writer, bounds>>

\* The evidence says so, unless cancellation was asked for during the unpause.
RecordResumed(r) ==
  /\ step[r] = "resumed"
  /\ \/ /\ cancelling /\ Throws(r, "cancelled", TRUE)
        /\ UNCHANGED <<result, bounds>>
     \/ /\ StoreIdle
        /\ result' = [result EXCEPT ![gate[r]] =
                        IF approval[gate[r]] = "approved" THEN "execution_resumed" ELSE @]
        /\ GoesTo(r, "live")
        /\ UNCHANGED <<bounds, active, outcome, gate, canary, engine>>
     \/ StoreIdle /\ Fault /\ Throws(r, "error", TRUE) /\ UNCHANGED result
  /\ UNCHANGED <<status, authorityBlocked, runs, approval>>
  /\ UNCHANGED <<flags, holds, call, writer>>

(***************************************************************************)
(* The end of a run                                                        *)
(***************************************************************************)
\* Slip: the end of a run leaves the evidence of its approvals alone.
SettledByNobody(r, p) == result[p]

\* The last mutation: the run, the approvals it was granted and the Agent.
Settled(r, p) ==
  IF request[p] # None /\ request[p].run = r /\ approval[p] = "approved"
     /\ outcome[r] # "completed"
  THEN IF outcome[r] = "cancelled" THEN "execution_cancelled" ELSE "execution_failed"
  ELSE result[p]

\* Slip: the outcome of the run is stored as the status of the Agent.
StatusIsOutcome(r) == IF Exists THEN outcome[r] ELSE status

StatusAfter(r) ==
  CASE ~Exists -> status
    [] outcome[r] = "completed" -> IF runs[r] = "deleted" THEN status ELSE "ready"
    [] status = "stopped" -> "stopped"
    [] outcome[r] \in {"cancelled", "denied"} -> "ready"
    [] outcome[r] = "policy" -> "stopped"
    [] OTHER -> "error"

EndRun(r) ==
  /\ step[r] = "ending" /\ StoreIdle
  /\ runs' = [runs EXCEPT ![r] =
       IF @ = "deleted" THEN @
       ELSE IF outcome[r] \in {"completed", "cancelled"} THEN outcome[r] ELSE "failed"]
  /\ result' = [p \in Approvals |-> Settled(r, p)]
  /\ status' = StatusAfter(r)
  /\ GoesTo(r, "done")
  /\ active' = IF active = r THEN None ELSE active
  /\ UNCHANGED <<authorityBlocked, approval, outcome, gate, canary>>
  /\ UNCHANGED <<flags, holds, engine, call, writer, bounds>>

\* Its write fails: a completed run becomes a failed one, a failed one stays as
\* it is in the store and its execution rejects.
EndFails(r) ==
  /\ step[r] = "ending" /\ StoreIdle /\ Fault
  /\ IF outcome[r] = "completed"
     THEN outcome' = [outcome EXCEPT ![r] = "error"] /\ UNCHANGED <<step, active>>
     ELSE /\ GoesTo(r, "rejected")
          /\ active' = IF active = r THEN None ELSE active
          /\ UNCHANGED outcome
  /\ UNCHANGED <<gate, canary, store, flags, holds, engine, call, writer>>

\* Recording an ordinary step fails.
StepFails(r) ==
  /\ step[r] = "live" /\ HasRuntime(r) /\ ~cancelling /\ Fault
  /\ Throws(r, "error", TRUE)
  /\ UNCHANGED <<store, flags, holds, call, writer>>

(***************************************************************************)
(* Outbound requests held at the proxy                                     *)
(***************************************************************************)
\* The waiter is registered, then the callback decides whether to publish.  A
\* request that reached the server may outlive the runtime it came from.
HoldEgress(r, p) ==
  /\ StoreIdle /\ Exists
  /\ HasRuntime(r) \/ step[r] = "ending"
  /\ runs[r] = "running" /\ ~cancelling
  /\ request[p] = None
  /\ request' = [request EXCEPT ![p] = [run |-> r, kind |-> "egress"]]
  /\ pending' = pending \cup {p}
  /\ writer' = p
  /\ UNCHANGED verdict
  /\ UNCHANGED <<store, flags, execution, engine, call, bounds>>

EgressCommits ==
  /\ writer \in Approvals
  /\ approval' = [approval EXCEPT ![writer] = "pending"]
  /\ result' = [result EXCEPT ![writer] = "pending"]
  /\ status' = "waiting_approval"
  /\ writer' = None
  /\ UNCHANGED <<authorityBlocked, runs>>
  /\ UNCHANGED <<flags, holds, execution, engine, call, bounds>>

\* The waiter goes, and whoever waits is told no.
Cleared(S) ==
  /\ pending' = pending \ S
  /\ verdict' = [p \in Approvals |-> IF p \in S \cap pending THEN "refused" ELSE verdict[p]]

EgressWriteFails ==
  /\ writer \in Approvals /\ Fault
  /\ Cleared({writer})
  /\ writer' = None
  /\ UNCHANGED <<request, store, flags, execution, engine, call>>

(***************************************************************************)
(* resolveApproval                                                         *)
(***************************************************************************)
Resolvable(p, decision) ==
  /\ p \in pending
  /\ runs[request[p].run] \in {"queued", "running"}
  /\ decision = "approved" => ~cancelling

OtherPending(p) == \E q \in Approvals \ {p} : approval[q] = "pending"

Decide(p, decision, evidence) ==
  /\ approval[p] = "pending" /\ Resolvable(p, decision) /\ StoreIdle
  /\ approval' = [approval EXCEPT ![p] = decision]
  /\ result' = [result EXCEPT ![p] = evidence]
  /\ status' = IF status # "waiting_approval" \/ OtherPending(p) THEN status
               ELSE IF runs[request[p].run] = "running" THEN "busy" ELSE "ready"
  /\ pending' = pending \ {p}
  /\ verdict' = [verdict EXCEPT ![p] = IF decision = "approved" THEN "granted" ELSE "refused"]
  /\ UNCHANGED <<authorityBlocked, runs, request>>
  /\ UNCHANGED <<flags, execution, engine, call, writer, bounds>>

Approve(p) == Decide(p, "approved", "execution_authorized")

\* An operator, the five-minute timer or a client that hung up.
Deny(p) == Decide(p, "denied", "execution_blocked")

\* The timer or the disconnection of an egress request finds the approval no
\* longer resolvable, or its write fails: the waiter goes, the record stays.
EgressAbandoned(p) ==
  /\ p \in pending /\ request[p].kind = "egress" /\ StoreIdle
  /\ IF approval[p] = "pending" /\ Resolvable(p, "denied") THEN Fault ELSE UNCHANGED bounds
  /\ Cleared({p})
  /\ UNCHANGED <<request>>
  /\ UNCHANGED <<store, flags, execution, engine, call, writer>>

(***************************************************************************)
(* Lifecycle operations                                                    *)
(***************************************************************************)
At(c, place) == call[c].pc = place

\* cancelExecution begins: the flag goes up, runner.cancel is queued.
CallStopOrDelete(c) ==
  /\ c \in Stops \cup Deletes /\ At(c, "idle")
  /\ Exists /\ ~locked
  /\ locked' = TRUE /\ cancelling' = TRUE
  /\ call' = [call EXCEPT ![c].pc = "denying", ![c].owns = TRUE]
  /\ UNCHANGED <<barrier, terminating>>
  /\ UNCHANGED <<store, holds, execution, engine, writer, bounds>>

\* quarantineAgent does not wait for the lock, nor refuse when it is taken.
Quarantine(c, progress) ==
  /\ locked' = TRUE /\ cancelling' = TRUE
  /\ call' = [call EXCEPT ![c] = [progress EXCEPT !.pc = "denying", !.owns = ~locked]]

CallQuarantine(c) ==
  /\ c \in Quarantines /\ At(c, "idle")
  /\ Quarantine(c, call[c])
  /\ UNCHANGED <<barrier, terminating>>
  /\ UNCHANGED <<store, holds, execution, engine, writer, bounds>>

\* Slip: approvals that were answered are denied too.
DenyEverything(c) ==
  /\ At(c, "denying") /\ StoreIdle
  /\ approval' = [p \in Approvals |-> IF approval[p] # "none" THEN "denied" ELSE approval[p]]
  /\ result' = [p \in Approvals |->
                  IF approval[p] # "none" THEN "execution_cancelled" ELSE result[p]]
  /\ Cleared(pending)
  /\ call' = [call EXCEPT ![c].pc = "killing"]
  /\ UNCHANGED <<status, authorityBlocked, runs, request>>
  /\ UNCHANGED <<flags, execution, engine, writer, bounds>>

\* Slip: the records are denied, and nobody who waits is told.
DenySilently(c) ==
  /\ At(c, "denying") /\ StoreIdle
  /\ approval' = [p \in Approvals |-> IF approval[p] = "pending" THEN "denied" ELSE approval[p]]
  /\ call' = [call EXCEPT ![c].pc = "killing"]
  /\ UNCHANGED <<status, authorityBlocked, runs, result, holds>>
  /\ UNCHANGED <<flags, execution, engine, writer, bounds>>

\* denyPendingApprovals: the records in one mutation, then every waiter.
DenyPending(c) ==
  /\ At(c, "denying") /\ StoreIdle
  /\ approval' = [p \in Approvals |-> IF approval[p] = "pending" THEN "denied" ELSE approval[p]]
  /\ result' = [p \in Approvals |->
                  IF approval[p] = "pending" THEN "execution_cancelled" ELSE result[p]]
  /\ Cleared(pending)
  /\ call' = [call EXCEPT ![c].pc = "killing"]
  /\ UNCHANGED <<status, authorityBlocked, runs, request>>
  /\ UNCHANGED <<flags, execution, engine, writer, bounds>>

\* An operation ends: it gives back the lock if it took it.
Unlocks(c) == locked' = (locked /\ ~call[c].owns)

\* A failed step of a termination is noted and the next one follows.
AfterFailure(c) ==
  [call[c] EXCEPT !.failed = TRUE,
     !.pc = IF c \notin Terminations THEN "failed"
            ELSE IF call[c].froze = "failed" THEN "revoking" ELSE "verifying"]

DenyFails(c) ==
  /\ At(c, "denying") /\ StoreIdle /\ Fault
  /\ cancelling' = FALSE /\ Unlocks(c)
  /\ call' = [call EXCEPT ![c] = AfterFailure(c)]
  /\ UNCHANGED <<barrier, terminating>>
  /\ UNCHANGED <<store, holds, execution, engine, writer>>

\* The queued runner.cancel, alongside or after the denials.
CancelRuntime(c) ==
  /\ call[c].pc \notin {"idle", "freezing"} /\ call[c].killed = "no"
  /\ call[c].pc = "revoking" => call[c].failed
  /\ \E ok \in BOOLEAN :
        /\ RunnerCancels(ok)
        /\ call' = [call EXCEPT ![c].killed = IF ok THEN "ok" ELSE "failed"]
  /\ UNCHANGED <<store, flags, holds, execution, writer>>

\* Both are done: an execution registered by now is waited for.
AwaitExecution(c) ==
  /\ At(c, "killing") /\ call[c].killed # "no" /\ active # None
  /\ call' = [call EXCEPT ![c].pc = "awaiting", ![c].awaits = active]
  /\ UNCHANGED <<store, flags, holds, execution, engine, writer, bounds>>

\* cancelExecution ends and takes the flag down, for every caller.
CancelEnds(c) ==
  /\ CancelDue(c)
  /\ cancelling' = FALSE
  /\ IF \/ call[c].killed = "failed"
        \/ call[c].awaits # None /\ step[call[c].awaits] = "rejected"
     THEN call' = [call EXCEPT ![c] = AfterFailure(c)] /\ Unlocks(c)
     ELSE call' = [call EXCEPT ![c].pc = "writing"] /\ UNCHANGED locked
  /\ UNCHANGED <<barrier, terminating>>
  /\ UNCHANGED <<store, holds, execution, engine, writer, bounds>>

\* The last mutation of a stop, a quarantine or the kill of a termination.
WriteStopped(c) ==
  /\ At(c, "writing") /\ c \notin Deletes /\ StoreIdle
  /\ status' = IF Exists THEN "stopped" ELSE status
  /\ Unlocks(c)
  /\ call' = [call EXCEPT ![c].pc = IF c \notin Terminations THEN "done"
                ELSE IF call[c].froze = "failed" THEN "revoking" ELSE "verifying"]
  /\ UNCHANGED <<authorityBlocked, runs, approval, result, cancelling, barrier, terminating>>
  /\ UNCHANGED <<holds, execution, engine, writer, bounds>>

\* deleteAgent: the Agent, its runs and its approvals go.
WriteDeleted(c) ==
  /\ At(c, "writing") /\ c \in Deletes /\ StoreIdle
  /\ status' = "deleted" /\ authorityBlocked' = FALSE
  /\ runs' = [r \in Runs |-> IF runs[r] = "none" THEN "none" ELSE "deleted"]
  /\ approval' = [p \in Approvals |-> IF approval[p] = "none" THEN "none" ELSE "deleted"]
  /\ result' = [p \in Approvals |-> "none"]
  /\ Unlocks(c)
  /\ call' = [call EXCEPT ![c].pc = "done"]
  /\ UNCHANGED <<cancelling, barrier, terminating>>
  /\ UNCHANGED <<holds, execution, engine, writer, bounds>>

\* That write, or archiving the workspace, fails.
LastWriteFails(c) ==
  /\ At(c, "writing") /\ StoreIdle /\ Fault
  /\ Unlocks(c)
  /\ call' = [call EXCEPT ![c] = AfterFailure(c)]
  /\ UNCHANGED <<cancelling, barrier, terminating>>
  /\ UNCHANGED <<store, holds, execution, engine, writer>>

(***************************************************************************)
(* Termination                                                             *)
(***************************************************************************)
\* beginTermination: the barrier goes up before anything is looked at.
BeginTermination(c) ==
  /\ c \in Terminations /\ At(c, "idle")
  /\ Exists /\ ~terminating
  /\ terminating' = TRUE /\ barrier' = TRUE
  /\ call' = [call EXCEPT ![c].pc = "freezing"]
  /\ UNCHANGED <<cancelling, locked>>
  /\ UNCHANGED <<store, holds, execution, engine, writer, bounds>>

\* freezeAgent: what is there to freeze, and whether the runtime could be
\* paused.  runner.pause is called outside the runner's lifecycle queue.
Frozen ==
  IF active = None THEN "idle"
  ELSE IF runtime = None \/ runtime.doomed THEN "blocked"
  ELSE IF CanPause THEN "paused" ELSE "failed"

Freeze(c) ==
  /\ At(c, "freezing")
  /\ \E froze \in {Frozen, "failed"} :
        LET progress == [call[c] EXCEPT !.froze = froze, !.failed = froze = "failed"] IN
        /\ froze = "failed" => Frozen \in {"failed", "paused"}
        /\ runtime' = IF froze = "paused" THEN [runtime EXCEPT !.state = "paused"] ELSE runtime
        /\ IF froze = "failed" THEN Quarantine(c, progress)
           ELSE /\ call' = [call EXCEPT ![c] = [progress EXCEPT !.pc = "revoking"]]
                /\ UNCHANGED <<locked, cancelling>>
  /\ UNCHANGED <<orphan, barrier, terminating>>
  /\ UNCHANGED <<store, holds, execution, writer, bounds>>

\* revokeAndBlock, then the kill unless that came first.
Revoke(c) ==
  /\ At(c, "revoking") /\ StoreIdle
  /\ \E ok \in BOOLEAN :
        LET progress == [call[c] EXCEPT !.failed = @ \/ ~ok] IN
        /\ ok => Exists
        /\ IF ok \/ ~Exists THEN UNCHANGED bounds ELSE Fault
        /\ authorityBlocked' = (authorityBlocked \/ ok)
        /\ IF call[c].froze # "failed" THEN Quarantine(c, progress)
           ELSE /\ call' = [call EXCEPT ![c] = [progress EXCEPT !.pc = "verifying"]]
                /\ UNCHANGED <<locked, cancelling>>
  /\ UNCHANGED <<status, runs, approval, result, barrier, terminating>>
  /\ UNCHANGED <<holds, execution, engine, writer>>

\* Slip: containment is the stored state, whatever failed on the way to it.
VerifyStoreOnly(c) ==
  /\ At(c, "verifying")
  /\ call' = [call EXCEPT ![c].pc = "recording", ![c].contained = authorityBlocked]
  /\ UNCHANGED <<bounds, store, flags, holds, execution, engine, writer>>

\* verifyContainment.  The engine is asked whether a container is left, the system
\* whether the last process group this runner started is; when that cannot be
\* answered, as it cannot for a runner that started none, the service's own view
\* stands.  Whether a group was started is not modelled: either answer is allowed.
Verify(c) ==
  /\ At(c, "verifying")
  /\ \E answered \in BOOLEAN :
        /\ IF answered \/ HostProcess THEN UNCHANGED bounds ELSE Fault
        /\ call' = [call EXCEPT ![c].pc = "recording",
             ![c].contained = /\ ~call[c].failed /\ authorityBlocked
                              /\ status = "stopped" /\ active = None /\ runtime = None
                              /\ answered => HostProcess \/ ~orphan,
             ![c].confirmed = answered]
  /\ UNCHANGED <<store, flags, holds, execution, engine, writer>>

\* The receipt is stored and the termination over; or it could not be stored,
\* and the Agent cannot be started again.
RecordReceipt(c) ==
  /\ At(c, "recording") /\ StoreIdle
  /\ terminating' = FALSE
  /\ call' = [call EXCEPT ![c].pc = "done"]
  /\ UNCHANGED <<cancelling, barrier, locked>>
  /\ UNCHANGED <<store, holds, execution, engine, writer, bounds>>

RecordFails(c) ==
  /\ At(c, "recording") /\ StoreIdle /\ Fault
  /\ call' = [call EXCEPT ![c].pc = "failed"]
  /\ UNCHANGED <<store, flags, holds, execution, engine, writer>>

(***************************************************************************)
(* The server dies; the next one reconciles runtimes and initializes       *)
(***************************************************************************)
Interrupted(r) == runs[r] \in {"queued", "running"}

\* Only the container runner reconciles: it removes what an earlier server left.
\* The process group of a run outlives the server that started it, and the runner
\* of the next one does not know of it.
RuntimesAfterCrash ==
  /\ runtime' = None
  /\ orphan' = (HostProcess /\ (orphan \/ runtime # None))

\* Slip: runs that were interrupted stay as they were.
RestartKeepsRuns ==
  /\ restarts < MaxRestarts
  /\ restarts' = restarts + 1
  /\ status' = IF HasActiveLifecycle THEN "ready" ELSE status
  /\ cancelling' = FALSE /\ barrier' = FALSE /\ terminating' = FALSE /\ locked' = FALSE
  /\ active' = None /\ pending' = {} /\ RuntimesAfterCrash /\ writer' = None
  /\ step' = [r \in Runs |-> IF Alive(r) THEN "lost" ELSE step[r]]
  /\ call' = [c \in Calls |-> IF At(c, "idle") THEN call[c]
                              ELSE [call[c] EXCEPT !.pc = "failed", !.killed = "failed"]]
  /\ UNCHANGED <<runs, approval, result, faults>>
  /\ UNCHANGED <<authorityBlocked, request, verdict, outcome, gate, canary>>

Restart ==
  /\ restarts < MaxRestarts
  /\ restarts' = restarts + 1 /\ UNCHANGED faults
  /\ runs' = [r \in Runs |-> IF Interrupted(r) THEN "cancelled" ELSE runs[r]]
  /\ status' = IF HasActiveLifecycle THEN "ready" ELSE status
  /\ approval' = [p \in Approvals |-> IF approval[p] = "pending" THEN "denied" ELSE approval[p]]
  /\ result' = [p \in Approvals |->
       IF \/ approval[p] = "approved" /\ Interrupted(request[p].run)
          \/ approval[p] = "pending"
       THEN "execution_cancelled" ELSE result[p]]
  /\ cancelling' = FALSE /\ barrier' = FALSE /\ terminating' = FALSE /\ locked' = FALSE
  /\ active' = None /\ pending' = {}
  /\ step' = [r \in Runs |-> IF Alive(r) THEN "lost" ELSE step[r]]
  /\ call' = [c \in Calls |-> IF At(c, "idle") THEN call[c]
                              ELSE [call[c] EXCEPT !.pc = "failed", !.killed = "failed"]]
  /\ RuntimesAfterCrash
  /\ writer' = None
  /\ UNCHANGED <<authorityBlocked, request, verdict, outcome, gate, canary>>

RunStep(r) ==
  \/ BeginRun(r) \/ BeginFails(r) \/ CheckBarrier(r) \/ PrepareFails(r) \/ Launch(r)
  \/ RunnerReturns(r) \/ RemoveDoomed(r)
  \/ PauseForApproval(r) \/ PublishStep(r) \/ PublishStepFails(r)
  \/ StepReleased(r) \/ ResumeAfterApproval(r) \/ RecordResumed(r)
  \/ EndRun(r) \/ EndFails(r)

AgentStep(r) ==
  \/ Exits \/ CanaryStep(r) \/ StepRefused(r) \/ StepFails(r)
  \/ \E p \in Approvals : StepIntercepted(r, p) \/ HoldEgress(r, p)

CallStep(c) ==
  \/ DenyPending(c) \/ DenyFails(c) \/ CancelRuntime(c) \/ AwaitExecution(c) \/ CancelEnds(c)
  \/ WriteStopped(c) \/ WriteDeleted(c) \/ LastWriteFails(c)
  \/ Freeze(c) \/ Revoke(c) \/ Verify(c) \/ RecordReceipt(c) \/ RecordFails(c)

Next ==
  \/ \E r \in Runs : SendMessage(r) \/ SendBlocked(r) \/ RunStep(r) \/ AgentStep(r)
  \/ SendCommits \/ EgressCommits \/ EgressWriteFails \/ StartAgent \/ StartCommits \/ WriteFails
  \/ TimesOut \/ CanaryCancels \/ OrphanEnds
  \/ \E p \in Approvals : \/ Approve(p) \/ Deny(p) \/ EgressAbandoned(p)
  \/ \E c \in Calls : \/ CallStopOrDelete(c) \/ CallQuarantine(c) \/ BeginTermination(c)
                      \/ CallStep(c)
  \/ Restart

Spec == Init /\ [][Next]_vars

\* The event loop serves every continuation, and every timer fires: the runtime's
\* limit, and the five minutes of a held action.  The store serves its mutations
\* in FIFO order, so one that is queued gets its turn even if others keep coming:
\* steps that wait for the store are strongly fair.  Nobody is bound to send,
\* start, stop, approve or exit.
Progress ==
  /\ WF_vars(SendCommits) /\ WF_vars(StartCommits) /\ WF_vars(EgressCommits)
  /\ WF_vars(TimesOut) /\ WF_vars(CanaryCancels)
  /\ \A r \in Runs : SF_vars(RunStep(r))
  /\ \A p \in Approvals : SF_vars(Deny(p)) /\ SF_vars(EgressAbandoned(p))
  /\ \A c \in Calls : SF_vars(CallStep(c))

FairSpec == Spec /\ Progress

(***************************************************************************)
(* Properties                                                              *)
(***************************************************************************)
TypeOK ==
  /\ status \in {"ready", "busy", "waiting_approval", "stopped", "error", "deleted"}
  /\ runs \in [Runs -> RunStatus]
  /\ approval \in [Approvals -> ApprovalStatus] /\ result \in [Approvals -> Result]
  /\ {authorityBlocked, cancelling, barrier, terminating, locked, orphan} \subseteq BOOLEAN
  /\ active \in Runs \cup {None}
  /\ request \in [Approvals -> Requests]
  /\ pending \subseteq Approvals
  /\ verdict \in [Approvals -> {"waiting", "granted", "refused"}]
  /\ step \in [Runs -> Step] /\ outcome \in [Runs -> Outcome]
  /\ gate \in [Runs -> Approvals \cup {None}] /\ canary \in [Runs -> BOOLEAN]
  /\ runtime \in Runtimes
  /\ call \in [Calls -> CallState]
  /\ writer \in Runs \cup Approvals \cup {None, "start"}
  /\ faults \in 0..MaxFaults /\ restarts \in 0..MaxRestarts

\* The stored status tells what is going on: the Agent is busy or waiting
\* exactly while one execution is alive, however messages, stops, deletions and
\* terminations overlap, so it can neither be sent a second run nor be left busy
\* with none (agent-service.ts:865-954, 1350, 1380, 1445).  Quarantines that
\* overlap break it: they share one flag and take no notice of the lock.
BusyIffExecuting ==
  /\ \A r, q \in Runs : Alive(r) /\ Alive(q) => r = q
  /\ HasActiveLifecycle <=> \E r \in Runs : Alive(r)
  /\ \A r \in Runs : Alive(r) <=> runs[r] \in {"queued", "running"}

\* A stopped or deleted Agent has no execution and no runtime, tracked or not
\* (agent-service.ts:542-554, 394-409, 435-456).  On the host-process runtime this
\* is so until a server dies.
StoppedIsQuiet ==
  status \in {"stopped", "deleted"} =>
    /\ runtime = None /\ ~orphan
    /\ \A r \in Runs : ~Alive(r)

\* While the operator is asked about an action, the runtime that wants it does
\* not run, and the operator's answer has somewhere to go
\* (agent-service.ts:1083-1164).
HeldActionIsFrozen ==
  \A p \in Approvals :
     approval[p] = "pending" /\ request[p].kind = "step" =>
       /\ p \in pending /\ verdict[p] = "waiting"
       /\ step[request[p].run] = "held" /\ gate[request[p].run] = p
       /\ runtime.state # "live"

\* A run that showed the canary token is never stored as completed, whether its
\* runtime exits by itself, times out or is stopped before the cancellation the
\* step queued takes it down (agent-service.ts:1012-1027, 1310, 1360-1372).
CanaryNeverCompletes ==
  \A r \in Runs : canary[r] => runs[r] # "completed"

\* What the evidence says an approval led to is what became of its run
\* (agent-service.ts:1233-1238, 1374-1378, 137-158).
EvidenceMatchesRun ==
  \A p \in Approvals :
     approval[p] = "approved" =>
       CASE runs[request[p].run] = "cancelled" -> result[p] = "execution_cancelled"
         [] runs[request[p].run] = "failed"    -> result[p] = "execution_failed"
         [] runs[request[p].run] = "completed" ->
              result[p] = IF request[p].kind = "step"
                          THEN "execution_resumed" ELSE "execution_authorized"
         [] OTHER -> result[p] \in {"execution_authorized", "execution_resumed"}

\* A runtime that was paused runs again only when the action it was held for is
\* approved in the store and its run is still running.
ResumedOnlyIfApproved ==
  [][runtime # None /\ runtime.state = "paused"
     /\ runtime' # None /\ runtime'.state = "live"
     => /\ approval[gate[runtime.run]] = "approved"
        /\ runs[runtime.run] = "running"]_runtime

\* A decision, once stored, is never replaced by another one, and a run that has
\* ended never changes: not by a timer, a late answer, a cancellation or a
\* restart.  Only deleting the Agent removes them.
DecisionsAreFinal ==
  [][/\ \A p \in Approvals : approval[p] \in {"approved", "denied"} =>
            approval'[p] \in {approval[p], "deleted"}
     /\ \A r \in Runs : runs[r] \in Terminal => runs'[r] \in {runs[r], "deleted"}
    ]_<<approval, runs>>

\* After a receipt that claims containment, and until the Agent is started or
\* deleted, the server runs nothing of it and is bound to run nothing; and when
\* the engine confirmed the stop, no runtime it lost track of is left either
\* (terminator.ts:28-77, 168-235).  The second fails on the host-process runtime
\* once a server of it died: nobody knows of the process group it leaves.
ContainedIsQuiet ==
  \A c \in Terminations :
     call[c].contained /\ authorityBlocked =>
       /\ status = "stopped" /\ runtime = None /\ writer \notin Runs
       /\ \A r \in Runs : ~Alive(r)
       /\ call[c].confirmed => ~orphan

\* Nothing of an Agent that an operation has closed runs, whichever it was: a
\* stop, a quarantine, a deletion or a termination.
ClosedIsQuiet == StoppedIsQuiet /\ ContainedIsQuiet

\* Every execution ends, and every stop, quarantine, deletion and termination
\* returns, whoever goes away: a waiter that is dropped, or two operations that
\* wait for each other, would hang one
\* (agent-service.ts:1479-1534, 760-780, container-codex-runner.ts:169-182).
RunsEnd == \A r \in Runs : Alive(r) ~> ~Alive(r)
CallsEnd == \A c \in Calls : ~At(c, "idle") ~> call[c].pc \in {"done", "failed"}

\* One run at a time, each once, none while the Agent is stopped.
Current == IF \E r \in Runs : Alive(r) THEN CHOOSE r \in Runs : Alive(r) ELSE None
Over == {r \in Runs : runs[r] \in Terminal \cup {"deleted"}}
Promise == INSTANCE OneRun WITH
  current <- Current, over <- Over, open <- status \notin {"stopped", "deleted"}
KeepsPromise == Promise!Spec

\* An operator's start that was let in before a termination began cannot open
\* the Agent again behind it (agent-service.ts:530-537, 1441).
TerminationKeepsBarrier == terminating => barrier

\* freezeAgent answered that the queued execution was blocked before its
\* runtime could start.
BlockedNeverStarts ==
  \A c \in Terminations :
     call[c].froze = "blocked" /\ terminating => runtime = None \/ runtime.doomed


\* One agent has at most one active run.
AtMostOneActiveRun ==
  Cardinality({r \in Runs : runs[r] \in {"queued", "running"}}) <= 1

\* A published approval has an owner in memory.
PublishedHasOwner ==
  \A p \in Approvals : approval[p] = "pending" => p \in pending
=============================================================================
