----------------------------- MODULE HostProcess -----------------------------
(***************************************************************************)
(* The process group of one run under the host-process runtime             *)
(* (codex-runner.ts:143-446): the Codex child, which leads the group, and  *)
(* one tool it has started.  Signals go to the group; a stopped process    *)
(* keeps a SIGTERM pending, and a tool may ignore it or outlive the child. *)
(***************************************************************************)
EXTENDS Naturals

CONSTANT MaxProcesses   \* bound: runs

VARIABLES
  active,      \* the run is in the map
  cancelled,   \* its flag
  process,     \* "none", "running", "stopped" or "dead", of child and tool
  pendingTerm, \* those that have a SIGTERM pending
  inherits,    \* the tool holds the child's output open
  forceKill,   \* forceKillTimer: "none", "armed", "fired"
  closed,      \* the child's close event came; `settled' is resolved
  reader,      \* the loop over its output: "reading", "held" by a step, "done"
  caller,      \* of cancel: "none", "waiting", "answered"
  runs, down

processVars == <<active, cancelled, process, pendingTerm, inherits, forceKill, closed,
                 reader, caller, runs, down>>
group == <<process, pendingTerm>>

Members == {"child", "tool"}
Alive(p) == process[p] \in {"running", "stopped"}
NoneAlive == \A p \in Members : ~Alive(p)

ProcessTypeOK ==
  /\ active \in BOOLEAN /\ cancelled \in BOOLEAN
  /\ process \in [Members -> {"none", "running", "stopped", "dead"}]
  /\ pendingTerm \subseteq Members /\ inherits \in BOOLEAN
  /\ forceKill \in {"none", "armed", "fired"} /\ closed \in BOOLEAN
  /\ reader \in {"reading", "held", "done"}
  /\ caller \in {"none", "waiting", "answered"} /\ runs \in Nat /\ down \in BOOLEAN

ProcessInit ==
  /\ active = FALSE /\ cancelled = FALSE
  /\ process = [p \in Members |-> "none"] /\ pendingTerm = {} /\ inherits = FALSE
  /\ forceKill = "none" /\ closed = FALSE /\ reader = "done" /\ caller = "none"
  /\ runs = 0 /\ down = FALSE

-----------------------------------------------------------------------------
(* signalProcessTree: what the group makes of a signal. *)

SigKill ==
  /\ process' = [p \in Members |-> IF Alive(p) THEN "dead" ELSE process[p]]
  /\ pendingTerm' = {}

SigStop ==
  /\ process' = [p \in Members |-> IF process[p] = "running" THEN "stopped" ELSE process[p]]
  /\ UNCHANGED pendingTerm

\* A process that runs takes a SIGTERM now, and may ignore it.
SigTerm ==
  /\ \E deaf \in SUBSET Members :
        process' = [p \in Members |-> IF process[p] = "running" /\ p \notin deaf
                                      THEN "dead" ELSE process[p]]
  /\ pendingTerm' = pendingTerm \cup {p \in Members : process[p] = "stopped"}

SigCont ==
  /\ \E deaf \in SUBSET Members :
        process' = [p \in Members |->
                      IF process[p] # "stopped" THEN process[p]
                      ELSE IF p \in pendingTerm \ deaf THEN "dead" ELSE "running"]
  /\ pendingTerm' = {}

\* The direct child only.
SigKillChild ==
  /\ process' = [process EXCEPT !["child"] = IF Alive("child") THEN "dead" ELSE @]
  /\ UNCHANGED pendingTerm

-----------------------------------------------------------------------------
SpawnChild ==
  /\ ~active /\ ~down /\ caller # "waiting" /\ runs < MaxProcesses
  /\ active' = TRUE /\ cancelled' = FALSE /\ runs' = runs + 1
  /\ process' = [p \in Members |-> IF p = "child" THEN "running" ELSE "none"]
  /\ pendingTerm' = {}
  /\ inherits' = FALSE /\ forceKill' = "none" /\ closed' = FALSE /\ reader' = "reading"
  /\ caller' = "none" /\ UNCHANGED down

SpawnTool ==
  /\ process["child"] = "running" /\ process["tool"] = "none"
  /\ process' = [process EXCEPT !["tool"] = "running"]
  /\ inherits' \in BOOLEAN
  /\ UNCHANGED <<active, cancelled, pendingTerm, forceKill, closed, reader, caller, runs, down>>

Exit(p) ==
  /\ process[p] = "running" /\ process' = [process EXCEPT ![p] = "dead"]
  /\ UNCHANGED <<active, cancelled, pendingTerm, inherits, forceKill, closed, reader,
                 caller, runs, down>>

\* Slip: nothing follows a SIGTERM.
TerminateSoftly == SigTerm /\ UNCHANGED forceKill

\* terminate: SIGTERM now, SIGKILL in three seconds, once.
Terminate == SigTerm /\ forceKill' = IF forceKill = "none" THEN "armed" ELSE forceKill

Cancel ==
  /\ active /\ cancelled' = TRUE /\ Terminate
  /\ caller' = "waiting"
  /\ UNCHANGED <<active, inherits, closed, reader, runs, down>>

CancelAnswers ==
  /\ caller = "waiting" /\ closed /\ caller' = "answered"
  /\ UNCHANGED <<active, cancelled, group, inherits, forceKill, closed, reader, runs, down>>

\* The run or its budget has taken too long.
RunTimesOut ==
  /\ active /\ Terminate
  /\ UNCHANGED <<active, cancelled, inherits, closed, reader, caller, runs, down>>

\* Too much output ends the reading; so does a step that throws, which counts
\* as a cancellation.
ReadingFails ==
  /\ reader = "reading" /\ Terminate
  /\ reader' = "done" /\ cancelled' \in {cancelled, TRUE}
  /\ UNCHANGED <<active, inherits, closed, caller, runs, down>>

\* Slip: it reaches the direct child only.
ForceKillReachesChild ==
  /\ forceKill = "armed" /\ forceKill' = "fired" /\ SigKillChild
  /\ UNCHANGED <<active, cancelled, inherits, closed, reader, caller, runs, down>>

ForceKillFires ==
  /\ forceKill = "armed" /\ forceKill' = "fired" /\ SigKill
  /\ UNCHANGED <<active, cancelled, inherits, closed, reader, caller, runs, down>>

Pause ==
  /\ active /\ ~cancelled /\ SigStop
  /\ UNCHANGED <<active, cancelled, inherits, forceKill, closed, reader, caller, runs, down>>

Resume ==
  /\ active /\ ~cancelled /\ SigCont
  /\ UNCHANGED <<active, cancelled, inherits, forceKill, closed, reader, caller, runs, down>>

\* The child is gone and nobody holds its output open any more.
Close ==
  /\ active /\ ~closed /\ process["child"] = "dead"
  /\ ~(inherits /\ Alive("tool"))
  /\ closed' = TRUE
  /\ UNCHANGED <<active, cancelled, group, inherits, forceKill, reader, caller, runs, down>>

\* A step waits for an operator, which holds the loop over the output.  Steps held
\* one after the other once the child has closed count as one.
HoldReader ==
  /\ reader = "reading" /\ ~closed /\ reader' = "held"
  /\ UNCHANGED <<active, cancelled, group, inherits, forceKill, closed, caller, runs, down>>

ReleaseReader ==
  /\ reader = "held" /\ reader' = "reading"
  /\ UNCHANGED <<active, cancelled, group, inherits, forceKill, closed, caller, runs, down>>

EndOfOutput ==
  /\ closed /\ reader = "reading" /\ reader' = "done"
  /\ UNCHANGED <<active, cancelled, group, inherits, forceKill, closed, caller, runs, down>>

\* Slip: the timer is cleared although a tool of the group lives on.
FinishChildOnly ==
  /\ active /\ closed /\ reader = "done" /\ SigKillChild
  /\ active' = FALSE /\ forceKill' = "none"
  /\ UNCHANGED <<cancelled, inherits, closed, reader, caller, runs, down>>

\* The finally of run: the whole group once more, then the timer and the entry.
Finish ==
  /\ active /\ closed /\ reader = "done" /\ SigKill
  /\ active' = FALSE /\ forceKill' = "none"
  /\ UNCHANGED <<cancelled, inherits, closed, reader, caller, runs, down>>

\* terminateAll, at shutdown.
TerminateAll ==
  /\ ~down /\ down' = TRUE /\ SigKill /\ active' = FALSE
  /\ UNCHANGED <<cancelled, inherits, forceKill, closed, reader, caller, runs>>

ProcessEnds == Close \/ ForceKillFires \/ EndOfOutput \/ Finish \/ CancelAnswers

ProcessNext ==
  \/ SpawnChild \/ SpawnTool \/ Exit("child") \/ Exit("tool")
  \/ Cancel \/ RunTimesOut \/ ReadingFails \/ Pause \/ Resume
  \/ HoldReader \/ ReleaseReader \/ ProcessEnds \/ TerminateAll

ProcessSpec == ProcessInit /\ [][ProcessNext]_processVars

\* Timers fire, events are delivered, and a held step is decided in the end.
ProcessFairness ==
  /\ WF_processVars(Close) /\ WF_processVars(ForceKillFires) /\ WF_processVars(EndOfOutput)
  /\ WF_processVars(Finish) /\ WF_processVars(CancelAnswers)
  /\ WF_processVars(ReleaseReader)
FairProcessSpec == ProcessSpec /\ ProcessFairness

-----------------------------------------------------------------------------
\* A run that is over, or taken down at shutdown, leaves no process behind: not
\* a tool that ignores SIGTERM, holds no output, or was stopped by a freeze when
\* the child exited (codex-runner.ts:422-430).
NoOrphans == ~active => NoneAlive

\* A run that is cancelled, timed out or read no further ends, and whoever cancels
\* it is answered, whether its processes are frozen, deaf to SIGTERM, or a step of
\* it waits for an operator.
CancelEndsRun ==
  /\ caller = "waiting" ~> (caller = "answered" \/ down)
  /\ (active /\ (cancelled \/ forceKill # "none")) ~> ~active
=============================================================================
