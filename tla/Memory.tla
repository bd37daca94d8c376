------------------------------- MODULE Memory -------------------------------
(***************************************************************************)
(* What one Agent remembers (memory.ts), with the three parties that work  *)
(* on it at once: the run that recalls and then captures, the operator,    *)
(* and a termination (terminator.ts), which freezes, quarantines, kills    *)
(* and verifies.  How a run is frozen and killed is AgentRuns' subject; it *)
(* appears here as far as the order of those steps decides what is left    *)
(* in memory.  Lifetimes are left out: any entry may have expired when it  *)
(* is looked for.                                                          *)
(***************************************************************************)
EXTENDS Naturals, Sequences, FiniteSets

CONSTANTS
  MaxPerRun,    \* MEMORY_MAX_PER_RUN, 5
  RecallLimit,  \* MEMORY_RECALL_LIMIT, 10
  MaxEntries,   \* bound: entries stored
  MaxRuns       \* bound: runs

ASSUME MemoryAssumption ==
  MaxPerRun \in Nat /\ RecallLimit \in Nat /\ MaxEntries \in Nat /\ MaxRuns \in Nat

VARIABLES
  memories,   \* in the order they were stored
  execution,  \* "idle", "starting", "running", "frozen", "capturing"
  run,        \* number of the latest run
  context,    \* entries in the prompt of the run that executes
  todo,       \* steps a termination has left
  achieved,   \* all its steps so far succeeded
  barrier,    \* nothing is admitted until the operator starts the Agent
  sealed      \* entries there were when the last containing receipt was signed

memoryVars == <<memories, execution, run, context, todo, achieved, barrier, sealed>>
terminationVars == <<todo, achieved, barrier, sealed>>

NoRun == 0
Entry == [source : {"operator", "agent-output"}, run : Nat,
          quarantinedBy : {"nobody", "operator", "termination"}]
Entries == DOMAIN memories
InCirculation == {i \in Entries : memories[i].quarantinedBy = "nobody"}

TerminationSteps == {"revoke", "kill", "verify", "record"}

MemoryTypeOK ==
  /\ memories \in Seq(Entry)
  /\ execution \in {"idle", "starting", "running", "frozen", "capturing"}
  /\ run \in Nat /\ context \subseteq Nat
  /\ todo \in Seq(TerminationSteps)
  /\ achieved \in BOOLEAN /\ barrier \in BOOLEAN /\ sealed \in Nat

MemoryInit ==
  /\ memories = <<>>
  /\ execution = "idle" /\ run = NoRun /\ context = {}
  /\ todo = <<>> /\ achieved = FALSE /\ barrier = FALSE /\ sealed = 0

-----------------------------------------------------------------------------
WrittenBy(r) == {i \in Entries : memories[i].run = r /\ r # NoRun}

Store(source, r) ==
  /\ Len(memories) < MaxEntries
  /\ memories' = Append(memories, [source |-> source, run |-> r,
                                   quarantinedBy |-> "nobody"])

\* remember: its check and its write are one mutation.
Remember(source, r) ==
  IF Cardinality(WrittenBy(r)) >= MaxPerRun THEN UNCHANGED memories
  ELSE Store(source, r)

\* The memory routes: an operator, or the Agent itself, attested by the proxy.
\* Neither names a run.
Post ==
  /\ \E source \in {"operator", "agent-output"} :
        /\ source = "agent-output" => execution = "running"
        /\ Remember(source, NoRun)
  /\ UNCHANGED <<execution, run, context, terminationVars>>

Stamp(S, by) ==
  memories' = [i \in Entries |-> IF i \in S \cap InCirculation
                                 THEN [memories[i] EXCEPT !.quarantinedBy = by]
                                 ELSE memories[i]]

Quarantine(i) ==
  /\ Stamp({i}, "operator")
  /\ UNCHANGED <<execution, run, context, terminationVars>>

-----------------------------------------------------------------------------
(* The run. *)

Admit ==
  /\ execution = "idle" /\ ~barrier /\ run < MaxRuns
  /\ execution' = "starting" /\ run' = run + 1
  /\ UNCHANGED <<memories, context, terminationVars>>

\* The RecallLimit last of a set of entries; all of them when there are fewer.
Newest(S) == {i \in S : Cardinality({j \in S : j > i}) < RecallLimit}

\* The barrier is checked and the snapshot taken without an await between.
Recall ==
  /\ execution = "starting" /\ ~barrier
  /\ execution' = "running"
  /\ \E expired \in SUBSET InCirculation : context' = Newest(InCirculation \ expired)
  /\ UNCHANGED <<memories, run, terminationVars>>

\* Stopped by the barrier, failed, cancelled, or done.
Leave ==
  /\ \/ execution \in {"starting", "running", "capturing"}
     \/ execution = "frozen" /\ todo # <<>> /\ Head(todo) = "kill"
  /\ execution' = "idle" /\ context' = {}
  /\ UNCHANGED <<memories, run, terminationVars>>

\* runner.run returned.  Nothing looks at the barrier again.
RunnerReturns ==
  /\ execution = "running" /\ execution' = "capturing"
  /\ UNCHANGED <<memories, run, context, terminationVars>>

\* One REMEMBER: line of captureMemories.
Capture ==
  /\ execution = "capturing"
  /\ Remember("agent-output", run)
  /\ UNCHANGED <<execution, run, context, terminationVars>>

-----------------------------------------------------------------------------
(* The termination. *)

\* The barrier, then the freeze.  When a live runtime cannot be frozen it is
\* killed first, and the receipt will not claim containment.
Begin ==
  /\ todo \in {<<>>, <<"record">>} /\ barrier' = TRUE
  /\ \/ /\ todo' = <<"revoke", "kill", "verify", "record">> /\ achieved' = TRUE
        /\ execution' = IF execution = "running" THEN "frozen" ELSE execution
     \/ /\ todo' = <<"kill", "revoke", "verify", "record">> /\ achieved' = FALSE
        /\ UNCHANGED execution
  /\ UNCHANGED <<memories, run, context, sealed>>

\* A step is over, well or not.
Step(name, ok) ==
  /\ todo # <<>> /\ Head(todo) = name /\ todo' = Tail(todo)
  /\ achieved' = (achieved /\ ok)

\* Grants and memories close in one mutation; it may fail, or the drain after it.
RevokeAndQuarantine ==
  /\ \E ok \in BOOLEAN : Step("revoke", ok)
  /\ \/ Stamp(Entries, "termination")
     \/ ~achieved' /\ UNCHANGED memories
  /\ UNCHANGED <<execution, run, context, barrier, sealed>>

\* quarantineAgent returned: the execution is over, or it could not be ended.
KillRuntime ==
  /\ \E ok \in BOOLEAN : Step("kill", ok) /\ (ok => execution = "idle")
  /\ UNCHANGED <<memories, execution, run, context, barrier, sealed>>

\* Slip: the receipt says nothing about memories.
VerifyRuntimeOnly ==
  /\ Step("verify", execution = "idle")
  /\ sealed' = IF achieved' THEN Len(memories) ELSE sealed
  /\ UNCHANGED <<memories, execution, run, context, barrier>>

Verify ==
  /\ \E confirmed \in BOOLEAN :
        Step("verify", confirmed /\ execution = "idle" /\ InCirculation = {})
  /\ sealed' = IF achieved' THEN Len(memories) ELSE sealed
  /\ UNCHANGED <<memories, execution, run, context, barrier>>

\* The receipt is written.  Until that has worked the Agent cannot be started;
\* after a failed write only another termination helps.
Record ==
  /\ todo = <<"record">> /\ todo' = <<>>
  /\ UNCHANGED <<memories, execution, run, context, achieved, barrier, sealed>>

Start ==
  /\ barrier /\ todo = <<>> /\ execution = "idle" /\ barrier' = FALSE
  /\ UNCHANGED <<memories, execution, run, context, todo, achieved, sealed>>

MemoryNext ==
  \/ Post \/ (\E i \in Entries : Quarantine(i))
  \/ Admit \/ Recall \/ Leave \/ RunnerReturns \/ Capture
  \/ Begin \/ RevokeAndQuarantine \/ KillRuntime \/ Verify \/ Record \/ Start

MemorySpec == MemoryInit /\ [][MemoryNext]_memoryVars

-----------------------------------------------------------------------------
\* Nothing an Agent had stored when a receipt certified its containment is ever
\* in the prompt of a later run, although runs capture on after the quarantine
\* and after the barrier (terminator.ts:119-129, agent-service.ts:1309).
SealedNeverRecalled == \A i \in context : i > sealed

\* No run captures more than its share, also when the operator quarantines what
\* it has captured so far (memory.ts:112-118).
CaptureIsCapped == \A r \in 1..run : Cardinality(WrittenBy(r)) <= MaxPerRun

\* An entry is never released from quarantine, and the first stamp stands: a
\* termination does not overwrite who quarantined it, nor the other way round.
QuarantineIsFinal ==
  [][\A i \in Entries \ InCirculation : memories'[i] = memories[i]]_memoryVars
=============================================================================
