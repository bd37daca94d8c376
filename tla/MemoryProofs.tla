----------------------------- MODULE MemoryProofs -----------------------------
(* Proofs about Memory, for any number of entries and runs, any cap and any     *)
(* number of recalled entries.                                                 *)
EXTENDS Memory, FiniteSetTheorems, TLAPS

\* A prompt is held by a run that executes only.
ContextBelongsToRun == execution \in {"idle", "starting"} => context = {}

\* What a containing receipt sealed is in quarantine.
SealedIsQuarantined ==
  sealed <= Len(memories) /\ \A i \in Entries : i <= sealed => i \notin InCirculation

\* Stamping keeps the entries, and releases none.
LEMMA StampKeeps ==
  ASSUME MemoryTypeOK, NEW S, NEW by \in {"operator", "termination"}, Stamp(S, by)
  PROVE  /\ memories' \in Seq(Entry) /\ Len(memories') = Len(memories)
         /\ \A i \in Entries : /\ memories'[i].run = memories[i].run
                               /\ memories'[i].quarantinedBy = "nobody"
                                    => memories[i].quarantinedBy = "nobody"
         /\ \A i \in Entries \ InCirculation : memories'[i] = memories[i]
<1>1. memories \in Seq(Entry) /\ Entries = 1..Len(memories)
  BY DEF MemoryTypeOK, Entries
<1>2. \A i \in Entries : memories[i] \in Entry
  BY <1>1
<1>3. \A i \in Entries : [memories[i] EXCEPT !.quarantinedBy = by] \in Entry
  BY <1>2 DEF Entry
<1>4. memories' = [i \in 1..Len(memories) |-> IF i \in S \cap InCirculation
                                              THEN [memories[i] EXCEPT !.quarantinedBy = by]
                                              ELSE memories[i]]
  BY <1>1 DEF Stamp
<1>5. memories' \in Seq(Entry) /\ Len(memories') = Len(memories)
  BY <1>1, <1>2, <1>3, <1>4
<1>6. \A i \in Entries : /\ memories'[i].run = memories[i].run
                         /\ memories'[i].quarantinedBy = "nobody"
                              => memories[i].quarantinedBy = "nobody"
  BY <1>1, <1>2, <1>4 DEF Entry
<1>7. \A i \in Entries \ InCirculation : memories'[i] = memories[i]
  BY <1>1, <1>4
<1>. QED BY <1>5, <1>6, <1>7

\* Storing appends one entry of the run that is named, or nothing.
LEMMA RememberAppends ==
  ASSUME MemoryTypeOK, NEW source \in {"operator", "agent-output"}, NEW r \in Nat,
         Remember(source, r)
  PROVE  \/ memories' = memories
         \/ /\ memories' \in Seq(Entry) /\ Len(memories') = Len(memories) + 1
            /\ \A i \in Entries : memories'[i] = memories[i]
            /\ memories'[Len(memories) + 1].run = r
            /\ ~(Cardinality(WrittenBy(r)) >= MaxPerRun)
<1>. DEFINE entry == [source |-> source, run |-> r, quarantinedBy |-> "nobody"]
<1>1. memories \in Seq(Entry) /\ Entries = 1..Len(memories)
  BY DEF MemoryTypeOK, Entries
<1>2. entry \in Entry /\ entry.run = r
  BY DEF Entry
<1>3. CASE ~(Cardinality(WrittenBy(r)) >= MaxPerRun) /\ memories' = Append(memories, entry)
  <2>. HIDE DEF entry
  <2>. QED BY <1>1, <1>2, <1>3
<1>. QED BY <1>3 DEF Remember, Store

\* Every variable has its type.
THEOREM MemoryTypeCorrect == MemorySpec => []MemoryTypeOK
<1>1. MemoryInit => MemoryTypeOK
  <2>. SUFFICES ASSUME MemoryInit PROVE MemoryTypeOK
    OBVIOUS
  <2>1. /\ memories \in Seq(Entry) /\ execution = "idle" /\ run \in Nat /\ context = {}
        /\ todo \in Seq(TerminationSteps) /\ sealed \in Nat
    BY DEF MemoryInit, NoRun
  <2>2. achieved \in BOOLEAN /\ barrier \in BOOLEAN
    BY Zenon DEF MemoryInit
  <2>. QED BY ONLY <2>1, <2>2 DEF MemoryTypeOK
<1>2. MemoryTypeOK /\ [MemoryNext]_memoryVars => MemoryTypeOK'
  <2>. SUFFICES ASSUME MemoryTypeOK, [MemoryNext]_memoryVars PROVE MemoryTypeOK'
    OBVIOUS
  <2>. USE DEF terminationVars
  <2>0. /\ run \in Nat /\ context \subseteq Nat /\ sealed \in Nat
        /\ memories \in Seq(Entry) /\ todo \in Seq(TerminationSteps)
    BY Zenon DEF MemoryTypeOK
  <2>1. CASE Post \/ Capture
    <3>1. memories' \in Seq(Entry)
      BY <2>1, RememberAppends DEF Post, Capture, NoRun, MemoryTypeOK
    <3>. QED BY <2>1, <3>1 DEF Post, Capture, MemoryTypeOK
  <2>2. ASSUME NEW i \in Entries, Quarantine(i)
        PROVE  MemoryTypeOK'
    <3>1. memories' \in Seq(Entry)
      BY <2>2, StampKeeps DEF Quarantine
    <3>. QED BY <2>2, <3>1 DEF Quarantine, MemoryTypeOK
  <2>3. CASE RevokeAndQuarantine
    <3>1. memories' \in Seq(Entry)
      BY <2>3, StampKeeps DEF RevokeAndQuarantine, MemoryTypeOK
    <3>. QED BY <2>3, <3>1 DEF RevokeAndQuarantine, Step, MemoryTypeOK
  <2>4. CASE Admit \/ Leave \/ RunnerReturns
    <3>1. run' \in {run, run + 1} /\ (context' = context \/ context' = {})
      BY <2>4, Zenon DEF Admit, Leave, RunnerReturns
    <3>3. run' \in Nat /\ context' \subseteq Nat
      <4>1. run' \in Nat
        BY <2>0, <3>1
      <4>. QED BY <2>0, <3>1, <4>1, Zenon
    <3>2. execution' \in {"idle", "starting", "running", "frozen", "capturing"}
      BY <2>4 DEF Admit, Leave, RunnerReturns
    <3>. QED BY <2>4, <3>2, <3>3, Zenon DEF Admit, Leave, RunnerReturns, MemoryTypeOK
  <2>5. CASE Recall
    BY <2>5 DEF Recall, Newest, InCirculation, Entries, MemoryTypeOK
  <2>6. CASE Begin
    <3>0. \/ todo' = <<"revoke", "kill", "verify", "record">>
          \/ todo' = <<"kill", "revoke", "verify", "record">>
      BY <2>6, Zenon DEF Begin
    <3>1. todo' \in Seq(TerminationSteps)
      <4>1. <<"revoke", "kill", "verify", "record">> \in Seq(TerminationSteps)
        BY ONLY DEF TerminationSteps
      <4>2. <<"kill", "revoke", "verify", "record">> \in Seq(TerminationSteps)
        BY ONLY DEF TerminationSteps
      <4>. QED BY <3>0, <4>1, <4>2
    <3>2. achieved' \in BOOLEAN /\ barrier' \in BOOLEAN
      BY <2>6, Zenon DEF Begin
    <3>3. execution' \in {"idle", "starting", "running", "frozen", "capturing"}
      BY <2>6 DEF Begin, MemoryTypeOK
    <3>. QED BY <2>6, <3>1, <3>2, <3>3, Zenon DEF Begin, MemoryTypeOK
  <2>7. CASE KillRuntime \/ Verify
    <3>0. /\ todo # <<>> /\ todo' = Tail(todo)
          /\ sealed' = sealed \/ sealed' = Len(memories)
      BY <2>7 DEF KillRuntime, Verify, Step
    <3>1. todo' \in Seq(TerminationSteps) /\ sealed' \in Nat
      BY <2>0, <3>0
    <3>2. achieved' \in BOOLEAN
      BY <2>7, Zenon DEF KillRuntime, Verify, Step
    <3>. QED BY <2>7, <3>1, <3>2, Zenon DEF KillRuntime, Verify, Step, MemoryTypeOK
  <2>8. CASE Record \/ Start \/ UNCHANGED memoryVars
    <3>0. todo' = <<>> \/ todo' = todo
      BY <2>8, Zenon DEF Record, Start, memoryVars
    <3>1. todo' \in Seq(TerminationSteps)
      <4>1. <<>> \in Seq(TerminationSteps)
        OBVIOUS
      <4>. QED BY <2>0, <3>0, <4>1, Zenon
    <3>2. barrier' \in BOOLEAN
      BY <2>8, Zenon DEF Record, Start, memoryVars, MemoryTypeOK
    <3>. QED BY <2>8, <3>1, <3>2, Zenon DEF Record, Start, memoryVars, MemoryTypeOK
  <2>. QED BY <2>1, <2>2, <2>3, <2>4, <2>5, <2>6, <2>7, <2>8 DEF MemoryNext
<1>. QED BY <1>1, <1>2, PTL DEF MemorySpec

-----------------------------------------------------------------------------
SealInv == ContextBelongsToRun /\ SealedIsQuarantined /\ SealedNeverRecalled

\* Entries that are appended or stamped leave what is sealed in quarantine.
LEMMA SealKeeps ==
  ASSUME MemoryTypeOK, SealInv, UNCHANGED <<sealed, context, execution>>,
         Len(memories') >= Len(memories),
         \A i \in Entries : memories'[i].quarantinedBy = "nobody"
                            => memories[i].quarantinedBy = "nobody"
  PROVE  SealInv'
<1>1. Len(memories) \in Nat /\ sealed \in Nat /\ Entries = 1..Len(memories)
  BY DEF MemoryTypeOK, Entries
<1>2. \A i \in Entries' : i <= sealed' => i \in Entries /\ i \notin InCirculation
  BY <1>1 DEF SealInv, SealedIsQuarantined, Entries
<1>. QED BY <1>1, <1>2
         DEF SealInv, ContextBelongsToRun, SealedIsQuarantined, SealedNeverRecalled, InCirculation

\* What an Agent had stored when its containment was certified is never in a
\* prompt again, for any interleaving of captures, stamps and terminations.
THEOREM SealedStaysOut == MemorySpec => []SealedNeverRecalled
<1>1. MemoryInit => SealInv
  BY DEF MemoryInit, SealInv, ContextBelongsToRun, SealedIsQuarantined, SealedNeverRecalled, Entries
<1>2. MemoryTypeOK /\ SealInv /\ [MemoryNext]_memoryVars => SealInv'
  <2>. SUFFICES ASSUME MemoryTypeOK, SealInv, [MemoryNext]_memoryVars PROVE SealInv'
    OBVIOUS
  <2>. USE DEF terminationVars
  <2>0. memories \in Seq(Entry) /\ Len(memories) \in Nat /\ sealed \in Nat
    BY DEF MemoryTypeOK
  <2>1. CASE Post \/ Capture
    <3>1. UNCHANGED <<sealed, context, execution>>
      BY <2>1 DEF Post, Capture
    <3>2. \E source \in {"operator", "agent-output"}, r \in Nat : Remember(source, r)
      BY <2>1 DEF Post, Capture, NoRun, MemoryTypeOK
    <3>3. \/ memories' = memories
          \/ Len(memories') = Len(memories) + 1 /\ \A i \in Entries : memories'[i] = memories[i]
      BY <3>2, RememberAppends
    <3>. QED BY <2>0, <3>1, <3>3, SealKeeps
  <2>2. ASSUME NEW i \in Entries, Quarantine(i)
        PROVE  SealInv'
    <3>1. UNCHANGED <<sealed, context, execution>>
      BY <2>2 DEF Quarantine
    <3>. QED BY <2>0, <2>2, <3>1, StampKeeps, SealKeeps DEF Quarantine
  <2>3. CASE RevokeAndQuarantine
    <3>1. UNCHANGED <<sealed, context, execution>>
      BY <2>3 DEF RevokeAndQuarantine
    <3>. QED BY <2>0, <2>3, <3>1, StampKeeps, SealKeeps DEF RevokeAndQuarantine
  <2>4. CASE Recall
    <3>1. UNCHANGED <<memories, sealed>> /\ context' \subseteq InCirculation
          /\ execution' = "running"
      BY <2>4 DEF Recall, Newest
    <3>2. \A i \in InCirculation : i \in Nat /\ i > sealed
      BY <2>0 DEF SealInv, SealedIsQuarantined, InCirculation, Entries
    <3>. QED BY <3>1, <3>2 DEF SealInv, ContextBelongsToRun, SealedIsQuarantined, SealedNeverRecalled,
                               InCirculation, Entries
  <2>5. CASE Verify
    <3>1. UNCHANGED <<memories, context, execution>>
      BY <2>5 DEF Verify
    <3>2. \/ sealed' = sealed
          \/ sealed' = Len(memories) /\ execution = "idle" /\ InCirculation = {}
      BY <2>5 DEF Verify, Step
    <3>. QED BY <2>0, <3>1, <3>2 DEF SealInv, ContextBelongsToRun, SealedIsQuarantined,
                                     SealedNeverRecalled, InCirculation, Entries
  <2>6. CASE Admit \/ Leave \/ RunnerReturns \/ Begin \/ KillRuntime \/ Record \/ Start
             \/ UNCHANGED memoryVars
    <3>1. UNCHANGED <<memories, sealed>>
      BY <2>6 DEF Admit, Leave, RunnerReturns, Begin, KillRuntime, Record, Start, memoryVars
    <3>2. \/ context' = {}
          \/ context' = context /\ (execution' \in {"idle", "starting"}
                                      => execution \in {"idle", "starting"})
      BY <2>6 DEF Admit, Leave, RunnerReturns, Begin, KillRuntime, Record, Start, memoryVars
    <3>. QED BY <3>1, <3>2 DEF SealInv, ContextBelongsToRun, SealedIsQuarantined,
                               SealedNeverRecalled, InCirculation, Entries
  <2>. QED BY <2>1, <2>2, <2>3, <2>4, <2>5, <2>6 DEF MemoryNext
<1>3. SealInv => SealedNeverRecalled
  BY DEF SealInv
<1>. QED BY <1>1, <1>2, <1>3, MemoryTypeCorrect, PTL DEF MemorySpec

\* No step releases an entry from quarantine or replaces its stamp.
THEOREM QuarantineStands == MemorySpec => QuarantineIsFinal
<1>. DEFINE Stands == \A i \in Entries \ InCirculation : memories'[i] = memories[i]
<1>1. MemoryTypeOK /\ [MemoryNext]_memoryVars => [Stands]_memoryVars
  <2>. SUFFICES ASSUME MemoryTypeOK, MemoryNext PROVE Stands
    BY DEF memoryVars
  <2>. USE DEF terminationVars
  <2>1. CASE memories' = memories
    BY <2>1
  <2>2. ASSUME NEW source \in {"operator", "agent-output"}, NEW r \in Nat, Remember(source, r)
        PROVE  Stands
    BY <2>2, RememberAppends
  <2>3. ASSUME NEW S, NEW by \in {"operator", "termination"}, Stamp(S, by)
        PROVE  Stands
    BY <2>3, StampKeeps
  <2>4. run \in Nat /\ 0 \in Nat
    BY DEF MemoryTypeOK
  <2>. QED BY <2>1, <2>2, <2>3, <2>4
           DEF MemoryNext, Post, Quarantine, Admit, Recall, Leave, RunnerReturns, Capture, Begin,
               RevokeAndQuarantine, KillRuntime, Verify, Record, Start, NoRun
<1>. QED BY <1>1, MemoryTypeCorrect, PTL DEF MemorySpec, QuarantineIsFinal

-----------------------------------------------------------------------------
\* No entry belongs to a run that is still to come.
RunsAreKnown == \A i \in Entries : memories[i].run <= run

\* What a run has written is finite.
LEMMA WrittenFinite ==
  ASSUME MemoryTypeOK, NEW r
  PROVE  IsFiniteSet(WrittenBy(r)) /\ Cardinality(WrittenBy(r)) \in Nat
<1>1. IsFiniteSet(Entries)
  <2>1. Entries = 1..Len(memories) /\ 1 \in Int /\ Len(memories) \in Int
    BY DEF MemoryTypeOK, Entries
  <2>. QED BY <2>1, FS_Interval
<1>2. WrittenBy(r) \in SUBSET Entries
  BY DEF WrittenBy
<1>. QED BY <1>1, <1>2, FS_Subset, FS_CardinalityType

\* No run captures more than its share: the check and the write are one step, and
\* an entry counts whether it is in circulation or not.
THEOREM CapturesAreCapped == MemorySpec => []CaptureIsCapped
<1>1. MemoryInit => RunsAreKnown /\ CaptureIsCapped
  <2>. SUFFICES ASSUME MemoryInit PROVE RunsAreKnown /\ CaptureIsCapped
    OBVIOUS
  <2>1. Entries = {} /\ 1..run = {}
    BY DEF MemoryInit, Entries, NoRun
  <2>. QED BY <2>1 DEF RunsAreKnown, CaptureIsCapped
<1>2. MemoryTypeOK /\ RunsAreKnown /\ CaptureIsCapped /\ [MemoryNext]_memoryVars
        => RunsAreKnown' /\ CaptureIsCapped'
  <2>. SUFFICES ASSUME MemoryTypeOK, RunsAreKnown, CaptureIsCapped, [MemoryNext]_memoryVars
                PROVE  RunsAreKnown' /\ CaptureIsCapped'
    OBVIOUS
  <2>. USE DEF terminationVars, NoRun
  <2>0. /\ memories \in Seq(Entry) /\ Len(memories) \in Nat /\ run \in Nat
        /\ Entries = 1..Len(memories) /\ MaxPerRun \in Nat
        /\ \A i \in Entries : memories[i].run \in Nat
    <3>1. memories \in Seq(Entry) /\ run \in Nat /\ MaxPerRun \in Nat
      BY MemoryAssumption, Zenon DEF MemoryTypeOK
    <3>2. Len(memories) \in Nat /\ Entries = 1..Len(memories)
      BY <3>1 DEF Entries
    <3>3. \A i \in Entries : memories[i] \in Entry
      BY <3>1, <3>2
    <3>. QED BY <3>1, <3>2, <3>3 DEF Entry
  <2>1. CASE UNCHANGED <<memories, run>>
    BY <2>1 DEF RunsAreKnown, CaptureIsCapped, WrittenBy, Entries
  <2>2. ASSUME NEW S, NEW by \in {"operator", "termination"}, Stamp(S, by), run' = run
        PROVE  RunsAreKnown' /\ CaptureIsCapped'
    <3>1. Entries' = Entries /\ \A i \in Entries : memories'[i].run = memories[i].run
      <4>1. Len(memories') = Len(memories) /\ memories' \in Seq(Entry)
        BY <2>2, StampKeeps
      <4>. QED BY <2>0, <2>2, <4>1, StampKeeps DEF Entries
    <3>2. \A r : WrittenBy(r)' = WrittenBy(r)
      BY <3>1 DEF WrittenBy
    <3>. QED BY <2>2, <3>1, <3>2 DEF RunsAreKnown, CaptureIsCapped
  <2>3. ASSUME NEW source \in {"operator", "agent-output"}, NEW r \in {0, run},
               Remember(source, r), run' = run
        PROVE  RunsAreKnown' /\ CaptureIsCapped'
    <3>1. CASE memories' = memories
      BY <2>1, <2>3, <3>1
    <3>2. CASE /\ memories' \in Seq(Entry) /\ Len(memories') = Len(memories) + 1
               /\ \A i \in Entries : memories'[i] = memories[i]
               /\ memories'[Len(memories) + 1].run = r
               /\ ~(Cardinality(WrittenBy(r)) >= MaxPerRun)
      <4>1. Entries' = Entries \cup {Len(memories) + 1} /\ Len(memories) + 1 \notin Entries
        BY <2>0, <3>2 DEF Entries
      <4>2. RunsAreKnown'
        BY <2>0, <2>3, <3>2, <4>1 DEF RunsAreKnown
      <4>3. ASSUME NEW q \in 1..run PROVE Cardinality(WrittenBy(q)') <= MaxPerRun
        <5>0. q # 0 /\ Cardinality(WrittenBy(q)) <= MaxPerRun
          BY <2>0, <4>3 DEF CaptureIsCapped
        <5>1. CASE q # r
          <6>1. WrittenBy(q)' = WrittenBy(q)
            BY <3>2, <4>1, <5>1 DEF WrittenBy
          <6>. QED BY <5>0, <6>1
        <5>2. CASE q = r
          <6>1. WrittenBy(q)' = WrittenBy(q) \cup {Len(memories) + 1}
                /\ Len(memories) + 1 \notin WrittenBy(q)
            BY <3>2, <4>1, <5>0, <5>2 DEF WrittenBy
          <6>2. Cardinality(WrittenBy(q)') = Cardinality(WrittenBy(q)) + 1
            BY <6>1, WrittenFinite, FS_AddElement
          <6>. QED BY <2>0, <3>2, <5>2, <6>2, WrittenFinite
        <5>. QED BY <5>1, <5>2
      <4>. QED BY <2>3, <4>2, <4>3 DEF CaptureIsCapped
    <3>. QED BY <2>0, <2>3, <3>1, <3>2, RememberAppends
  <2>4. CASE Admit
    <3>1. memories' = memories /\ run' = run + 1
      BY <2>4 DEF Admit
    <3>2. WrittenBy(run + 1) = {}
      BY <2>0 DEF WrittenBy, RunsAreKnown
    <3>3. \A r : WrittenBy(r)' = WrittenBy(r)
      BY <3>1 DEF WrittenBy, Entries
    <3>4. RunsAreKnown'
      BY <2>0, <3>1 DEF RunsAreKnown, Entries
    <3>5. Cardinality(WrittenBy(run + 1)) = 0
      BY <3>2, FS_EmptySet
    <3>6. \A r \in 1..(run + 1) : r \in 1..run \/ r = run + 1
      BY <2>0
    <3>. QED BY <2>0, <3>1, <3>3, <3>4, <3>5, <3>6 DEF CaptureIsCapped
  <2>. QED BY <2>1, <2>2, <2>3, <2>4
           DEF MemoryNext, Post, Quarantine, Recall, Leave, RunnerReturns, Capture, Begin,
               RevokeAndQuarantine, KillRuntime, Verify, Record, Start, memoryVars
<1>. QED BY <1>1, <1>2, MemoryTypeCorrect, PTL DEF MemorySpec
=============================================================================
