---------------------------- MODULE ProgressProofs ----------------------------
(***************************************************************************)
(* Proofs about the parts of ProgressParts and about them side by side:    *)
(* the store (StoreFile) for any number of calls and crashes, the          *)
(* operator's session (OperatorSessions) for any number of requests and    *)
(* tokens, and that a behaviour of the parts is one of each of them.       *)
(***************************************************************************)
EXTENDS ProgressParts, EgressProofs, ReceiptProofs, RunnerProofs, FiniteSetTheorems,
        WellFoundedInduction, TLAPS

-----------------------------------------------------------------------------
(* The store                                                               *)

Log == IF file = Nothing THEN <<>> ELSE file
Holds(s, m) == \E i \in DOMAIN s : s[i] = m

CallUnderWay == step \in {"mutating", "writing", "renaming", "adopting"}

\* One call is under way, and those behind it wait for their turn, each once.
CallsTakeTurns ==
  /\ current # Nothing <=> CallUnderWay
  /\ current # Nothing => reply[current] = "pending"
  /\ \A i \in DOMAIN queue : reply[queue[i]] = "pending" /\ queue[i] # current
  /\ \A i, j \in DOMAIN queue : queue[i] = queue[j] => i = j

\* The temporary file holds what is about to be renamed, and then the file does.
TemporaryIsComplete ==
  /\ step = "renaming" => tmp = Append(data, current)
  /\ step = "adopting" => file = Append(data, current)
  /\ step = "loading" => file = Nothing /\ tmp = <<>> /\ data = <<>>

\* What is in the file was answered, or its answer was lost or is to come.
InFileIsOwned ==
  \A m \in Calls : Holds(Log, m) =>
    reply[m] \in {"done", "lost"} \/ (step = "adopting" /\ m = current)

DoneIsInFile == \A m \in Calls : reply[m] = "done" => Holds(Log, m)

StoreInv ==
  /\ StoreTypeOK /\ CallsTakeTurns /\ TemporaryIsComplete /\ ReadersSeeWhatIsDurable
  /\ InFileIsOwned /\ DoneIsInFile

-----------------------------------------------------------------------------
LEMMA AppendHolds ==
  ASSUME NEW s \in Seq(Calls), NEW x \in Calls, NEW m
  PROVE  Holds(Append(s, x), m) <=> Holds(s, m) \/ m = x
<1>1. /\ DOMAIN s = 1..Len(s) /\ DOMAIN Append(s, x) = 1..(Len(s) + 1) /\ Len(s) \in Nat
      /\ \A i \in 1..Len(s) : Append(s, x)[i] = s[i]
      /\ Append(s, x)[Len(s) + 1] = x
  OBVIOUS
<1>. QED BY <1>1 DEF Holds

LEMMA NothingHeld == \A m : ~Holds(<<>>, m)
BY DEF Holds

LEMMA StoreInvInit == StoreInit => StoreInv
BY NothingHeld DEF StoreInit, StoreInv, StoreTypeOK, Content, Steps, CallsTakeTurns, CallUnderWay,
   TemporaryIsComplete, ReadersSeeWhatIsDurable, Up, InFileIsOwned, DoneIsInFile, Log

LEMMA StoreTypeStep ==
  ASSUME StoreInv, [StoreNext]_storeVars
  PROVE  StoreTypeOK'
<1>. USE DEF StoreInv, StoreTypeOK, Content, Steps
<1>1. <<>> \in Content
  OBVIOUS
<1>2. CASE Boot \/ Created
  <2>1. UNCHANGED <<queue, current, reply, crashes>> /\ step' \in {"idle", "loading"}
    BY <1>2 DEF Boot, Created
  <2>2. \/ data' = file /\ file # Nothing /\ UNCHANGED <<file, tmp>>
        \/ data' = <<>> /\ tmp' = <<>> /\ file' = file
        \/ file' = tmp /\ UNCHANGED <<data, tmp>>
    BY <1>2 DEF Boot, Created
  <2>3. data' \in Content /\ {file', tmp'} \subseteq Content \cup {Nothing}
    BY ONLY <1>1, <2>2, StoreTypeOK DEF StoreTypeOK
  <2>. QED BY <2>1, <2>3
<1>3. ASSUME NEW m \in Calls, Mutate(m) PROVE StoreTypeOK'
  BY <1>3 DEF Mutate
<1>4. CASE Dequeue
  BY <1>4 DEF Dequeue
<1>5. CASE Applied \/ Written \/ Renamed \/ Adopted
  <2>1. CallUnderWay
    BY <1>5 DEF Applied, Written, Renamed, Adopted, CallUnderWay
  <2>2. current \in Calls
    BY <2>1 DEF CallsTakeTurns
  <2>3. Append(data, current) \in Content
    BY <2>2
  <2>4. CASE Applied
    BY <2>4 DEF Applied
  <2>5. CASE Written
    BY <2>3, <2>5 DEF Written, WithMutation
  <2>6. CASE Renamed
    BY <2>6 DEF Renamed
  <2>7. CASE Adopted
    BY <2>2, <2>3, <2>7 DEF Adopted, WithMutation
  <2>. QED BY <1>5, <2>4, <2>5, <2>6, <2>7
<1>6. CASE Failed
  BY <1>6 DEF Failed
<1>7. CASE Crash
  BY <1>7 DEF Crash
<1>8. CASE UNCHANGED storeVars
  BY <1>8 DEF storeVars
<1>. QED BY <1>2, <1>3, <1>4, <1>5, <1>6, <1>7, <1>8 DEF StoreNext, Working

LEMMA TurnsStep ==
  ASSUME StoreInv, [StoreNext]_storeVars
  PROVE  CallsTakeTurns'
<1>. USE StoreAssumption DEF StoreInv, StoreTypeOK, Content, Steps, CallsTakeTurns, CallUnderWay
<1>1. CASE Boot \/ Created \/ Applied \/ Written \/ Renamed
  BY <1>1 DEF Boot, Created, Applied, Written, Renamed
<1>2. ASSUME NEW m \in Calls, Mutate(m) PROVE CallsTakeTurns'
  BY <1>2 DEF Mutate
<1>3. CASE Dequeue
  BY <1>3 DEF Dequeue
<1>4. CASE Adopted \/ Failed
  BY <1>4 DEF Adopted, Failed
<1>5. CASE Crash
  BY <1>5 DEF Crash
<1>6. CASE UNCHANGED storeVars
  BY <1>6 DEF storeVars
<1>. QED BY <1>1, <1>2, <1>3, <1>4, <1>5, <1>6 DEF StoreNext, Working

LEMMA FileStep ==
  ASSUME StoreInv, [StoreNext]_storeVars
  PROVE  TemporaryIsComplete' /\ ReadersSeeWhatIsDurable'
<1>. USE DEF StoreInv, StoreTypeOK, CallsTakeTurns, CallUnderWay, TemporaryIsComplete,
             ReadersSeeWhatIsDurable, Up
<1>1. CASE Boot \/ Created
  BY <1>1 DEF Boot, Created
<1>2. ASSUME NEW m \in Calls, Mutate(m) PROVE TemporaryIsComplete' /\ ReadersSeeWhatIsDurable'
  BY <1>2 DEF Mutate
<1>3. CASE Dequeue \/ Applied \/ Written
  BY <1>3 DEF Dequeue, Applied, Written, WithMutation
<1>4. CASE Renamed
  BY <1>4 DEF Renamed
<1>5. CASE Adopted
  BY <1>5 DEF Adopted, WithMutation
<1>6. CASE Failed \/ Crash
  BY <1>6 DEF Failed, Crash
<1>7. CASE UNCHANGED storeVars
  BY <1>7 DEF storeVars
<1>. QED BY <1>1, <1>2, <1>3, <1>4, <1>5, <1>6, <1>7 DEF StoreNext, Working

\* While the store is up its file exists.
LEMMA UpHasFile == StoreInv /\ Up => file \in Seq(Calls) /\ Log = file
<1>. SUFFICES ASSUME StoreInv, Up PROVE file \in Seq(Calls)
  BY StoreAssumption DEF Log
<1>1. data \in Seq(Calls) /\ (step = "adopting" => current \in Calls)
  BY DEF StoreInv, StoreTypeOK, Content, CallsTakeTurns, CallUnderWay
<1>2. file = data \/ (step = "adopting" /\ file = Append(data, current))
  BY DEF StoreInv, ReadersSeeWhatIsDurable
<1>. QED BY <1>1, <1>2

\* The rename is the only step that changes what the file says, by one call that
\* it does not hold.
LEMMA LogStep ==
  ASSUME StoreInv, [StoreNext]_storeVars
  PROVE  \/ Log' = Log /\ ~Renamed
         \/ /\ Renamed /\ current \in Calls /\ reply[current] = "pending"
            /\ Log \in Seq(Calls) /\ Log' = Append(Log, current) /\ ~Holds(Log, current)
<1>1. CASE Renamed
  <2>1. current \in Calls /\ reply[current] = "pending" /\ step = "renaming" /\ Up
    BY <1>1, StoreAssumption DEF Renamed, StoreInv, StoreTypeOK, CallsTakeTurns, CallUnderWay, Up
  <2>2. Log = data /\ Log \in Seq(Calls)
    BY <2>1, UpHasFile DEF StoreInv, ReadersSeeWhatIsDurable
  <2>3. file' = Append(Log, current)
    BY <1>1, <2>1, <2>2 DEF Renamed, StoreInv, TemporaryIsComplete
  <2>4. Log' = Append(Log, current)
    <3>1. Append(Log, current) \in Seq(Calls)
      BY <2>1, <2>2
    <3>. QED BY <2>3, <3>1, StoreAssumption DEF Log
  <2>5. ~Holds(Log, current)
    BY <2>1 DEF StoreInv, InFileIsOwned
  <2>. QED BY <1>1, <2>1, <2>2, <2>4, <2>5
<1>2. CASE ~Renamed
  <2>1. CASE Created
    BY <1>2, <2>1 DEF Created, StoreInv, TemporaryIsComplete, Log
  <2>2. CASE ~Created
    <3>1. file' = file
      BY <1>2, <2>2 DEF StoreNext, Working, Boot, Mutate, Dequeue, Applied, Written, Failed,
                        Adopted, Crash, storeVars
    <3>. QED BY <1>2, <3>1 DEF Log
  <2>. QED BY <2>1, <2>2
<1>. QED BY <1>1, <1>2

LEMMA OwnedStep ==
  ASSUME StoreInv, [StoreNext]_storeVars
  PROVE  InFileIsOwned' /\ DoneIsInFile'
<1>. USE StoreAssumption
     DEF StoreInv, StoreTypeOK, CallsTakeTurns, CallUnderWay, InFileIsOwned, DoneIsInFile
<1>1. CASE Renamed
  <2>1. /\ current \in Calls /\ Log \in Seq(Calls) /\ Log' = Append(Log, current)
        /\ step = "renaming" /\ step' = "adopting" /\ UNCHANGED <<current, reply>>
    BY <1>1, LogStep DEF Renamed
  <2>2. \A m : Holds(Log', m) <=> Holds(Log, m) \/ m = current
    BY <2>1, AppendHolds
  <2>3. \A m : Holds(Log, m)' <=> Holds(Log', m)
    BY DEF Holds
  <2>. QED BY <2>1, <2>2, <2>3
<1>2. CASE ~Renamed
  <2>1. Log' = Log
    BY <1>2, LogStep
  <2>2. \A m : Holds(Log, m)' <=> Holds(Log, m)
    BY <2>1 DEF Holds
  <2>3. CASE Boot \/ Created \/ Dequeue \/ Applied \/ Written \/ UNCHANGED storeVars
    <3>1. reply' = reply /\ ((step = "adopting" /\ current # Nothing)
                              => (step' = "adopting" /\ current' = current))
      BY <2>3 DEF Boot, Created, Dequeue, Applied, Written, storeVars
    <3>. QED BY <2>2, <3>1
  <2>4. ASSUME NEW m \in Calls, Mutate(m) PROVE InFileIsOwned' /\ DoneIsInFile'
    BY <2>2, <2>4 DEF Mutate
  <2>5. CASE Failed
    BY <2>2, <2>5 DEF Failed
  <2>6. CASE Adopted
    <3>1. step = "adopting" /\ current \in Calls /\ reply' = [reply EXCEPT ![current] = "done"]
      BY <2>6 DEF Adopted
    <3>2. Holds(Log, current)
      <4>1. Log = Append(data, current)
        BY <3>1, UpHasFile DEF TemporaryIsComplete, Up
      <4>. QED BY <3>1, <4>1, AppendHolds DEF Content
    <3>. QED BY <2>2, <3>1, <3>2
  <2>7. CASE Crash
    BY <2>2, <2>7 DEF Crash
  <2>. QED BY <1>2, <2>3, <2>4, <2>5, <2>6, <2>7 DEF StoreNext, Working
<1>. QED BY <1>1, <1>2

-----------------------------------------------------------------------------
\* The inductive invariant holds in every reachable state.
THEOREM StoreInvariant == StoreSpec => []StoreInv
<1>1. StoreInv /\ [StoreNext]_storeVars => StoreInv'
  BY StoreTypeStep, TurnsStep, FileStep, OwnedStep DEF StoreInv
<1>. QED BY <1>1, StoreInvInit, PTL DEF StoreSpec

\* Readers never see what a crash could take back.
THEOREM ReadersSeeTheFile == StoreSpec => []ReadersSeeWhatIsDurable
<1>1. StoreInv => ReadersSeeWhatIsDurable
  BY DEF StoreInv
<1>. QED BY <1>1, StoreInvariant, PTL

\* The store implements DurableStore: a step of it commits the call whose file is
\* renamed, answers a call truly, or is nothing to its callers.
THEOREM StoreImplementsDurableStore == StoreSpec => StoreIsDurable
<1>. DEFINE answers == [m \in Calls |-> IF reply[m] \in {"done", "refused"} THEN reply[m]
                                        ELSE "nothing"]
<1>1. StoreInit => Durable!DurableInit
  BY DEF StoreInit, Durable!DurableInit
<1>2. StoreInv /\ [StoreNext]_storeVars
        => [\E m \in Calls : Durable!Commit(m) \/ Durable!Answer(m)]_<<Log, answers>>
  <2>. SUFFICES ASSUME StoreInv, [StoreNext]_storeVars
                PROVE  \/ \E m \in Calls : Durable!Commit(m) \/ Durable!Answer(m)
                       \/ UNCHANGED <<Log, answers>>
    OBVIOUS
  <2>. USE StoreAssumption
  <2>0. \A m : Durable!Committed(m) <=> Holds(Log, m)
    BY DEF Durable!Committed, Holds, Log
  <2>1. CASE Renamed
    <3>1. answers' = answers
      BY <2>1 DEF Renamed
    <3>2. answers[current] = "nothing"
      BY <2>1, LogStep
    <3>. QED BY <2>0, <2>1, <3>1, <3>2, LogStep DEF Durable!Commit, Log
  <2>2. ASSUME ~Renamed, current \in Calls, reply[current] = "pending",
               reply' = [reply EXCEPT ![current] = reply'[current]],
               \/ reply'[current] = "done" /\ Holds(Log, current)
               \/ reply'[current] = "refused" /\ ~Holds(Log, current)
        PROVE  Durable!Answer(current)
    <3>1. answers[current] = "nothing" /\ answers' = [answers EXCEPT ![current] = reply'[current]]
      BY <2>2 DEF StoreInv, StoreTypeOK
    <3>2. Log' = Log
      BY <2>2, LogStep
    <3>. QED BY <2>0, <2>2, <3>1, <3>2 DEF Durable!Answer, Log
  <2>3. CASE Adopted
    <3>1. step = "adopting" /\ reply' = [reply EXCEPT ![current] = "done"] /\ ~Renamed
      BY <2>3 DEF Adopted, Renamed
    <3>2. current \in Calls /\ reply[current] = "pending" /\ data \in Seq(Calls)
      BY <3>1 DEF StoreInv, StoreTypeOK, Content, CallsTakeTurns, CallUnderWay
    <3>3. Log = Append(data, current)
      BY <3>1, UpHasFile DEF StoreInv, TemporaryIsComplete, Up
    <3>4. Holds(Log, current)
      BY <3>2, <3>3, AppendHolds
    <3>5. reply'[current] = "done"
      BY <3>1, <3>2 DEF StoreInv, StoreTypeOK
    <3>6. Durable!Answer(current)
      BY <2>2, <3>1, <3>2, <3>4, <3>5
    <3>. QED BY <3>2, <3>6 DEF Durable!Answer
  <2>4. CASE Failed
    <3>1. /\ step # "adopting" /\ CallUnderWay /\ reply' = [reply EXCEPT ![current] = "refused"]
          /\ ~Renamed
      BY <2>4 DEF Failed, Renamed, CallUnderWay
    <3>2. current \in Calls /\ reply[current] = "pending"
      BY <3>1 DEF StoreInv, StoreTypeOK, CallsTakeTurns
    <3>3. ~Holds(Log, current)
      BY <3>1, <3>2 DEF StoreInv, InFileIsOwned
    <3>5. reply'[current] = "refused"
      BY <3>1, <3>2 DEF StoreInv, StoreTypeOK
    <3>6. Durable!Answer(current)
      BY <2>2, <3>1, <3>2, <3>3, <3>5
    <3>. QED BY <3>2, <3>6 DEF Durable!Answer
  <2>5. CASE ~Renamed /\ ~Adopted /\ ~Failed
    <3>1. Log' = Log
      BY <2>5, LogStep
    <3>2. answers' = answers
      <4>1. ASSUME NEW m \in Calls, Mutate(m) PROVE answers' = answers
        BY <4>1 DEF Mutate, StoreInv, StoreTypeOK
      <4>2. CASE Crash
        BY <4>2 DEF Crash, StoreInv, StoreTypeOK
      <4>3. CASE reply' = reply
        BY <4>3
      <4>. QED BY <2>5, <4>1, <4>2, <4>3
               DEF StoreNext, Working, Boot, Created, Dequeue, Applied, Written, storeVars
    <3>. QED BY <3>1, <3>2
  <2>. QED BY <2>1, <2>3, <2>4, <2>5
<1>. QED BY <1>1, <1>2, StoreInvariant, PTL
     DEF StoreSpec, StoreIsDurable, Durable!DurableSpec, Log

-----------------------------------------------------------------------------
(* The operator's session                                                  *)

\* A request that is on its way was refused at most once, one that was refused
\* is reported after the second time, and whoever waits has not been sent.
TwoTriesAtMost ==
  \A r \in Requests :
    /\ outcome[r] \in {"new", "waiting", "sent"} => refusals[r] <= 1
    /\ outcome[r] = "refused" => refusals[r] \in 1..2
    /\ r \in waiting => outcome[r] = "waiting"

SessionInv == SessionTypeOK /\ TwoTriesAtMost

\* There is an oldest token.
LEMMA OldestExists ==
  ASSUME NEW S \in SUBSET Nat, S # {}
  PROVE  \E t \in S : \A u \in S : t <= u
<1>1. PICK t \in S : \A u \in S : ~ (<<u, t>> \in OpToRel(<, Nat))
  BY NatLessThanWellFounded, WFMin
<1>2. \A u \in S : ~(u < t)
  BY <1>1 DEF OpToRel
<1>. QED BY <1>2

\* One element more.
LEMMA OneMore ==
  ASSUME NEW S, NEW x, IsFiniteSet(S)
  PROVE  /\ IsFiniteSet(S \cup {x}) /\ Cardinality(S) \in Nat
         /\ Cardinality(S \cup {x}) \in Nat /\ Cardinality(S \cup {x}) <= Cardinality(S) + 1
<1>1. /\ IsFiniteSet(S \cup {x})
      /\ Cardinality(S \cup {x}) = IF x \in S THEN Cardinality(S) ELSE Cardinality(S) + 1
  BY FS_AddElement, Zenon
<1>2. Cardinality(S) \in Nat
  BY FS_CardinalityType
<1>. QED BY <1>1, <1>2

\* Those with fewer than n younger ones beside them are at most n.
LEMMA YoungestAreFew ==
  ASSUME NEW S \in SUBSET Nat, IsFiniteSet(S), NEW n \in Nat,
         NEW few, few = {t \in S : Cardinality({u \in S : t < u}) < n}
  PROVE  IsFiniteSet(few) /\ Cardinality(few) <= n
<1>1. IsFiniteSet(few) /\ few \in SUBSET Nat
  BY FS_Subset
<1>2. CASE few = {}
  <2>1. Cardinality(few) = 0
    BY <1>2, FS_EmptySet, Zenon
  <2>. QED BY <1>1, <2>1
<1>3. CASE few # {}
  <2>1. PICK t \in few : \A u \in few : t <= u
    BY <1>1, <1>3, OldestExists
  <2>. DEFINE younger == {u \in S : t < u}
  <2>2. IsFiniteSet(younger) /\ Cardinality(younger) < n
    BY <2>1, FS_Subset
  <2>3. few \subseteq younger \cup {t}
    <3>1. ASSUME NEW u \in few PROVE u \in S /\ (u = t \/ t < u)
      BY <1>1, <2>1, <3>1
    <3>. QED BY <3>1
  <2>. HIDE DEF younger
  <2>4. /\ IsFiniteSet(younger \cup {t}) /\ Cardinality(younger) \in Nat
        /\ Cardinality(younger \cup {t}) \in Nat
        /\ Cardinality(younger \cup {t}) <= Cardinality(younger) + 1
    BY <2>2, OneMore
  <2>5. Cardinality(few) <= Cardinality(younger \cup {t}) /\ Cardinality(few) \in Nat
    BY <2>3, <2>4, FS_Subset, FS_CardinalityType, <1>1
  <2>. QED BY <1>1, <2>2, <2>4, <2>5
<1>. QED BY <1>2, <1>3

\* A token more, and no more of them than there is room for.
LEMMA MintedIsToken ==
  ASSUME SessionTypeOK, Mint
  PROVE  /\ sessions' \subseteq Nat /\ stale' \subseteq Nat /\ minted' \in Nat
         /\ IsFiniteSet(sessions') /\ Cardinality(sessions') <= MaxSessions
<1>. DEFINE kept == sessions \ stale
            few == {t \in kept : Cardinality({u \in kept : t < u}) < MaxSessions - 1}
<1>1. minted' = minted + 1 /\ stale' = stale
  BY DEF Mint
<1>2. kept \in SUBSET Nat /\ IsFiniteSet(kept)
  BY FS_Subset DEF SessionTypeOK
<1>3. MaxSessions - 1 \in Nat /\ MaxSessions \in Nat
  BY SessionAssumption
<1>4. sessions' = few \cup {minted + 1}
  <2>1. \A t \in kept : Cardinality({u \in kept : t < u}) \in Nat
    BY <1>2, FS_Subset, FS_CardinalityType
  <2>. QED BY <1>3, <2>1 DEF Mint, Spared, Younger
<1>5. IsFiniteSet(few) /\ Cardinality(few) <= MaxSessions - 1
  <2>. HIDE DEF kept
  <2>. QED BY <1>2, <1>3, YoungestAreFew
<1>6. few \subseteq Nat
  BY <1>2
<1>. HIDE DEF few
<1>7. /\ IsFiniteSet(sessions') /\ Cardinality(few) \in Nat /\ Cardinality(sessions') \in Nat
      /\ Cardinality(sessions') <= Cardinality(few) + 1
  BY <1>4, <1>5, OneMore
<1>. QED BY <1>1, <1>3, <1>4, <1>5, <1>6, <1>7 DEF SessionTypeOK

\* Dropping tokens keeps the table within its limit.
LEMMA FewerTokens ==
  ASSUME SessionTypeOK, sessions' \subseteq sessions
  PROVE  /\ sessions' \subseteq Nat /\ IsFiniteSet(sessions')
         /\ Cardinality(sessions') <= MaxSessions
<1>1. IsFiniteSet(sessions') /\ Cardinality(sessions') <= Cardinality(sessions)
  BY FS_Subset DEF SessionTypeOK
<1>2. Cardinality(sessions') \in Nat /\ Cardinality(sessions) \in Nat /\ MaxSessions \in Nat
  BY <1>1, FS_CardinalityType, SessionAssumption DEF SessionTypeOK
<1>. QED BY <1>1, <1>2 DEF SessionTypeOK

\* The console sends a request again once: one that is on its way has been refused
\* at most once (api.ts:96-113).  The server's table never holds more sessions than
\* its limit (app.ts:200-222).
THEOREM SessionInvariant == SessionSpec => []SessionInv
<1>. USE DEF SessionInv, SessionTypeOK, TwoTriesAtMost, NoToken
<1>1. SessionInit => SessionInv
  BY FS_EmptySet, SessionAssumption DEF SessionInit
<1>2. SessionInv /\ [SessionNext]_sessionVars => SessionInv'
  <2>. SUFFICES ASSUME SessionInv, [SessionNext]_sessionVars PROVE SessionInv'
    OBVIOUS
  <2>1. CASE LogInElsewhere
    BY <2>1, MintedIsToken DEF LogInElsewhere
  <2>2. CASE Lapse \/ ServerRestarts
    <3>1. sessions' \subseteq sessions
      BY <2>2 DEF Lapse, ServerRestarts
    <3>. QED BY <2>2, <3>1, FewerTokens DEF Lapse, ServerRestarts
  <2>3. CASE LoginServed
    BY <2>3, MintedIsToken DEF LoginServed
  <2>4. CASE LoginFails
    BY <2>4 DEF LoginFails, serverSide
  <2>5. CASE LoginReturns
    BY <2>5 DEF LoginReturns, serverSide
  <2>6. ASSUME NEW r \in Requests, BeginRequest(r) PROVE SessionInv'
    BY <2>6 DEF BeginRequest, Obtain, serverSide
  <2>7. ASSUME NEW r \in Requests, Serve(r) PROVE SessionInv'
    <3>1. /\ outcome[r] = "sent" /\ refusals[r] <= 1
          /\ UNCHANGED <<stale, minted, cached, login, answered, waiting, using>>
      BY <2>7 DEF Serve
    <3>2. CASE using[r] \in sessions \ stale
      BY <2>7, <3>1, <3>2 DEF Serve
    <3>3. CASE using[r] \notin sessions \ stale
      <4>1. /\ outcome' = [outcome EXCEPT ![r] = "refused"] /\ sessions' \subseteq sessions
            /\ refusals' = [refusals EXCEPT ![r] = refusals[r] + 1]
        BY <2>7, <3>3 DEF Serve
      <4>2. refusals[r] + 1 \in 1..2
        BY <3>1
      <4>. QED BY <3>1, <4>1, <4>2, FewerTokens
    <3>. QED BY <3>2, <3>3
  <2>8. ASSUME NEW r \in Requests, Refused(r) PROVE SessionInv'
    BY <2>8 DEF Refused, Obtain, serverSide
  <2>9. CASE UNCHANGED sessionVars
    BY <2>9 DEF sessionVars
  <2>. QED BY <2>1, <2>2, <2>3, <2>4, <2>5, <2>6, <2>7, <2>8, <2>9 DEF SessionNext, Console
<1>. QED BY <1>1, <1>2, PTL DEF SessionSpec

-----------------------------------------------------------------------------
(* The parts side by side                                                  *)

\* A behaviour of the parts is one of each of them: the part that is exercised
\* steps, and the others stutter.
THEOREM PartsAreParts ==
  PartsSpec => Spec /\ KeySpec /\ StoreSpec /\ SessionSpec /\ ProcessSpec /\ NetworkSpec
<1>. DEFINE all == <<exercised, vars, keyVars, storeVars, sessionVars, processVars, networkVars>>
<1>1. PartsInit => Init /\ KeyInit /\ StoreInit /\ SessionInit /\ ProcessInit /\ NetworkInit
  BY DEF PartsInit
<1>2. [PartsNext]_all => /\ [Next]_vars /\ [KeyNext]_keyVars /\ [StoreNext]_storeVars
                         /\ [SessionNext]_sessionVars /\ [ProcessNext]_processVars
                         /\ [NetworkNext]_networkVars
  BY DEF PartsNext
<1>. QED BY <1>1, <1>2, PTL
     DEF PartsSpec, Spec, KeySpec, StoreSpec, SessionSpec, ProcessSpec, NetworkSpec

\* Side by side, every variable of every part keeps its type, and no request of
\* the console is refused more than twice.
THEOREM PartsTypeCorrect == PartsSpec => []PartsTypeOK
<1>1. KeyInv => KeyTypeOK
  BY DEF KeyInv
<1>2. StoreInv => StoreTypeOK
  BY DEF StoreInv
<1>3. SessionInv => SessionTypeOK
  BY DEF SessionInv
<1>4. NetworkInv => NetworkTypeOK
  BY DEF NetworkInv
<1>. QED BY <1>1, <1>2, <1>3, <1>4, PartsAreParts, EgressTypeCorrect, KeyInvariant,
            StoreInvariant, SessionInvariant, ProcessTypeCorrect, NetworkInvariant, PTL
         DEF PartsTypeOK
=============================================================================
