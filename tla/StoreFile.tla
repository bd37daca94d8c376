------------------------------ MODULE StoreFile ------------------------------
(***************************************************************************)
(* JsonStore (store.ts:322-366): one queue of mutations, each applied to a *)
(* clone of the data, written to a temporary file that is renamed over the *)
(* data file, and only then shown to readers.  The process may die at any  *)
(* point and be started again on the file it left.                         *)
(***************************************************************************)
EXTENDS Naturals, Sequences

CONSTANTS
  Calls,       \* calls of mutate, each adding itself to the database
  Nothing,        \* no file, no complete file, or no mutation
  MaxCrashes   \* bound

ASSUME StoreAssumption == Nothing \notin Calls \cup Seq(Calls) /\ MaxCrashes \in Nat

VARIABLES
  file,      \* the data file: the mutations it holds in order, or Nothing
  tmp,       \* the temporary file: its content, or Nothing when it is incomplete
  data,      \* this.data, what snapshot() returns
  queue,     \* calls waiting in this.queue
  current,   \* the call whose operation runs, or Nothing
  step,      \* "down", "loading", "idle", "mutating", "writing", "renaming", "adopting"
  reply,     \* to each call: "uncalled", "pending", "done", "refused" or "lost"
  crashes

storeVars == <<file, tmp, data, queue, current, step, reply, crashes>>

Content == Seq(Calls)
Steps == {"down", "loading", "idle", "mutating", "writing", "renaming", "adopting"}

StoreTypeOK ==
  /\ file \in Content \cup {Nothing} /\ tmp \in Content \cup {Nothing}
  /\ data \in Content /\ queue \in Seq(Calls) /\ current \in Calls \cup {Nothing}
  /\ step \in Steps
  /\ reply \in [Calls -> {"uncalled", "pending", "done", "refused", "lost"}]
  /\ crashes \in Nat

StoreInit ==
  /\ file = Nothing /\ tmp = <<>> /\ data = <<>> /\ queue = <<>> /\ current = Nothing
  /\ step = "down" /\ reply = [m \in Calls |-> "uncalled"] /\ crashes = 0

\* initialize: an absent file is created empty, with the same write and rename.
Boot ==
  /\ step = "down"
  /\ \/ /\ file # Nothing /\ data' = file /\ step' = "idle" /\ UNCHANGED tmp
     \/ /\ file = Nothing /\ data' = <<>> /\ step' = "loading" /\ tmp' = <<>>
  /\ UNCHANGED <<file, queue, current, reply, crashes>>

Created ==
  /\ step = "loading" /\ file' = tmp /\ step' = "idle"
  /\ UNCHANGED <<tmp, data, queue, current, reply, crashes>>

Up == step \notin {"down", "loading"}

Mutate(m) ==
  /\ Up /\ reply[m] = "uncalled"
  /\ reply' = [reply EXCEPT ![m] = "pending"]
  /\ queue' = Append(queue, m)
  /\ UNCHANGED <<file, tmp, data, current, step, crashes>>

\* The previous operation has settled, well or not: `operation.catch'.
Dequeue ==
  /\ step = "idle" /\ queue # <<>>
  /\ current' = Head(queue) /\ queue' = Tail(queue) /\ step' = "mutating"
  /\ UNCHANGED <<file, tmp, data, reply, crashes>>

\* The callback returned; it may be asynchronous.
Applied ==
  /\ step = "mutating" /\ step' = "writing"
  /\ UNCHANGED <<file, tmp, data, queue, current, reply, crashes>>

WithMutation(m) == Append(data, m)

\* Slip: the data file itself is written.
WrittenInPlace ==
  /\ step = "writing"
  /\ tmp' = WithMutation(current) /\ file' = WithMutation(current) /\ step' = "renaming"
  /\ UNCHANGED <<data, queue, current, reply, crashes>>

Written ==
  /\ step = "writing"
  /\ tmp' = WithMutation(current) /\ step' = "renaming"
  /\ UNCHANGED <<file, data, queue, current, reply, crashes>>

Renamed ==
  /\ step = "renaming" /\ file' = tmp /\ step' = "adopting"
  /\ UNCHANGED <<tmp, data, queue, current, reply, crashes>>

\* Slip: the operations behind a failed one never start.
FailedForAll ==
  /\ step \in {"mutating", "writing", "renaming"}
  /\ tmp' = IF step = "writing" THEN Nothing ELSE tmp
  /\ reply' = [reply EXCEPT ![current] = "refused"]
  /\ step' = "idle" /\ current' = Nothing /\ queue' = <<>>
  /\ UNCHANGED <<file, data, crashes>>

\* The callback throws, or the write or the rename fails.
Failed ==
  /\ step \in {"mutating", "writing", "renaming"}
  /\ tmp' = IF step = "writing" THEN Nothing ELSE tmp
  /\ reply' = [reply EXCEPT ![current] = "refused"]
  /\ step' = "idle" /\ current' = Nothing
  /\ UNCHANGED <<file, data, queue, crashes>>

\* this.data = next, and the caller goes on.
Adopted ==
  /\ step = "adopting"
  /\ data' = WithMutation(current)
  /\ reply' = [reply EXCEPT ![current] = "done"]
  /\ step' = "idle" /\ current' = Nothing
  /\ UNCHANGED <<file, tmp, queue, crashes>>

\* The process dies; a write under way leaves part of the temporary file.
Crash ==
  /\ step # "down" /\ crashes < MaxCrashes
  /\ tmp' \in IF step \in {"writing", "loading"} THEN {tmp, Nothing} ELSE {tmp}
  /\ data' = <<>> /\ queue' = <<>> /\ current' = Nothing /\ step' = "down"
  /\ reply' = [m \in Calls |-> IF reply[m] = "pending" THEN "lost" ELSE reply[m]]
  /\ crashes' = crashes + 1
  /\ UNCHANGED file

Working == Dequeue \/ Applied \/ Written \/ Renamed \/ Adopted

StoreNext ==
  \/ Boot \/ Created \/ Working \/ Failed \/ Crash
  \/ \E m \in Calls : Mutate(m)

StoreSpec == StoreInit /\ [][StoreNext]_storeVars
StoreFairness == WF_storeVars(Working)
FairStoreSpec == StoreSpec /\ StoreFairness

-----------------------------------------------------------------------------
\* Whatever fails or dies, an answered mutation is in the file for good and a
\* refused one never is: the store implements DurableStore, with the rename as
\* the moment a mutation takes effect.
Durable ==
  INSTANCE DurableStore WITH
    committed <- IF file = Nothing THEN <<>> ELSE file,
    answer <- [m \in Calls |-> IF reply[m] \in {"done", "refused"} THEN reply[m]
                                ELSE "nothing"]

StoreIsDurable == Durable!DurableSpec

\* Readers never see what a crash could take back: what snapshot() returns is in
\* the file, which is at most the mutation being finished ahead of it.
ReadersSeeWhatIsDurable ==
  Up => \/ file = data
        \/ step = "adopting" /\ file = Append(data, current)

\* Every call is answered unless the process dies: a mutation that throws or
\* cannot be written does not stop the ones behind it (store.ts:353).
CallsAreAnswered ==
  \A m \in Calls : reply[m] = "pending" ~> reply[m] # "pending"
=============================================================================
