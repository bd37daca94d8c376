----------------------------- MODULE ReceiptKey -----------------------------
(***************************************************************************)
(* Loading or creating the key pair that signs receipts                    *)
(* (loadOrCreateReceiptKeyPair, termination.ts:220-257): two files and an  *)
(* exclusive lock file in the data directory, shared by every server that  *)
(* is started on it.  A process may die anywhere, and then leaves the lock *)
(* and the half of the pair it has published.                              *)
(***************************************************************************)
CONSTANTS Loaders, None

ASSUME NoneIsNoLoader == None \notin Loaders

VARIABLES
  disk,    \* for each file the process that generated its content, or None
  lock,    \* the process whose lock file exists, or None
  at,      \* where each process is
  seen,    \* what its two lstats found
  got      \* what its two reads returned

keyVars == <<disk, lock, at, seen, got>>

File == {"private", "public"}
Blank == [f \in File |-> "unknown"]
Unread == [f \in File |-> "unknown"]
Places == {"off", "looking", "checking lock", "waiting", "acquiring", "looking again",
           "creating", "publishing", "rereading", "reading", "trusts", "refuses",
           "timed out", "dead"}

KeyTypeOK ==
  /\ disk \in [File -> Loaders \cup {None}]
  /\ lock \in Loaders \cup {None}
  /\ at \in [Loaders -> Places]
  /\ seen \in [Loaders -> [File -> {"unknown", "absent", "present"}]]
  /\ got \in [Loaders -> [File -> Loaders \cup {None, "unknown"}]]

KeyInit ==
  /\ disk = [f \in File |-> None] /\ lock = None
  /\ at = [l \in Loaders |-> "off"]
  /\ seen = [l \in Loaders |-> Blank] /\ got = [l \in Loaders |-> Unread]

Goto(l, place) == at' = [at EXCEPT ![l] = place]
Forget(l) == seen' = [seen EXCEPT ![l] = Blank]

Launch(l) == at[l] = "off" /\ Goto(l, "looking") /\ UNCHANGED <<disk, lock, seen, got>>

\* pathExists of either file; the two lstats run in parallel.
Lstat(l, f) ==
  /\ at[l] \in {"looking", "looking again"} /\ seen[l][f] = "unknown"
  /\ seen' = [seen EXCEPT ![l][f] = IF disk[f] = None THEN "absent" ELSE "present"]
  /\ UNCHANGED <<disk, lock, at, got>>

Complete(l) == \A f \in File : seen[l][f] = "present"
Absent(l) == \A f \in File : seen[l][f] = "absent"
Partial(l) == /\ \A f \in File : seen[l][f] # "unknown"
              /\ ~Complete(l) /\ ~Absent(l)

Judge(l) ==
  /\ at[l] = "looking"
  /\ \/ Complete(l) /\ Goto(l, "reading")
     \/ Partial(l) /\ Goto(l, "checking lock")
     \/ Absent(l) /\ Goto(l, "acquiring")
  /\ Forget(l) /\ UNCHANGED <<disk, lock, got>>

\* Half a pair: somebody is publishing it, or died doing so.
CheckLock(l) ==
  /\ at[l] = "checking lock"
  /\ Goto(l, IF lock = None THEN "refuses" ELSE "waiting")
  /\ UNCHANGED <<disk, lock, seen, got>>

\* waitForInitialization saw the lock disappear: look again.
Await(l) ==
  /\ at[l] = "waiting" /\ lock = None /\ Goto(l, "looking")
  /\ UNCHANGED <<disk, lock, seen, got>>

\* Slip: the files are not looked at again under the lock.
AcquireAndCreate(l) ==
  /\ at[l] = "acquiring" /\ lock = None
  /\ lock' = l /\ Goto(l, "creating")
  /\ UNCHANGED <<disk, seen, got>>

Acquire(l) ==
  /\ at[l] = "acquiring" /\ lock = None
  /\ lock' = l /\ Goto(l, "looking again")
  /\ UNCHANGED <<disk, seen, got>>

\* Slip: no deadline.
GiveUpWaitingOnly(l) ==
  /\ at[l] = "waiting" /\ lock # None
  /\ Goto(l, "timed out") /\ UNCHANGED <<disk, lock, seen, got>>

\* Ten seconds and the lock is still there.
GiveUp(l) ==
  /\ at[l] \in {"waiting", "acquiring"} /\ lock # None
  /\ Goto(l, "timed out") /\ UNCHANGED <<disk, lock, seen, got>>

JudgeAgain(l) ==
  /\ at[l] = "looking again"
  /\ \/ Complete(l) /\ Goto(l, "reading")
     \/ Partial(l) /\ Goto(l, "refuses")
     \/ Absent(l) /\ Goto(l, "creating")
  /\ Forget(l) /\ UNCHANGED <<disk, lock, got>>

\* createReceiptKeyPair: both temporary files written, the private one renamed,
\* then the public one.
Publish(l) ==
  /\ \/ /\ at[l] = "creating"
        /\ disk' = [disk EXCEPT !["private"] = l] /\ Goto(l, "publishing")
     \/ /\ at[l] = "publishing"
        /\ disk' = [disk EXCEPT !["public"] = l] /\ Goto(l, "rereading")
  /\ UNCHANGED <<lock, seen, got>>

\* A write, a chmod, a rename or a read fails.
IOFails(l) ==
  /\ at[l] \in {"looking", "looking again", "creating", "publishing", "rereading", "reading"}
  /\ Goto(l, "refuses") /\ Forget(l) /\ UNCHANGED <<disk, lock, got>>

Read(l, f) ==
  /\ at[l] \in {"reading", "rereading"} /\ got[l][f] = "unknown" /\ disk[f] # None
  /\ got' = [got EXCEPT ![l][f] = disk[f]]
  /\ UNCHANGED <<disk, lock, at, seen>>

\* validateReceiptKeyPair.
Validate(l) ==
  /\ at[l] \in {"reading", "rereading"} /\ \A f \in File : got[l][f] # "unknown"
  /\ Goto(l, IF got[l]["private"] = got[l]["public"] THEN "trusts" ELSE "refuses")
  /\ UNCHANGED <<disk, lock, seen, got>>

\* The finally.  It awaits the creation, which ends by reading the pair again,
\* and does not await a read of a pair that was complete.
Unlock(l) ==
  /\ lock = l /\ at[l] \in {"reading", "trusts", "refuses"}
  /\ lock' = None /\ UNCHANGED <<disk, at, seen, got>>

Die(l) ==
  /\ at[l] \notin {"off", "trusts", "refuses", "timed out", "dead"}
  /\ Goto(l, "dead") /\ Forget(l) /\ UNCHANGED <<disk, lock, got>>

Loading(l) ==
  \/ Judge(l) \/ CheckLock(l) \/ Await(l) \/ Acquire(l) \/ GiveUp(l) \/ JudgeAgain(l)
  \/ Publish(l) \/ Validate(l) \/ Unlock(l)
  \/ \E f \in File : Lstat(l, f) \/ Read(l, f)

KeyNext == \E l \in Loaders : Launch(l) \/ Loading(l) \/ IOFails(l) \/ Die(l)

KeyFairness == \A l \in Loaders : WF_keyVars(Loading(l))
KeySpec == KeyInit /\ [][KeyNext]_keyVars
FairKeySpec == KeySpec /\ KeyFairness

-----------------------------------------------------------------------------
\* Every server that ends up with a key has the one that was chosen, whoever
\* started first, died half-way or lost the race for the lock.
TrustsOneKey ==
  INSTANCE OneKey WITH
    chosen <- disk["public"],
    trusted <- [l \in Loaders |-> IF at[l] = "trusts" THEN got[l]["public"] ELSE None]

KeyIsChosenOnce == TrustsOneKey!OneKeySpec

\* A server that looks for its key gets it or an error: a lock left by a dead
\* process is waited for ten seconds and not for ever.
LoadersEnd ==
  \A l \in Loaders : at[l] = "looking" ~> at[l] \in {"trusts", "refuses", "timed out", "dead"}
=============================================================================
