----------------------------- MODULE GrantLoops -----------------------------
(***************************************************************************)
(* The loops over database.grants as the code runs them, variable by       *)
(* variable: revokeGrant and cascadeGrantRevocation (identity.ts), the     *)
(* termination that cascades from every grant an agent holds               *)
(* (terminator.ts) and the recursive isGrantChainLive (run-policies.ts).   *)
(* What they leave is compared with the closures Grants is built on.       *)
(*                                                                         *)
(* The array is arbitrary: parents may be missing, later in the array, or  *)
(* in a cycle, which is what a hand-edited or migrated data file can hold. *)
(* A behaviour makes an array and one call.                                *)
(***************************************************************************)
EXTENDS GrantRules

CONSTANTS
  Drafts,       \* the grants an array is made of
  Instants,     \* the times of a call
  MaxArray      \* bound: grants in the array

ASSUME LoopsAssumption ==
  Drafts \subseteq Grant /\ Instants \subseteq Nat /\ MaxArray \in Nat

VARIABLES
  array,     \* database.grants
  found,     \* what it was when the call began
  call,      \* "revokeGrant", "revokeAndBlock" or "isGrantChainLive", or NoCall
  doing,     \* "idle", "cascade", "next", "walk", "done"
  argument,  \* the grant or the agent of the call
  instant,   \* nowIso of a walk
  roots,     \* a termination's grants that are still to be cascaded from
  root,      \* the grant a cascade starts from
  reached,   \* toRevoke, descendants; in a walk, visiting
  cursor,    \* the candidate of the `for' loop; in a walk, the grant
  grew,      \* grew, changed
  rounds,    \* passes of the `while' loop so far; in a walk, its depth
  verdict    \* what a walk returns

loopVars == <<array, found, call, doing, argument, instant, roots, root, reached, cursor,
              grew, rounds, verdict>>

LoopInit ==
  /\ array = <<>> /\ found = <<>> /\ call = "none" /\ doing = "idle"
  /\ argument = NoParent /\ instant = 0 /\ roots = {}
  /\ root = NoParent /\ reached = {} /\ cursor = 1
  /\ grew = FALSE /\ rounds = 0 /\ verdict = "none"

AddAny ==
  /\ doing = "idle" /\ Len(array) < MaxArray
  /\ \E g \in Drafts : array' = Append(array, g)
  /\ UNCHANGED <<found, call, doing, argument, instant, roots, root, reached, cursor, grew,
                 rounds, verdict>>

Call(name, on) ==
  /\ doing = "idle" /\ call' = name /\ argument' = on /\ found' = array
  /\ UNCHANGED <<array, grew, rounds, verdict>>

\* `new Set([id])', and the first candidate.
Cascade(i) ==
  doing' = "cascade" /\ root' = i /\ reached' = {i} /\ cursor' = 1

StartRevoking(i) ==
  Call("revokeGrant", i) /\ Cascade(i) /\ UNCHANGED <<instant, roots>>

\* The roots are collected before the first of them is cascaded from.
StartTerminating(a) ==
  /\ Call("revokeAndBlock", a)
  /\ roots' = HeldUnrevoked(array, a) /\ doing' = "next"
  /\ UNCHANGED <<instant, root, reached, cursor>>

StartWalking(i, t) ==
  /\ Call("isGrantChainLive", i) /\ instant' = t
  /\ doing' = "walk" /\ reached' = {} /\ cursor' = i
  /\ UNCHANGED <<roots, root>>

-----------------------------------------------------------------------------
\* Slip: a cascade, too, passes over what is revoked already.
JoinsUnrevoked(i) ==
  /\ ~array[i].revoked
  /\ array[i].parent \in reached
  /\ i \notin reached

\* The condition inside the `for' loop; only revokeGrant looks at revokedAt.
Joins(i) ==
  /\ call = "revokeGrant" => ~array[i].revoked
  /\ array[i].parent # NoParent
  /\ array[i].parent \in reached
  /\ i \notin reached

Candidate ==
  /\ doing = "cascade" /\ cursor \in DOMAIN array
  /\ IF Joins(cursor)
     THEN reached' = reached \cup {cursor} /\ grew' = TRUE
     ELSE UNCHANGED <<reached, grew>>
  /\ cursor' = cursor + 1
  /\ UNCHANGED <<array, found, call, doing, argument, instant, roots, root, rounds, verdict>>

\* Slip: one pass over the array.
OnePass == FALSE

\* The `while' loop goes round again.
Again == grew

\* The end of the `for' loop: another pass, or what was reached is marked.
PassEnds ==
  /\ doing = "cascade" /\ cursor = Len(array) + 1
  /\ cursor' = 1 /\ grew' = FALSE
  /\ IF Again
     THEN rounds' = rounds + 1 /\ UNCHANGED <<array, doing>>
     ELSE /\ array' = RevokeAll(array, reached)
          /\ doing' = IF call = "revokeGrant" THEN "done" ELSE "next"
          /\ UNCHANGED rounds
  /\ UNCHANGED <<found, call, argument, instant, roots, root, reached, verdict>>

\* The next root, whether or not an earlier cascade revoked it.
NextRoot ==
  /\ doing = "next" /\ roots # {}
  /\ Cascade(FirstOf(roots)) /\ roots' = roots \ {FirstOf(roots)} /\ rounds' = 0
  /\ UNCHANGED <<array, found, call, argument, instant, grew, verdict>>

Terminated ==
  /\ doing = "next" /\ roots = {} /\ doing' = "done"
  /\ UNCHANGED <<array, found, call, argument, instant, roots, root, reached, cursor, grew,
                 rounds, verdict>>

-----------------------------------------------------------------------------
\* Slip: of what a grant was carved from, only the links count.
DeadItself(i) == rounds = 0 /\ (array[i].revoked \/ Expired(array[i], instant))

Dead(i) == array[i].revoked \/ Expired(array[i], instant)

\* The walk goes on with the parent; a grant that is being visited is on a cycle.
Ascends ==
  /\ cursor \notin reached
  /\ ~Dead(cursor)
  /\ array[cursor].parent # NoParent /\ LinkSound(array, cursor)

WalkUp ==
  /\ doing = "walk" /\ Ascends
  /\ reached' = reached \cup {cursor} /\ cursor' = array[cursor].parent
  /\ rounds' = rounds + 1
  /\ UNCHANGED <<array, found, call, doing, argument, instant, roots, root, grew, verdict>>

WalkEnds ==
  /\ doing = "walk" /\ ~Ascends /\ doing' = "done"
  /\ verdict' = IF cursor \notin reached /\ ~Dead(cursor) /\ array[cursor].parent = NoParent
                THEN "live" ELSE "dead"
  /\ UNCHANGED <<array, found, call, argument, instant, roots, root, reached, cursor, grew, rounds>>

LoopNext ==
  \/ AddAny
  \/ \E i \in DOMAIN array : StartRevoking(i)
  \/ \E a \in Agents : StartTerminating(a)
  \/ \E i \in DOMAIN array, t \in Instants : StartWalking(i, t)
  \/ Candidate \/ PassEnds \/ NextRoot \/ Terminated
  \/ WalkUp \/ WalkEnds

LoopSpec == LoopInit /\ [][LoopNext]_loopVars

-----------------------------------------------------------------------------
\* Whatever the links: revokeGrant revokes exactly the grant and the descendants
\* it reaches through unrevoked grants, a termination exactly what the agent holds
\* and all its descendants, and the chain walk answers as the definition over
\* lineages does, a cycle being dead; and no loop goes round more often than there
\* are grants (identity.ts:189-204, 274-300, terminator.ts:108-117,
\* run-policies.ts:241-267).
LoopsComputeClosures ==
  /\ rounds <= Len(array)
  /\ doing = "done" =>
       /\ call = "revokeGrant" =>
            array = RevokeAll(found, Reachable(DOMAIN found, LiveChildEdges(found), {argument}))
       /\ call = "revokeAndBlock" =>
            array = RevokeAll(found, Reachable(DOMAIN found, ChildEdges(found),
                                               HeldUnrevoked(found, argument)))
       /\ call = "isGrantChainLive" =>
            /\ array = found
            /\ verdict = "live" <=> IsGrantChainLive(found, argument, instant)
=============================================================================
