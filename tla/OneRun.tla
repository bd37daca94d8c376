------------------------------- MODULE OneRun -------------------------------
(***************************************************************************)
(* What AgentService promises about an Agent, without saying how: it works *)
(* on one run at a time, each run once, and takes none while it is closed  *)
(* (stopped or deleted).  It closes only when no run is in progress, or at *)
(* the end of one.                                                         *)
(***************************************************************************)
EXTENDS Naturals

CONSTANTS Runs, None

VARIABLES
  current,  \* the run in progress
  over,     \* the runs that were answered, one way or another
  open      \* whether the Agent takes runs

vars == <<current, over, open>>

Init == current = None /\ over = {} /\ open = TRUE

Admit(r) ==
  /\ open /\ current = None /\ r \notin over
  /\ current' = r
  /\ UNCHANGED <<over, open>>

\* A prompt that is answered without being run.
Refuse(r) ==
  /\ open /\ current = None /\ r \notin over
  /\ over' = over \cup {r}
  /\ UNCHANGED <<current, open>>

Finish ==
  /\ current # None
  /\ over' = over \cup {current}
  /\ current' = None
  /\ open' \in {open, FALSE}

Close == current = None /\ open' = FALSE /\ UNCHANGED <<current, over>>
Reopen == current = None /\ open' = TRUE /\ UNCHANGED <<current, over>>

Next == (\E r \in Runs : Admit(r) \/ Refuse(r)) \/ Finish \/ Close \/ Reopen

Spec == Init /\ [][Next]_vars
=============================================================================
