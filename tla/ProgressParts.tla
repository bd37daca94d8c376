---------------------------- MODULE ProgressParts ----------------------------
(***************************************************************************)
(* Parts of the system that must come to an end, side by side: a behaviour *)
(* exercises one of them, chosen by its first step, and stays in the       *)
(* initial state of the others.                                            *)
(***************************************************************************)
EXTENDS Egress, ReceiptKey, StoreFile, OperatorSessions, HostProcess, EgressNetwork

VARIABLE exercised   \* the part this behaviour is about, "none" before its first step

PartsInit ==
  /\ exercised = "none"
  /\ Init /\ KeyInit /\ StoreInit /\ SessionInit /\ ProcessInit /\ NetworkInit

Exercise(part) == exercised \in {"none", part} /\ exercised' = part

PartsNext ==
  \/ /\ Exercise("egress") /\ Next
     /\ UNCHANGED <<keyVars, storeVars, sessionVars, processVars, networkVars>>
  \/ /\ Exercise("key") /\ KeyNext
     /\ UNCHANGED <<vars, storeVars, sessionVars, processVars, networkVars>>
  \/ /\ Exercise("store") /\ StoreNext
     /\ UNCHANGED <<vars, keyVars, sessionVars, processVars, networkVars>>
  \/ /\ Exercise("sessions") /\ SessionNext
     /\ UNCHANGED <<vars, keyVars, storeVars, processVars, networkVars>>
  \/ /\ Exercise("process") /\ ProcessNext
     /\ UNCHANGED <<vars, keyVars, storeVars, sessionVars, networkVars>>
  \/ /\ Exercise("network") /\ NetworkNext
     /\ UNCHANGED <<vars, keyVars, storeVars, sessionVars, processVars>>

\* Every action that is fair is disabled in the initial state of its part, so
\* that the fairness of a part asks nothing of the behaviours of another.
PartsSpec ==
  /\ PartsInit
  /\ [][PartsNext]_<<exercised, vars, keyVars, storeVars, sessionVars, processVars, networkVars>>
  /\ EgressFairness /\ KeyFairness /\ StoreFairness /\ SessionFairness
  /\ ProcessFairness

-----------------------------------------------------------------------------
\* The parts' variables have their types; no request of the console is refused
\* more than twice (api.ts:96-113).
PartsTypeOK ==
  TypeOK /\ KeyTypeOK /\ StoreTypeOK /\ SessionTypeOK /\ ProcessTypeOK /\ NetworkTypeOK
=============================================================================
