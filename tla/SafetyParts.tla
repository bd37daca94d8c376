----------------------------- MODULE SafetyParts -----------------------------
(***************************************************************************)
(* Parts of the server that share no state, side by side: a behaviour      *)
(* exercises one of them, chosen by its first step, and stays in the       *)
(* initial state of the others.  What is checked of the sum is checked of  *)
(* each part, without the product of their states.                         *)
(***************************************************************************)
EXTENDS Egress, Memory, Pacing, Addresses, Migration, Receipts, GrantLoops

VARIABLE exercised   \* the part this behaviour is about, "none" before its first step

PartsInit ==
  /\ exercised = "none" /\ LoopInit
  /\ Init /\ MemoryInit /\ PacingInit /\ AddressInit /\ MigrationInit /\ ReceiptInit

Exercise(part) == exercised \in {"none", part} /\ exercised' = part

PartsNext ==
  \/ /\ Exercise("egress") /\ Next
     /\ UNCHANGED <<memoryVars, pacingVars, looked, migrationVars, receiptVars, loopVars>>
  \/ /\ Exercise("memory") /\ MemoryNext
     /\ UNCHANGED <<vars, pacingVars, looked, migrationVars, receiptVars, loopVars>>
  \/ /\ Exercise("pacing") /\ PacingNext
     /\ UNCHANGED <<vars, memoryVars, looked, migrationVars, receiptVars, loopVars>>
  \/ /\ Exercise("addresses") /\ AddressNext
     /\ UNCHANGED <<vars, memoryVars, pacingVars, migrationVars, receiptVars, loopVars>>
  \/ /\ Exercise("migration") /\ MigrationNext
     /\ UNCHANGED <<vars, memoryVars, pacingVars, looked, receiptVars, loopVars>>
  \/ /\ Exercise("grants") /\ LoopNext
     /\ UNCHANGED <<vars, memoryVars, pacingVars, looked, migrationVars, receiptVars>>
  \/ /\ Exercise("receipts") /\ ReceiptNext
     /\ UNCHANGED <<vars, memoryVars, pacingVars, looked, migrationVars, loopVars>>

partsVars == <<exercised, vars, memoryVars, pacingVars, looked, migrationVars,
              receiptVars, loopVars>>
PartsSpec == PartsInit /\ [][PartsNext]_partsVars

=============================================================================
