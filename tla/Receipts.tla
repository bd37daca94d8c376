------------------------------ MODULE Receipts ------------------------------
(***************************************************************************)
(* What a termination receipt says and what a verifier makes of it: the    *)
(* body the terminator builds (terminator.ts:35-62) and the structure      *)
(* verifyReceipt insists on (termination.ts:267-318).  The signature and   *)
(* the types of the fields are left out.                                   *)
(***************************************************************************)
EXTENDS Naturals, Sequences

VARIABLES
  receipt,   \* the receipt presented to a verifier
  issuer     \* "none", "terminator", or "anybody" who can write JSON

receiptVars == <<receipt, issuer>>

StepName == {"freeze", "revoke", "kill", "verify"}
Evidence == [step : StepName, ok : BOOLEAN]
Done(name, ok) == [step |-> name, ok |-> ok]
AllOk(steps) == \A i \in DOMAIN steps : steps[i].ok

ReceiptInit == receipt = <<>> /\ issuer = "none"

\* Slip: the receipt believes its last step alone.
IssuedByVerification(frozen, revoked, killed, verified) ==
  [steps |-> <<Done("freeze", frozen)>>
             \o (IF frozen THEN <<Done("revoke", revoked), Done("kill", killed)>>
                 ELSE <<Done("kill", killed), Done("revoke", revoked)>>)
             \o <<Done("verify", verified)>>,
   contained |-> verified]

\* terminate: a runtime that cannot be frozen is killed before grants change.
Issued(frozen, revoked, killed, verified) ==
  LET steps == <<Done("freeze", frozen)>>
               \o (IF frozen THEN <<Done("revoke", revoked), Done("kill", killed)>>
                   ELSE <<Done("kill", killed), Done("revoke", revoked)>>)
               \o <<Done("verify", verified)>>
  IN [steps |-> steps, contained |-> AllOk(steps)]

TerminateAgent ==
  /\ issuer = "none" /\ issuer' = "terminator"
  /\ \E frozen, revoked, killed, verified \in BOOLEAN :
       receipt' = Issued(frozen, revoked, killed, verified)

\* Any other document of that form, shorter and longer ones included.
Present ==
  /\ issuer = "none" /\ issuer' = "anybody"
  /\ \E n \in 3..4 : \E steps \in [1..n -> Evidence], contained \in BOOLEAN :
       receipt' = [steps |-> steps, contained |-> contained]

ReceiptNext == TerminateAgent \/ Present

ReceiptSpec == ReceiptInit /\ [][ReceiptNext]_receiptVars

HasOrder(steps, order) == \A i \in DOMAIN order : steps[i].step = order[i]

\* Slip: the order of the fallback is accepted whatever became of the freeze.
ValidStructureAnyOrder(r) ==
  /\ Len(r.steps) = 4
  /\ \/ HasOrder(r.steps, <<"freeze", "revoke", "kill", "verify">>)
     \/ HasOrder(r.steps, <<"freeze", "kill", "revoke", "verify">>)
  /\ r.contained = AllOk(r.steps)

\* validateReceiptStructure.
ValidStructure(r) ==
  /\ Len(r.steps) = 4
  /\ \/ HasOrder(r.steps, <<"freeze", "revoke", "kill", "verify">>)
     \/ /\ HasOrder(r.steps, <<"freeze", "kill", "revoke", "verify">>)
        /\ ~r.steps[1].ok /\ ~r.contained
  /\ r.contained = AllOk(r.steps)

-----------------------------------------------------------------------------
\* Whatever succeeds or fails during a termination, its receipt has a structure
\* the verifier accepts: a terminated Agent is never left with evidence that is
\* thrown out (terminator.ts:35-62 against termination.ts:284-317).
IssuedReceiptsVerify == issuer = "terminator" => ValidStructure(receipt)

\* No document is accepted that claims containment without all four steps having
\* succeeded, with the runtime frozen before authority changed and killed after.
ContainmentIsEarned ==
  issuer # "none" /\ ValidStructure(receipt) /\ receipt.contained =>
    /\ AllOk(receipt.steps)
    /\ \A i, j \in 1..4 :
         receipt.steps[i].step = "revoke" /\ receipt.steps[j].step \in {"kill", "verify"}
           => 1 < i /\ i < j /\ receipt.steps[1].step = "freeze"
    /\ {receipt.steps[i].step : i \in 1..4} = StepName

\* The verifier throws out no receipt of the terminator, and lets through no
\* document that claims more than happened.
ReceiptsAreJudgedRight == IssuedReceiptsVerify /\ ContainmentIsEarned
=============================================================================
