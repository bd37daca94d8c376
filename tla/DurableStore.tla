---------------------------- MODULE DurableStore ----------------------------
(* What callers of JsonStore.mutate rely on: a mutation that was answered is in *)
(* the file for good, one that was refused never gets there, and a crash loses  *)
(* nothing but answers.                                                        *)
EXTENDS Sequences

CONSTANT Calls

VARIABLES
  committed,   \* the mutations in the file, in the order they took effect
  answer       \* what each caller knows: "nothing", "done" or "refused"

Committed(m) == \E i \in DOMAIN committed : committed[i] = m

DurableInit == committed = <<>> /\ answer = [m \in Calls |-> "nothing"]

Commit(m) ==
  /\ answer[m] = "nothing" /\ ~Committed(m)
  /\ committed' = Append(committed, m) /\ UNCHANGED answer

Answer(m) ==
  /\ answer[m] = "nothing"
  /\ answer' = [answer EXCEPT ![m] = IF Committed(m) THEN "done" ELSE "refused"]
  /\ UNCHANGED committed

DurableSpec == DurableInit /\ [][\E m \in Calls : Commit(m) \/ Answer(m)]_<<committed, answer>>
=============================================================================
