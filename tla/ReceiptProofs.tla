----------------------------- MODULE ReceiptProofs -----------------------------
(* Proofs about ReceiptKey, for any number of servers started on one data       *)
(* directory, and about Receipts.                                              *)
EXTENDS ReceiptKey, Receipts, SequenceTheorems, TLAPS

\* Whoever has taken the lock has it until it has read the pair again.
UnderTheLock ==
  \A l \in Loaders : at[l] \in {"looking again", "creating", "publishing", "rereading"} => lock = l

\* Where a process has not looked, it believes nothing.
LooksAfresh ==
  \A l \in Loaders : at[l] \notin {"looking", "looking again"} => seen[l] = Blank

\* Only the holder of the lock creates files, so what it saw absent still is.
AbsentStays ==
  \A l \in Loaders, f \in File :
    at[l] = "looking again" /\ seen[l][f] = "absent" => disk[f] = None

PairInProgress ==
  \A l \in Loaders :
    /\ at[l] = "creating" => \A f \in File : disk[f] = None
    /\ at[l] = "publishing" => disk["private"] = l /\ disk["public"] = None

\* What was read is what is there.
ReadIsCurrent ==
  \A l \in Loaders, f \in File : got[l][f] # "unknown" => got[l][f] = disk[f] /\ disk[f] # None

TrustsAPair ==
  \A l \in Loaders : at[l] = "trusts" => \A f \in File : got[l][f] # "unknown"

KeyInv ==
  /\ KeyTypeOK /\ UnderTheLock /\ LooksAfresh /\ AbsentStays /\ PairInProgress
  /\ ReadIsCurrent /\ TrustsAPair

LEMMA KeyInvInit == KeyInit => KeyInv
BY DEF KeyInit, KeyInv, KeyTypeOK, UnderTheLock, LooksAfresh, AbsentStays, PairInProgress,
       ReadIsCurrent, TrustsAPair, Unread, Blank, Places

\* Every step preserves the types.
LEMMA KeyTypeStep ==
  ASSUME KeyTypeOK, NEW l \in Loaders, Launch(l) \/ Loading(l) \/ IOFails(l) \/ Die(l)
  PROVE  KeyTypeOK'
<1>. USE NoneIsNoLoader DEF KeyTypeOK, Goto, Forget, Blank, Places
<1>1. CASE Launch(l)
  BY <1>1 DEF Launch
<1>2. CASE Judge(l)
  BY <1>2 DEF Judge
<1>3. CASE CheckLock(l)
  BY <1>3 DEF CheckLock
<1>4. CASE Await(l)
  BY <1>4 DEF Await
<1>5. CASE GiveUp(l)
  BY <1>5 DEF GiveUp
<1>6. CASE Acquire(l)
  BY <1>6 DEF Acquire
<1>7. CASE JudgeAgain(l)
  BY <1>7 DEF JudgeAgain
<1>8. CASE Publish(l)
  <2>1. PICK f \in File, place \in Places : /\ disk' = [disk EXCEPT ![f] = l]
                                           /\ at' = [at EXCEPT ![l] = place]
    BY <1>8 DEF Publish, File
  <2>2. UNCHANGED <<lock, seen, got>>
    BY <1>8 DEF Publish
  <2>. QED BY <2>1, <2>2
<1>9. CASE IOFails(l)
  BY <1>9 DEF IOFails
<1>10. CASE Die(l)
  BY <1>10 DEF Die
<1>11. CASE Validate(l)
  BY <1>11 DEF Validate
<1>12. CASE Unlock(l)
  BY <1>12 DEF Unlock
<1>13. ASSUME NEW f \in File, Lstat(l, f) PROVE KeyTypeOK'
  BY <1>13 DEF Lstat
<1>14. ASSUME NEW f \in File, Read(l, f) PROVE KeyTypeOK'
  BY <1>14 DEF Read
<1>. QED BY <1>1, <1>2, <1>3, <1>4, <1>5, <1>6, <1>7, <1>8, <1>9, <1>10, <1>11, <1>12, <1>13, <1>14
   DEF Loading

\* Every step preserves what the lock stands for.
LEMMA LockStep ==
  ASSUME KeyTypeOK, UnderTheLock, NEW l \in Loaders, Launch(l) \/ Loading(l) \/ IOFails(l) \/ Die(l)
  PROVE  UnderTheLock'
<1>. USE NoneIsNoLoader DEF KeyTypeOK, UnderTheLock, Goto, Forget
<1>1. CASE Launch(l)
  BY <1>1 DEF Launch
<1>2. CASE Judge(l)
  BY <1>2 DEF Judge
<1>3. CASE CheckLock(l)
  BY <1>3 DEF CheckLock
<1>4. CASE Await(l)
  BY <1>4 DEF Await
<1>5. CASE GiveUp(l)
  BY <1>5 DEF GiveUp
<1>6. CASE Acquire(l)
  BY <1>6 DEF Acquire
<1>7. CASE JudgeAgain(l)
  BY <1>7 DEF JudgeAgain
<1>8. CASE Publish(l)
  BY <1>8 DEF Publish
<1>9. CASE IOFails(l)
  BY <1>9 DEF IOFails
<1>10. CASE Die(l)
  BY <1>10 DEF Die
<1>11. CASE Validate(l)
  BY <1>11 DEF Validate
<1>12. CASE Unlock(l)
  BY <1>12 DEF Unlock
<1>13. ASSUME NEW f \in File, Lstat(l, f) PROVE UnderTheLock'
  BY <1>13 DEF Lstat
<1>14. ASSUME NEW f \in File, Read(l, f) PROVE UnderTheLock'
  BY <1>14 DEF Read
<1>. QED BY <1>1, <1>2, <1>3, <1>4, <1>5, <1>6, <1>7, <1>8, <1>9, <1>10, <1>11, <1>12, <1>13, <1>14
   DEF Loading

\* Every step that leaves the looking forgets what was seen.
LEMMA LooksStep ==
  ASSUME KeyTypeOK, LooksAfresh, NEW l \in Loaders, Launch(l) \/ Loading(l) \/ IOFails(l) \/ Die(l)
  PROVE  LooksAfresh'
<1>. USE NoneIsNoLoader DEF KeyTypeOK, LooksAfresh, Goto, Forget
<1>1. CASE Launch(l)
  BY <1>1 DEF Launch
<1>2. CASE Judge(l)
  BY <1>2 DEF Judge
<1>3. CASE CheckLock(l)
  BY <1>3 DEF CheckLock
<1>4. CASE Await(l)
  BY <1>4 DEF Await
<1>5. CASE GiveUp(l)
  BY <1>5 DEF GiveUp
<1>6. CASE Acquire(l)
  BY <1>6 DEF Acquire
<1>7. CASE JudgeAgain(l)
  BY <1>7 DEF JudgeAgain
<1>8. CASE Publish(l)
  BY <1>8 DEF Publish
<1>9. CASE IOFails(l)
  BY <1>9 DEF IOFails
<1>10. CASE Die(l)
  BY <1>10 DEF Die
<1>11. CASE Validate(l)
  BY <1>11 DEF Validate
<1>12. CASE Unlock(l)
  BY <1>12 DEF Unlock
<1>13. ASSUME NEW f \in File, Lstat(l, f) PROVE LooksAfresh'
  BY <1>13 DEF Lstat
<1>14. ASSUME NEW f \in File, Read(l, f) PROVE LooksAfresh'
  BY <1>14 DEF Read
<1>. QED BY <1>1, <1>2, <1>3, <1>4, <1>5, <1>6, <1>7, <1>8, <1>9, <1>10, <1>11, <1>12, <1>13, <1>14
   DEF Loading

\* What the holder of the lock saw absent stays absent.
LEMMA AbsentStep ==
  ASSUME KeyTypeOK, UnderTheLock, LooksAfresh, AbsentStays, NEW l \in Loaders, Launch(l) \/ Loading(l) \/ IOFails(l) \/ Die(l)
  PROVE  AbsentStays'
<1>. USE NoneIsNoLoader DEF KeyTypeOK, UnderTheLock, LooksAfresh, AbsentStays, Goto, Forget
<1>1. CASE Launch(l)
  BY <1>1 DEF Launch
<1>2. CASE Judge(l)
  BY <1>2 DEF Judge
<1>3. CASE CheckLock(l)
  BY <1>3 DEF CheckLock
<1>4. CASE Await(l)
  BY <1>4 DEF Await
<1>5. CASE GiveUp(l)
  BY <1>5 DEF GiveUp
<1>6. CASE Acquire(l)
  BY <1>6 DEF Acquire, Blank
<1>7. CASE JudgeAgain(l)
  BY <1>7 DEF JudgeAgain
<1>8. CASE Publish(l)
  BY <1>8 DEF Publish, File
<1>9. CASE IOFails(l)
  BY <1>9 DEF IOFails
<1>10. CASE Die(l)
  BY <1>10 DEF Die
<1>11. CASE Validate(l)
  BY <1>11 DEF Validate
<1>12. CASE Unlock(l)
  BY <1>12 DEF Unlock
<1>13. ASSUME NEW f \in File, Lstat(l, f) PROVE AbsentStays'
  BY <1>13 DEF Lstat
<1>14. ASSUME NEW f \in File, Read(l, f) PROVE AbsentStays'
  BY <1>14 DEF Read
<1>. QED BY <1>1, <1>2, <1>3, <1>4, <1>5, <1>6, <1>7, <1>8, <1>9, <1>10, <1>11, <1>12, <1>13, <1>14
   DEF Loading

\* A pair is created where there was none.
LEMMA PairStep ==
  ASSUME KeyTypeOK, UnderTheLock, AbsentStays, PairInProgress, NEW l \in Loaders, Launch(l) \/ Loading(l) \/ IOFails(l) \/ Die(l)
  PROVE  PairInProgress'
<1>. USE NoneIsNoLoader DEF KeyTypeOK, UnderTheLock, AbsentStays, PairInProgress, Goto, Forget
<1>1. CASE Launch(l)
  BY <1>1 DEF Launch
<1>2. CASE Judge(l)
  BY <1>2 DEF Judge
<1>3. CASE CheckLock(l)
  BY <1>3 DEF CheckLock
<1>4. CASE Await(l)
  BY <1>4 DEF Await
<1>5. CASE GiveUp(l)
  BY <1>5 DEF GiveUp
<1>6. CASE Acquire(l)
  BY <1>6 DEF Acquire
<1>7. CASE JudgeAgain(l)
  BY <1>7 DEF JudgeAgain, Absent, File
<1>8. CASE Publish(l)
  BY <1>8 DEF Publish, File
<1>9. CASE IOFails(l)
  BY <1>9 DEF IOFails
<1>10. CASE Die(l)
  BY <1>10 DEF Die
<1>11. CASE Validate(l)
  BY <1>11 DEF Validate
<1>12. CASE Unlock(l)
  BY <1>12 DEF Unlock
<1>13. ASSUME NEW f \in File, Lstat(l, f) PROVE PairInProgress'
  BY <1>13 DEF Lstat
<1>14. ASSUME NEW f \in File, Read(l, f) PROVE PairInProgress'
  BY <1>14 DEF Read
<1>. QED BY <1>1, <1>2, <1>3, <1>4, <1>5, <1>6, <1>7, <1>8, <1>9, <1>10, <1>11, <1>12, <1>13, <1>14
   DEF Loading

\* No file is replaced, so that what was read is what is there.
LEMMA ReadStep ==
  ASSUME KeyTypeOK, PairInProgress, ReadIsCurrent, TrustsAPair, NEW l \in Loaders, Launch(l) \/ Loading(l) \/ IOFails(l) \/ Die(l)
  PROVE  ReadIsCurrent' /\ TrustsAPair'
<1>. USE NoneIsNoLoader DEF KeyTypeOK, PairInProgress, ReadIsCurrent, TrustsAPair
<1>1. CASE /\ UNCHANGED <<disk, got>> /\ at'[l] # "trusts"
           /\ \A k \in Loaders \ {l} : at'[k] = at[k]
  BY <1>1
<1>2. CASE Launch(l) \/ Judge(l) \/ CheckLock(l) \/ Await(l) \/ Acquire(l) \/ GiveUp(l)
           \/ JudgeAgain(l) \/ IOFails(l) \/ Die(l)
  <2>1. UNCHANGED <<disk, got>>
    BY <1>2 DEF Launch, Judge, CheckLock, Await, Acquire, GiveUp, JudgeAgain, IOFails, Die
  <2>2. \E place \in Places \ {"trusts"} : Goto(l, place)
    BY <1>2 DEF Launch, Judge, CheckLock, Await, Acquire, GiveUp, JudgeAgain, IOFails, Die, Places
  <2>3. at'[l] # "trusts" /\ \A k \in Loaders \ {l} : at'[k] = at[k]
    BY <2>2 DEF Goto
  <2>. QED BY <1>1, <2>1, <2>3
<1>3. CASE Publish(l)
  BY <1>3 DEF Publish, Goto, File
<1>4. CASE Validate(l)
  BY <1>4 DEF Validate, Goto
<1>5. CASE Unlock(l)
  BY <1>5 DEF Unlock
<1>6. ASSUME NEW f \in File, Lstat(l, f) PROVE ReadIsCurrent' /\ TrustsAPair'
  BY <1>6 DEF Lstat
<1>7. ASSUME NEW f \in File, Read(l, f) PROVE ReadIsCurrent' /\ TrustsAPair'
  BY <1>7 DEF Read
<1>. QED BY <1>2, <1>3, <1>4, <1>5, <1>6, <1>7 DEF Loading

\* Every step of every process preserves the invariant.
LEMMA KeyInvStep ==
  ASSUME KeyInv, NEW l \in Loaders, Launch(l) \/ Loading(l) \/ IOFails(l) \/ Die(l)
  PROVE  KeyInv'
BY KeyTypeStep, LockStep, LooksStep, AbsentStep, PairStep, ReadStep DEF KeyInv

\* The inductive invariant holds in every reachable state.
THEOREM KeyInvariant == KeySpec => []KeyInv
<1>1. KeyInv /\ [KeyNext]_keyVars => KeyInv'
  <2>. SUFFICES ASSUME KeyInv, [KeyNext]_keyVars PROVE KeyInv'
    OBVIOUS
  <2>1. CASE UNCHANGED keyVars
    <3>1. KeyTypeOK' /\ UnderTheLock' /\ LooksAfresh' /\ AbsentStays'
      BY <2>1 DEF keyVars, KeyInv, KeyTypeOK, UnderTheLock, LooksAfresh, AbsentStays
    <3>2. PairInProgress' /\ ReadIsCurrent' /\ TrustsAPair'
      BY <2>1 DEF keyVars, KeyInv, PairInProgress, ReadIsCurrent, TrustsAPair
    <3>. QED BY <3>1, <3>2 DEF KeyInv
  <2>. QED BY <2>1, KeyInvStep DEF KeyNext
<1>. QED BY <1>1, KeyInvInit, PTL DEF KeySpec

\* The key is chosen once and whoever trusts a key trusts that one: loading or
\* creating the pair implements OneKey, however many servers race and die.
THEOREM KeyLoadingIsOneKey == KeySpec => KeyIsChosenOnce
<1>. DEFINE trusted == [l \in Loaders |-> IF at[l] = "trusts" THEN got[l]["public"] ELSE None]
<1>1. KeyInit => TrustsOneKey!OneKeyInit
  BY DEF KeyInit, TrustsOneKey!OneKeyInit, File
<1>2. KeyInv /\ [KeyNext]_keyVars
        => [\E l \in Loaders : TrustsOneKey!Choose(l) \/ TrustsOneKey!Learn(l)]_<<disk["public"], trusted>>
  <2>. SUFFICES ASSUME KeyInv, [KeyNext]_keyVars
                PROVE  \/ \E l \in Loaders : TrustsOneKey!Choose(l) \/ TrustsOneKey!Learn(l)
                       \/ UNCHANGED <<disk["public"], trusted>>
    OBVIOUS
  <2>1. CASE UNCHANGED keyVars
    BY <2>1 DEF keyVars
  <2>. SUFFICES ASSUME NEW l \in Loaders, Launch(l) \/ Loading(l) \/ IOFails(l) \/ Die(l)
                PROVE  \/ TrustsOneKey!Choose(l) \/ TrustsOneKey!Learn(l)
                       \/ UNCHANGED <<disk["public"], trusted>>
    BY <2>1 DEF KeyNext
  <2>2. CASE Publish(l)
    BY <2>2 DEF Publish, KeyInv, KeyTypeOK, PairInProgress, TrustsOneKey!Choose, Goto, File
  <2>3. CASE Validate(l)
    BY <2>3 DEF Validate, KeyInv, KeyTypeOK, ReadIsCurrent, TrustsOneKey!Learn, Goto, File
  <2>4. ASSUME NEW f \in File, Read(l, f)
        PROVE  UNCHANGED <<disk["public"], trusted>>
    BY <2>4 DEF Read, KeyInv, KeyTypeOK
  <2>5. CASE /\ disk' = disk /\ got' = got
             /\ at[l] # "trusts" /\ at'[l] # "trusts"
             /\ \A k \in Loaders \ {l} : at'[k] = at[k]
    BY <2>5
  <2>6. ASSUME NEW f \in File, Lstat(l, f) \/ Unlock(l)
        PROVE  UNCHANGED <<disk["public"], trusted>>
    BY <2>6 DEF Lstat, Unlock
  <2>7. CASE Launch(l) \/ Judge(l) \/ CheckLock(l) \/ Await(l) \/ Acquire(l) \/ GiveUp(l)
             \/ JudgeAgain(l) \/ IOFails(l) \/ Die(l)
    BY <2>5, <2>7 DEF Launch, Judge, CheckLock, Await, Acquire, GiveUp, JudgeAgain, IOFails, Die,
                      Goto, KeyInv, KeyTypeOK
  <2>. QED BY <2>2, <2>3, <2>4, <2>6, <2>7 DEF Loading, File
<1>. QED BY <1>1, <1>2, KeyInvariant, PTL DEF KeySpec, KeyIsChosenOnce, TrustsOneKey!OneKeySpec

-----------------------------------------------------------------------------
(* What a receipt says.                                                    *)

\* A receipt of the terminator is one a termination can come to.
ComesFromTermination ==
  issuer = "terminator" =>
    \E frozen, revoked, killed, verified \in BOOLEAN :
      receipt = Issued(frozen, revoked, killed, verified)

\* What is presented has the form of a receipt.
HasForm ==
  issuer # "none" =>
    /\ \E n \in Nat : receipt.steps \in [1..n -> Evidence]
    /\ receipt.contained \in BOOLEAN

\* Four steps put together from three pieces.
LEMMA Joined ==
  ASSUME NEW S, NEW a \in S, NEW b \in S, NEW c \in S, NEW d \in S
  PROVE  <<a>> \o <<b, c>> \o <<d>> = <<a, b, c, d>>
<1>. DEFINE l == <<a>>
            m == <<b, c>>
            r == <<d>>
            t == <<a, b, c, d>>
<1>1. l \in Seq(S) /\ m \in Seq(S) /\ r \in Seq(S) /\ t \in Seq(S)
  OBVIOUS
<1>2. Len(l) = 1 /\ Len(m) = 2 /\ Len(r) = 1 /\ Len(t) = 4
  OBVIOUS
<1>3. l[1] = a /\ m[1] = b /\ m[2] = c /\ r[1] = d /\ t[1] = a /\ t[2] = b /\ t[3] = c /\ t[4] = d
  OBVIOUS
<1>. HIDE DEF l, m, r, t
<1>4. /\ l \o m \in Seq(S) /\ Len(l \o m) = 3
      /\ \A i \in 1..3 : (l \o m)[i] = IF i <= 1 THEN l[i] ELSE m[i - 1]
  <2>1. /\ l \o m \in Seq(S) /\ Len(l \o m) = Len(l) + Len(m)
        /\ \A i \in 1..Len(l) + Len(m) : (l \o m)[i] = IF i <= Len(l) THEN l[i] ELSE m[i - Len(l)]
    BY ONLY <1>1, ConcatProperties
  <2>2. Len(l) + Len(m) = 3
    BY <1>2
  <2>. QED BY <2>1, <2>2, <1>2
<1>5. /\ (l \o m) \o r \in Seq(S) /\ Len((l \o m) \o r) = 4
      /\ \A i \in 1..4 : ((l \o m) \o r)[i] = IF i <= 3 THEN (l \o m)[i] ELSE r[i - 3]
  BY <1>1, <1>2, <1>4, ConcatProperties, 3 + 1 = 4
<1>6. \A i \in 1..4 : ((l \o m) \o r)[i] = t[i]
  BY <1>3, <1>4, <1>5
<1>7. (l \o m) \o r = t
  BY ONLY <1>1, <1>2, <1>5, <1>6, SeqEqual
<1>. QED BY <1>7 DEF l, m, r, t

\* Both ways a termination goes: four steps, in one of two orders.
LEMMA IssuedSteps ==
  ASSUME NEW frozen \in BOOLEAN, NEW revoked \in BOOLEAN, NEW killed \in BOOLEAN,
         NEW verified \in BOOLEAN
  PROVE  /\ Issued(frozen, revoked, killed, verified).steps
              = IF frozen
                THEN <<Done("freeze", frozen), Done("revoke", revoked),
                       Done("kill", killed), Done("verify", verified)>>
                ELSE <<Done("freeze", frozen), Done("kill", killed),
                       Done("revoke", revoked), Done("verify", verified)>>
         /\ Issued(frozen, revoked, killed, verified).contained
              = AllOk(Issued(frozen, revoked, killed, verified).steps)
         /\ Issued(frozen, revoked, killed, verified).steps \in [1..4 -> Evidence]
<1>. DEFINE first == Done("freeze", frozen)
            second == IF frozen THEN Done("revoke", revoked) ELSE Done("kill", killed)
            third == IF frozen THEN Done("kill", killed) ELSE Done("revoke", revoked)
            last == Done("verify", verified)
<1>1. first \in Evidence /\ second \in Evidence /\ third \in Evidence /\ last \in Evidence
  BY DEF Done, Evidence, StepName
<1>2. (IF frozen THEN <<Done("revoke", revoked), Done("kill", killed)>>
       ELSE <<Done("kill", killed), Done("revoke", revoked)>>) = <<second, third>>
  OBVIOUS
<1>3. Issued(frozen, revoked, killed, verified).steps = <<first>> \o <<second, third>> \o <<last>>
  BY <1>2 DEF Issued
<1>. HIDE DEF first, second, third, last
<1>4. <<first>> \o <<second, third>> \o <<last>> = <<first, second, third, last>>
  BY <1>1, Joined
<1>5. <<first, second, third, last>> \in [1..4 -> Evidence]
  BY <1>1
<1>6. Issued(frozen, revoked, killed, verified).contained
        = AllOk(Issued(frozen, revoked, killed, verified).steps)
  BY DEF Issued
<1>7. <<first, second, third, last>>
        = IF frozen
          THEN <<Done("freeze", frozen), Done("revoke", revoked),
                 Done("kill", killed), Done("verify", verified)>>
          ELSE <<Done("freeze", frozen), Done("kill", killed),
                 Done("revoke", revoked), Done("verify", verified)>>
  BY DEF first, second, third, last
<1>. QED BY <1>3, <1>4, <1>5, <1>6, <1>7

\* The verifier accepts each of them.
LEMMA IssuedIsValid ==
  ASSUME NEW frozen \in BOOLEAN, NEW revoked \in BOOLEAN, NEW killed \in BOOLEAN,
         NEW verified \in BOOLEAN
  PROVE  ValidStructure(Issued(frozen, revoked, killed, verified))
<1>. DEFINE r == Issued(frozen, revoked, killed, verified)
<1>0. r.contained = AllOk(r.steps)
  BY IssuedSteps, Zenon
<1>1. r.steps \in [1..4 -> Evidence]
  BY IssuedSteps, Zenon
<1>2. Len(r.steps) = 4
  BY <1>1
<1>3. CASE frozen
  <2>1. r.steps = <<Done("freeze", frozen), Done("revoke", revoked),
                    Done("kill", killed), Done("verify", verified)>>
    BY <1>3, IssuedSteps, Zenon
  <2>2. HasOrder(r.steps, <<"freeze", "revoke", "kill", "verify">>)
    BY <2>1 DEF HasOrder, Done
  <2>. QED BY <1>0, <1>1, <1>2, <2>2 DEF ValidStructure
<1>4. CASE ~frozen
  <2>1. r.steps = <<Done("freeze", frozen), Done("kill", killed),
                    Done("revoke", revoked), Done("verify", verified)>>
    BY <1>4, IssuedSteps, Zenon
  <2>2. HasOrder(r.steps, <<"freeze", "kill", "revoke", "verify">>)
    BY <2>1 DEF HasOrder, Done
  <2>3. ~r.steps[1].ok
    BY <2>1, <1>4 DEF Done
  <2>4. ~AllOk(r.steps)
    BY <2>3, <1>1 DEF AllOk
  <2>. QED BY <1>0, <1>1, <1>2, <2>2, <2>3, <2>4 DEF ValidStructure
<1>. QED BY <1>3, <1>4

\* What the verifier lets through as contained had its four steps succeed, in order.
LEMMA ValidIsEarned ==
  ASSUME NEW r, NEW n \in Nat, r.steps \in [1..n -> Evidence], ValidStructure(r), r.contained,
         r.contained \in BOOLEAN
  PROVE  /\ AllOk(r.steps)
         /\ \A i, j \in 1..4 :
              r.steps[i].step = "revoke" /\ r.steps[j].step \in {"kill", "verify"}
                => 1 < i /\ i < j /\ r.steps[1].step = "freeze"
         /\ {r.steps[i].step : i \in 1..4} = StepName
<1>1. AllOk(r.steps)
  BY DEF ValidStructure
<1>2. HasOrder(r.steps, <<"freeze", "revoke", "kill", "verify">>)
  BY DEF ValidStructure
<1>3. /\ r.steps[1].step = "freeze" /\ r.steps[2].step = "revoke"
      /\ r.steps[3].step = "kill" /\ r.steps[4].step = "verify"
  BY <1>2 DEF HasOrder
<1>4. \A i \in 1..4 : i = 1 \/ i = 2 \/ i = 3 \/ i = 4
  OBVIOUS
<1>5. \A i, j \in 1..4 :
        r.steps[i].step = "revoke" /\ r.steps[j].step \in {"kill", "verify"}
          => 1 < i /\ i < j /\ r.steps[1].step = "freeze"
  BY <1>3, <1>4
<1>6. {r.steps[i].step : i \in 1..4} = StepName
  BY <1>3, <1>4 DEF StepName
<1>. QED BY <1>1, <1>5, <1>6

\* Every receipt of a termination is accepted, whatever fails in it; and no
\* document, of any length and from anybody, is accepted as a containment that
\* its steps do not show.
THEOREM ReceiptsJudged == ReceiptSpec => []ReceiptsAreJudgedRight
<1>. DEFINE Inv == ComesFromTermination /\ HasForm
<1>1. ReceiptInit => Inv
  BY DEF ReceiptInit, ComesFromTermination, HasForm
<1>2. Inv /\ [ReceiptNext]_receiptVars => Inv'
  <2>. SUFFICES ASSUME Inv, [ReceiptNext]_receiptVars PROVE Inv'
    OBVIOUS
  <2>1. CASE TerminateAgent
    <3>1. PICK frozen, revoked, killed, verified \in BOOLEAN :
             receipt' = Issued(frozen, revoked, killed, verified)
      BY <2>1 DEF TerminateAgent
    <3>2. receipt'.steps \in [1..4 -> Evidence]
      BY <3>1, IssuedSteps, Zenon
    <3>4. receipt'.contained = AllOk(receipt'.steps)
      BY <3>1, IssuedSteps, Zenon
    <3>3. ComesFromTermination'
      BY <3>1 DEF ComesFromTermination
    <3>5. HasForm'
      BY <3>2, <3>4 DEF HasForm, AllOk
    <3>. QED BY <3>3, <3>5
  <2>2. CASE Present
    <3>1. PICK n \in 3..4 : \E steps \in [1..n -> Evidence], contained \in BOOLEAN :
             receipt' = [steps |-> steps, contained |-> contained]
      BY <2>2 DEF Present
    <3>2. receipt'.steps \in [1..n -> Evidence] /\ receipt'.contained \in BOOLEAN /\ n \in Nat
      BY <3>1
    <3>. QED BY <2>2, <3>2 DEF Present, ComesFromTermination, HasForm
  <2>3. CASE UNCHANGED receiptVars
    BY <2>3 DEF receiptVars, ComesFromTermination, HasForm
  <2>. QED BY <2>1, <2>2, <2>3 DEF ReceiptNext
<1>3. Inv => ReceiptsAreJudgedRight
  <2>. SUFFICES ASSUME Inv PROVE ReceiptsAreJudgedRight
    OBVIOUS
  <2>1. IssuedReceiptsVerify
    BY IssuedIsValid DEF ComesFromTermination, IssuedReceiptsVerify
  <2>2. ContainmentIsEarned
    BY ValidIsEarned DEF HasForm, ContainmentIsEarned
  <2>. QED BY <2>1, <2>2 DEF ReceiptsAreJudgedRight
<1>. QED BY <1>1, <1>2, <1>3, PTL DEF ReceiptSpec
=============================================================================
