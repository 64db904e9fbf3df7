--------------------------- MODULE DeliveryProofs ---------------------------
(***************************************************************************)
(* Proofs about Delivery for every set of reviews, destinations and sinks, *)
(* finite or not, every limit and every choice of flaky targets.           *)
(*                                                                         *)
(* The properties speak of the item the loop over the batch is at.  That   *)
(* there is only one is a fact about created_at, and so about the fan-out: *)
(* no row is inserted twice, and each is younger than all before it.       *)
(***************************************************************************)
EXTENDS Delivery, TLAPS, FiniteSetTheorems

-----------------------------------------------------------------------------
(* The inductive invariant.                                                *)

Born == {i \in Items : born[i] > 0}

\* created_at orders the rows: no two of them were inserted at once.
RanksOrder ==
    /\ IsFiniteSet(Born)
    /\ \A i \in Items : born[i] <= Cardinality(Born)
    /\ \A i, k \in Born : born[i] = born[k] => i = k

\* What is still to be enqueued has no row: a review completes once, and its
\* targets leave the list as they are inserted.
FanOutIsFresh ==
    /\ \A i \in Born : i[1] \in done
    /\ pc \in {"completed", "fanout"} => review \in done
    /\ pc = "completed" => \A t \in Targets : <<review, t>> \notin Born
    /\ pc = "fanout" => \A t \in targets : <<review, t>> \notin Born

\* A row is absent exactly while it has no created_at, and starts unattempted.
RowsAreBorn ==
    \A i \in Items :
        /\ row[i] = "absent" <=> i \notin Born
        /\ row[i] = "absent" => tries[i] = 0

\* Nobody settles a row of the batch but the worker that read it, so the
\* attempts it read are still the row's.
BatchIsCurrent ==
    \A i \in batch : row[i] \in WaitingRows /\ copy[i] = tries[i]

\* The flag an administrator set is the flag the worker looks up.
ConsentIsTheFlag == consent = enabled

DeliveryInv ==
    /\ TypeOK
    /\ RanksOrder
    /\ FanOutIsFresh
    /\ RowsAreBorn
    /\ BatchIsCurrent
    /\ ConsentIsTheFlag
    /\ ArrivalsAccounted
    /\ RetryBudget

-----------------------------------------------------------------------------
(* Operators.                                                              *)

\* A backoff is a number of seconds.
LEMMA DeliveryDelayType ==
    ASSUME NEW a \in Nat
    PROVE  DeliveryDelay(a) \in Nat
  <1>1. Least(a, 10) \in 0..10
    BY DEF Least
  <1>2. \A n \in 0..10 : PowerOfTwo(n) \in Nat
    BY DEF PowerOfTwo, PowerTable
  <1>3. PowerOfTwo(Least(a, 10)) \in Nat
    BY <1>1, <1>2
  <1> QED
    BY <1>3 DEF DeliveryDelay, Least

\* order_by(created_at) leaves no choice: the loop is at one item.
LEMMA CurrentIsUnique ==
    ASSUME DeliveryInv, NEW i \in Items, NEW k \in Items, Current(i), Current(k)
    PROVE  i = k
  <1>1. i \in Born /\ k \in Born
    BY DEF DeliveryInv, TypeOK, BatchIsCurrent, RowsAreBorn, Current, WaitingRows
  <1>2. born[i] = born[k]
    BY <1>1 DEF DeliveryInv, TypeOK, Current, Born
  <1> QED
    BY <1>1, <1>2 DEF DeliveryInv, RanksOrder

\* A failed attempt counts itself and, at the limit, ends the item.
LEMMA FailureIsCounted ==
    ASSUME DeliveryInv, NEW i \in Items, i \in batch, DeliveryFailed(i)
    PROVE  /\ row' \in [Items -> WaitingRows \union {"absent", "sent", "failed"}]
           /\ tries' \in [Items -> Nat]
           /\ wait' \in [Items -> Nat]
           /\ \A k \in Items \ {i} : row'[k] = row[k] /\ tries'[k] = tries[k]
           /\ row'[i] \in {"retry", "failed"}
           /\ row'[i] = "retry" => tries'[i] < MaxTries
           /\ row'[i] = "failed" => tries'[i] = MaxTries
  <1>1. copy[i] = tries[i] /\ tries[i] < MaxTries /\ row[i] \in WaitingRows
    BY DEF DeliveryInv, BatchIsCurrent, RetryBudget
  <1>2. Attempts(i) \in Nat /\ Attempts(i) <= MaxTries
    BY <1>1, DeliveryAssumption DEF DeliveryInv, TypeOK, Attempts
  <1>3. DeliveryDelay(Attempts(i)) \in Nat
    BY <1>2, DeliveryDelayType
  <1>4. wait' \in [Items -> Nat]
    BY <1>3 DEF DeliveryInv, TypeOK, DeliveryFailed
  <1>5. tries' \in [Items -> Nat] /\ tries'[i] = Attempts(i)
    BY <1>2 DEF DeliveryInv, TypeOK, DeliveryFailed
  <1>6. row' \in [Items -> WaitingRows \union {"absent", "sent", "failed"}]
    BY DEF DeliveryInv, TypeOK, DeliveryFailed, WaitingRows
  <1>7. \A k \in Items \ {i} : row'[k] = row[k] /\ tries'[k] = tries[k]
    BY DEF DeliveryInv, TypeOK, DeliveryFailed
  <1>8. row'[i] = IF GivesUp(i) THEN "failed" ELSE "retry"
    BY DEF DeliveryInv, TypeOK, DeliveryFailed
  <1>9. /\ row'[i] = "retry" => tries'[i] < MaxTries
        /\ row'[i] = "failed" => tries'[i] = MaxTries
    BY <1>2, <1>5, <1>8, DeliveryAssumption DEF GivesUp
  <1> QED
    BY <1>4, <1>5, <1>6, <1>7, <1>8, <1>9

-----------------------------------------------------------------------------
(* What a step that leaves some variables alone keeps.                     *)

\* The facts about the rows alone.
LEMMA RowsFrame ==
    ASSUME DeliveryInv, UNCHANGED <<born, row, tries>>
    PROVE  RanksOrder' /\ RowsAreBorn' /\ RetryBudget'
  <1>1. Born' = Born
    BY DEF Born
  <1> QED
    BY <1>1 DEF DeliveryInv, RanksOrder, RowsAreBorn, RetryBudget

\* The batch shrinks and its rows stay as they are.
LEMMA BatchFrame ==
    ASSUME DeliveryInv, batch' \subseteq batch, copy' = copy,
           \A i \in batch' : row'[i] = row[i] /\ tries'[i] = tries[i]
    PROVE  BatchIsCurrent'
  BY DEF DeliveryInv, BatchIsCurrent

\* Nothing arrives, and the worker neither comes to the place where it has to
\* record an arrival nor leaves it.
LEMMA ArrivalsFrame ==
    ASSUME DeliveryInv, UNCHANGED <<received, unacked, row, born, batch>>,
           pc = "accepted" <=> pc' = "accepted"
    PROVE  ArrivalsAccounted'
  BY DEF DeliveryInv, ArrivalsAccounted, Current

\* The fan-out stays where it is, or is over.
LEMMA FreshFrame ==
    ASSUME DeliveryInv, UNCHANGED <<born, review, targets>>, done \subseteq done',
           pc' = pc \/ pc' \notin {"completed", "fanout"}
    PROVE  FanOutIsFresh'
  <1>1. Born' = Born
    BY DEF Born
  <1> QED
    BY <1>1 DEF DeliveryInv, FanOutIsFresh

-----------------------------------------------------------------------------
(* One lemma per group of steps.                                           *)

\* The API changes installations and what is owed, nothing else.
LEMMA ApiKeepsInv ==
    ASSUME DeliveryInv, ApiStep
    PROVE  DeliveryInv'
  <1>1. UNCHANGED <<outboxVars, workerVars, done, received, unacked, crashes>>
    BY DEF ApiStep, Install, Remove, Enable, Disable, historyVars
  <1>2. TypeOK' /\ ConsentIsTheFlag'
    <2> USE <1>1 DEF DeliveryInv, TypeOK, ConsentIsTheFlag, outboxVars, workerVars, historyVars
    <2>1. ASSUME NEW d \in Destinations, Install(d)
          PROVE  TypeOK' /\ ConsentIsTheFlag'
      BY <2>1 DEF Install
    <2>2. ASSUME NEW d \in Destinations, Remove(d)
          PROVE  TypeOK' /\ ConsentIsTheFlag'
      BY <2>2 DEF Remove, FlagCleared, Settle
    <2>3. ASSUME NEW d \in Destinations, Enable(d)
          PROVE  TypeOK' /\ ConsentIsTheFlag'
      BY <2>3 DEF Enable, MayEnable
    <2>4. ASSUME NEW d \in Destinations, Disable(d)
          PROVE  TypeOK' /\ ConsentIsTheFlag'
      BY <2>4 DEF Disable, Settle
    <2> QED
      BY <2>1, <2>2, <2>3, <2>4 DEF ApiStep
  <1>3. RanksOrder' /\ RowsAreBorn' /\ RetryBudget'
    BY <1>1, RowsFrame DEF outboxVars
  <1>4. BatchIsCurrent'
    BY <1>1, BatchFrame DEF outboxVars, workerVars
  <1>5. ArrivalsAccounted'
    BY <1>1, ArrivalsFrame DEF outboxVars, workerVars
  <1>6. FanOutIsFresh'
    BY <1>1, FreshFrame DEF outboxVars, workerVars
  <1> QED
    BY <1>2, <1>3, <1>4, <1>5, <1>6 DEF DeliveryInv

\* Steps of the worker that write no row and meet no arrival.
LEMMA QuietStepsKeepInv ==
    ASSUME DeliveryInv,
           \/ \E r \in Reviews : Complete(r)
           \/ NoJob \/ BeginFanOut \/ EndFanOut \/ StartSend \/ EndFlush \/ Restart
    PROVE  DeliveryInv'
  <1> DEFINE Quiet ==
        \/ \E r \in Reviews : Complete(r)
        \/ NoJob \/ BeginFanOut \/ EndFanOut \/ StartSend \/ EndFlush \/ Restart
  <1>0. Quiet
    OBVIOUS
  <1>1. /\ UNCHANGED <<installVars, outboxVars, batch, received, unacked, crashes>>
        /\ pc # "accepted" /\ pc' # "accepted"
    BY DEF Complete, NoJob, BeginFanOut, EndFanOut, StartSend, EndFlush, Restart, historyVars
  <1>2. TypeOK'
    <2> USE DEF DeliveryInv, TypeOK, installVars, outboxVars, historyVars
    <2>1. ASSUME NEW r \in Reviews, Complete(r)
          PROVE  TypeOK'
      BY <2>1 DEF Complete, Items, Targets
    <2>2. CASE BeginFanOut
      BY <2>2 DEF BeginFanOut, Targets
    <2>3. CASE EndFlush
      BY <2>3 DEF EndFlush
    <2>4. CASE NoJob \/ EndFanOut \/ StartSend \/ Restart
      BY <2>4 DEF NoJob, EndFanOut, StartSend, Restart
    <2> QED
      BY <1>0, <2>1, <2>2, <2>3, <2>4
  <1>3. RanksOrder' /\ RowsAreBorn' /\ RetryBudget'
    BY <1>1, RowsFrame DEF outboxVars
  <1>4. BatchIsCurrent'
    <2>1. CASE EndFlush
      BY <2>1, <1>1 DEF EndFlush, BatchIsCurrent
    <2>2. CASE copy' = copy
      BY <2>2, <1>1, BatchFrame DEF outboxVars
    <2> QED
      BY <1>0, <2>1, <2>2 DEF Complete, NoJob, BeginFanOut, EndFanOut, StartSend, Restart
  <1>5. ArrivalsAccounted'
    BY <1>1, ArrivalsFrame DEF outboxVars
  <1>6. FanOutIsFresh'
    <2> HIDE DEF Quiet
    <2>0. Born' = Born
      BY <1>1 DEF Born, outboxVars
    <2>1. ASSUME NEW r \in Reviews, Complete(r)
          PROVE  FanOutIsFresh'
      BY <2>0, <2>1 DEF Complete, DeliveryInv, FanOutIsFresh, Born, Items
    <2>2. CASE BeginFanOut
      <3>1. targets' \subseteq Targets
        BY <2>2 DEF BeginFanOut, DeliveryInv, TypeOK, Targets
      <3> QED
        BY <2>0, <2>2, <3>1 DEF BeginFanOut, DeliveryInv, FanOutIsFresh, historyVars
    <2>3. CASE EndFanOut
      BY <2>0, <2>3 DEF EndFanOut, DeliveryInv, FanOutIsFresh, historyVars
    <2>4. CASE NoJob \/ StartSend \/ EndFlush \/ Restart
      BY <1>1, <2>4, FreshFrame DEF NoJob, StartSend, EndFlush, Restart, historyVars, outboxVars
    <2> QED
      BY <1>0, <2>1, <2>2, <2>3, <2>4 DEF Quiet
  <1>7. ConsentIsTheFlag'
    BY <1>1 DEF DeliveryInv, ConsentIsTheFlag, installVars
  <1> QED
    BY <1>2, <1>3, <1>4, <1>5, <1>6, <1>7 DEF DeliveryInv

\* enqueue gives the new row the youngest created_at of all.
LEMMA EnqueueKeepsInv ==
    ASSUME DeliveryInv, NEW t \in Targets, Enqueue(t)
    PROVE  DeliveryInv'
  <1> DEFINE x == <<review, t>>
  <1>1. x \in Items /\ x \notin Born /\ born[x] = 0 /\ review \in done
    BY DEF DeliveryInv, TypeOK, FanOutIsFresh, Enqueue, Born, Items
  <1>2. Cardinality(Born) \in Nat /\ Rank \in Nat \ {0} /\ Rank = Cardinality(Born) + 1
    BY FS_CardinalityType DEF DeliveryInv, RanksOrder, Rank, Born
  <1>3. /\ born' = [born EXCEPT ![x] = Rank]
        /\ row' = [row EXCEPT ![x] = "pending"]
        /\ targets' = targets \ {t}
        /\ pc = "fanout"
        /\ UNCHANGED <<installVars, tries, wait, pc, review, batch, copy, historyVars>>
    BY DEF Enqueue
  <1> HIDE DEF x
  <1>4. TypeOK'
    BY <1>2, <1>3 DEF DeliveryInv, TypeOK, installVars, historyVars, WaitingRows
  <1>5. Born' = Born \union {x}
    <2>1. born'[x] > 0 /\ \A i \in Items : i # x => born'[i] = born[i]
      BY <1>1, <1>2, <1>3 DEF DeliveryInv, TypeOK
    <2> QED
      BY <1>1, <2>1 DEF Born
  <1>6. \A i \in Items : i # x => born'[i] = born[i] /\ row'[i] = row[i]
    BY <1>3 DEF DeliveryInv, TypeOK
  <1>7. born'[x] = Rank /\ row'[x] = "pending" /\ tries'[x] = 0
    BY <1>1, <1>3 DEF DeliveryInv, TypeOK, RowsAreBorn
  <1>8. RanksOrder'
    <2>1. IsFiniteSet(Born') /\ Cardinality(Born') = Cardinality(Born) + 1
      BY <1>1, <1>5, FS_AddElement DEF DeliveryInv, RanksOrder
    <2>2. \A i \in Items : born[i] \in Nat /\ born[i] <= Cardinality(Born)
      BY DEF DeliveryInv, TypeOK, RanksOrder
    <2>3. \A i \in Items : born'[i] <= Cardinality(Born')
      BY <1>2, <1>6, <1>7, <2>1, <2>2
    <2>4. \A i \in Born : i \in Items /\ i # x
      BY <1>1 DEF Born
    <2>5. \A i \in Born : born'[i] = born[i] /\ born'[i] # Rank
      BY <1>2, <1>6, <2>2, <2>4
    <2>6. \A i, k \in Born' : born'[i] = born'[k] => i = k
      BY <1>5, <1>7, <2>5 DEF DeliveryInv, RanksOrder
    <2> QED
      BY <2>1, <2>3, <2>6 DEF RanksOrder
  <1>9. RowsAreBorn'
    BY <1>1, <1>3, <1>5, <1>6, <1>7 DEF DeliveryInv, RowsAreBorn
  <1>10. RetryBudget'
    BY <1>3, <1>6, <1>7, DeliveryAssumption DEF DeliveryInv, RetryBudget, WaitingRows
  <1>11. BatchIsCurrent'
    <2>1. x \notin batch
      BY <1>1 DEF DeliveryInv, TypeOK, BatchIsCurrent, RowsAreBorn, WaitingRows
    <2> QED
      BY <1>3, <1>6, <2>1, BatchFrame DEF DeliveryInv, TypeOK
  <1>12. ArrivalsAccounted'
    <2>1. row[x] = "absent"
      BY <1>1 DEF DeliveryInv, RowsAreBorn
    <2> QED
      BY <1>1, <1>3, <1>6, <1>7, <2>1 DEF DeliveryInv, ArrivalsAccounted, historyVars
  <1>13. FanOutIsFresh'
    <2>1. x[1] = review /\ \A u \in targets' : <<review, u>> # x
      BY <1>3 DEF x
    <2> QED
      BY <1>1, <1>3, <1>5, <2>1 DEF DeliveryInv, FanOutIsFresh, historyVars
  <1>14. ConsentIsTheFlag'
    BY <1>3 DEF DeliveryInv, ConsentIsTheFlag, installVars
  <1> QED
    BY <1>4, <1>8, <1>9, <1>10, <1>11, <1>12, <1>13, <1>14 DEF DeliveryInv

\* pending_deliveries reads waiting rows and their attempts.
LEMMA BeginFlushKeepsInv ==
    ASSUME DeliveryInv, BeginFlush
    PROVE  DeliveryInv'
  <1>1. PICK S \in SUBSET Items :
            /\ IsOldestDue(S)
            /\ batch' = S
            /\ copy' = [i \in Items |-> IF i \in S THEN tries[i] ELSE 0]
    BY DEF BeginFlush
  <1>2. /\ pc' = "batch" /\ pc = "flush"
        /\ UNCHANGED <<installVars, outboxVars, review, targets, historyVars>>
    BY DEF BeginFlush
  <1>3. TypeOK'
    BY <1>1, <1>2 DEF DeliveryInv, TypeOK, installVars, outboxVars, historyVars
  <1>4. BatchIsCurrent'
    BY <1>1, <1>2 DEF BatchIsCurrent, IsOldestDue, Due, outboxVars
  <1>5. ArrivalsAccounted'
    BY <1>2 DEF DeliveryInv, ArrivalsAccounted, outboxVars, historyVars
  <1>6. RanksOrder' /\ RowsAreBorn' /\ RetryBudget'
    BY <1>2, RowsFrame DEF outboxVars
  <1>7. FanOutIsFresh'
    BY <1>2, FreshFrame DEF outboxVars, historyVars
  <1>8. ConsentIsTheFlag'
    BY <1>2 DEF DeliveryInv, ConsentIsTheFlag, installVars
  <1> QED
    BY <1>3, <1>4, <1>5, <1>6, <1>7, <1>8 DEF DeliveryInv

\* delivery_failed, after a refusal, an error or a lost answer: the count of the
\* copy is right, and an arrival without an answer is remembered as such.
LEMMA FailureKeepsInv ==
    ASSUME DeliveryInv, NEW i \in Items, Refuse(i) \/ SendFails(i) \/ AnswerLost(i)
    PROVE  DeliveryInv'
  <1>1. /\ Current(i) /\ i \in batch
        /\ DeliveryFailed(i)
        /\ batch' = batch \ {i}
        /\ pc \in {"batch", "sending"} /\ pc' = "batch"
        /\ UNCHANGED <<installVars, born, review, targets, copy, done, owed, crashes>>
    BY DEF Refuse, SendFails, AnswerLost, Current, historyVars
  <1>2. \/ UNCHANGED <<received, unacked>>
        \/ /\ received' = [received EXCEPT ![i] = @ + 1]
           /\ unacked' = [unacked EXCEPT ![i] = @ + 1]
    BY DEF Refuse, SendFails, AnswerLost, historyVars
  <1>3. /\ row' \in [Items -> WaitingRows \union {"absent", "sent", "failed"}]
        /\ tries' \in [Items -> Nat]
        /\ wait' \in [Items -> Nat]
        /\ \A k \in Items \ {i} : row'[k] = row[k] /\ tries'[k] = tries[k]
        /\ row'[i] \in {"retry", "failed"}
        /\ row'[i] = "retry" => tries'[i] < MaxTries
        /\ row'[i] = "failed" => tries'[i] = MaxTries
    BY <1>1, FailureIsCounted
  <1>4. row[i] \in WaitingRows /\ i \in Born
    BY <1>1 DEF DeliveryInv, BatchIsCurrent, RowsAreBorn, WaitingRows
  <1>5. Born' = Born
    BY <1>1 DEF Born
  <1>6. TypeOK'
    BY <1>1, <1>2, <1>3 DEF DeliveryInv, TypeOK, installVars
  <1>7. RanksOrder'
    BY <1>1, <1>5 DEF DeliveryInv, RanksOrder
  <1>8. RowsAreBorn'
    BY <1>3, <1>4, <1>5 DEF DeliveryInv, RowsAreBorn
  <1>9. RetryBudget'
    BY <1>3 DEF DeliveryInv, RetryBudget, WaitingRows
  <1>10. BatchIsCurrent'
    BY <1>1, <1>3, BatchFrame DEF DeliveryInv, TypeOK
  <1>11. ArrivalsAccounted'
    BY <1>1, <1>2, <1>3, <1>4 DEF DeliveryInv, TypeOK, ArrivalsAccounted, WaitingRows
  <1>12. FanOutIsFresh'
    BY <1>1, FreshFrame
  <1>13. ConsentIsTheFlag'
    BY <1>1 DEF DeliveryInv, ConsentIsTheFlag, installVars
  <1> QED
    BY <1>6, <1>7, <1>8, <1>9, <1>10, <1>11, <1>12, <1>13 DEF DeliveryInv

\* An arrival is the current item's and nobody else's.
LEMMA SendOkKeepsInv ==
    ASSUME DeliveryInv, NEW i \in Items, SendOk(i)
    PROVE  DeliveryInv'
  <1>1. /\ Current(i) /\ i \in batch
        /\ received' = [received EXCEPT ![i] = @ + 1]
        /\ pc = "sending" /\ pc' = "accepted"
        /\ UNCHANGED <<installVars, outboxVars, review, targets, batch, copy, done, unacked, owed, crashes>>
    BY DEF SendOk, Current
  <1>2. TypeOK'
    BY <1>1 DEF DeliveryInv, TypeOK, installVars, outboxVars
  <1>3. RanksOrder' /\ RowsAreBorn' /\ RetryBudget'
    BY <1>1, RowsFrame DEF outboxVars
  <1>4. BatchIsCurrent'
    BY <1>1, BatchFrame DEF outboxVars
  <1>5. ArrivalsAccounted'
    <2>1. row[i] # "sent"
      BY <1>1 DEF DeliveryInv, BatchIsCurrent, WaitingRows
    <2>2. \A k \in Items : Current(k)' <=> k = i
      <3>1. \A k \in Items : Current(k)' <=> Current(k)
        BY <1>1 DEF Current, outboxVars
      <3>2. \A k \in Items : Current(k) => k = i
        BY <1>1, CurrentIsUnique
      <3> QED
        BY <1>1, <3>1, <3>2
    <2>3. \A k \in Items : received'[k] = IF k = i THEN received[k] + 1 ELSE received[k]
      BY <1>1 DEF DeliveryInv, TypeOK
    <2> QED
      BY <1>1, <2>1, <2>2, <2>3 DEF DeliveryInv, TypeOK, ArrivalsAccounted, outboxVars
  <1>6. FanOutIsFresh'
    BY <1>1, FreshFrame DEF outboxVars
  <1>7. ConsentIsTheFlag'
    BY <1>1 DEF DeliveryInv, ConsentIsTheFlag, installVars
  <1> QED
    BY <1>2, <1>3, <1>4, <1>5, <1>6, <1>7 DEF DeliveryInv

\* delivery_succeeded records the arrival of the current item.
LEMMA RecordSuccessKeepsInv ==
    ASSUME DeliveryInv, NEW i \in Items, RecordSuccess(i)
    PROVE  DeliveryInv'
  <1>1. /\ Current(i) /\ i \in batch
        /\ row' = [row EXCEPT ![i] = "sent"]
        /\ tries' = [tries EXCEPT ![i] = @ + 1]
        /\ batch' = batch \ {i}
        /\ pc = "accepted" /\ pc' = "batch"
        /\ UNCHANGED <<installVars, born, wait, review, targets, copy, historyVars>>
    BY DEF RecordSuccess, Current
  <1>2. TypeOK'
    BY <1>1 DEF DeliveryInv, TypeOK, installVars, historyVars
  <1>3. row[i] \in WaitingRows /\ i \in Born /\ tries[i] < MaxTries
    BY <1>1 DEF DeliveryInv, BatchIsCurrent, RowsAreBorn, RetryBudget, WaitingRows
  <1>4. /\ \A k \in Items \ {i} : row'[k] = row[k] /\ tries'[k] = tries[k]
        /\ row'[i] = "sent" /\ tries'[i] = tries[i] + 1
    BY <1>1 DEF DeliveryInv, TypeOK
  <1>5. Born' = Born
    BY <1>1 DEF Born
  <1>6. RanksOrder'
    BY <1>1, <1>5 DEF DeliveryInv, RanksOrder
  <1>7. RowsAreBorn'
    BY <1>3, <1>4, <1>5 DEF DeliveryInv, RowsAreBorn
  <1>8. RetryBudget'
    BY <1>3, <1>4, DeliveryAssumption DEF DeliveryInv, TypeOK, RetryBudget, WaitingRows
  <1>9. BatchIsCurrent'
    BY <1>1, <1>4, BatchFrame DEF DeliveryInv, TypeOK
  <1>10. ArrivalsAccounted'
    <2>1. \A k \in Items : Current(k) <=> k = i
      BY <1>1, CurrentIsUnique
    <2> QED
      BY <1>1, <1>3, <1>4, <2>1 DEF DeliveryInv, TypeOK, ArrivalsAccounted, WaitingRows, historyVars
  <1>11. FanOutIsFresh'
    BY <1>1, FreshFrame DEF historyVars
  <1>12. ConsentIsTheFlag'
    BY <1>1 DEF DeliveryInv, ConsentIsTheFlag, installVars
  <1> QED
    BY <1>2, <1>6, <1>7, <1>8, <1>9, <1>10, <1>11, <1>12 DEF DeliveryInv

\* A crash forgets the batch and with it the arrival that was to be recorded.
LEMMA CrashKeepsInv ==
    ASSUME DeliveryInv, Crash
    PROVE  DeliveryInv'
  <1>1. TypeOK'
    BY DeliveryAssumption DEF DeliveryInv, TypeOK, Crash, installVars, outboxVars
  <1>2. RanksOrder' /\ RowsAreBorn' /\ RetryBudget'
    BY RowsFrame DEF Crash, outboxVars
  <1>3. BatchIsCurrent'
    BY DEF Crash, BatchIsCurrent
  <1>4. ArrivalsAccounted'
    <2>1. \A i \in Items : Current(i) => row[i] # "sent"
      BY DEF DeliveryInv, BatchIsCurrent, Current, WaitingRows
    <2>2. \A i \in Items :
            unacked'[i] = IF pc = "accepted" /\ Current(i) THEN unacked[i] + 1 ELSE unacked[i]
      BY DEF Crash
    <2>3. pc' = "down" /\ UNCHANGED <<row, received>>
      BY DEF Crash, outboxVars
    <2> QED
      BY <2>1, <2>2, <2>3 DEF DeliveryInv, TypeOK, ArrivalsAccounted
  <1>5. FanOutIsFresh'
    <2>1. Born' = Born
      BY DEF Crash, outboxVars, Born
    <2> QED
      BY <2>1 DEF DeliveryInv, Crash, FanOutIsFresh
  <1>6. ConsentIsTheFlag'
    BY DEF DeliveryInv, Crash, ConsentIsTheFlag, installVars
  <1> QED
    BY <1>1, <1>2, <1>3, <1>4, <1>5, <1>6 DEF DeliveryInv

\* Time changes nothing but how long the rows wait.
LEMMA TickKeepsInv ==
    ASSUME DeliveryInv, Tick
    PROVE  DeliveryInv'
  <1>1. UNCHANGED <<installVars, born, row, tries, workerVars, historyVars>>
    BY DEF Tick
  <1>2. wait' \in [Items -> Nat]
    BY DEF Tick, DeliveryInv, TypeOK
  <1>3. TypeOK'
    BY <1>1, <1>2 DEF DeliveryInv, TypeOK, installVars, workerVars, historyVars
  <1>4. RanksOrder' /\ RowsAreBorn' /\ RetryBudget'
    BY <1>1, RowsFrame
  <1>5. BatchIsCurrent' /\ ArrivalsAccounted' /\ FanOutIsFresh'
    BY <1>1, BatchFrame, ArrivalsFrame, FreshFrame DEF workerVars, historyVars
  <1>6. ConsentIsTheFlag'
    BY <1>1 DEF DeliveryInv, ConsentIsTheFlag, installVars
  <1> QED
    BY <1>3, <1>4, <1>5, <1>6 DEF DeliveryInv

-----------------------------------------------------------------------------
(* The theorems.                                                           *)

\* An empty outbox satisfies the invariant.
LEMMA InitHasInv == Init => DeliveryInv
  <1> SUFFICES ASSUME Init PROVE DeliveryInv
    OBVIOUS
  <1>1. Born = {}
    BY DEF Init, Born
  <1>2. RanksOrder
    BY <1>1, FS_EmptySet DEF Init, RanksOrder
  <1>3. TypeOK
    BY DeliveryAssumption DEF Init, TypeOK
  <1>4. FanOutIsFresh /\ RowsAreBorn /\ BatchIsCurrent /\ ConsentIsTheFlag
    BY <1>1 DEF Init, FanOutIsFresh, RowsAreBorn, BatchIsCurrent, ConsentIsTheFlag
  <1>5. ArrivalsAccounted /\ RetryBudget
    BY DEF Init, ArrivalsAccounted, RetryBudget, WaitingRows
  <1> QED
    BY <1>2, <1>3, <1>4, <1>5 DEF DeliveryInv

\* Every step of the API, the worker, the clock and a crash keeps it.
LEMMA StepKeepsInv == DeliveryInv /\ [Next]_vars => DeliveryInv'
  <1> SUFFICES ASSUME DeliveryInv, [Next]_vars PROVE DeliveryInv'
    OBVIOUS
  <1>1. CASE ApiStep
    BY <1>1, ApiKeepsInv
  <1>2. CASE \/ \E r \in Reviews : Complete(r)
             \/ NoJob \/ BeginFanOut \/ EndFanOut \/ StartSend \/ EndFlush \/ Restart
    BY <1>2, QuietStepsKeepInv
  <1>3. ASSUME NEW t \in Targets, Enqueue(t)
        PROVE  DeliveryInv'
    BY <1>3, EnqueueKeepsInv
  <1>4. CASE BeginFlush
    BY <1>4, BeginFlushKeepsInv
  <1>5. ASSUME NEW i \in Items, Refuse(i) \/ SendFails(i) \/ AnswerLost(i)
        PROVE  DeliveryInv'
    BY <1>5, FailureKeepsInv
  <1>6. ASSUME NEW i \in Items, SendOk(i)
        PROVE  DeliveryInv'
    BY <1>6, SendOkKeepsInv
  <1>7. ASSUME NEW i \in Items, RecordSuccess(i)
        PROVE  DeliveryInv'
    BY <1>7, RecordSuccessKeepsInv
  <1>8. CASE Crash
    BY <1>8, CrashKeepsInv
  <1>9. CASE Tick
    BY <1>9, TickKeepsInv
  <1>10. CASE UNCHANGED vars
    <2>1. UNCHANGED <<installVars, outboxVars, workerVars, historyVars>>
      BY <1>10 DEF vars
    <2>2. RanksOrder' /\ RowsAreBorn' /\ RetryBudget'
      BY <2>1, RowsFrame DEF outboxVars
    <2>3. BatchIsCurrent' /\ ArrivalsAccounted' /\ FanOutIsFresh'
      BY <2>1, BatchFrame, ArrivalsFrame, FreshFrame DEF outboxVars, workerVars, historyVars
    <2>4. TypeOK' /\ ConsentIsTheFlag'
      BY <2>1 DEF DeliveryInv, TypeOK, ConsentIsTheFlag, installVars, outboxVars, workerVars, historyVars
    <2> QED
      BY <2>2, <2>3, <2>4 DEF DeliveryInv
  <1> QED
    BY <1>1, <1>2, <1>3, <1>4, <1>5, <1>6, <1>7, <1>8, <1>9, <1>10 DEF Next, WorkerStep

\* The invariant holds throughout.
LEMMA InvHolds == Spec => []DeliveryInv
  BY InitHasInv, StepKeepsInv, PTL DEF Spec

\* Tables, worker and history are well typed: in particular created_at is a
\* number whatever the number of rows, and no crash is miscounted.
THEOREM DeliveryTypeCorrect == Spec => []TypeOK
  <1>1. DeliveryInv => TypeOK
    BY DEF DeliveryInv
  <1> QED
    BY <1>1, InvHolds, PTL

\* Nothing is called sent that did not arrive, and an item arrives again only
\* after an arrival that a lost answer or a crash kept from being recorded:
\* flush_outbox delivers at least once, and duplicates have a cause.
THEOREM ArrivalsAreAccounted == Spec => []ArrivalsAccounted
  <1>1. DeliveryInv => ArrivalsAccounted
    BY DEF DeliveryInv
  <1> QED
    BY <1>1, InvHolds, PTL

\* delivery_failed writes a count from a copy, and yet every item gets exactly
\* max_attempts tries before it fails.
THEOREM RetriesAreBudgeted == Spec => []RetryBudget
  <1>1. DeliveryInv => RetryBudget
    BY DEF DeliveryInv
  <1> QED
    BY <1>1, InvHolds, PTL

\* A send begins only to a destination that an administrator enabled and that
\* was neither disabled nor removed since, however old the batch is.
THEOREM ConsentComesFirst == Spec => ConsentBeforeSend
  <1>1. DeliveryInv /\ [Next]_vars =>
            [pc # "sending" /\ pc' = "sending" =>
                \A i \in batch : Current(i) /\ TargetOf(i) \in Destinations => TargetOf(i) \in consent]_vars
    <2> SUFFICES ASSUME DeliveryInv, [Next]_vars, pc # "sending", pc' = "sending",
                        NEW i \in batch, Current(i), TargetOf(i) \in Destinations
                 PROVE  TargetOf(i) \in consent
      OBVIOUS
    <2>1. StartSend
      BY DEF Next, vars, workerVars, ApiStep, WorkerStep, Install, Remove, Enable, Disable, Complete, NoJob,
             BeginFanOut, Enqueue, EndFanOut, BeginFlush, Refuse, SendOk, SendFails, AnswerLost,
             RecordSuccess, EndFlush, Crash, Restart, Tick
    <2>2. PICK k \in batch : Current(k) /\ Deliverable(TargetOf(k))
      BY <2>1 DEF StartSend
    <2>3. k = i
      BY <2>2, CurrentIsUnique DEF DeliveryInv, TypeOK
    <2> QED
      BY <2>2, <2>3, DeliveryAssumption DEF Deliverable, DeliveryInv, ConsentIsTheFlag
  <1> QED
    BY <1>1, InvHolds, PTL DEF Spec, ConsentBeforeSend

-----------------------------------------------------------------------------
(* The refinement.                                                         *)

\* A step that leaves the rows, the arrivals and the item being confirmed alone is
\* none of the promise's business.
LEMMA PromiseFrame ==
    ASSUME UNCHANGED <<row, tries, received>>,
           \A i \in Items : (pc = "accepted" /\ Current(i)) <=> (pc = "accepted" /\ Current(i))'
    PROVE  UNCHANGED Promise!vars
  <1>1. \A i \in Items : PhaseOf(i)' = PhaseOf(i)
    BY DEF PhaseOf
  <1>2. Phase' = Phase
    BY <1>1 DEF Phase
  <1> QED
    BY <1>2 DEF Promise!vars

\* A step that concerns one item only moves that item.
LEMMA PhaseMoves ==
    ASSUME NEW i \in Items, \A k \in Items \ {i} : PhaseOf(k)' = PhaseOf(k)
    PROVE  Phase' = [Phase EXCEPT ![i] = PhaseOf(i)']
  BY DEF Phase

\* Enqueue inserts a row that was not there.
LEMMA EnqueueIsQueue ==
    ASSUME DeliveryInv, NEW t \in Targets, Enqueue(t)
    PROVE  \E i \in Items : Promise!Queue(i)
  <1>0. <<review, t>> \in Items /\ <<review, t>> \notin Born
    BY DEF Enqueue, DeliveryInv, TypeOK, FanOutIsFresh, Items
  <1>1. PICK x \in Items : x = <<review, t>> /\ x \notin Born
    BY <1>0
  <1>2. /\ pc = "fanout" /\ pc' = "fanout" /\ row' = [row EXCEPT ![x] = "pending"]
        /\ tries' = tries /\ received' = received
    BY <1>1 DEF Enqueue, historyVars
  <1>3. row[x] = "absent" /\ row'[x] = "pending" /\ \A k \in Items \ {x} : row'[k] = row[k]
    BY <1>1, <1>2 DEF DeliveryInv, TypeOK, RowsAreBorn
  <1>4. Phase[x] = "none" /\ PhaseOf(x)' = "queued" /\ \A k \in Items \ {x} : PhaseOf(k)' = PhaseOf(k)
    BY <1>1, <1>2, <1>3 DEF Phase, PhaseOf
  <1>5. Phase' = [Phase EXCEPT ![x] = "queued"]
    BY <1>1, <1>4, PhaseMoves
  <1> QED
    BY <1>1, <1>2, <1>4, <1>5 DEF Promise!Queue

\* A card accepted is an arrival to be confirmed, of the one current item.
LEMMA SendOkIsArrive ==
    ASSUME DeliveryInv, NEW i \in Items, SendOk(i)
    PROVE  Promise!Arrive(i)
  <1>1. /\ pc = "sending" /\ pc' = "accepted" /\ Current(i) /\ i \in batch
        /\ row' = row /\ tries' = tries /\ batch' = batch /\ born' = born
        /\ received' = [received EXCEPT ![i] = @ + 1]
    BY DEF SendOk, outboxVars, Current
  <1>2. \A k \in Items : Current(k)' <=> Current(k)
    BY <1>1 DEF Current
  <1>3. \A k \in Items \ {i} : ~Current(k)
    BY <1>1, CurrentIsUnique
  <1>4. row[i] \in WaitingRows
    BY <1>1 DEF DeliveryInv, BatchIsCurrent
  <1>5. Phase[i] = "queued" /\ PhaseOf(i)' = "arrived"
    BY <1>1, <1>2, <1>4 DEF Phase, PhaseOf, WaitingRows
  <1>6. \A k \in Items \ {i} : PhaseOf(k)' = PhaseOf(k)
    BY <1>1, <1>2, <1>3 DEF PhaseOf
  <1>7. Phase' = [Phase EXCEPT ![i] = "arrived"]
    BY <1>5, <1>6, PhaseMoves
  <1> QED
    BY <1>1, <1>5, <1>7 DEF Promise!Arrive, Promise!Reaches

\* delivery_succeeded confirms the arrival.
LEMMA RecordSuccessIsConfirm ==
    ASSUME DeliveryInv, NEW i \in Items, RecordSuccess(i)
    PROVE  Promise!Confirm(i)
  <1>1. /\ pc = "accepted" /\ pc' = "batch" /\ Current(i)
        /\ row' = [row EXCEPT ![i] = "sent"] /\ tries' = [tries EXCEPT ![i] = @ + 1]
        /\ received' = received
    BY DEF RecordSuccess, historyVars
  <1>2. \A k \in Items \ {i} : ~Current(k)
    BY <1>1, CurrentIsUnique
  <1>3. row'[i] = "sent" /\ \A k \in Items \ {i} : row'[k] = row[k]
    BY <1>1 DEF DeliveryInv, TypeOK
  <1>4. /\ Phase[i] = "arrived"
        /\ PhaseOf(i)' = "delivered"
    <2>1. PhaseOf(i) = "arrived"
      BY <1>1 DEF PhaseOf, DeliveryInv, BatchIsCurrent, Current, WaitingRows
    <2>2. PhaseOf(i)' = "delivered"
      BY <1>1, <1>3 DEF PhaseOf
    <2> QED
      BY <2>1, <2>2 DEF Phase
  <1>5. \A k \in Items \ {i} : PhaseOf(k)' = PhaseOf(k)
    BY <1>1, <1>2, <1>3 DEF PhaseOf
  <1>6. Phase' = [Phase EXCEPT ![i] = "delivered"]
    BY <1>4, <1>5, PhaseMoves
  <1> QED
    BY <1>1, <1>4, <1>6 DEF Promise!Confirm

\* delivery_failed counts one try more than the row has, although it computes it
\* from the copy, and gives up at the limit.
LEMMA FailureIsFail ==
    ASSUME DeliveryInv, NEW i \in Items, Refuse(i) \/ SendFails(i) \/ AnswerLost(i)
    PROVE  Promise!Fail(i)
  <1>1. /\ pc \in {"batch", "sending"} /\ pc' = "batch" /\ Current(i) /\ i \in batch
        /\ DeliveryFailed(i)
        /\ received' = received \/ received' = [received EXCEPT ![i] = @ + 1]
    BY DEF Refuse, SendFails, AnswerLost, historyVars, Current
  <1>2. row[i] \in WaitingRows /\ copy[i] = tries[i] /\ tries[i] \in Nat /\ tries[i] < MaxTries
    BY <1>1 DEF DeliveryInv, TypeOK, BatchIsCurrent, RetryBudget
  <1>3. tries' = [tries EXCEPT ![i] = @ + 1]
    BY <1>1, <1>2 DEF DeliveryFailed, Attempts
  <1>4. GivesUp(i) <=> tries[i] + 1 = MaxTries
    BY <1>2, DeliveryAssumption DEF GivesUp, Attempts
  <1>5. /\ row'[i] = IF tries[i] + 1 = MaxTries THEN "failed" ELSE "retry"
        /\ \A k \in Items \ {i} : row'[k] = row[k]
    BY <1>1, <1>4 DEF DeliveryFailed, DeliveryInv, TypeOK
  <1>6. Phase[i] = "queued" /\ PhaseOf(i)' = IF tries[i] + 1 = MaxTries THEN "dead" ELSE "queued"
    BY <1>1, <1>2, <1>5 DEF Phase, PhaseOf, WaitingRows
  <1>7. \A k \in Items \ {i} : PhaseOf(k)' = PhaseOf(k)
    BY <1>1, <1>5 DEF PhaseOf
  <1>8. Phase' = IF tries[i] + 1 = MaxTries THEN [Phase EXCEPT ![i] = "dead"] ELSE Phase
    <2>1. Phase' = [Phase EXCEPT ![i] = PhaseOf(i)']
      BY <1>7, PhaseMoves
    <2>2. [Phase EXCEPT ![i] = "queued"] = Phase
      BY <1>6 DEF Phase
    <2> QED
      BY <1>6, <2>1, <2>2
  <1> QED
    BY <1>1, <1>3, <1>6, <1>8 DEF Promise!Fail, Promise!Reaches

\* A crash forgets at most the arrival that was to be confirmed.
LEMMA CrashIsForget ==
    ASSUME DeliveryInv, Crash
    PROVE  (\E i \in Items : Promise!Forget(i)) \/ UNCHANGED Promise!vars
  <1>1. row' = row /\ tries' = tries /\ received' = received /\ pc' = "down"
    BY DEF Crash, outboxVars
  <1>2. ASSUME NEW i \in Items, pc = "accepted", Current(i) PROVE Promise!Forget(i)
    <2>1. \A k \in Items \ {i} : ~Current(k)
      BY <1>2, CurrentIsUnique
    <2>2. row[i] \in WaitingRows
      BY <1>2 DEF DeliveryInv, BatchIsCurrent, Current
    <2>3. Phase[i] = "arrived" /\ PhaseOf(i)' = "queued"
      BY <1>1, <1>2, <2>2 DEF Phase, PhaseOf, WaitingRows
    <2>4. \A k \in Items \ {i} : PhaseOf(k)' = PhaseOf(k)
      BY <1>1, <2>1 DEF PhaseOf
    <2>5. Phase' = [Phase EXCEPT ![i] = "queued"]
      BY <2>3, <2>4, PhaseMoves
    <2> QED
      BY <1>1, <2>3, <2>5 DEF Promise!Forget
  <1>3. CASE \A i \in Items : ~(pc = "accepted" /\ Current(i))
    BY <1>1, <1>3, PromiseFrame
  <1> QED
    BY <1>2, <1>3

\* Every step of the delivery is a step of the promise, or none.
LEMMA OutboxStep == DeliveryInv /\ [Next]_vars => [Promise!Next]_(Promise!vars)
  <1> SUFFICES ASSUME DeliveryInv, [Next]_vars PROVE Promise!Next \/ UNCHANGED Promise!vars
    OBVIOUS
  <1>1. ASSUME UNCHANGED <<row, tries, received, batch, born>>, pc # "accepted" <=> pc' # "accepted"
        PROVE  UNCHANGED Promise!vars
    BY <1>1, PromiseFrame DEF Current
  <1>2. CASE ApiStep \/ Tick \/ UNCHANGED vars
    <2>1. UNCHANGED <<row, tries, received, batch, born, pc>>
      BY <1>2 DEF ApiStep, Install, Remove, Enable, Disable, Tick, vars, outboxVars, workerVars, historyVars
    <2> QED
      BY <1>1, <2>1
  <1>3. CASE \/ \E r \in Reviews : Complete(r)
             \/ NoJob \/ BeginFanOut \/ EndFanOut \/ StartSend \/ EndFlush \/ Restart
    <2>1. UNCHANGED <<row, tries, received, batch, born>> /\ pc # "accepted" /\ pc' # "accepted"
      BY <1>3 DEF Complete, NoJob, BeginFanOut, EndFanOut, StartSend, EndFlush, Restart, outboxVars, historyVars
    <2> QED
      BY <1>1, <2>1
  <1>4. CASE BeginFlush
    <2>1. UNCHANGED <<row, tries, received>> /\ pc # "accepted" /\ pc' # "accepted"
      BY <1>4 DEF BeginFlush, outboxVars, historyVars
    <2> QED
      BY <2>1, PromiseFrame
  <1>5. ASSUME NEW t \in Targets, Enqueue(t) PROVE Promise!Next
    BY <1>5, EnqueueIsQueue DEF Promise!Next
  <1>6. ASSUME NEW i \in Items, Refuse(i) \/ SendFails(i) \/ AnswerLost(i) PROVE Promise!Next
    BY <1>6, FailureIsFail DEF Promise!Next
  <1>7. ASSUME NEW i \in Items, SendOk(i) PROVE Promise!Next
    BY <1>7, SendOkIsArrive DEF Promise!Next
  <1>8. ASSUME NEW i \in Items, RecordSuccess(i) PROVE Promise!Next
    BY <1>8, RecordSuccessIsConfirm DEF Promise!Next
  <1>9. CASE Crash
    BY <1>9, CrashIsForget DEF Promise!Next
  <1> QED
    BY <1>2, <1>3, <1>4, <1>5, <1>6, <1>7, <1>8, <1>9 DEF Next, WorkerStep

\* The outbox implements OutboxPromise: whatever the API, the clock and crashes do
\* between two commits of the worker, an item is queued once, each of its tries is
\* counted once although the count comes from a copy, and sent and failed are final.
THEOREM OutboxKeepsPromise == Spec => KeepsOutboxPromise
  <1>1. Init => Promise!Init
    <2> SUFFICES ASSUME Init PROVE Promise!Init
      OBVIOUS
    <2>1. \A i \in Items : PhaseOf(i) = "none"
      BY DEF Init, PhaseOf
    <2> QED
      BY <2>1 DEF Init, Promise!Init, Phase
  <1>2. DeliveryInv /\ [Next]_vars => [Promise!Next]_(Promise!vars)
    BY OutboxStep
  <1> QED
    BY <1>1, <1>2, InvHolds, PTL DEF Spec, KeepsOutboxPromise, Promise!Spec

=============================================================================
