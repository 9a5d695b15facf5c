---------------------------- MODULE ScatterProofs ----------------------------
(***************************************************************************)
(* Proofs about Scatter, for every number of items and workers, every       *)
(* naming, deadline, set of hanging peers and set of answers.               *)
(***************************************************************************)
EXTENDS Scatter, SortingProofs, FiniteSetTheorems, SequenceTheorems, TLAPS

(***************************************************************************)
(* The inductive invariant.                                                *)
(***************************************************************************)

\* Every item handed to the pool is reported or pending, never both, and pending
\* items are labelled before the caller sorts.
Accounts ==
    /\ Reported \cup pending = 1 .. submitted
    /\ Reported \cap pending = {}
    /\ Len(results) + Cardinality(pending) = submitted
    /\ pc # "submit" /\ reason # NoThread => submitted = call.n
    /\ reason = NoThread => pc = "raised"
    /\ pc \in {"sort", "returned"} => pending = {}
    /\ pc = "shutdown" /\ reason # "overflow" => pending = {}

\* An item is in the queue, then in the hands of one thread, and is posted when it
\* begins to run.
Queued ==
    /\ \A i \in Slots :
          /\ i > submitted => fut[i] = "unsubmitted"
          /\ next <= i /\ i <= submitted => fut[i] = "pending"
          /\ sends[i] = IF fut[i] \in {"running", "finished"} THEN 1 ELSE 0
    /\ \A w \in Workers : thread[w] # Free =>
          thread[w] < next /\ fut[thread[w]] \in {"pending", "running"}
    /\ \A v, w \in Workers : thread[v] # Free /\ thread[v] = thread[w] => v = w

\* While the caller waits it has taken answers only, none of them a success to stop
\* at, and as_completed holds finished items it has not yielded.
Gathering ==
    /\ pc = "submit" => results = <<>> /\ batch = {} /\ arrived = {}
    /\ pc \in Waiting =>
          /\ batch \cup arrived \subseteq pending
          /\ batch \cap arrived = {}
          /\ pc = "wait" => batch = {}
          /\ \A i \in pending : fut[i] = "finished" <=> i \in batch \cup arrived
          /\ \A k \in 1 .. Len(results) :
                /\ fut[results[k].item] = "finished"
                /\ results[k].terminal \notin Labels
                /\ ~(call.stop /\ results[k].ok)

\* The reason is decided when the wait ends, the labels given are the reason, and
\* the reason was earned.
Labelling ==
    /\ pc \in {"submit"} \cup Waiting => reason = NoReason
    /\ pc = "label" => reason \in Labels
    /\ \A k \in 1 .. Len(results) :
          /\ results[k].terminal \in Labels => results[k].terminal = reason
          /\ results[k].ok <=> results[k].terminal = "ok"
    /\ reason = "deadline" =>
          expired /\ ~(call.stop /\ \E k \in 1 .. Len(results) : results[k].ok)
    /\ (reason = "abandoned"
          /\ (pending # {} \/ \E k \in 1 .. Len(results) : results[k].terminal = "abandoned")) =>
          call.stop /\ \E k \in 1 .. Len(results) : results[k].ok

\* Once the pool is shut down nothing is queued, and each message posted since was
\* posted by a thread that held its item by then.
Holding == {w \in Workers : thread[w] # Free /\ fut[thread[w]] = "pending"}

Late ==
    /\ ~ShutDownDone => late = {}
    /\ ShutDownDone =>
          next > submitted /\ Cardinality(late) + Cardinality(Holding) <= Cardinality(Workers)

\* A result that is not a label is the item's own answer, taken once its request had ended.
OwnAnswer ==
    \A k \in 1 .. Len(results) :
        results[k].terminal \notin Labels =>
            LET i == results[k].item IN
            fut[i] = "finished" /\ results[k] = FanResult(i, answer[i])

InOrder ==
    pc = "returned" =>
        \A j, k \in 1 .. Len(results) : j < k => Name[results[j].item] <= Name[results[k].item]

IndInv ==
    /\ TypeOK
    /\ Accounts
    /\ Queued
    /\ Gathering
    /\ OwnAnswer
    /\ Labelling
    /\ StopsAtFirst
    /\ Late
    /\ InOrder

Results == [item : Slots, ok : BOOLEAN, terminal : Verdicts]

-------------------------------------------------------------------------------
(***************************************************************************)
(* What the steps have in common.                                          *)
(***************************************************************************)

\* What call() makes of an exchange is a result of its item, never a label.
LEMMA FanResultShape ==
    ASSUME NEW i \in Slots, NEW x
    PROVE  /\ FanResult(i, x) \in Results
           /\ FanResult(i, x).item = i
           /\ FanResult(i, x).terminal \notin Labels
           /\ FanResult(i, x).ok <=> FanResult(i, x).terminal = "ok"
BY DEF FanResult, interpret_result, Results, Verdicts, Labels

\* The arguments of a call stay what they are, and with them its items and threads.
LEMMA CallStays ==
    ASSUME [Next]_vars
    PROVE  call' = call /\ Items' = Items /\ Workers' = Workers
<1>1. call' = call
  BY DEF Next, Caller, Worker, vars, ReturnEmpty, Submit, SubmitFails, SubmitFailsAs, Enqueue,
     Enter, Gather, TakeResult,
         AllGathered, TimedOut, EndWait, Overflow, OverflowWith, Block, Wake, WakeOn, Label,
         Labelled, Cancel, ShutDown, ShutDownOnce, Sort, Pop, Begin, Finish, Expire
<1> QED
  BY <1>1 DEF Items, Workers

\* The number of items is a natural number, and the threads are finitely many.
LEMMA Sizes ==
    ASSUME TypeOK
    PROVE  /\ call.n \in 0 .. MaxItems
           /\ Items \subseteq Slots
           /\ IsFiniteSet(Items)
           /\ IsFiniteSet(Workers)
<1>1. call.n \in 0 .. MaxItems
  BY DEF TypeOK, Calls
<1>2. _clamp(MaxWorkers, 1, call.n) \in Int
  BY <1>1, ScatterAssumption DEF _clamp
<1>3. IsFiniteSet(Items)
  BY <1>1, FS_Interval DEF Items
<1>4. IsFiniteSet(Workers)
  BY <1>2, FS_Interval DEF Workers
<1> QED
  BY <1>1, <1>3, <1>4, ScatterAssumption DEF Items, Slots

\* One more result at the end of the list.
LEMMA AppendResult ==
    ASSUME NEW s \in Seq(Results), NEW r \in Results, NEW t, t = Append(s, r)
    PROVE  /\ t \in Seq(Results)
           /\ Len(t) = Len(s) + 1
           /\ \A k \in 1 .. Len(s) : t[k] = s[k]
           /\ t[Len(s) + 1] = r
BY AppendProperties

\* The sort keys are the names of the results' items, one each.
LEMMA SortKeysShape ==
    ASSUME results \in Seq(Results)
    PROVE  /\ SortKeys \in Seq(Nat)
           /\ Len(SortKeys) = Len(results)
           /\ \A k \in 1 .. Len(results) : SortKeys[k] = Name[results[k].item]
<1>1. Len(results) \in Nat /\ \A k \in 1 .. Len(results) : results[k] \in Results
  BY LenProperties, ElementOfSeq
<1>2. \A k \in 1 .. Len(results) : Name[results[k].item] \in Nat
  BY <1>1, ScatterAssumption DEF Results, Slots
<1>3. SortKeys \in [1 .. Len(results) -> Nat]
  BY <1>2 DEF SortKeys
<1>4. SortKeys \in Seq(Nat) /\ Len(SortKeys) = Len(results)
  BY <1>1, <1>3, IsASeq, LenProperties DEF SortKeys
<1> QED
  BY <1>4 DEF SortKeys

\* A stable order takes no position twice and leaves none out.
LEMMA OrderIsPermutation ==
    ASSUME NEW s \in Seq(Results), NEW keys \in Seq(Nat), Len(keys) = Len(s),
           NEW p \in StableOrders(keys)
    PROVE  /\ Rearranged(s, p) \in Seq(Results)
           /\ Len(Rearranged(s, p)) = Len(s)
           /\ \A k \in 1 .. Len(s) : p[k] \in 1 .. Len(s) /\ Rearranged(s, p)[k] = s[p[k]]
           /\ \A j \in 1 .. Len(s) : \E k \in 1 .. Len(s) : p[k] = j
           /\ \A j, k \in 1 .. Len(s) : p[j] = p[k] => j = k
           /\ \A j, k \in 1 .. Len(s) : j < k => keys[p[j]] <= keys[p[k]]
<1> DEFINE m == Len(s)
<1>1. m \in Nat /\ DOMAIN s = 1 .. m
  BY LenProperties
<1>2. p \in [1 .. m -> 1 .. m] /\ {p[k] : k \in 1 .. m} = 1 .. m /\ Orders(p, keys)
  BY DEF StableOrders, Permutes
<1>3. \A k \in 1 .. m : p[k] \in 1 .. m /\ Rearranged(s, p)[k] = s[p[k]]
  BY <1>2 DEF Rearranged
<1>4. \A j \in 1 .. m : \E k \in 1 .. m : p[k] = j
  BY <1>2
<1>5. \A k \in 1 .. m : keys[k] \in Nat
  BY <1>1
<1>6. ASSUME NEW j \in 1 .. m, NEW k \in 1 .. m, j < k
      PROVE  p[j] # p[k] /\ keys[p[j]] <= keys[p[k]]
  <2>1. keys[p[j]] \in Nat /\ keys[p[k]] \in Nat /\ p[j] \in Nat /\ p[k] \in Nat
    BY <1>1, <1>3, <1>5
  <2>2. \/ keys[p[j]] < keys[p[k]]
        \/ keys[p[j]] = keys[p[k]] /\ p[j] < p[k]
    BY <1>2, <1>6 DEF Orders
  <2> QED
    BY <2>1, <2>2
<1>7. Rearranged(s, p) \in Seq(Results) /\ Len(Rearranged(s, p)) = m
  <2>1. \A k \in 1 .. m : s[p[k]] \in Results
    BY <1>1, <1>2, ElementOfSeq
  <2>2. Rearranged(s, p) \in [1 .. m -> Results]
    BY <2>1 DEF Rearranged
  <2> QED
    BY <2>2, <1>1, IsASeq, LenProperties DEF Rearranged
<1>8. \A j, k \in 1 .. m : p[j] = p[k] => j = k
  BY <1>1, <1>6
<1> QED
  BY <1>3, <1>4, <1>6, <1>7, <1>8

-------------------------------------------------------------------------------
(***************************************************************************)
(* Types.                                                                  *)
(***************************************************************************)

\* One more FanResult keeps the results a list of FanResults.
LEMMA ResultsGrow ==
    ASSUME results \in Seq(Results), NEW r \in Results, results' = Append(results, r)
    PROVE  results' \in Seq(Results)
BY AppendResult

\* Every step keeps the types; a label is written only when the reason is one.
LEMMA TypeStep ==
    ASSUME TypeOK, pc = "label" => reason \in Labels, [Next]_vars
    PROVE  TypeOK'
<1> USE DEF callVars, poolVars, CallerStates
<1>1. /\ call.n \in 0 .. MaxItems /\ Items \subseteq Slots /\ MaxItems \in Nat
      /\ Items = 1 .. call.n /\ Slots = 1 .. MaxItems
      /\ submitted \in 0 .. call.n /\ next \in 1 .. submitted + 1
  BY Sizes, ScatterAssumption DEF TypeOK, Items, Slots
<1>2. call' = call /\ Items' = Items /\ Workers' = Workers
  BY CallStays
<1>3. results \in Seq(Results)
  BY DEF TypeOK, Results
<1>4. CASE ReturnEmpty
  BY <1>2, <1>4 DEF ReturnEmpty, TypeOK
<1>5. CASE Submit \/ SubmitFails
  <2>1. submitted + 1 \in 0 .. call.n /\ submitted + 1 \in Items /\ submitted + 1 \in Slots
    BY <1>1, <1>5 DEF Submit, SubmitFails, SubmitFailsAs, Enqueue
  <2>2. next \in 1 .. (submitted + 1) + 1
    BY <1>1
  <2>3. fut' \in [Slots -> FutureStates]
    BY <2>1, <1>5 DEF Submit, SubmitFails, SubmitFailsAs, Enqueue, TypeOK, FutureStates
  <2> QED
    BY <1>2, <1>5, <2>1, <2>2, <2>3 DEF Submit, SubmitFails, SubmitFailsAs, Enqueue, TypeOK
<1>6. CASE Enter
  BY <1>2, <1>6 DEF Enter, TypeOK
<1>7. ASSUME NEW i \in batch, Gather(i) PROVE TypeOK'
  <2>1. i \in Slots
    BY <1>1, <1>7 DEF TypeOK
  <2>2. results' \in Seq(Results)
    BY <1>3, <1>7, <2>1, FanResultShape, ResultsGrow DEF Gather, TakeResult
  <2>3. pc' \in CallerStates /\ reason' \in Labels \cup {NoReason, NoThread, "overflow"}
    BY <1>7 DEF Gather, TakeResult, TypeOK, Labels
  <2> QED
    BY <1>2, <1>7, <2>2, <2>3 DEF Gather, TakeResult, TypeOK, Results
<1>8. CASE AllGathered \/ TimedOut
  BY <1>2, <1>8 DEF AllGathered, TimedOut, EndWait, TypeOK, Labels
<1>9. CASE Overflow \/ Block
  BY <1>2, <1>9 DEF Overflow, OverflowWith, Block, TypeOK
<1>10. CASE Wake
  BY <1>2, <1>10 DEF Wake, WakeOn, TypeOK
<1>11. CASE Label
  <2>1. PICK i \in pending : results' = Append(results, LabelResult(i)) /\ pending' = pending \ {i}
    BY <1>11 DEF Label
  <2>2. LabelResult(i) \in Results
    BY <1>1, <1>11, <2>1 DEF Label, LabelResult, Results, Verdicts, TypeOK
  <2>3. results' \in Seq(Results)
    BY <1>3, <2>1, <2>2, ResultsGrow
  <2> QED
    BY <1>2, <1>11, <2>1, <2>3 DEF Label, TypeOK, Results
<1>12. CASE Labelled \/ ShutDown
  BY <1>2, <1>12 DEF Labelled, ShutDown, ShutDownOnce, TypeOK
<1>13. CASE Cancel
  <2>1. next + 1 \in 1 .. submitted + 1
    BY <1>1, <1>13 DEF Cancel
  <2>2. fut' \in [Slots -> FutureStates]
    BY <1>13 DEF Cancel, TypeOK, FutureStates
  <2> QED
    BY <1>2, <1>13, <2>1, <2>2 DEF Cancel, TypeOK
<1>14. CASE Sort
  <2>1. PICK p \in StableOrders(SortKeys) : results' = Rearranged(results, p)
    BY <1>14 DEF Sort
  <2>2. SortKeys \in Seq(Nat) /\ Len(SortKeys) = Len(results)
    BY <1>3, SortKeysShape
  <2>3. results' \in Seq(Results)
    BY <1>3, <2>1, <2>2, OrderIsPermutation
  <2> QED
    BY <1>2, <1>14, <2>3 DEF Sort, TypeOK, Results
<1>15. CASE Expire
  BY <1>2, <1>15 DEF Expire, TypeOK
<1>16. ASSUME NEW w \in Workers, Pop(w) PROVE TypeOK'
  <2>1. next \in 0 .. call.n /\ next + 1 \in 1 .. submitted + 1
    BY <1>1, <1>16 DEF Pop
  <2>2. thread' \in [Workers -> 0 .. call.n]
    BY <1>16, <2>1 DEF Pop, TypeOK
  <2> QED
    BY <1>2, <1>16, <2>1, <2>2 DEF Pop, TypeOK
<1>17. ASSUME NEW w \in Workers, Begin(w) PROVE TypeOK'
  <2>1. thread[w] \in Items /\ thread[w] \in Slots
    BY <1>1, <1>17 DEF Begin, TypeOK, Free
  <2>2. fut' \in [Slots -> FutureStates]
    BY <1>17, <2>1 DEF Begin, TypeOK, FutureStates
  <2>3. sends' \in [Slots -> Nat]
    BY <1>17, <2>1 DEF Begin, TypeOK
  <2>4. late' \subseteq Items
    BY <1>17, <2>1 DEF Begin, TypeOK
  <2> QED
    BY <1>2, <1>17, <2>2, <2>3, <2>4 DEF Begin, TypeOK
<1>18. ASSUME NEW w \in Workers, NEW x \in Answers, Finish(w, x) PROVE TypeOK'
  <2>1. thread[w] \in Items /\ thread[w] \in Slots
    BY <1>1, <1>18 DEF Finish, TypeOK, Free
  <2>2. fut' \in [Slots -> FutureStates]
    BY <1>18, <2>1 DEF Finish, TypeOK, FutureStates
  <2>3. answer' \in [Slots -> Answers \cup {NoAnswer}]
    BY <1>18, <2>1 DEF Finish, TypeOK
  <2>4. thread' \in [Workers -> 0 .. call.n]
    BY <1>1, <1>18 DEF Finish, TypeOK, Free
  <2>5. arrived' \subseteq Items
    BY <1>18, <2>1 DEF Finish, TypeOK
  <2> QED
    BY <1>2, <1>18, <2>2, <2>3, <2>4, <2>5 DEF Finish, TypeOK
<1>19. CASE UNCHANGED vars
  BY <1>2, <1>19 DEF vars, TypeOK
<1> QED
  BY <1>4, <1>5, <1>6, <1>7, <1>8, <1>9, <1>10, <1>11, <1>12, <1>13, <1>14, <1>15, <1>16,
     <1>17, <1>18, <1>19 DEF Next, Caller, Worker

-------------------------------------------------------------------------------
(***************************************************************************)
(* The pool.                                                               *)
(***************************************************************************)

\* The steps that move an item, and nothing else touches the pool.
LEMMA PoolSteps ==
    ASSUME [Next]_vars
    PROVE  \/ Submit \/ SubmitFails
           \/ Cancel
           \/ \E w \in Workers : Pop(w) \/ Begin(w) \/ \E x \in Answers : Finish(w, x)
           \/ UNCHANGED <<submitted, poolVars>>
BY DEF Next, Caller, Worker, vars, ReturnEmpty, Enter, Gather, TakeResult, AllGathered,
       TimedOut, EndWait, Overflow, OverflowWith, Block, Wake, WakeOn, Label, Labelled,
       ShutDown, ShutDownOnce, Sort, Expire, poolVars, callVars

\* Items stay queued, held or done with, and are posted as they begin.
LEMMA QueuedStep ==
    ASSUME TypeOK, Queued, [Next]_vars
    PROVE  Queued'
<1> USE DEF callVars, poolVars, Free
<1>1. /\ call.n \in 0 .. MaxItems /\ MaxItems \in Nat /\ Slots = 1 .. MaxItems
      /\ submitted \in 0 .. call.n /\ next \in 1 .. submitted + 1
      /\ fut \in [Slots -> FutureStates] /\ sends \in [Slots -> Nat]
      /\ thread \in [Workers -> 0 .. call.n]
  BY Sizes, ScatterAssumption DEF TypeOK, Slots
<1>2. Workers' = Workers
  BY CallStays
<1>3. CASE Submit \/ SubmitFails
  <2>1. /\ submitted' = submitted + 1 /\ next' = next /\ thread' = thread /\ sends' = sends
        /\ \A i \in Slots : fut'[i] = IF i = submitted + 1 THEN "pending" ELSE fut[i]
        /\ submitted + 1 \in Slots
    BY <1>1, <1>3 DEF Submit, SubmitFails, SubmitFailsAs, Enqueue
  <2>2. sends[submitted + 1] = 0
    BY <1>1, <2>1 DEF Queued
  <2>3. \A w \in Workers : thread[w] # 0 => thread[w] # submitted + 1 /\ thread[w] \in Slots
    BY <1>1 DEF Queued
  <2>4. \A i \in Slots :
          /\ i > submitted' => fut'[i] = "unsubmitted"
          /\ next' <= i /\ i <= submitted' => fut'[i] = "pending"
          /\ sends'[i] = IF fut'[i] \in {"running", "finished"} THEN 1 ELSE 0
    BY <1>1, <2>1, <2>2 DEF Queued
  <2>5. \A w \in Workers : thread'[w] # 0 =>
          thread'[w] < next' /\ fut'[thread'[w]] \in {"pending", "running"}
    BY <2>1, <2>3 DEF Queued
  <2> QED
    BY <1>2, <2>1, <2>4, <2>5 DEF Queued
<1>4. CASE Cancel
  <2>1. /\ submitted' = submitted /\ next' = next + 1 /\ thread' = thread /\ sends' = sends
        /\ \A i \in Slots : fut'[i] = IF i = next THEN "cancelled" ELSE fut[i]
        /\ next \in Slots /\ next <= submitted
    BY <1>1, <1>4 DEF Cancel
  <2>2. sends[next] = 0
    BY <1>1, <2>1 DEF Queued
  <2>3. \A w \in Workers : thread[w] # 0 => thread[w] < next /\ thread[w] \in Slots
    BY <1>1 DEF Queued
  <2>4. \A i \in Slots :
          /\ i > submitted' => fut'[i] = "unsubmitted"
          /\ next' <= i /\ i <= submitted' => fut'[i] = "pending"
          /\ sends'[i] = IF fut'[i] \in {"running", "finished"} THEN 1 ELSE 0
    BY <1>1, <2>1, <2>2 DEF Queued
  <2>5. \A w \in Workers : thread'[w] # 0 =>
          thread'[w] < next' /\ fut'[thread'[w]] \in {"pending", "running"}
    BY <1>1, <2>1, <2>3 DEF Queued
  <2> QED
    BY <1>2, <2>1, <2>4, <2>5 DEF Queued
<1>5. ASSUME NEW w \in Workers, Pop(w) PROVE Queued'
  <2>1. /\ submitted' = submitted /\ next' = next + 1 /\ fut' = fut /\ sends' = sends
        /\ \A v \in Workers : thread'[v] = IF v = w THEN next ELSE thread[v]
        /\ next \in Slots /\ next <= submitted
    BY <1>1, <1>5 DEF Pop
  <2>2. fut[next] = "pending"
    BY <1>1, <2>1 DEF Queued
  <2>3. \A v \in Workers : thread[v] # 0 => thread[v] < next /\ fut[thread[v]] \in {"pending", "running"}
    BY DEF Queued
  <2>4. \A v \in Workers : thread'[v] # 0 =>
          thread'[v] < next' /\ fut'[thread'[v]] \in {"pending", "running"}
    BY <1>1, <2>1, <2>2, <2>3
  <2>5. \A u, v \in Workers : thread'[v] # 0 /\ thread'[v] = thread'[u] => v = u
    BY <1>1, <2>1, <2>3 DEF Queued
  <2>6. \A i \in Slots :
          /\ i > submitted' => fut'[i] = "unsubmitted"
          /\ next' <= i /\ i <= submitted' => fut'[i] = "pending"
          /\ sends'[i] = IF fut'[i] \in {"running", "finished"} THEN 1 ELSE 0
    BY <1>1, <2>1 DEF Queued
  <2> QED
    BY <1>2, <2>4, <2>5, <2>6 DEF Queued
<1>6. ASSUME NEW w \in Workers, Begin(w) PROVE Queued'
  <2>1. /\ submitted' = submitted /\ next' = next /\ thread' = thread
        /\ thread[w] # 0 /\ fut[thread[w]] = "pending" /\ thread[w] \in Slots
        /\ \A i \in Slots : fut'[i] = IF i = thread[w] THEN "running" ELSE fut[i]
        /\ \A i \in Slots : sends'[i] = IF i = thread[w] THEN sends[i] + 1 ELSE sends[i]
    BY <1>1, <1>6 DEF Begin
  <2>2. sends[thread[w]] = 0
    BY <2>1 DEF Queued
  <2>3. \A v \in Workers : thread[v] # 0 =>
          thread[v] < next /\ thread[v] \in Slots /\ fut[thread[v]] \in {"pending", "running"}
    BY <1>1 DEF Queued
  <2>4. \A i \in Slots :
          /\ i > submitted' => fut'[i] = "unsubmitted"
          /\ next' <= i /\ i <= submitted' => fut'[i] = "pending"
          /\ sends'[i] = IF fut'[i] \in {"running", "finished"} THEN 1 ELSE 0
    BY <1>1, <2>1, <2>2, <2>3 DEF Queued
  <2>5. \A v \in Workers : thread'[v] # 0 =>
          thread'[v] < next' /\ fut'[thread'[v]] \in {"pending", "running"}
    BY <2>1, <2>3
  <2> QED
    BY <1>2, <2>1, <2>4, <2>5 DEF Queued
<1>7. ASSUME NEW w \in Workers, NEW x \in Answers, Finish(w, x) PROVE Queued'
  <2>1. /\ submitted' = submitted /\ next' = next /\ sends' = sends
        /\ thread[w] # 0 /\ fut[thread[w]] = "running" /\ thread[w] \in Slots
        /\ \A i \in Slots : fut'[i] = IF i = thread[w] THEN "finished" ELSE fut[i]
        /\ \A v \in Workers : thread'[v] = IF v = w THEN 0 ELSE thread[v]
    BY <1>1, <1>7 DEF Finish
  <2>2. sends[thread[w]] = 1
    BY <2>1 DEF Queued
  <2>3. \A v \in Workers : thread[v] # 0 =>
          /\ thread[v] < next /\ thread[v] \in Slots /\ fut[thread[v]] \in {"pending", "running"}
          /\ v # w => thread[v] # thread[w]
    BY <1>1 DEF Queued
  <2>4. \A i \in Slots :
          /\ i > submitted' => fut'[i] = "unsubmitted"
          /\ next' <= i /\ i <= submitted' => fut'[i] = "pending"
          /\ sends'[i] = IF fut'[i] \in {"running", "finished"} THEN 1 ELSE 0
    BY <1>1, <2>1, <2>2, <2>3 DEF Queued
  <2>5. \A v \in Workers : thread'[v] # 0 =>
          thread'[v] < next' /\ fut'[thread'[v]] \in {"pending", "running"}
    BY <2>1, <2>3
  <2>6. \A u, v \in Workers : thread'[v] # 0 /\ thread'[v] = thread'[u] => v = u
    BY <2>1 DEF Queued
  <2> QED
    BY <1>2, <2>4, <2>5, <2>6 DEF Queued
<1>8. CASE UNCHANGED <<submitted, poolVars>>
  BY <1>2, <1>8 DEF Queued
<1> QED
  BY <1>3, <1>4, <1>5, <1>6, <1>7, <1>8, PoolSteps

-------------------------------------------------------------------------------
(***************************************************************************)
(* The results.                                                            *)
(***************************************************************************)

\* What the caller has is touched by the caller's thread only.
LEMMA CallerSteps ==
    ASSUME [Next]_vars
    PROVE  Caller \/ UNCHANGED <<call, pc, callVars>>
BY DEF Next, Worker, vars, Pop, Begin, Finish, Expire

\* Each entry of the list is the result of one item.
LEMMA EachResult ==
    ASSUME results \in Seq(Results)
    PROVE  \A k \in 1 .. Len(results) :
              results[k] \in Results /\ results[k].item \in Slots /\ results[k].item \in Reported
<1>1. \A k \in 1 .. Len(results) : results[k] \in Results
  BY ElementOfSeq
<1>2. \A k \in 1 .. Len(results) : results[k].item \in Slots
  BY <1>1 DEF Results
<1> QED
  BY <1>1, <1>2 DEF Reported

\* The list with one more result: what it held, and the new one last.
LEMMA OneMore ==
    ASSUME results \in Seq(Results), NEW r \in Results, results' = Append(results, r)
    PROVE  /\ Len(results) \in Nat /\ Len(results') = Len(results) + 1
           /\ \A k \in 1 .. Len(results) : results'[k] = results[k]
           /\ results'[Len(results) + 1] = r
           /\ Reported' = Reported \cup {r.item}
<1>1. /\ Len(results) \in Nat /\ Len(results') = Len(results) + 1
      /\ \A k \in 1 .. Len(results) : results'[k] = results[k]
      /\ results'[Len(results) + 1] = r
  BY AppendResult, LenProperties
<1>2. \A k \in 1 .. Len(results') : k \in 1 .. Len(results) \/ k = Len(results) + 1
  BY <1>1
<1>3. Reported' = {results'[k].item : k \in 1 .. Len(results')}
  BY DEF Reported
<1> QED
  BY <1>1, <1>2, <1>3 DEF Reported

\* The list when it has been sorted: the same results, each once, by name.
LEMMA Sorted ==
    ASSUME results \in Seq(Results), Sort
    PROVE  \E p \in [1 .. Len(results) -> 1 .. Len(results)] :
              /\ Len(results) \in Nat /\ Len(results') = Len(results)
              /\ \A k \in 1 .. Len(results) : results'[k] = results[p[k]]
              /\ \A j \in 1 .. Len(results) : \E k \in 1 .. Len(results) : p[k] = j
              /\ \A j, k \in 1 .. Len(results) : p[j] = p[k] => j = k
              /\ \A j, k \in 1 .. Len(results) :
                    j < k => Name[results'[j].item] <= Name[results'[k].item]
              /\ Reported' = Reported
<1> DEFINE keys == SortKeys
           m == Len(results)
<1>1. PICK p \in StableOrders(keys) : results' = Rearranged(results, p)
  BY DEF Sort
<1>2. /\ keys \in Seq(Nat) /\ Len(keys) = m /\ m \in Nat
      /\ \A k \in 1 .. m : keys[k] = Name[results[k].item]
  BY SortKeysShape, LenProperties
<1> HIDE DEF keys
<1>3. /\ Len(results') = m
      /\ \A k \in 1 .. m : p[k] \in 1 .. m /\ results'[k] = results[p[k]]
      /\ \A j \in 1 .. m : \E k \in 1 .. m : p[k] = j
      /\ \A j, k \in 1 .. m : p[j] = p[k] => j = k
      /\ \A j, k \in 1 .. m : j < k => keys[p[j]] <= keys[p[k]]
  <2>1. p \in StableOrders(keys) /\ keys \in Seq(Nat) /\ Len(keys) = Len(results)
    BY <1>1, <1>2
  <2>2. /\ \A k \in 1 .. m : p[k] \in 1 .. m
        /\ \A j \in 1 .. m : \E k \in 1 .. m : p[k] = j
        /\ \A j, k \in 1 .. m : p[j] = p[k] => j = k
        /\ \A j, k \in 1 .. m : j < k => keys[p[j]] <= keys[p[k]]
    <3>1. \A k \in 1 .. m : p[k] \in 1 .. m
      BY <2>1 DEF StableOrders
    <3>2. \A j \in 1 .. m : \E k \in 1 .. m : p[k] = j
      BY <2>1 DEF StableOrders, Permutes
    <3>3. \A j, k \in 1 .. m : p[j] = p[k] => j = k
      BY <2>1, OrderIsPermutation
    <3>4. \A j, k \in 1 .. m : j < k => keys[p[j]] <= keys[p[k]]
      BY <2>1, OrderIsPermutation
    <3> QED
      BY <3>1, <3>2, <3>3, <3>4
  <2>3. results' = [k \in 1 .. m |-> results[p[k]]]
    BY <1>1 DEF Rearranged
  <2>4. results' \in [1 .. m -> Results]
    BY <1>2, <2>2, <2>3, ElementOfSeq
  <2>5. Len(results') = m
    BY <1>2, <2>4, LenProperties
  <2> QED
    BY <2>2, <2>3, <2>5
<1>4. p \in [1 .. m -> 1 .. m]
  BY <1>2 DEF StableOrders
<1>5. Len(results') = m /\ \A k \in 1 .. m : results'[k] = results[p[k]]
  BY <1>3
<1>6. ASSUME NEW j \in 1 .. m, NEW k \in 1 .. m, j < k
      PROVE  Name[results'[j].item] <= Name[results'[k].item]
  <2>1. p[j] \in 1 .. m /\ p[k] \in 1 .. m /\ keys[p[j]] <= keys[p[k]]
    BY <1>3, <1>6
  <2> QED
    BY <1>2, <1>5, <2>1
<1>7. Reported' = {results'[k].item : k \in 1 .. m}
  BY <1>5 DEF Reported
<1>8. Reported' \subseteq Reported
  <2>1. \A k \in 1 .. m : p[k] \in 1 .. m /\ results'[k].item = results[p[k]].item
    BY <1>3, <1>5
  <2>2. \A k \in 1 .. m : results'[k].item \in Reported
    BY <2>1 DEF Reported
  <2> QED
    BY <1>7, <2>2
<1>9. ASSUME NEW j \in 1 .. m PROVE results[j].item \in Reported'
  <2>1. PICK k \in 1 .. m : p[k] = j
    BY <1>3
  <2>2. results'[k] = results[j]
    BY <1>5, <2>1
  <2> QED
    BY <1>7, <2>2
<1>10. Reported' = Reported
  BY <1>8, <1>9 DEF Reported
<1> QED
  BY <1>2, <1>3, <1>4, <1>5, <1>6, <1>10

\* No item is lost between the pool, the pending ones and the results.
LEMMA AccountsStep ==
    ASSUME TypeOK, Accounts, Gathering, Labelling, [Next]_vars
    PROVE  Accounts'
<1> USE DEF callVars, poolVars, Waiting
<1>1. /\ call.n \in 0 .. MaxItems /\ MaxItems \in Nat /\ Slots = 1 .. MaxItems
      /\ submitted \in 0 .. call.n /\ Items = 1 .. call.n /\ Items \subseteq Slots
      /\ results \in Seq(Results) /\ Len(results) \in Nat
  BY Sizes, ScatterAssumption, LenProperties DEF TypeOK, Slots, Items, Results
<1>2. IsFiniteSet(pending) /\ Cardinality(pending) \in Nat
  BY Sizes, FS_Subset, FS_CardinalityType DEF TypeOK
<1>0. /\ reason = NoThread => pc = "raised"
      /\ NoThread \notin {"abandoned", "deadline", "overflow"}
  BY DEF Accounts, NoThread
<1>3. CASE UNCHANGED <<call, pc, callVars>>
  BY <1>3 DEF Accounts, Reported
<1>4. CASE ReturnEmpty
  BY <1>1, <1>4 DEF ReturnEmpty, Accounts, Reported
<1>5. CASE Submit \/ SubmitFails
  <2>1. submitted + 1 \notin pending
    BY <1>1 DEF Accounts
  <2>2. Cardinality(pending') = Cardinality(pending) + 1
    BY <1>2, <1>5, <2>1, FS_AddElement DEF Submit, SubmitFails, SubmitFailsAs, Enqueue
  <2>3. Reported' = Reported /\ Len(results') = Len(results)
    BY <1>5 DEF Submit, SubmitFails, SubmitFailsAs, Enqueue, Reported
  <2>4. Reported \cup (pending \cup {submitted + 1}) = 1 .. (submitted + 1)
    BY <1>1 DEF Accounts
  <2> QED
    BY <1>1, <1>2, <1>5, <2>2, <2>3, <2>4
       DEF Submit, SubmitFails, SubmitFailsAs, Enqueue, Accounts
<1>6. CASE Enter
  BY <1>6 DEF Enter, Accounts, Reported
<1>7. ASSUME NEW i \in batch, Gather(i) PROVE Accounts'
  <2>1. i \in pending /\ i \in Slots
    BY <1>1, <1>7 DEF Gather, TakeResult, Gathering, TypeOK
  <2>2. Len(results') = Len(results) + 1 /\ Reported' = Reported \cup {i}
    BY <1>1, <1>7, <2>1, FanResultShape, OneMore DEF Gather, TakeResult
  <2>3. Cardinality(pending') = Cardinality(pending) - 1
    BY <1>2, <1>7, <2>1, FS_RemoveElement DEF Gather, TakeResult
  <2> QED
    BY <1>0, <1>1, <1>2, <1>7, <2>1, <2>2, <2>3 DEF Gather, TakeResult, Accounts
<1>8. CASE AllGathered \/ TimedOut
  BY <1>0, <1>8 DEF AllGathered, TimedOut, EndWait, Accounts, Reported
<1>9. CASE Overflow \/ Block
  BY <1>0, <1>9 DEF Overflow, OverflowWith, Block, Accounts, Reported
<1>10. CASE Wake
  BY <1>10 DEF Wake, WakeOn, Accounts, Reported
<1>11. CASE Label
  <2>1. PICK i \in pending : results' = Append(results, LabelResult(i)) /\ pending' = pending \ {i}
    BY <1>11 DEF Label
  <2>2. LabelResult(i) \in Results /\ LabelResult(i).item = i
    BY <1>1, <1>11, <2>1 DEF Label, LabelResult, Results, Verdicts, TypeOK, Labelling
  <2>3. Len(results') = Len(results) + 1 /\ Reported' = Reported \cup {i}
    BY <1>1, <2>1, <2>2, OneMore
  <2>4. Cardinality(pending') = Cardinality(pending) - 1
    BY <1>2, <2>1, FS_RemoveElement
  <2> QED
    BY <1>1, <1>2, <1>11, <2>1, <2>3, <2>4 DEF Label, Accounts
<1>12. CASE Labelled \/ Cancel \/ ShutDown
  BY <1>12 DEF Labelled, Cancel, ShutDown, ShutDownOnce, Accounts, Reported
<1>13. CASE Sort
  <2>1. Len(results') = Len(results) /\ Reported' = Reported
    BY <1>1, <1>13, Sorted
  <2> QED
    BY <1>13, <2>1 DEF Sort, Accounts
<1> QED
  BY <1>3, <1>4, <1>5, <1>6, <1>7, <1>8, <1>9, <1>10, <1>11, <1>12, <1>13, CallerSteps DEF Caller

\* While the caller waits, what is reported is finished, so an item a thread still
\* holds is pending.
LEMMA GatheringStep ==
    ASSUME TypeOK, Accounts, Queued, Gathering, Labelling, [Next]_vars
    PROVE  Gathering'
<1> USE DEF callVars, poolVars, Waiting, Free
<1>1. /\ call.n \in 0 .. MaxItems /\ MaxItems \in Nat /\ Slots = 1 .. MaxItems
      /\ submitted \in 0 .. call.n /\ Items = 1 .. call.n /\ Items \subseteq Slots
      /\ next \in 1 .. submitted + 1 /\ fut \in [Slots -> FutureStates]
      /\ thread \in [Workers -> 0 .. call.n]
      /\ results \in Seq(Results) /\ Len(results) \in Nat
  BY Sizes, ScatterAssumption, LenProperties DEF TypeOK, Slots, Items, Results
<1>2. call' = call
  BY CallStays
<1>3. \A k \in 1 .. Len(results) : results[k].item \in Reported /\ results[k].item \in Slots
  BY <1>1, EachResult
<1>4. CASE ReturnEmpty \/ AllGathered \/ TimedOut \/ Overflow
  BY <1>4 DEF ReturnEmpty, AllGathered, TimedOut, EndWait, Overflow, OverflowWith, Gathering
<1>5. CASE Submit \/ SubmitFails
  BY <1>5 DEF Submit, SubmitFails, SubmitFailsAs, Enqueue, Gathering
<1>6. CASE Enter
  <2>1. results = <<>> /\ arrived = {} /\ Reported = {}
    BY <1>6 DEF Enter, Gathering, Reported
  <2>2. pending = Items
    BY <1>1, <1>6, <2>1 DEF Enter, Accounts
  <2>3. batch' = {i \in Items : fut[i] = "finished"} /\ fut' = fut /\ results' = results
        /\ arrived' = arrived /\ pending' = pending /\ pc' = "yield"
    BY <1>6 DEF Enter
  <2> QED
    BY <2>1, <2>2, <2>3 DEF Gathering
<1>7. ASSUME NEW i \in batch, Gather(i) PROVE Gathering'
  <2>1. /\ i \in pending /\ i \in Slots /\ fut[i] = "finished"
        /\ batch' = batch \ {i} /\ pending' = pending \ {i} /\ arrived' = arrived /\ fut' = fut
        /\ results' = Append(results, FanResult(i, answer[i])) /\ pc = "yield"
        /\ pc' \in Waiting => pc' = "yield" /\ ~Succeeds(i)
        /\ pc' # "submit"
    BY <1>1, <1>7 DEF Gather, TakeResult, Gathering, TypeOK
  <2>2. /\ FanResult(i, answer[i]) \in Results /\ FanResult(i, answer[i]).item = i
        /\ FanResult(i, answer[i]).terminal \notin Labels
    BY <2>1, FanResultShape
  <2>3. /\ Len(results') = Len(results) + 1
        /\ \A k \in 1 .. Len(results) : results'[k] = results[k]
        /\ results'[Len(results) + 1] = FanResult(i, answer[i])
    BY <1>1, <2>1, <2>2, OneMore
  <2>4. ASSUME pc' \in Waiting, NEW k \in 1 .. Len(results')
        PROVE  /\ fut'[results'[k].item] = "finished"
               /\ results'[k].terminal \notin Labels
               /\ ~(call'.stop /\ results'[k].ok)
    <3>1. CASE k \in 1 .. Len(results)
      BY <1>2, <2>1, <2>3, <3>1 DEF Gathering
    <3>2. CASE k = Len(results) + 1
      BY <1>2, <2>1, <2>2, <2>3, <2>4, <3>2 DEF Succeeds
    <3> QED
      BY <1>1, <2>3, <3>1, <3>2
  <2>5. pc' \in Waiting =>
           /\ batch' \cup arrived' \subseteq pending'
           /\ batch' \cap arrived' = {}
           /\ \A j \in pending' : fut'[j] = "finished" <=> j \in batch' \cup arrived'
    BY <1>7, <2>1 DEF Gathering
  <2> QED
    BY <2>1, <2>4, <2>5 DEF Gathering
<1>8. CASE Block
  BY <1>2, <1>8 DEF Block, Gathering
<1>9. CASE Wake
  <2>1. /\ pc = "wait" /\ pc' = "yield" /\ batch' = arrived /\ arrived' = {}
        /\ pending' = pending /\ fut' = fut /\ results' = results
    BY <1>9 DEF Wake, WakeOn
  <2> QED
    BY <1>2, <2>1 DEF Gathering
<1>10. CASE Label \/ Labelled \/ ShutDown \/ Sort
  BY <1>10 DEF Label, Labelled, ShutDown, ShutDownOnce, Sort, Gathering
<1>11. CASE Cancel
  BY <1>11 DEF Cancel, Gathering
<1>12. CASE Expire
  BY <1>2, <1>12 DEF Expire, Gathering
<1>13. ASSUME NEW w \in Workers, Pop(w) PROVE Gathering'
  BY <1>2, <1>13 DEF Pop, Gathering
<1>14. ASSUME NEW w \in Workers, Begin(w) PROVE Gathering'
  <2>1. /\ thread[w] \in Slots /\ fut[thread[w]] = "pending" /\ UNCHANGED <<pc, callVars, arrived>>
        /\ \A i \in Slots : fut'[i] = "finished" <=> fut[i] = "finished"
    BY <1>1, <1>14 DEF Begin
  <2>2. pending \subseteq Slots
    BY <1>1 DEF TypeOK
  <2> QED
    BY <1>2, <1>3, <2>1, <2>2 DEF Gathering
<1>15. ASSUME NEW w \in Workers, NEW x \in Answers, Finish(w, x) PROVE Gathering'
  <2>1. /\ thread[w] \in Slots /\ fut[thread[w]] = "running" /\ UNCHANGED <<pc, callVars>>
        /\ \A i \in Slots : fut'[i] = "finished" <=> fut[i] = "finished" \/ i = thread[w]
        /\ arrived' = IF pc \in Waiting THEN arrived \cup {thread[w]} ELSE arrived
    BY <1>1, <1>15 DEF Finish
  <2>2. pending \subseteq Slots
    BY <1>1 DEF TypeOK
  <2>3. thread[w] \in 1 .. submitted
    BY <1>1, <2>1 DEF Queued
  <2>4. ASSUME pc \in Waiting PROVE thread[w] \in pending /\ thread[w] \notin batch
    <3>1. thread[w] \notin Reported
      BY <1>3, <2>1, <2>4 DEF Gathering, Reported
    <3>2. thread[w] \in pending
      BY <2>3, <3>1 DEF Accounts
    <3>3. thread[w] \notin batch
      BY <2>1, <2>4, <3>2 DEF Gathering
    <3> QED
      BY <3>2, <3>3
  <2>5. CASE pc \in Waiting
    <3>1. \A k \in 1 .. Len(results) : fut'[results[k].item] = "finished"
      BY <1>3, <2>1, <2>5 DEF Gathering
    <3>2. \A i \in pending' : fut'[i] = "finished" <=> i \in batch' \cup arrived'
      BY <2>1, <2>2, <2>5 DEF Gathering
    <3> QED
      BY <1>2, <2>1, <2>4, <2>5, <3>1, <3>2 DEF Gathering
  <2>6. CASE pc \notin Waiting
    BY <1>2, <2>1, <2>6 DEF Gathering
  <2> QED
    BY <2>5, <2>6
<1>16. CASE UNCHANGED vars
  BY <1>2, <1>16 DEF vars, Gathering
<1> QED
  BY <1>4, <1>5, <1>6, <1>7, <1>8, <1>9, <1>10, <1>11, <1>12, <1>13, <1>14, <1>15, <1>16
     DEF Next, Caller, Worker

\* The steps that change the list.
LEMMA ListSteps ==
    ASSUME [Next]_vars
    PROVE  results' = results \/ (\E i \in batch : Gather(i)) \/ Label \/ Sort
BY CallerSteps DEF Caller, ReturnEmpty, Submit, SubmitFails, SubmitFailsAs, Enqueue, Enter,
   AllGathered, TimedOut, EndWait,
   Overflow, OverflowWith, Block, Wake, WakeOn, Labelled, Cancel, ShutDown, ShutDownOnce, callVars

\* The deadline, once passed, stays passed.
LEMMA ExpiredStays ==
    ASSUME expired \in BOOLEAN, [Next]_vars
    PROVE  expired => expired'
BY DEF Next, Caller, Worker, vars, ReturnEmpty, Submit, SubmitFails, SubmitFailsAs, Enqueue,
   Enter, Gather, TakeResult,
       AllGathered, TimedOut, EndWait, Overflow, OverflowWith, Block, Wake, WakeOn, Label,
       Labelled, Cancel, ShutDown, ShutDownOnce, Sort, Pop, Begin, Finish, Expire

\* An answer taken stays the item's answer: finished futures do not change.
LEMMA OwnAnswerStep ==
    ASSUME TypeOK, Queued, Gathering, Labelling, OwnAnswer, [Next]_vars
    PROVE  OwnAnswer'
<1> USE DEF callVars, poolVars, Free
<1>1. /\ call.n \in 0 .. MaxItems /\ MaxItems \in Nat /\ Slots = 1 .. MaxItems
      /\ submitted \in 0 .. call.n /\ Items \subseteq Slots
      /\ next \in 1 .. submitted + 1 /\ fut \in [Slots -> FutureStates]
      /\ answer \in [Slots -> Answers \cup {NoAnswer}]
      /\ thread \in [Workers -> 0 .. call.n]
      /\ results \in Seq(Results) /\ Len(results) \in Nat
  BY Sizes, ScatterAssumption, LenProperties DEF TypeOK, Slots, Results
<1>2. \A k \in 1 .. Len(results) : results[k].item \in Slots
  BY <1>1, EachResult
<1>3. \A i \in Slots : fut[i] = "finished" => fut'[i] = "finished" /\ answer'[i] = answer[i]
  <2>1. CASE Submit \/ SubmitFails
    BY <1>1, <2>1 DEF Submit, SubmitFails, SubmitFailsAs, Enqueue, Queued
  <2>2. CASE Cancel
    <3>1. next \in Slots /\ fut[next] = "pending"
      BY <1>1, <2>2 DEF Cancel, Queued
    <3> QED
      BY <1>1, <2>2, <3>1 DEF Cancel
  <2>3. ASSUME NEW w \in Workers, Pop(w) \/ Begin(w) \/ \E x \in Answers : Finish(w, x)
        PROVE  \A i \in Slots : fut[i] = "finished" => fut'[i] = "finished" /\ answer'[i] = answer[i]
    BY <1>1, <2>3 DEF Pop, Begin, Finish
  <2>4. CASE UNCHANGED <<submitted, poolVars>>
    BY <2>4
  <2> QED
    BY <2>1, <2>2, <2>3, <2>4, PoolSteps
<1>4. CASE results' = results
  BY <1>2, <1>3, <1>4 DEF OwnAnswer
<1>5. ASSUME NEW i \in batch, Gather(i) PROVE OwnAnswer'
  <2>1. /\ i \in Slots /\ fut[i] = "finished"
        /\ results' = Append(results, FanResult(i, answer[i]))
    BY <1>1, <1>5 DEF Gather, TakeResult, Gathering, TypeOK, Waiting
  <2>2. FanResult(i, answer[i]) \in Results /\ FanResult(i, answer[i]).item = i
    BY <2>1, FanResultShape
  <2>3. /\ Len(results') = Len(results) + 1
        /\ \A k \in 1 .. Len(results) : results'[k] = results[k]
        /\ results'[Len(results) + 1] = FanResult(i, answer[i])
    BY <1>1, <2>1, <2>2, OneMore
  <2>4. ASSUME NEW k \in 1 .. Len(results'), results'[k].terminal \notin Labels
        PROVE  /\ fut'[results'[k].item] = "finished"
               /\ results'[k] = FanResult(results'[k].item, answer'[results'[k].item])
    <3>1. CASE k \in 1 .. Len(results)
      BY <1>2, <1>3, <2>3, <2>4, <3>1 DEF OwnAnswer
    <3>2. CASE k = Len(results) + 1
      BY <1>3, <2>1, <2>2, <2>3, <3>2
    <3> QED
      BY <1>1, <2>3, <3>1, <3>2
  <2> QED
    BY <2>4 DEF OwnAnswer
<1>6. CASE Label
  <2>1. PICK i \in pending : results' = Append(results, LabelResult(i))
    BY <1>6 DEF Label
  <2>2. LabelResult(i) \in Results /\ LabelResult(i).terminal \in Labels
    BY <1>1, <1>6, <2>1 DEF Label, LabelResult, Results, Verdicts, TypeOK, Labelling
  <2>3. /\ Len(results') = Len(results) + 1
        /\ \A k \in 1 .. Len(results) : results'[k] = results[k]
        /\ results'[Len(results) + 1] = LabelResult(i)
    BY <1>1, <2>1, <2>2, OneMore
  <2>4. ASSUME NEW k \in 1 .. Len(results'), results'[k].terminal \notin Labels
        PROVE  k \in 1 .. Len(results)
    BY <1>1, <2>2, <2>3, <2>4
  <2> QED
    BY <1>2, <1>3, <2>3, <2>4 DEF OwnAnswer
<1>7. CASE Sort
  <2>1. PICK p \in [1 .. Len(results) -> 1 .. Len(results)] :
           Len(results') = Len(results) /\ \A k \in 1 .. Len(results) : results'[k] = results[p[k]]
    BY <1>1, <1>7, Sorted
  <2>2. \A k \in 1 .. Len(results') : p[k] \in 1 .. Len(results) /\ results'[k] = results[p[k]]
    BY <2>1
  <2> QED
    BY <1>2, <1>3, <2>2 DEF OwnAnswer
<1> QED
  BY <1>4, <1>5, <1>6, <1>7, ListSteps

\* Once the wait has ended for a reason that was earned, it stays earned.
LEMMA LabellingStep ==
    ASSUME TypeOK, Gathering, Labelling, [Next]_vars
    PROVE  Labelling'
<1> USE DEF callVars, poolVars, Waiting
<1>1. /\ Items \subseteq Slots /\ pending \subseteq Items
      /\ results \in Seq(Results) /\ Len(results) \in Nat
  BY Sizes, LenProperties DEF TypeOK, Results
<1>2. call' = call
  BY CallStays
<1>3. CASE UNCHANGED <<call, pc, callVars>>
  <2>1. expired => expired'
    BY ExpiredStays DEF TypeOK
  <2> QED
    BY <1>3, <2>1 DEF Labelling
<1>4. CASE ReturnEmpty \/ Enter \/ Block \/ Wake \/ Labelled \/ Cancel \/ ShutDown
  BY <1>2, <1>4 DEF ReturnEmpty, Enter, Block, Wake, WakeOn, Labelled, Cancel,
     ShutDown, ShutDownOnce, Labelling
<1>5. CASE Submit \/ SubmitFails
  <2>1. results' = <<>> /\ Len(results') = 0
    BY <1>5 DEF Submit, SubmitFails, SubmitFailsAs, Enqueue, Gathering
  <2>2. reason' \in {NoReason, NoThread} /\ pc' \in {"submit", "raised"}
        /\ (pc' = "submit" => reason' = NoReason)
    BY <1>5 DEF Submit, SubmitFails, SubmitFailsAs, Enqueue, Labelling
  <2>3. /\ reason' # "abandoned" /\ reason' # "deadline"
        /\ pc' \in {"submit"} \cup Waiting => reason' = NoReason
        /\ pc' # "label"
    BY <2>2 DEF NoReason, NoThread
  <2>4. \A k \in 1 .. Len(results') : FALSE
    BY <2>1
  <2> QED
    BY <2>3, <2>4 DEF Labelling
<1>6. CASE AllGathered \/ TimedOut \/ Overflow
  <2>1. /\ pc = "yield" /\ pending' = pending /\ results' = results /\ expired' = expired
        /\ pc' \in {"label", "shutdown"}
        /\ \/ reason' = "abandoned" /\ pending = {} /\ pc' = "label"
           \/ reason' = "deadline" /\ expired /\ pc' = "label"
           \/ reason' = "overflow" /\ pc' = "shutdown"
    BY <1>6 DEF AllGathered, TimedOut, EndWait, Overflow, OverflowWith
  <2>2. \A k \in 1 .. Len(results) : results[k].terminal \notin Labels /\ ~(call.stop /\ results[k].ok)
    BY <2>1 DEF Gathering
  <2> QED
    BY <1>2, <2>1, <2>2 DEF Labelling, Labels
<1>7. ASSUME NEW i \in batch, Gather(i) PROVE Labelling'
  <2> DEFINE r == FanResult(i, answer[i])
  <2>1. /\ pc = "yield" /\ i \in Slots /\ results' = Append(results, r) /\ expired' = expired
        /\ \/ Succeeds(i) /\ pc' = "label" /\ reason' = "abandoned"
           \/ ~Succeeds(i) /\ pc' = "yield" /\ reason' = reason
    BY <1>1, <1>7 DEF Gather, TakeResult, TypeOK
  <2>2. /\ r \in Results /\ r.terminal \notin Labels
        /\ r.ok <=> r.terminal = "ok"
    BY <2>1, FanResultShape
  <2>3. /\ Len(results') = Len(results) + 1
        /\ \A k \in 1 .. Len(results) : results'[k] = results[k]
        /\ results'[Len(results) + 1] = r
    BY <1>1, <2>1, <2>2, OneMore
  <2>4. \A k \in 1 .. Len(results) : results[k].terminal \notin Labels
    BY <2>1 DEF Gathering
  <2>5. Succeeds(i) => call.stop /\ r.ok
    BY DEF Succeeds
  <2> HIDE DEF r
  <2>6. ASSUME NEW k \in 1 .. Len(results')
        PROVE  results'[k].terminal \notin Labels /\ (results'[k].ok <=> results'[k].terminal = "ok")
    <3>1. CASE k \in 1 .. Len(results)
      BY <2>3, <2>4, <3>1 DEF Labelling
    <3>2. CASE k = Len(results) + 1
      BY <2>2, <2>3, <3>2
    <3> QED
      BY <1>1, <2>3, <3>1, <3>2
  <2>7. CASE Succeeds(i)
    <3>1. Len(results) + 1 \in 1 .. Len(results') /\ results'[Len(results) + 1].ok /\ call'.stop
      BY <1>1, <1>2, <2>3, <2>5, <2>7
    <3>2. reason' = "abandoned" /\ pc' = "label"
      BY <2>1, <2>7
    <3> QED
      BY <2>6, <3>1, <3>2 DEF Labelling, Labels
  <2>8. CASE ~Succeeds(i)
    <3>1. reason' = NoReason /\ pc' = "yield"
      BY <2>1, <2>8 DEF Labelling
    <3> QED
      BY <2>6, <3>1 DEF Labelling, Labels, NoReason
  <2> QED
    BY <2>7, <2>8
<1>8. CASE Label
  <2>1. PICK i \in pending : results' = Append(results, LabelResult(i)) /\ pending' = pending \ {i}
    BY <1>8 DEF Label
  <2>2. /\ pc = "label" /\ reason \in Labels /\ UNCHANGED <<pc, reason, expired>>
    BY <1>8 DEF Label, Labelling
  <2> DEFINE r == LabelResult(i)
  <2>3. r \in Results /\ r.terminal = reason /\ r.ok = FALSE
    BY <1>1, <2>1, <2>2 DEF LabelResult, Results, Verdicts
  <2>4. /\ Len(results') = Len(results) + 1
        /\ \A k \in 1 .. Len(results) : results'[k] = results[k]
        /\ results'[Len(results) + 1] = r
    BY <1>1, <2>1, <2>3, OneMore
  <2> HIDE DEF r
  <2>5. ASSUME NEW k \in 1 .. Len(results')
        PROVE  /\ results'[k].terminal \in Labels => results'[k].terminal = reason
               /\ results'[k].ok <=> results'[k].terminal = "ok"
               /\ results'[k].ok => k \in 1 .. Len(results) /\ results[k].ok
    <3>1. CASE k \in 1 .. Len(results)
      BY <2>4, <3>1 DEF Labelling
    <3>2. CASE k = Len(results) + 1
      BY <2>2, <2>3, <2>4, <3>2 DEF Labels
    <3> QED
      BY <1>1, <2>4, <3>1, <3>2
  <2>6. reason = "deadline" => expired /\ ~(call.stop /\ \E k \in 1 .. Len(results') : results'[k].ok)
    BY <2>5 DEF Labelling
  <2>7. reason = "abandoned" => call.stop /\ \E k \in 1 .. Len(results') : results'[k].ok
    <3>1. SUFFICES ASSUME reason = "abandoned"
                   PROVE  call.stop /\ \E k \in 1 .. Len(results') : results'[k].ok
      OBVIOUS
    <3>2. call.stop
      BY <2>1, <3>1 DEF Labelling
    <3>3. PICK k \in 1 .. Len(results) : results[k].ok
      BY <2>1, <3>1 DEF Labelling
    <3>4. k \in 1 .. Len(results') /\ results'[k].ok
      BY <1>1, <2>4, <3>3
    <3> QED
      BY <3>2, <3>4
  <2> QED
    BY <1>2, <2>2, <2>5, <2>6, <2>7 DEF Labelling
<1>9. CASE Sort
  <2>1. PICK p \in [1 .. Len(results) -> 1 .. Len(results)] :
           /\ Len(results') = Len(results)
           /\ \A k \in 1 .. Len(results) : results'[k] = results[p[k]]
           /\ \A j \in 1 .. Len(results) : \E k \in 1 .. Len(results) : p[k] = j
    BY <1>1, <1>9, Sorted
  <2>2. \A k \in 1 .. Len(results') : p[k] \in 1 .. Len(results) /\ results'[k] = results[p[k]]
    BY <2>1
  <2>3. \A j \in 1 .. Len(results) : \E k \in 1 .. Len(results') : results'[k] = results[j]
    BY <2>1
  <2>4. pc' = "returned" /\ UNCHANGED <<reason, expired, pending>>
    BY <1>9 DEF Sort
  <2>5. \A k \in 1 .. Len(results') :
           /\ results'[k].terminal \in Labels => results'[k].terminal = reason
           /\ results'[k].ok <=> results'[k].terminal = "ok"
    BY <2>2 DEF Labelling
  <2>6. reason = "deadline" => expired /\ ~(call.stop /\ \E k \in 1 .. Len(results') : results'[k].ok)
    BY <2>2 DEF Labelling
  <2>7. ASSUME reason = "abandoned",
               pending # {} \/ \E k \in 1 .. Len(results') : results'[k].terminal = "abandoned"
        PROVE  call.stop /\ \E k \in 1 .. Len(results') : results'[k].ok
    <3>1. pending # {} \/ \E k \in 1 .. Len(results) : results[k].terminal = "abandoned"
      BY <2>2, <2>7
    <3>2. call.stop /\ \E k \in 1 .. Len(results) : results[k].ok
      BY <2>7, <3>1 DEF Labelling
    <3> QED
      BY <2>3, <3>2
  <2> QED
    BY <1>2, <2>4, <2>5, <2>6, <2>7 DEF Labelling
<1> QED
  BY <1>3, <1>4, <1>5, <1>6, <1>7, <1>8, <1>9, CallerSteps DEF Caller

\* A second success is never counted when the call stops at the first.
LEMMA StopsStep ==
    ASSUME TypeOK, Gathering, Labelling, StopsAtFirst, [Next]_vars
    PROVE  StopsAtFirst'
<1> USE DEF callVars, poolVars
<1>1. Items \subseteq Slots /\ pending \subseteq Items /\ batch \subseteq Items
      /\ results \in Seq(Results) /\ Len(results) \in Nat
  BY Sizes, LenProperties DEF TypeOK, Results
<1>2. call' = call
  BY CallStays
<1>3. CASE results' = results
  BY <1>2, <1>3 DEF StopsAtFirst
<1>4. ASSUME NEW i \in batch, Gather(i) PROVE StopsAtFirst'
  <2>1. results' = Append(results, FanResult(i, answer[i])) /\ FanResult(i, answer[i]) \in Results
    BY <1>1, <1>4, FanResultShape DEF Gather, TakeResult
  <2>2. Len(results') = Len(results) + 1 /\ \A k \in 1 .. Len(results) : results'[k] = results[k]
    BY <1>1, <2>1, OneMore
  <2>3. \A k \in 1 .. Len(results) : ~(call.stop /\ results[k].ok)
    BY <1>4 DEF Gather, TakeResult, Gathering, Waiting
  <2>4. \A k \in 1 .. Len(results') : call.stop /\ results'[k].ok => k = Len(results) + 1
    BY <1>1, <2>2, <2>3
  <2> QED
    BY <1>2, <2>4 DEF StopsAtFirst
<1>5. CASE Label
  <2>1. PICK i \in pending : results' = Append(results, LabelResult(i))
    BY <1>5 DEF Label
  <2>2. LabelResult(i) \in Results /\ LabelResult(i).ok = FALSE
    BY <1>1, <1>5, <2>1 DEF Label, LabelResult, Results, Verdicts, Labelling
  <2>3. /\ Len(results') = Len(results) + 1
        /\ \A k \in 1 .. Len(results) : results'[k] = results[k]
        /\ results'[Len(results) + 1] = LabelResult(i)
    BY <1>1, <2>1, <2>2, OneMore
  <2>4. \A k \in 1 .. Len(results') : results'[k].ok => k \in 1 .. Len(results) /\ results[k].ok
    BY <1>1, <2>2, <2>3
  <2> QED
    BY <1>2, <2>4 DEF StopsAtFirst
<1>6. CASE Sort
  <2>1. PICK p \in [1 .. Len(results) -> 1 .. Len(results)] :
           /\ Len(results') = Len(results)
           /\ \A k \in 1 .. Len(results) : results'[k] = results[p[k]]
           /\ \A j, k \in 1 .. Len(results) : p[j] = p[k] => j = k
    BY <1>1, <1>6, Sorted
  <2>2. \A j, k \in 1 .. Len(results') : call.stop /\ results'[j].ok /\ results'[k].ok => p[j] = p[k]
    BY <2>1 DEF StopsAtFirst
  <2> QED
    BY <1>2, <2>1, <2>2 DEF StopsAtFirst
<1> QED
  BY <1>3, <1>4, <1>5, <1>6, ListSteps

\* The order the caller gets is the order Sort made.
LEMMA InOrderStep ==
    ASSUME TypeOK, Gathering, InOrder, [Next]_vars
    PROVE  InOrder'
<1> USE DEF callVars
<1>1. results \in Seq(Results)
  BY DEF TypeOK, Results
<1>2. CASE Sort
  BY <1>1, <1>2, Sorted DEF InOrder
<1>3. CASE ReturnEmpty
  <2>1. results' = <<>>
    BY <1>3 DEF ReturnEmpty, Gathering
  <2> QED
    BY <2>1 DEF InOrder
<1>4. CASE pc' # "returned"
  BY <1>4 DEF InOrder
<1>5. CASE UNCHANGED <<call, pc, callVars>>
  BY <1>5 DEF InOrder
<1>6. Sort \/ ReturnEmpty \/ pc' # "returned" \/ UNCHANGED <<call, pc, callVars>>
  BY CallerSteps DEF Caller, Submit, SubmitFails, SubmitFailsAs, Enqueue, Enter,
     Gather, TakeResult, AllGathered, TimedOut,
     EndWait, Overflow, OverflowWith, Block, Wake, WakeOn, Label, Labelled, Cancel, ShutDown,
     ShutDownOnce
<1> QED
  BY <1>2, <1>3, <1>4, <1>5, <1>6

-------------------------------------------------------------------------------
(***************************************************************************)
(* After the shutdown.                                                     *)
(***************************************************************************)

\* A message posted after the shutdown uses up an item some thread held.
LEMMA LateStep ==
    ASSUME TypeOK, Accounts, Queued, Labelling, Late, [Next]_vars
    PROVE  Late'
<1> USE DEF callVars, poolVars, Gone, Free
<1>1. /\ IsFiniteSet(Workers) /\ Cardinality(Workers) \in Nat
      /\ IsFiniteSet(Holding) /\ Cardinality(Holding) \in Nat
      /\ Cardinality(Holding) <= Cardinality(Workers)
  BY Sizes, FS_Subset, FS_CardinalityType DEF Holding
<1>2. /\ IsFiniteSet(late) /\ Cardinality(late) \in Nat
  BY Sizes, FS_Subset, FS_CardinalityType DEF TypeOK
<1>3. /\ call.n \in 0 .. MaxItems /\ MaxItems \in Nat /\ Slots = 1 .. MaxItems
      /\ submitted \in 0 .. call.n /\ next \in 1 .. submitted + 1
      /\ fut \in [Slots -> FutureStates]
      /\ thread \in [Workers -> 0 .. call.n]
  BY Sizes, ScatterAssumption DEF TypeOK, Slots
<1>4. Workers' = Workers
  BY CallStays
<1>5. \A v \in Workers : thread[v] # 0 => thread[v] \in Slots
  BY <1>3
<1>6. CASE ReturnEmpty
  <2>1. /\ late' = {} /\ pc' = "returned" /\ next > submitted /\ UNCHANGED <<next, submitted, thread, fut>>
    BY <1>3, <1>6 DEF ReturnEmpty, Late, ShutDownDone, Labelling, NoReason, NoThread
  <2>2. Holding' = Holding
    BY <1>4, <2>1 DEF Holding
  <2> QED
    BY <1>1, <1>4, <2>1, <2>2, FS_EmptySet DEF Late
<1>7. CASE ShutDown
  <2>1. /\ late' = {} /\ next > submitted /\ UNCHANGED <<next, submitted, thread, fut>>
    BY <1>7 DEF ShutDown, ShutDownOnce, Late, ShutDownDone
  <2>2. pc' \in {"sort"} \cup Gone
    BY <1>7 DEF ShutDown, ShutDownOnce
  <2>3. Holding' = Holding
    BY <1>4, <2>1 DEF Holding
  <2> QED
    BY <1>1, <1>4, <2>1, <2>2, <2>3, FS_EmptySet DEF Late
<1>8. CASE Submit \/ SubmitFails \/ Enter \/ AllGathered \/ TimedOut \/ Overflow \/ Block \/ Wake \/ Label
             \/ Labelled \/ Cancel \/ \E i \in batch : Gather(i)
  BY <1>8 DEF Submit, SubmitFails, SubmitFailsAs, Enqueue, Enter, Gather, TakeResult,
     AllGathered, TimedOut, EndWait,
     Overflow, OverflowWith, Block, Wake, WakeOn, Label, Labelled, Cancel, Late, ShutDownDone
<1>9. CASE Sort \/ Expire \/ UNCHANGED vars
  <2>1. UNCHANGED <<next, submitted, thread, fut, late>>
    BY <1>9 DEF Sort, Expire, vars
  <2>2. Holding' = Holding
    BY <1>4, <2>1 DEF Holding
  <2>3. ShutDownDone' <=> ShutDownDone
    BY <1>9 DEF Sort, Expire, vars, ShutDownDone
  <2> QED
    BY <1>4, <2>1, <2>2, <2>3 DEF Late
<1>10. ASSUME NEW w \in Workers, Pop(w) PROVE Late'
  <2>1. ~ShutDownDone /\ UNCHANGED <<pc, reason, late>>
    BY <1>3, <1>10 DEF Pop, Late
  <2> QED
    BY <2>1 DEF Late, ShutDownDone
<1>11. ASSUME NEW w \in Workers, Begin(w) PROVE Late'
  <2>1. /\ UNCHANGED <<pc, reason, next, submitted, thread>> /\ w \in Holding /\ thread[w] \in Slots
        /\ fut' = [fut EXCEPT ![thread[w]] = "running"]
    BY <1>5, <1>11 DEF Begin, Holding
  <2>2. CASE ~ShutDownDone
    <3>1. late' = late
      BY <1>11, <2>2 DEF Begin
    <3> QED
      BY <2>1, <2>2, <3>1 DEF Late, ShutDownDone
  <2>3. CASE ShutDownDone
    <3>1. late' = late \cup {thread[w]}
      BY <1>11, <2>3 DEF Begin
    <3>2. Cardinality(late') <= Cardinality(late) + 1 /\ Cardinality(late') \in Nat
      <4>1. CASE thread[w] \in late
        <5>1. late' = late
          BY <3>1, <4>1
        <5> QED
          BY <1>2, <5>1
      <4>2. CASE thread[w] \notin late
        <5>1. Cardinality(late \cup {thread[w]}) = Cardinality(late) + 1
          BY <1>2, <4>2, FS_AddElement
        <5> QED
          BY <1>2, <3>1, <5>1
      <4> QED
        BY <4>1, <4>2
    <3>3. Holding' \subseteq Holding \ {w}
      BY <1>3, <1>4, <1>5, <2>1 DEF Holding
    <3>4. /\ IsFiniteSet(Holding \ {w})
          /\ Cardinality(Holding \ {w}) = Cardinality(Holding) - 1
      BY <1>1, <2>1, FS_RemoveElement
    <3>5. Cardinality(Holding') <= Cardinality(Holding) - 1 /\ Cardinality(Holding') \in Nat
      BY <1>1, <3>3, <3>4, FS_Subset, FS_CardinalityType
    <3>6. Cardinality(late) + Cardinality(Holding) <= Cardinality(Workers) /\ next > submitted
      BY <2>3 DEF Late
    <3>7. Cardinality(late') + Cardinality(Holding') <= Cardinality(Workers)
      BY <1>1, <1>2, <3>2, <3>5, <3>6
    <3> QED
      BY <1>4, <2>1, <2>3, <3>6, <3>7 DEF Late, ShutDownDone
  <2> QED
    BY <2>2, <2>3
<1>12. ASSUME NEW w \in Workers, NEW x \in Answers, Finish(w, x) PROVE Late'
  <2>1. /\ UNCHANGED <<pc, reason, next, submitted, late>> /\ thread[w] \in Slots
        /\ fut' = [fut EXCEPT ![thread[w]] = "finished"]
        /\ thread' = [thread EXCEPT ![w] = 0]
    BY <1>5, <1>12 DEF Finish
  <2>2. ASSUME NEW v \in Holding' PROVE v \in Holding
    <3>1. v \in Workers /\ thread'[v] # 0 /\ fut'[thread'[v]] = "pending"
      BY <1>4, <2>2 DEF Holding
    <3>2. v # w /\ thread'[v] = thread[v]
      BY <1>3, <2>1, <3>1
    <3>3. fut[thread[v]] = "pending"
      BY <1>3, <1>5, <2>1, <3>1, <3>2
    <3> QED
      BY <3>1, <3>2, <3>3 DEF Holding
  <2>3. Cardinality(Holding') <= Cardinality(Holding) /\ Cardinality(Holding') \in Nat
    BY <1>1, <2>2, FS_Subset, FS_CardinalityType
  <2> QED
    BY <1>1, <1>2, <1>4, <2>1, <2>3 DEF Late, ShutDownDone
<1> QED
  BY <1>6, <1>7, <1>8, <1>9, <1>10, <1>11, <1>12 DEF Next, Caller, Worker

-------------------------------------------------------------------------------
(***************************************************************************)
(* The invariant and what it gives.                                        *)
(***************************************************************************)

\* A call starts with nothing submitted, nothing running and no result.
LEMMA Initially == Init => IndInv
<1> SUFFICES ASSUME Init PROVE IndInv
  OBVIOUS
<1>1. /\ call.n \in 0 .. MaxItems /\ MaxItems \in Nat
      /\ results = <<>> /\ Len(results) = 0 /\ pending = {} /\ submitted = 0
  BY ScatterAssumption DEF Init, Calls
<1>2. TypeOK
  <2>1. results \in Seq([item : Slots, ok : BOOLEAN, terminal : Verdicts])
    BY <1>1
  <2>2. thread \in [Workers -> 0 .. call.n]
    BY <1>1 DEF Init, Free
  <2>3. fut \in [Slots -> FutureStates] /\ sends \in [Slots -> Nat]
    BY DEF Init, FutureStates
  <2>4. answer \in [Slots -> Answers \cup {NoAnswer}]
    BY DEF Init
  <2>5. /\ call \in Calls /\ pc \in CallerStates /\ expired \in BOOLEAN
        /\ reason \in Labels \cup {NoReason, NoThread, "overflow"} /\ alive = 0
        /\ late = {} /\ pending = {} /\ batch = {} /\ arrived = {} /\ next = 1
    BY DEF Init, CallerStates
  <2> QED
    BY <1>1, <2>1, <2>2, <2>3, <2>4, <2>5 DEF TypeOK
<1>3. Accounts
  BY <1>1, FS_EmptySet DEF Init, Accounts, Reported, NoReason, NoThread
<1>4. Queued
  BY <1>1 DEF Init, Queued, Free, Slots
<1>5. Gathering /\ OwnAnswer /\ Labelling /\ StopsAtFirst /\ Late /\ InOrder
  BY <1>1 DEF Init, Gathering, OwnAnswer, Labelling, StopsAtFirst, Late, InOrder,
     Waiting, Gone, NoReason, ShutDownDone
<1> QED
  BY <1>2, <1>3, <1>4, <1>5 DEF IndInv

\* Every step keeps it.
LEMMA Inductive == IndInv /\ [Next]_vars => IndInv'
<1> SUFFICES ASSUME IndInv, [Next]_vars PROVE IndInv'
  OBVIOUS
<1>1. TypeOK'
  BY TypeStep DEF IndInv, Labelling
<1> QED
  BY <1>1, AccountsStep, QueuedStep, GatheringStep, OwnAnswerStep, LabellingStep, StopsStep,
     LateStep, InOrderStep DEF IndInv

\* The invariant holds of every call, whatever its threads and peers do.
THEOREM Invariance == Spec => []IndInv
BY Initially, Inductive, PTL DEF Spec

\* Every variable keeps its type.
THEOREM TypeCorrect == Spec => []TypeOK
<1>1. IndInv => TypeOK
  BY DEF IndInv
<1> QED
  BY <1>1, Invariance, PTL

\* The list the caller gets has one result per item, in agent order.
THEOREM EveryItemAnswered == Spec => []OneResultEach
<1>1. ASSUME IndInv PROVE OneResultEach
  <2>1. ASSUME pc = "returned" PROVE Len(results) = call.n /\ Reported = Items
    <3>1. pending = {} /\ submitted = call.n
      BY <1>1, <2>1 DEF IndInv, Accounts
    <3>2. Cardinality(pending) = 0
      BY <3>1, FS_EmptySet
    <3>3. Len(results) \in Nat
      BY <1>1, LenProperties DEF IndInv, TypeOK
    <3> QED
      BY <1>1, <3>1, <3>2, <3>3 DEF IndInv, Accounts, Items
  <2> QED
    BY <1>1, <2>1 DEF IndInv, InOrder, OneResultEach
<1> QED
  BY <1>1, Invariance, PTL

\* A label is given only for the reason it names, and one call gives one.
THEOREM LabelsTrue == Spec => []LabelsEarned
<1>1. ASSUME IndInv PROVE LabelsEarned
  <2> DEFINE Said(v) == \E k \in 1 .. Len(results) : results[k].terminal = v
  <2>1. \A k \in 1 .. Len(results) :
          /\ results[k].terminal \in Labels => results[k].terminal = reason
          /\ results[k].ok <=> results[k].terminal = "ok"
    BY <1>1 DEF IndInv, Labelling
  <2>2. Said("abandoned") => reason = "abandoned"
    BY <2>1 DEF Labels
  <2>3. Said("deadline") => reason = "deadline"
    BY <2>1 DEF Labels
  <2>4. Said("abandoned") => call.stop /\ \E k \in 1 .. Len(results) : results[k].ok
    BY <1>1, <2>2 DEF IndInv, Labelling
  <2>5. Said("deadline") => expired /\ ~(call.stop /\ \E k \in 1 .. Len(results) : results[k].ok)
    BY <1>1, <2>3 DEF IndInv, Labelling
  <2>6. Said("ok") => \E k \in 1 .. Len(results) : results[k].ok
    BY <2>1
  <2> QED
    BY <2>2, <2>3, <2>4, <2>5, <2>6 DEF LabelsEarned
<1> QED
  BY <1>1, Invariance, PTL

\* A call that stops at the first success counts one success.
THEOREM OneSuccess == Spec => []StopsAtFirst
<1>1. IndInv => StopsAtFirst
  BY DEF IndInv
<1> QED
  BY <1>1, Invariance, PTL

\* No item's message is posted twice, and a cancelled item's never is.
THEOREM AtMostOnce == Spec => []OneAttempt
<1>1. ASSUME IndInv PROVE OneAttempt
  <2>1. Items \subseteq Slots
    BY <1>1, Sizes DEF IndInv
  <2> QED
    BY <1>1, <2>1 DEF IndInv, Queued, OneAttempt
<1> QED
  BY <1>1, Invariance, PTL

\* After the shutdown each worker thread posts at most one more message.
THEOREM FewLateSends == Spec => []LateSendsBounded
<1>1. ASSUME IndInv PROVE LateSendsBounded
  <2>1. /\ Cardinality(late) \in Nat /\ Cardinality(Workers) \in Nat /\ Cardinality(Holding) \in Nat
    BY <1>1, Sizes, FS_Subset, FS_CardinalityType DEF IndInv, TypeOK, Holding
  <2>2. CASE ShutDownDone
    BY <1>1, <2>1, <2>2 DEF IndInv, Late, LateSendsBounded
  <2>3. CASE ~ShutDownDone
    BY <1>1, <2>1, <2>3, FS_EmptySet DEF IndInv, Late, LateSendsBounded
  <2> QED
    BY <2>2, <2>3
<1> QED
  BY <1>1, Invariance, PTL

\* Only an answer that came after the caller last looked is in and reported cut off.
THEOREM CutOffIsUnseen == Spec => OnlyUnseenCutOff
<1>1. ASSUME IndInv, [Next]_vars
      PROVE  reason' = "deadline" =>
               \A i \in pending' : fut[i] = "finished" => reason = "deadline" \/ i \in arrived
  <2>1. SUFFICES ASSUME reason' = "deadline", reason # "deadline"
                 PROVE  \A i \in pending' : fut[i] = "finished" => i \in arrived
    OBVIOUS
  <2>2. TimedOut
    BY <1>1, <2>1, CallerSteps DEF Caller, ReturnEmpty, Submit, SubmitFails, SubmitFailsAs,
       Enqueue, Enter, Gather, TakeResult, AllGathered, EndWait, Overflow,
       OverflowWith, Block, Wake, WakeOn, Label, Labelled, Cancel, ShutDown, ShutDownOnce, Sort,
       callVars, NoThread
  <2>3. pc = "yield" /\ batch = {} /\ pending' = pending
    BY <2>2 DEF TimedOut, EndWait
  <2> QED
    BY <1>1, <2>3 DEF IndInv, Gathering, Waiting
<1>2. IndInv /\ [Next]_vars => [reason' = "deadline" =>
          \A i \in pending' : fut[i] = "finished" => reason = "deadline" \/ i \in arrived]_vars
  BY <1>1
<1> QED
  BY <1>2, Invariance, PTL DEF Spec, OnlyUnseenCutOff

-------------------------------------------------------------------------------
(***************************************************************************)
(* A call does what Batch promises.                                        *)
(***************************************************************************)

\* What Batch has settled is what the list reports.
LEMMA SettledIsReported ==
    /\ \A i : Abstract!Settled(i) <=> i \in Reported
    /\ \A v : Abstract!Given(v) <=> \E k \in 1 .. Len(results) : results[k].terminal = v
<1>1. \A k \in 1 .. Len(results) : <<results[k].item, results[k].terminal>> \in Settlements
  BY DEF Settlements
<1>2. \A p \in Settlements : \E k \in 1 .. Len(results) :
         p[1] = results[k].item /\ p[2] = results[k].terminal
  BY DEF Settlements
<1>3. \A i : i \in Reported <=> \E k \in 1 .. Len(results) : results[k].item = i
  BY DEF Reported
<1>4. \A i : Abstract!Settled(i) <=> \E k \in 1 .. Len(results) : results[k].item = i
  BY <1>1, <1>2 DEF Abstract!Settled
<1>5. \A v : Abstract!Given(v) <=> \E k \in 1 .. Len(results) : results[k].terminal = v
  BY <1>1, <1>2 DEF Abstract!Given
<1> QED
  BY <1>3, <1>4, <1>5

\* One more result settles one more item.
LEMMA OneMoreSettled ==
    ASSUME results \in Seq(Results), NEW r \in Results, results' = Append(results, r)
    PROVE  Settlements' = Settlements \cup {<<r.item, r.terminal>>}
<1>1. /\ Len(results) \in Nat /\ Len(results') = Len(results) + 1
      /\ \A k \in 1 .. Len(results) : results'[k] = results[k]
      /\ results'[Len(results) + 1] = r
  BY OneMore
<1>2. \A k \in 1 .. Len(results') : k \in 1 .. Len(results) \/ k = Len(results) + 1
  BY <1>1
<1>3. Settlements' = {<<results'[k].item, results'[k].terminal>> : k \in 1 .. Len(results')}
  BY DEF Settlements
<1> QED
  BY <1>1, <1>2, <1>3 DEF Settlements

\* Sorting settles nothing new.
LEMMA SortSettlesNothing ==
    ASSUME results \in Seq(Results), Sort
    PROVE  Settlements' = Settlements
<1>1. PICK p \in [1 .. Len(results) -> 1 .. Len(results)] :
         /\ Len(results') = Len(results)
         /\ \A k \in 1 .. Len(results) : results'[k] = results[p[k]]
         /\ \A j \in 1 .. Len(results) : \E k \in 1 .. Len(results) : p[k] = j
  BY Sorted
<1> DEFINE Pair(r) == <<r.item, r.terminal>>
<1>2. /\ Settlements' = {Pair(results'[k]) : k \in 1 .. Len(results')}
      /\ Settlements = {Pair(results[k]) : k \in 1 .. Len(results)}
  BY DEF Settlements
<1> HIDE DEF Pair
<1>3. \A k \in 1 .. Len(results') : p[k] \in 1 .. Len(results) /\ results'[k] = results[p[k]]
  BY <1>1
<1>4. \A j \in 1 .. Len(results) : \E k \in 1 .. Len(results') : results'[k] = results[j]
  BY <1>1
<1>5. Settlements' \subseteq Settlements
  BY <1>2, <1>3
<1>6. Settlements \subseteq Settlements'
  BY <1>2, <1>4
<1> QED
  BY <1>5, <1>6

\* A call that starts is a batch with nothing settled.
LEMMA InitRefines == Init => Abstract!Init
<1> SUFFICES ASSUME Init PROVE Abstract!Init
  OBVIOUS
<1>1. /\ call.n \in 0 .. MaxItems /\ call.stop \in BOOLEAN /\ pc \notin Gone
      /\ results = <<>> /\ Len(results) = 0
  BY DEF Init, Calls, Gone
<1>2. Settlements = {}
  BY <1>1 DEF Settlements
<1> QED
  BY <1>1, <1>2 DEF Abstract!Init

\* Every step of the threads is a step of the batch or none.
LEMMA StepRefines ==
    ASSUME IndInv, [Next]_vars
    PROVE  [Abstract!Next]_(Abstract!vars)
<1> USE DEF callVars
<1>1. /\ Items \subseteq Slots /\ pending \subseteq Items /\ batch \subseteq Items
      /\ Items = 1 .. call.n
      /\ results \in Seq(Results) /\ Len(results) \in Nat
  BY Sizes, LenProperties DEF IndInv, TypeOK, Results, Items
<1>2. call' = call
  BY CallStays
<1> DEFINE status == IF pc \in Gone THEN pc ELSE "open"
<1>3. CASE results' = results /\ status' = status
  <2>1. Settlements' = Settlements
    BY <1>3 DEF Settlements
  <2> QED
    BY <1>2, <1>3, <2>1 DEF Abstract!vars
<1>4. ASSUME NEW i \in batch, Gather(i) PROVE Abstract!Next
  <2> DEFINE r == FanResult(i, answer[i])
  <2>1. /\ pc = "yield" /\ pc' \in {"yield", "label"} /\ results' = Append(results, r)
        /\ i \in pending /\ i \in Slots
    BY <1>1, <1>4 DEF Gather, TakeResult, IndInv, Gathering, Waiting
  <2>2. r \in Results /\ r.item = i /\ r.terminal \in Abstract!AnswerVerdicts
    BY <2>1, FanResultShape DEF Results, Verdicts, Abstract!AnswerVerdicts
  <2>3. Settlements' = Settlements \cup {<<i, r.terminal>>}
    BY <1>1, <2>1, <2>2, OneMoreSettled
  <2> HIDE DEF r
  <2>4. \A k \in 1 .. Len(results) :
           results[k].terminal \notin Labels /\ ~(call.stop /\ results[k].terminal = "ok")
    BY <2>1 DEF IndInv, Gathering, Labelling, Waiting
  <2>5. ~Abstract!Settled(i) /\ ~Abstract!GivingUp /\ ~Abstract!Succeeded
    BY <2>1, <2>4, SettledIsReported DEF IndInv, Accounts, Labels, Abstract!GivingUp,
       Abstract!Succeeded
  <2>6. Abstract!Answer(i, r.terminal)
    BY <1>2, <2>1, <2>3, <2>5 DEF Abstract!Answer, Gone
  <2> QED
    BY <1>1, <2>1, <2>2, <2>6 DEF Abstract!Next
<1>5. CASE Label
  <2>1. PICK i \in pending : results' = Append(results, LabelResult(i))
    BY <1>5 DEF Label
  <2>2. pc = "label" /\ pc' = "label" /\ reason \in Labels
    BY <1>5 DEF Label, IndInv, Labelling
  <2>3. LabelResult(i) \in Results /\ LabelResult(i).item = i /\ LabelResult(i).terminal = reason
    BY <1>1, <2>1, <2>2 DEF LabelResult, Results, Verdicts
  <2>4. Settlements' = Settlements \cup {<<i, reason>>}
    BY <1>1, <2>1, <2>3, OneMoreSettled
  <2>5. ~Abstract!Settled(i)
    BY <2>1, SettledIsReported DEF IndInv, Accounts
  <2>6. \A k \in 1 .. Len(results) :
          /\ results[k].terminal \in Labels => results[k].terminal = reason
          /\ results[k].ok <=> results[k].terminal = "ok"
    BY DEF IndInv, Labelling
  <2>7. CASE reason = "abandoned"
    <3>1. call.stop /\ \E k \in 1 .. Len(results) : results[k].terminal = "ok"
      BY <2>1, <2>6, <2>7 DEF IndInv, Labelling
    <3>2. Abstract!Succeeded /\ ~Abstract!Given("deadline")
      BY <2>6, <2>7, <3>1, SettledIsReported DEF Labels, Abstract!Succeeded
    <3>3. Abstract!Abandon(i)
      BY <1>2, <2>2, <2>4, <2>5, <2>7, <3>2 DEF Abstract!Abandon, Gone
    <3> QED
      BY <1>1, <2>1, <3>3 DEF Abstract!Next
  <2>8. CASE reason = "deadline"
    <3>1. ~(call.stop /\ \E k \in 1 .. Len(results) : results[k].terminal = "ok")
      BY <2>6, <2>8 DEF IndInv, Labelling
    <3>2. ~Abstract!Succeeded /\ ~Abstract!Given("abandoned")
      BY <2>6, <2>8, <3>1, SettledIsReported DEF Labels, Abstract!Succeeded
    <3>3. Abstract!CutOff(i)
      BY <1>2, <2>2, <2>4, <2>5, <2>8, <3>2 DEF Abstract!CutOff, Gone
    <3> QED
      BY <1>1, <2>1, <3>3 DEF Abstract!Next
  <2> QED
    BY <2>2, <2>7, <2>8 DEF Labels
<1>6. CASE Sort
  <2>1. Settlements' = Settlements
    BY <1>1, <1>6, SortSettlesNothing
  <2>2. pc = "sort" /\ pc' = "returned"
    BY <1>6 DEF Sort
  <2>3. Reported = Items
    BY <1>1, <2>2 DEF IndInv, Accounts
  <2>4. \A i \in 1 .. call.n : Abstract!Settled(i)
    BY <1>1, <2>3, SettledIsReported
  <2> QED
    BY <1>2, <2>1, <2>2, <2>4 DEF Abstract!Next, Abstract!Return, Gone
<1>7. CASE ReturnEmpty
  <2>1. Settlements' = Settlements
    BY <1>7 DEF ReturnEmpty, Settlements
  <2>2. pc = "submit" /\ pc' = "returned" /\ call.n = 0
    BY <1>7 DEF ReturnEmpty
  <2>3. \A i \in 1 .. call.n : Abstract!Settled(i)
    BY <2>2
  <2> QED
    BY <1>2, <2>1, <2>2, <2>3 DEF Abstract!Next, Abstract!Return, Gone
<1>8. CASE ShutDown /\ pc' = "raised"
  <2>1. Settlements' = Settlements
    BY <1>8 DEF ShutDown, ShutDownOnce, Settlements
  <2>2. pc = "shutdown" /\ reason = "overflow"
    BY <1>8 DEF ShutDown, ShutDownOnce
  <2>3. ~Abstract!GivingUp
    BY <2>2, SettledIsReported DEF IndInv, Labelling, Labels, Abstract!GivingUp
  <2> QED
    BY <1>2, <1>8, <2>1, <2>2, <2>3 DEF Abstract!Next, Abstract!Raise, Gone
<1>9. CASE SubmitFails
  <2>1. Settlements' = Settlements
    BY <1>9 DEF SubmitFails, SubmitFailsAs, Enqueue, Settlements
  <2>2. pc = "submit" /\ pc' = "raised" /\ results = <<>> /\ Len(results) = 0
    BY <1>9 DEF SubmitFails, SubmitFailsAs, Enqueue, IndInv, Gathering
  <2>3. ~Abstract!GivingUp
    BY <2>2, SettledIsReported DEF Abstract!GivingUp
  <2> QED
    BY <1>2, <2>1, <2>2, <2>3 DEF Abstract!Next, Abstract!Raise, Gone
<1>10. CASE Enter \/ AllGathered \/ TimedOut \/ Overflow \/ Block \/ Wake \/ Labelled \/ Cancel
  BY <1>3, <1>10 DEF Enter, AllGathered, TimedOut, EndWait, Overflow, OverflowWith,
     Block, Wake, WakeOn, Labelled, Cancel, Gone
<1>11. CASE Submit
  BY <1>3, <1>11 DEF Submit, Enqueue
<1>12. CASE ShutDown
  BY <1>3, <1>8, <1>12 DEF ShutDown, ShutDownOnce, Gone
<1>13. CASE UNCHANGED <<call, pc, callVars>>
  BY <1>3, <1>13
<1> QED
  BY <1>4, <1>5, <1>6, <1>7, <1>9, <1>10, <1>11, <1>12, <1>13, CallerSteps DEF Caller

\* scatter keeps the promise of its documentation: each item is settled once, by its
\* own answer or by the label that was earned, and the call returns when all are.
THEOREM Implements == Spec => ImplementsBatch
<1>1. Init => Abstract!Init
  BY InitRefines
<1>2. IndInv /\ [Next]_vars => [Abstract!Next]_(Abstract!vars)
  BY StepRefines
<1> QED
  BY <1>1, <1>2, Invariance, PTL DEF Spec, ImplementsBatch, Abstract!Spec

-------------------------------------------------------------------------------
(***************************************************************************)
(* Every step counts.  The parts of Rank, and what each step does to them.  *)
(***************************************************************************)

ToSubmit == call.n - submitted
ToPop    == submitted + 1 - next
ToBegin  == ToDo({"unsubmitted", "pending"})
ToFinish == ToDo({"unsubmitted", "pending", "running"})
ToReport == call.n - Len(results)
ToLookAt == Cardinality(pending \ batch)
Ticks    == IF expired THEN 0 ELSE 1

PoolWork   == 4 * ToSubmit + ToPop + ToBegin + ToFinish
CallerWork == ToReport + 2 * ToLookAt + Ticks + Stage

\* The stages.
Staged ==
    /\ pc = "submit" => Stage = 7
    /\ pc = "yield" /\ ~expired => Stage = 6
    /\ pc = "wait" => Stage = 5
    /\ pc = "yield" /\ expired => Stage = 4
    /\ pc = "yield" => Stage \in {4, 6}
    /\ pc = "label" => Stage = 3
    /\ pc = "shutdown" => Stage = 2
    /\ pc = "sort" => Stage = 1
    /\ pc \in Gone => Stage = 0

LEMMA StageOf == TypeOK => Staged /\ Stage \in 0 .. 7
<1>1. TypeOK => pc \in CallerStates /\ expired \in BOOLEAN
  BY DEF TypeOK
<1> QED
  BY <1>1 DEF Stage, Staged, CallerStates, Gone

\* How many items are in some states: what one item that changes its state does to it.
LEMMA ToDoShape ==
    ASSUME TypeOK, NEW S
    PROVE  ToDo(S) \in Nat /\ ToDo(S) <= call.n
<1>1. IsFiniteSet(Items) /\ call.n \in Nat
  BY Sizes, ScatterAssumption
<1>2. Cardinality(Items) = call.n
  BY <1>1, FS_Interval DEF Items
<1>3. {i \in Items : fut[i] \in S} \in SUBSET Items
  OBVIOUS
<1> QED
  BY <1>1, <1>2, <1>3, FS_Subset, FS_CardinalityType DEF ToDo

LEMMA ToDoMoves ==
    ASSUME TypeOK, NEW S, NEW i \in Items, NEW st, fut' = [fut EXCEPT ![i] = st], call' = call
    PROVE  /\ (fut[i] \in S <=> st \in S) => ToDo(S)' = ToDo(S)
           /\ fut[i] \in S /\ st \notin S => ToDo(S)' = ToDo(S) - 1
<1> DEFINE old == {j \in Items : fut[j] \in S}
           new == {j \in Items : fut'[j] \in S}
<1>1. IsFiniteSet(Items) /\ Items \subseteq Slots /\ fut \in [Slots -> FutureStates]
  BY Sizes DEF TypeOK
<1>2. fut'[i] = st /\ \A j \in Items : j # i => fut'[j] = fut[j]
  BY <1>1
<1>3. ToDo(S) = Cardinality(old) /\ ToDo(S)' = Cardinality(new)
  BY DEF ToDo, Items
<1>4. ASSUME fut[i] \in S <=> st \in S PROVE new = old
  BY <1>2, <1>4
<1>5. ASSUME fut[i] \in S, st \notin S PROVE Cardinality(new) = Cardinality(old) - 1
  <2>1. new = old \ {i} /\ i \in old
    BY <1>2, <1>5
  <2>2. IsFiniteSet(old)
    BY <1>1, FS_Subset
  <2> HIDE DEF old, new
  <2> QED
    BY <2>1, <2>2, FS_RemoveElement
<1> QED
  BY <1>3, <1>4, <1>5

\* An item that is begun, finished or cancelled.
LEMMA ItemMoves ==
    ASSUME TypeOK, NEW i \in Items, NEW st \in FutureStates, fut' = [fut EXCEPT ![i] = st], call' = call
    PROVE  /\ fut[i] = "pending" /\ st = "cancelled" =>
                 ToBegin' = ToBegin - 1 /\ ToFinish' = ToFinish - 1
           /\ fut[i] = "pending" /\ st = "running" =>
                 ToBegin' = ToBegin - 1 /\ ToFinish' = ToFinish
           /\ fut[i] = "running" /\ st = "finished" =>
                 ToBegin' = ToBegin /\ ToFinish' = ToFinish - 1
<1> DEFINE B == {"unsubmitted", "pending"}
           F == {"unsubmitted", "pending", "running"}
<1>1. /\ "pending" \in B /\ "running" \notin B /\ "finished" \notin B /\ "cancelled" \notin B
      /\ "pending" \in F /\ "running" \in F /\ "finished" \notin F /\ "cancelled" \notin F
  OBVIOUS
<1>2. ToBegin = ToDo(B) /\ ToBegin' = ToDo(B)' /\ ToFinish = ToDo(F) /\ ToFinish' = ToDo(F)'
  BY DEF ToBegin, ToFinish
<1> HIDE DEF B, F
<1>3. /\ (fut[i] \in B <=> st \in B) => ToDo(B)' = ToDo(B)
      /\ fut[i] \in B /\ st \notin B => ToDo(B)' = ToDo(B) - 1
  BY ToDoMoves
<1>4. /\ (fut[i] \in F <=> st \in F) => ToDo(F)' = ToDo(F)
      /\ fut[i] \in F /\ st \notin F => ToDo(F)' = ToDo(F) - 1
  BY ToDoMoves
<1> QED
  BY <1>1, <1>2, <1>3, <1>4

\* The parts are natural numbers, and so is their sum, which has a bound.
Sized ==
    /\ ToSubmit \in Nat /\ ToPop \in Nat /\ ToBegin \in Nat /\ ToFinish \in Nat
    /\ ToReport \in Nat /\ ToLookAt \in Nat /\ Ticks \in 0 .. 1 /\ Stage \in 0 .. 7
    /\ Rank = PoolWork + CallerWork
    /\ Rank \in Nat /\ Rank <= 7 * call.n + 8

LEMMA RankBounds == IndInv => Sized
<1> SUFFICES ASSUME IndInv PROVE Sized
  OBVIOUS
<1>1. /\ call.n \in Nat /\ submitted \in Nat /\ submitted <= call.n
      /\ next \in Nat /\ 1 <= next /\ next <= submitted + 1
      /\ IsFiniteSet(pending) /\ Len(results) \in Nat
  <2>1. TypeOK /\ results \in Seq(Results) /\ pending \subseteq Items
    BY DEF IndInv, TypeOK, Results
  <2>2. call.n \in Nat /\ IsFiniteSet(Items)
    BY <2>1, Sizes, ScatterAssumption
  <2>3. submitted \in Nat /\ submitted <= call.n
    BY <2>1, <2>2 DEF TypeOK
  <2>4. next \in Nat /\ 1 <= next /\ next <= submitted + 1
    BY <2>1, <2>3 DEF TypeOK
  <2> QED
    BY <2>1, <2>2, <2>3, <2>4, FS_Subset, LenProperties
<1>2. /\ Cardinality(pending) \in Nat /\ Len(results) + Cardinality(pending) = submitted
  BY <1>1, FS_CardinalityType DEF IndInv, Accounts
<1>3. ToLookAt \in Nat /\ ToLookAt <= Cardinality(pending)
  <2>1. pending \ batch \in SUBSET pending
    OBVIOUS
  <2> QED
    BY <1>1, <2>1, FS_Subset, FS_CardinalityType DEF ToLookAt
<1>4. ToBegin \in Nat /\ ToBegin <= call.n /\ ToFinish \in Nat /\ ToFinish <= call.n
  BY ToDoShape DEF IndInv, ToBegin, ToFinish
<1>5. ToSubmit \in Nat /\ ToPop \in Nat /\ ToPop <= submitted
  BY <1>1 DEF ToSubmit, ToPop
<1>6. ToReport \in Nat /\ ToReport = ToSubmit + Cardinality(pending)
  BY <1>1, <1>2 DEF ToReport, ToSubmit
<1>7. Ticks \in 0 .. 1
  BY DEF Ticks
<1>8. Stage \in 0 .. 7
  BY StageOf DEF IndInv
<1>9. ToSubmit + submitted = call.n
  BY <1>1 DEF ToSubmit
<1>10. Cardinality(pending) <= submitted
  BY <1>1, <1>2
<1> DEFINE p == Cardinality(pending)
<1>11. /\ p \in Nat /\ p <= submitted
       /\ ToLookAt <= p /\ ToReport = ToSubmit + p
  BY <1>2, <1>3, <1>6, <1>10
<1> HIDE DEF p
<1>12. PoolWork \in Nat /\ PoolWork <= 4 * ToSubmit + submitted + 2 * call.n
  BY <1>1, <1>4, <1>5 DEF PoolWork
<1>13. CallerWork \in Nat /\ CallerWork <= ToSubmit + 3 * submitted + 8
  <2>1. Ticks \in Nat /\ Ticks <= 1 /\ Stage \in Nat /\ Stage <= 7
    BY <1>7, <1>8
  <2>2. ToReport + 2 * ToLookAt <= ToSubmit + 3 * submitted
    BY <1>1, <1>3, <1>5, <1>6, <1>11
  <2>3. ToReport + 2 * ToLookAt \in Nat /\ ToSubmit + 3 * submitted \in Nat
    BY <1>1, <1>3, <1>5, <1>6
  <2>4. CallerWork = (ToReport + 2 * ToLookAt) + (Ticks + Stage)
    BY <1>3, <1>6, <2>1 DEF CallerWork
  <2> QED
    BY <2>1, <2>2, <2>3, <2>4
<1>14. Rank = PoolWork + CallerWork
  <2>1. ToSubmit \in Int /\ ToPop \in Int /\ ToBegin \in Int /\ ToFinish \in Int
        /\ ToReport \in Int /\ ToLookAt \in Int /\ Ticks \in Int /\ Stage \in Int
    BY <1>3, <1>4, <1>5, <1>6, <1>7, <1>8
  <2>2. Rank = 4 * ToSubmit + ToPop + ToBegin + ToFinish + ToReport + 2 * ToLookAt + Ticks + Stage
    BY DEF Rank, ToSubmit, ToPop, ToBegin, ToFinish, ToReport, ToLookAt, Ticks
  <2> QED
    BY <2>1, <2>2 DEF PoolWork, CallerWork
<1>15. Rank \in Nat /\ Rank <= 7 * call.n + 8
  <2>1. 5 * ToSubmit + 4 * submitted <= 5 * call.n
    BY <1>1, <1>5, <1>9
  <2> QED
    BY <1>1, <1>5, <1>12, <1>13, <1>14, <2>1
<1> QED
  BY <1>3, <1>4, <1>5, <1>6, <1>7, <1>8, <1>14, <1>15 DEF Sized

\* The same of the state before a step and of the one after it.
LEMMA BothSized ==
    ASSUME IndInv, IndInv'
    PROVE  Sized /\ Sized' /\ Staged /\ Staged'
<1>1. IndInv' => Sized'
  BY RankBounds, PTL
<1>2. TypeOK' => Staged'
  BY StageOf, PTL
<1> QED
  BY <1>1, <1>2, RankBounds, StageOf DEF IndInv

\* What a step has to do to the two halves of the rank.
LEMMA RankFalls ==
    ASSUME IndInv, IndInv', PoolWork' + CallerWork' < PoolWork + CallerWork
    PROVE  Rank' < Rank
BY BothSized DEF Sized

LEMMA WorkShape ==
    ASSUME IndInv, IndInv'
    PROVE  /\ ToSubmit \in Int /\ ToPop \in Int /\ ToBegin \in Int /\ ToFinish \in Int
           /\ ToReport \in Int /\ ToLookAt \in Int /\ Ticks \in Int /\ Stage \in Int
           /\ ToSubmit' \in Int /\ ToPop' \in Int /\ ToBegin' \in Int /\ ToFinish' \in Int
           /\ ToReport' \in Int /\ ToLookAt' \in Int /\ Ticks' \in Int /\ Stage' \in Int
           /\ PoolWork \in Int /\ CallerWork \in Int /\ PoolWork' \in Int /\ CallerWork' \in Int
<1>1. /\ ToSubmit \in Int /\ ToPop \in Int /\ ToBegin \in Int /\ ToFinish \in Int
      /\ ToReport \in Int /\ ToLookAt \in Int /\ Ticks \in Int /\ Stage \in Int
  BY BothSized DEF Sized
<1>2. /\ ToSubmit' \in Int /\ ToPop' \in Int /\ ToBegin' \in Int /\ ToFinish' \in Int
      /\ ToReport' \in Int /\ ToLookAt' \in Int /\ Ticks' \in Int /\ Stage' \in Int
  BY BothSized DEF Sized
<1> QED
  BY <1>1, <1>2 DEF PoolWork, CallerWork

\* A step of the caller that neither submits nor cancels leaves the pool's work alone, and
\* has to report an item or to reach a later stage.
LEMMA CallerFalls ==
    ASSUME IndInv, IndInv', UNCHANGED <<call, submitted, poolVars, expired>>,
           ToLookAt' <= ToLookAt,
           \/ ToReport' < ToReport /\ Stage' <= Stage
           \/ UNCHANGED results /\ Stage' < Stage
    PROVE  Rank' < Rank
<1>1. /\ ToSubmit' = ToSubmit /\ ToPop' = ToPop /\ ToBegin' = ToBegin /\ ToFinish' = ToFinish
      /\ Ticks' = Ticks /\ (UNCHANGED results => ToReport' = ToReport)
  BY DEF ToSubmit, ToPop, ToBegin, ToFinish, ToDo, Items, Ticks, ToReport, poolVars
<1>2. PoolWork' = PoolWork
  BY <1>1 DEF PoolWork
<1>3. ToReport' + Stage' < ToReport + Stage
  BY <1>1, WorkShape
<1>4. CallerWork' < CallerWork
  BY <1>1, <1>3, WorkShape DEF CallerWork
<1> QED
  BY <1>2, <1>4, WorkShape, RankFalls

\* Nothing more to look at.
LEMMA LookedAt ==
    ASSUME IndInv, pending' \ batch' \subseteq pending \ batch
    PROVE  ToLookAt' <= ToLookAt
<1>1. IsFiniteSet(pending \ batch)
  <2>1. IsFiniteSet(Items) /\ pending \ batch \subseteq Items
    BY Sizes DEF IndInv, TypeOK
  <2> QED
    BY <2>1, FS_Subset
<1>2. Cardinality(pending' \ batch') <= Cardinality(pending \ batch)
  BY <1>1, FS_Subset
<1> QED
  BY <1>2 DEF ToLookAt

\* One more item queued: four to be submitted have become one to be popped and two to be
\* looked at.
LEMMA EnqueueCounts ==
    ASSUME IndInv, IndInv', Enqueue, Stage' <= Stage
    PROVE  Rank' < Rank
<1>1. /\ pc = "submit" /\ submitted' = submitted + 1 /\ call' = call
      /\ fut' = [fut EXCEPT ![submitted + 1] = "pending"]
      /\ pending' = pending \cup {submitted + 1}
      /\ batch' = batch /\ results' = results /\ next' = next /\ expired' = expired
      /\ submitted < call.n
  BY DEF Enqueue
<1>2. TypeOK /\ call.n \in Nat /\ submitted \in Nat /\ next \in Nat /\ Items \subseteq Slots
  BY Sizes, ScatterAssumption DEF IndInv, TypeOK
<1>3. ToSubmit' = ToSubmit - 1 /\ ToPop' = ToPop + 1
  BY <1>1, <1>2 DEF ToSubmit, ToPop
<1>4. submitted + 1 \in Items /\ submitted + 1 \in Slots
  BY <1>1, <1>2 DEF Items
<1>5. fut[submitted + 1] = "unsubmitted"
  BY <1>2, <1>4 DEF IndInv, Queued
<1>6. ToBegin' = ToBegin /\ ToFinish' = ToFinish
  BY <1>1, <1>2, <1>4, <1>5, ToDoMoves DEF ToBegin, ToFinish
<1>7. pending \subseteq 1 .. submitted /\ batch = {}
  BY <1>1 DEF IndInv, Accounts, Gathering
<1>8. submitted + 1 \notin pending /\ IsFiniteSet(pending)
  <2>1. IsFiniteSet(Items) /\ pending \subseteq Items
    BY <1>2, Sizes DEF TypeOK
  <2>2. submitted + 1 \notin 1 .. submitted
    BY <1>2
  <2> QED
    BY <1>7, <2>1, <2>2, FS_Subset
<1>9. pending' \ batch' = pending \cup {submitted + 1} /\ pending \ batch = pending
  BY <1>1, <1>7
<1>10. ToLookAt' = ToLookAt + 1
  BY <1>8, <1>9, FS_AddElement DEF ToLookAt
<1>11. ToReport' = ToReport /\ Ticks' = Ticks
  BY <1>1 DEF ToReport, Ticks
<1>12. PoolWork' = PoolWork - 3
  BY <1>3, <1>6, WorkShape DEF PoolWork
<1>13. CallerWork' <= CallerWork + 2
  BY <1>10, <1>11, WorkShape DEF CallerWork
<1> QED
  BY <1>12, <1>13, WorkShape, RankFalls

\* The caller's steps.
LEMMA CallerCounts ==
    ASSUME IndInv, IndInv', Caller, call.deadline # "nan"
    PROVE  Rank' < Rank
<1>1. TypeOK /\ Staged /\ Staged' /\ Items \subseteq Slots
  BY BothSized, Sizes DEF IndInv
<1>2. results \in Seq(Results) /\ Len(results) \in Nat /\ call.n \in Nat
  BY <1>1, Sizes, ScatterAssumption, LenProperties DEF TypeOK, Results
<1>3. ASSUME NEW r \in Results, results' = Append(results, r), call' = call
      PROVE  ToReport' < ToReport
  <2>1. Len(results') = Len(results) + 1
    BY <1>2, <1>3, AppendResult
  <2> QED
    BY <1>2, <1>3, <2>1 DEF ToReport
<1>4. CASE ReturnEmpty
  <2>1. UNCHANGED <<call, submitted, poolVars, expired, results, pending, batch>>
    BY <1>4 DEF ReturnEmpty, callVars
  <2>2. Stage = 7 /\ Stage' = 0
    BY <1>1, <1>4 DEF Staged, ReturnEmpty, Gone
  <2> QED
    BY <2>1, <2>2, LookedAt, CallerFalls
<1>5. CASE Submit \/ SubmitFails
  <2>1. Enqueue
    BY <1>5 DEF Submit, SubmitFails, SubmitFailsAs
  <2>2. Stage' <= Stage
    BY <1>1, <1>5 DEF Staged, Submit, SubmitFails, SubmitFailsAs, Enqueue, Gone
  <2> QED
    BY <2>1, <2>2, EnqueueCounts
<1>6. CASE Enter
  <2>1. UNCHANGED <<call, submitted, poolVars, expired, results, pending>> /\ batch = {}
    BY <1>6 DEF Enter, IndInv, Gathering
  <2>2. Stage = 7 /\ Stage' \in {4, 6}
    BY <1>1, <1>6 DEF Staged, Enter
  <2>3. ToLookAt' <= ToLookAt
    BY <2>1, LookedAt
  <2> QED
    BY <2>1, <2>2, <2>3, CallerFalls
<1>7. CASE \E i \in batch : Gather(i)
  <2>1. PICK i \in batch : Gather(i)
    BY <1>7
  <2>2. /\ UNCHANGED <<call, submitted, poolVars, expired>>
        /\ pending' = pending \ {i} /\ batch' = batch \ {i}
        /\ results' = Append(results, FanResult(i, answer[i]))
        /\ pc = "yield" /\ pc' \in {"yield", "label"}
    BY <2>1 DEF Gather, TakeResult
  <2>3. Stage' <= Stage
    BY <1>1, <2>2 DEF Staged
  <2>4. ToLookAt' <= ToLookAt
    BY <2>2, LookedAt
  <2>5. FanResult(i, answer[i]) \in Results
    BY <1>1, FanResultShape DEF TypeOK
  <2> QED
    BY <1>3, <2>2, <2>3, <2>4, <2>5, CallerFalls
<1>8. CASE AllGathered \/ TimedOut \/ Overflow \/ Block
  <2>1. /\ UNCHANGED <<call, submitted, poolVars, expired, results, pending, batch>>
        /\ pc = "yield"
        /\ pc' \in {"label", "shutdown"} \/ (pc' = "wait" /\ ~expired)
    BY <1>8 DEF AllGathered, TimedOut, EndWait, Overflow, OverflowWith, Block, callVars
  <2>2. Stage' < Stage
    BY <1>1, <2>1 DEF Staged
  <2>3. ToLookAt' <= ToLookAt
    BY <2>1, LookedAt
  <2> QED
    BY <2>1, <2>2, <2>3, CallerFalls
<1>9. CASE Wake
  <2>1. /\ pc = "wait" /\ pc' = "yield" /\ batch' = arrived /\ batch = {} /\ arrived \subseteq pending
        /\ arrived # {} \/ expired
        /\ UNCHANGED <<call, submitted, pending, poolVars, expired, results>>
    BY <1>9 DEF Wake, WakeOn, IndInv, Gathering, Waiting
  <2>2. ToLookAt' <= ToLookAt
    BY <2>1, LookedAt
  <2>3. CASE expired
    <3>1. Stage = 5 /\ Stage' = 4
      BY <1>1, <2>1, <2>3 DEF Staged
    <3> QED
      BY <2>1, <2>2, <3>1, CallerFalls
  <2>4. CASE ~expired
    <3>1. Stage = 5 /\ Stage' = 6
      BY <1>1, <2>1, <2>4 DEF Staged
    <3>2. ToLookAt' <= ToLookAt - 1
      <4>1. PICK i \in arrived : TRUE
        BY <2>1, <2>4
      <4> DEFINE old == pending \ batch
                 new == pending' \ batch'
      <4>2. IsFiniteSet(old)
        <5>1. IsFiniteSet(Items) /\ old \subseteq Items
          BY <1>1, Sizes DEF TypeOK
        <5> QED
          BY <5>1, FS_Subset
      <4>3. new \subseteq old \ {i} /\ i \in old
        BY <2>1, <4>1
      <4>4. ToLookAt = Cardinality(old) /\ ToLookAt' = Cardinality(new)
        BY DEF ToLookAt
      <4> HIDE DEF old, new
      <4>5. IsFiniteSet(old \ {i}) /\ Cardinality(old \ {i}) = Cardinality(old) - 1
        BY <4>2, <4>3, FS_RemoveElement
      <4>6. Cardinality(new) <= Cardinality(old \ {i})
        BY <4>3, <4>5, FS_Subset
      <4> QED
        BY <4>4, <4>5, <4>6
    <3>3. /\ ToSubmit' = ToSubmit /\ ToPop' = ToPop /\ ToBegin' = ToBegin /\ ToFinish' = ToFinish
          /\ Ticks' = Ticks /\ ToReport' = ToReport
      BY <2>1 DEF ToSubmit, ToPop, ToBegin, ToFinish, ToDo, Items, Ticks, ToReport, poolVars
    <3>4. PoolWork' = PoolWork
      BY <3>3 DEF PoolWork
    <3>5. CallerWork' < CallerWork
      BY <3>1, <3>2, <3>3, WorkShape DEF CallerWork
    <3> QED
      BY <3>4, <3>5, WorkShape, RankFalls
  <2> QED
    BY <2>3, <2>4
<1>10. CASE Label
  <2>1. PICK i \in pending : results' = Append(results, LabelResult(i)) /\ pending' = pending \ {i}
    BY <1>10 DEF Label
  <2>2. UNCHANGED <<call, pc, submitted, batch, poolVars, expired>>
    BY <1>10 DEF Label
  <2>3. LabelResult(i) \in Results
    <3>1. reason \in Labels /\ i \in Slots
      BY <1>1, <1>10 DEF Label, IndInv, Labelling, TypeOK
    <3> QED
      BY <3>1 DEF LabelResult, Results, Verdicts
  <2>4. ToLookAt' <= ToLookAt
    BY <2>1, <2>2, LookedAt
  <2>5. ToReport' < ToReport
    BY <1>3, <2>1, <2>2, <2>3
  <2>6. Stage' = Stage
    BY <2>2 DEF Stage
  <2> QED
    BY <2>2, <2>4, <2>5, <2>6, WorkShape, CallerFalls
<1>11. CASE Labelled \/ ShutDown
  <2>1. /\ UNCHANGED <<call, submitted, poolVars, expired, results, pending, batch>>
        /\ \/ pc = "label" /\ pc' = "shutdown"
           \/ pc = "shutdown" /\ pc' \in {"raised", "sort"}
    BY <1>11 DEF Labelled, ShutDown, ShutDownOnce, callVars
  <2>2. Stage' < Stage
    BY <1>1, <2>1 DEF Staged, Gone
  <2>3. ToLookAt' <= ToLookAt
    BY <2>1, LookedAt
  <2> QED
    BY <2>1, <2>2, <2>3, CallerFalls
<1>12. CASE Cancel
  <2>1. /\ next <= submitted /\ fut' = [fut EXCEPT ![next] = "cancelled"] /\ next' = next + 1
        /\ UNCHANGED <<call, pc, callVars, expired>>
    BY <1>12 DEF Cancel
  <2>2. submitted \in Nat /\ next \in Nat
    BY <1>1, <1>2 DEF TypeOK
  <2>3. next \in Items /\ next \in Slots
    BY <1>1, <1>2, <2>1, <2>2 DEF TypeOK, Items
  <2>4. fut[next] = "pending"
    BY <2>1, <2>2, <2>3 DEF IndInv, Queued
  <2>5. ToBegin' = ToBegin - 1 /\ ToFinish' = ToFinish - 1
    BY <1>1, <2>1, <2>3, <2>4, ItemMoves DEF FutureStates
  <2>6. ToPop' = ToPop - 1 /\ ToSubmit' = ToSubmit
    BY <2>1, <2>2 DEF ToPop, ToSubmit, callVars
  <2>7. CallerWork' = CallerWork
    BY <2>1 DEF CallerWork, ToReport, ToLookAt, Ticks, Stage, callVars
  <2>8. PoolWork' < PoolWork
    BY <2>5, <2>6, WorkShape DEF PoolWork
  <2> QED
    BY <2>7, <2>8, WorkShape, RankFalls
<1>13. CASE Sort
  <2>1. UNCHANGED <<call, submitted, poolVars, expired, pending, batch>>
    BY <1>13 DEF Sort
  <2>2. Stage = 1 /\ Stage' = 0
    BY <1>1, <1>13 DEF Staged, Sort, Gone
  <2>3. Len(results') = Len(results)
    BY <1>2, <1>13 DEF Sort, Rearranged
  <2>4. ToReport' = ToReport /\ ToLookAt' = ToLookAt /\ Ticks' = Ticks
    BY <2>1, <2>3 DEF ToReport, ToLookAt, Ticks
  <2>5. PoolWork' = PoolWork
    BY <2>1 DEF PoolWork, ToSubmit, ToPop, ToBegin, ToFinish, ToDo, Items, poolVars
  <2>6. CallerWork' < CallerWork
    BY <2>2, <2>4, WorkShape DEF CallerWork
  <2> QED
    BY <2>5, <2>6, WorkShape, RankFalls
<1> QED
  BY <1>4, <1>5, <1>6, <1>7, <1>8, <1>9, <1>10, <1>11, <1>12, <1>13 DEF Caller

\* The steps of the threads and of the clock.
LEMMA OthersCount ==
    ASSUME IndInv, IndInv', Expire \/ \E w \in Workers : Worker(w)
    PROVE  Rank' < Rank
<1>1. TypeOK /\ Staged /\ Staged' /\ submitted \in Nat /\ next \in Nat
  <2>1. TypeOK /\ call.n \in Nat
    BY Sizes, ScatterAssumption DEF IndInv
  <2>2. submitted \in Nat
    BY <2>1 DEF TypeOK
  <2>3. next \in Nat
    BY <2>1, <2>2 DEF TypeOK
  <2> QED
    BY <2>1, <2>2, <2>3, BothSized
<1>2. UNCHANGED <<call, pc, callVars>>
  BY DEF Expire, Worker, Pop, Begin, Finish
<1>3. ToSubmit' = ToSubmit /\ ToReport' = ToReport /\ ToLookAt' = ToLookAt
  BY <1>2 DEF ToSubmit, ToReport, ToLookAt, callVars
<1>4. CASE Expire
  <2>1. PoolWork' = PoolWork
    BY <1>2, <1>4 DEF Expire, PoolWork, poolVars, callVars, ToSubmit, ToPop, ToBegin, ToFinish, ToDo, Items
  <2>2. Ticks = 1 /\ Ticks' = 0
    BY <1>4 DEF Expire, Ticks
  <2>3. Stage' <= Stage
    BY <1>1, <1>4 DEF Staged, Expire, Waiting
  <2>4. CallerWork' < CallerWork
    BY <1>3, <2>2, <2>3, WorkShape DEF CallerWork
  <2> QED
    BY <2>1, <2>4, WorkShape, RankFalls
<1>5. ASSUME NEW w \in Workers, Worker(w) PROVE Rank' < Rank
  <2>1. expired' = expired
    BY <1>5 DEF Worker, Pop, Begin, Finish
  <2>2. CallerWork' = CallerWork
    BY <1>2, <2>1 DEF CallerWork, ToReport, ToLookAt, Ticks, Stage, callVars
  <2>3. CASE Pop(w)
    <3>1. ToPop' = ToPop - 1
      BY <1>1, <1>2, <2>3 DEF Pop, ToPop, callVars
    <3>2. ToBegin' = ToBegin /\ ToFinish' = ToFinish
      BY <1>2, <2>3 DEF Pop, ToBegin, ToFinish, ToDo, Items
    <3>3. PoolWork' < PoolWork
      BY <1>3, <3>1, <3>2, WorkShape DEF PoolWork
    <3> QED
      BY <2>2, <3>3, WorkShape, RankFalls
  <2>4. thread[w] # Free => thread[w] \in Items
    <3>1. thread[w] \in 0 .. call.n /\ call.n \in Nat
      BY <1>1, Sizes, ScatterAssumption DEF TypeOK
    <3> QED
      BY <3>1 DEF Items, Free
  <2>5. CASE Begin(w)
    <3>1. /\ thread[w] # Free /\ fut[thread[w]] = "pending"
          /\ fut' = [fut EXCEPT ![thread[w]] = "running"] /\ next' = next
      BY <2>5 DEF Begin
    <3>2. ToBegin' = ToBegin - 1 /\ ToFinish' = ToFinish
      BY <1>1, <1>2, <2>4, <3>1, ItemMoves DEF FutureStates
    <3>3. ToPop' = ToPop
      BY <1>2, <3>1 DEF ToPop, callVars
    <3>4. PoolWork' < PoolWork
      BY <1>3, <3>2, <3>3, WorkShape DEF PoolWork
    <3> QED
      BY <2>2, <3>4, WorkShape, RankFalls
  <2>6. CASE \E x \in Answers : Finish(w, x)
    <3>1. /\ thread[w] # Free /\ fut[thread[w]] = "running"
          /\ fut' = [fut EXCEPT ![thread[w]] = "finished"] /\ next' = next
      BY <2>6 DEF Finish
    <3>2. ToBegin' = ToBegin /\ ToFinish' = ToFinish - 1
      BY <1>1, <1>2, <2>4, <3>1, ItemMoves DEF FutureStates
    <3>3. ToPop' = ToPop
      BY <1>2, <3>1 DEF ToPop, callVars
    <3>4. PoolWork' < PoolWork
      BY <1>3, <3>2, <3>3, WorkShape DEF PoolWork
    <3> QED
      BY <2>2, <3>4, WorkShape, RankFalls
  <2> QED
    BY <1>5, <2>3, <2>5, <2>6 DEF Worker
<1> QED
  BY <1>4, <1>5

\* A call with n items is over, for its caller and for the threads it leaves behind, after
\* at most 7 n + 8 steps, however they interleave: no livelock, unless the deadline is nan.
THEOREM StepsCount == Spec => EveryStepCounts
<1>1. ASSUME IndInv, IndInv', Next, call.deadline # "nan"
      PROVE  Rank' < Rank
  BY <1>1, CallerCounts, OthersCount DEF Next
<1>2. IndInv /\ IndInv' /\ [Next]_vars =>
         [call.deadline # "nan" => Rank' < Rank /\ Rank' >= 0 /\ Rank <= 7 * call.n + 8]_vars
  BY <1>1, BothSized DEF Sized
<1> QED
  BY <1>2, Invariance, PTL DEF Spec, EveryStepCounts

-------------------------------------------------------------------------------
(***************************************************************************)
(* Nobody is stuck.  Together with StepsCount this is what makes a call     *)
(* end: as long as it is not over there is a step to take, and there are    *)
(* only so many.  The guards of the actions are written out, as the proof   *)
(* system has no ENABLED.                                                  *)
(***************************************************************************)

CallerCan ==
    \/ pc = "submit" /\ (submitted < call.n \/ submitted = call.n)
    \/ pc = "yield" /\ batch # {}
    \/ pc = "yield" /\ batch = {} /\ (pending = {} \/ expired)
    \/ pc = "yield" /\ batch = {} /\ pending # {} /\ call.deadline = "unrepresentable" /\ arrived = {}
    \/ /\ pc = "yield" /\ batch = {} /\ pending # {} /\ ~expired
       /\ call.deadline = "unrepresentable" => arrived # {}
    \/ pc = "wait" /\ (arrived # {} \/ expired \/ call.deadline = "nan")
    \/ pc = "label" /\ (pending = {} \/ \E i \in pending : \A j \in pending : i <= j)
    \/ pc = "shutdown" /\ (next <= submitted \/ next > submitted)
    \/ pc = "sort" /\ StableOrders(SortKeys) # {}

ClockCan == call.deadline = "finite" /\ pc \in Waiting /\ ~expired

WorkerCan(w) ==
    \/ w <= alive /\ thread[w] = Free /\ next <= submitted
    \/ thread[w] # Free /\ fut[thread[w]] = "pending"
    \/ thread[w] # Free /\ fut[thread[w]] = "running" /\ thread[w] \notin call.hung /\ Answers # {}

\* A popped item is in the hands of a thread until it has finished; items are cancelled
\* only by the shutdown; there is a thread for what was submitted, unless starting one
\* failed; and the caller waits for something, with a deadline it can wait for or something
\* to wake it.
Attended ==
    /\ \A i \in Slots : i < next /\ fut[i] \in {"pending", "running"} => \E w \in Workers : thread[w] = i
    /\ \A i \in 1 .. submitted : fut[i] # "unsubmitted"
    /\ pc \in {"submit", "label"} \cup Waiting => \A i \in Slots : fut[i] # "cancelled"
    /\ submitted > 0 /\ reason # NoThread => alive > 0
    /\ pc = "wait" => pending # {} /\ (call.deadline = "unrepresentable" => arrived # {})

LEMMA CallerAttends ==
    ASSUME IndInv, Attended, Caller
    PROVE  Attended'
<1>1. /\ TypeOK /\ call.n \in Nat /\ submitted \in Nat /\ next \in Nat /\ alive \in Nat
      /\ Items \subseteq Slots /\ fut \in [Slots -> FutureStates] /\ next <= submitted + 1
  <2>1. TypeOK /\ call.n \in Nat /\ Items \subseteq Slots
    BY Sizes, ScatterAssumption DEF IndInv
  <2>2. submitted \in Nat
    BY <2>1 DEF TypeOK
  <2>3. next \in Nat /\ next <= submitted + 1
    BY <2>1, <2>2 DEF TypeOK
  <2>4. alive \in Nat
    <3>1. _clamp(MaxWorkers, 1, call.n) \in Int
      BY <2>1, ScatterAssumption DEF _clamp
    <3> QED
      BY <2>1, <3>1 DEF TypeOK, Workers
  <2> QED
    BY <2>1, <2>2, <2>3, <2>4 DEF TypeOK
<1>2. CASE Submit \/ SubmitFails
  <2>1. /\ pc = "submit" /\ submitted < call.n /\ submitted' = submitted + 1 /\ call' = call
        /\ fut' = [fut EXCEPT ![submitted + 1] = "pending"] /\ next' = next /\ thread' = thread
    BY <1>2 DEF Submit, SubmitFails, SubmitFailsAs, Enqueue
  <2>2. Workers' = Workers
    BY <2>1 DEF Workers
  <2>3. \A i \in Slots : fut'[i] = IF i = submitted + 1 THEN "pending" ELSE fut[i]
    BY <1>1, <2>1
  <2>4. submitted + 1 \in Slots
    BY <1>1, <2>1 DEF Items
  <2>5. \A i \in Slots : i < next' /\ fut'[i] \in {"pending", "running"} => \E w \in Workers' : thread'[w] = i
    BY <1>1, <2>1, <2>2, <2>3 DEF Attended
  <2>6. \A i \in 1 .. submitted' : fut'[i] # "unsubmitted"
    <3>1. ASSUME NEW i \in 1 .. submitted' PROVE i = submitted + 1 \/ (i \in 1 .. submitted /\ i # submitted + 1)
      BY <1>1, <2>1
    <3>2. \A i \in 1 .. submitted : i \in Slots
      BY <1>1, <2>1 DEF Items
    <3> QED
      BY <2>3, <2>4, <3>1, <3>2 DEF Attended
  <2>7. \A i \in Slots : fut'[i] # "cancelled"
    BY <2>1, <2>3 DEF Attended
  <2>8. reason' # NoThread => alive' > 0
    <3>1. CASE SubmitFails
      BY <3>1 DEF SubmitFails, SubmitFailsAs
    <3>2. CASE Submit /\ alive' = alive + 1
      BY <1>1, <3>2
    <3>3. CASE Submit /\ submitted > 0 /\ alive' = alive
      BY <3>3 DEF Submit, Attended
    <3>4. CASE Submit /\ submitted = 0 /\ alive' = alive /\ alive = 0
      <4>1. alive + 1 \in Workers
        <5>1. 1 <= _clamp(MaxWorkers, 1, call.n) /\ _clamp(MaxWorkers, 1, call.n) \in Int
          BY <1>1, <2>1, ScatterAssumption DEF _clamp
        <5> QED
          BY <3>4, <5>1 DEF Workers
      <4>2. Idle
        BY <3>4, <4>1 DEF Submit
      <4>3. \A i \in Items : fut[i] # "finished"
        BY <1>1, <3>4 DEF IndInv, Queued, Items
      <4>4. Cardinality({i \in Items : fut[i] = "finished"}) = 0
        <5>1. {i \in Items : fut[i] = "finished"} = {}
          BY <4>3
        <5> QED
          BY <5>1, FS_EmptySet
      <4> QED
        BY <3>4, <4>2, <4>4 DEF Idle
    <3> QED
      BY <1>1, <1>2, <3>1, <3>2, <3>3, <3>4 DEF Submit
  <2>9. pc' # "wait"
    BY <1>2, <2>1 DEF Submit, SubmitFails, SubmitFailsAs
  <2> QED
    BY <2>5, <2>6, <2>7, <2>8, <2>9 DEF Attended
<1>3. CASE Cancel
  <2>1. /\ pc = "shutdown" /\ pc' = pc /\ fut' = [fut EXCEPT ![next] = "cancelled"] /\ next' = next + 1
        /\ call' = call /\ thread' = thread /\ alive' = alive /\ next <= submitted
        /\ submitted' = submitted /\ reason' = reason
    BY <1>3 DEF Cancel, callVars
  <2>2. Workers' = Workers
    BY <2>1 DEF Workers
  <2>3. \A i \in Slots : fut'[i] = IF i = next THEN "cancelled" ELSE fut[i]
    BY <1>1, <2>1
  <2>4. \A i \in Slots : i < next' /\ i # next => i < next
    BY <1>1, <2>1 DEF Slots
  <2>5. \A i \in 1 .. submitted : i \in Slots
    <3>1. submitted <= call.n
      BY <1>1 DEF TypeOK
    <3> QED
      BY <1>1, <3>1 DEF Items
  <2> QED
    BY <2>1, <2>2, <2>3, <2>4, <2>5 DEF Attended, Waiting
<1>4. CASE \/ ReturnEmpty \/ Enter \/ \E i \in batch : Gather(i)
           \/ AllGathered \/ TimedOut \/ Overflow \/ Block \/ Wake
           \/ Label \/ Labelled \/ ShutDown \/ Sort
  <2>1. UNCHANGED <<call, submitted, poolVars>>
    BY <1>4 DEF ReturnEmpty, Enter, Gather, TakeResult, AllGathered, TimedOut, EndWait,
       Overflow, OverflowWith, Block, Wake, WakeOn, Label, Labelled, ShutDown, ShutDownOnce, Sort,
       callVars
  <2>2. /\ pc' \in {"submit", "label"} \cup Waiting => pc \in {"submit", "label"} \cup Waiting
        /\ pc' = "wait" => pending' # {} /\ (call.deadline = "unrepresentable" => arrived' # {})
        /\ reason' # NoThread => reason # NoThread
    <3>1. pc \in {"submit", "label"} \cup Waiting => reason # NoThread
      BY DEF IndInv, Accounts, Waiting
    <3>2. CASE \E i \in batch : Gather(i)
      BY <3>1, <3>2 DEF Gather, TakeResult, Waiting
    <3>3. CASE ~ \E i \in batch : Gather(i)
      BY <1>4, <3>1, <3>3 DEF ReturnEmpty, Enter, AllGathered, TimedOut, EndWait, Overflow, OverflowWith,
         Block, Wake, WakeOn, Label, Labelled, ShutDown, ShutDownOnce, Sort, Waiting, Gone, callVars, Labels
    <3> QED
      BY <3>2, <3>3
  <2> QED
    BY <2>1, <2>2 DEF Attended, poolVars, Workers
<1> QED
  BY <1>2, <1>3, <1>4 DEF Caller

LEMMA OthersAttend ==
    ASSUME IndInv, Attended, Expire \/ (\E w \in Workers : Worker(w))
    PROVE  Attended'
<1>1. /\ TypeOK /\ call.n \in Nat /\ submitted \in Nat /\ next \in Nat
      /\ Items \subseteq Slots /\ fut \in [Slots -> FutureStates] /\ thread \in [Workers -> 0 .. call.n]
  <2>1. TypeOK /\ call.n \in Nat /\ Items \subseteq Slots
    BY Sizes, ScatterAssumption DEF IndInv
  <2>2. submitted \in Nat
    BY <2>1 DEF TypeOK
  <2>3. next \in Nat
    BY <2>1, <2>2 DEF TypeOK
  <2> QED
    BY <2>1, <2>2, <2>3 DEF TypeOK
<1>2. UNCHANGED <<call, pc, callVars, alive>> /\ Workers' = Workers /\ arrived \subseteq arrived'
  <2>1. UNCHANGED <<call, pc, callVars, alive>> /\ arrived \subseteq arrived'
    BY DEF Expire, Worker, Pop, Begin, Finish, poolVars
  <2> QED
    BY <2>1 DEF Workers
<1>3. CASE Expire
  BY <1>2, <1>3 DEF Expire, Attended, poolVars, callVars
<1>4. ASSUME NEW w \in Workers, Worker(w) PROVE Attended'
  <2>1. CASE Pop(w)
    <3>1. /\ thread[w] = Free /\ next' = next + 1 /\ fut' = fut
          /\ \A v \in Workers : thread'[v] = IF v = w THEN next ELSE thread[v]
      BY <1>1, <2>1 DEF Pop
    <3>2. ASSUME NEW i \in Slots, i < next', fut[i] \in {"pending", "running"}
          PROVE  \E v \in Workers : thread'[v] = i
      <4>1. i = next \/ i < next
        BY <1>1, <3>1, <3>2 DEF Slots
      <4>2. CASE i = next
        BY <3>1, <4>2
      <4>3. CASE i < next
        <5>1. PICK v \in Workers : thread[v] = i
          BY <3>2, <4>3 DEF Attended
        <5>2. v # w
          BY <3>1, <5>1 DEF Slots, Free
        <5> QED
          BY <3>1, <5>1, <5>2
      <4> QED
        BY <4>1, <4>2, <4>3
    <3> QED
      BY <1>2, <3>1, <3>2 DEF Attended, callVars
  <2>2. CASE Begin(w)
    <3>1. /\ thread[w] # Free /\ fut[thread[w]] = "pending" /\ thread' = thread /\ next' = next
          /\ fut' = [fut EXCEPT ![thread[w]] = "running"]
      BY <2>2 DEF Begin
    <3>2. \A i \in Slots : fut'[i] = IF i = thread[w] THEN "running" ELSE fut[i]
      BY <1>1, <3>1
    <3>3. \A i \in 1 .. submitted : i \in Slots
      <4>1. submitted <= call.n
        BY <1>1 DEF TypeOK
      <4> QED
        BY <1>1, <4>1 DEF Items
    <3> QED
      BY <1>2, <3>1, <3>2, <3>3 DEF Attended, callVars
  <2>3. CASE \E x \in Answers : Finish(w, x)
    <3>1. /\ thread[w] # Free /\ next' = next
          /\ fut' = [fut EXCEPT ![thread[w]] = "finished"]
          /\ thread' = [thread EXCEPT ![w] = Free]
      BY <2>3 DEF Finish
    <3>2. \A i \in Slots : fut'[i] = IF i = thread[w] THEN "finished" ELSE fut[i]
      BY <1>1, <3>1
    <3>3. \A v \in Workers : v # w => thread'[v] = thread[v]
      BY <1>1, <3>1
    <3>4. \A i \in 1 .. submitted : i \in Slots
      <4>1. submitted <= call.n
        BY <1>1 DEF TypeOK
      <4> QED
        BY <1>1, <4>1 DEF Items
    <3>5. ASSUME NEW i \in Slots, i < next', fut'[i] \in {"pending", "running"}
          PROVE  \E v \in Workers : thread'[v] = i
      <4>1. i # thread[w] /\ fut[i] \in {"pending", "running"} /\ i < next
        BY <3>1, <3>2, <3>5
      <4>2. PICK v \in Workers : thread[v] = i
        BY <4>1 DEF Attended
      <4> QED
        BY <3>3, <4>1, <4>2
    <3> QED
      BY <1>2, <3>2, <3>4, <3>5 DEF Attended, callVars
  <2> QED
    BY <1>4, <2>1, <2>2, <2>3 DEF Worker
<1> QED
  BY <1>3, <1>4

THEOREM AttendedHolds == Spec => []Attended
<1>1. Init => Attended
  <2> SUFFICES ASSUME Init PROVE Attended
    OBVIOUS
  <2>1. submitted = 0 /\ pc = "submit" /\ fut = [i \in Slots |-> "unsubmitted"]
    BY DEF Init
  <2>2. \A i \in Slots : fut[i] = "unsubmitted"
    BY <2>1
  <2>3. 1 .. submitted = {}
    BY <2>1
  <2> QED
    BY <2>1, <2>2, <2>3 DEF Attended
<1>2. IndInv /\ Attended /\ [Next]_vars => Attended'
  <2>1. ASSUME Attended, UNCHANGED vars PROVE Attended'
    BY <2>1 DEF Attended, vars, callVars, poolVars, Workers
  <2> QED
    BY <2>1, CallerAttends, OthersAttend DEF Next
<1> QED
  BY <1>1, <1>2, Invariance, PTL DEF Spec

\* The thread that holds an item can go on with it, unless its peer hangs.
LEMMA HolderCan ==
    ASSUME IndInv, Attended, NEW i \in Slots, i < next, fut[i] \in {"pending", "running"},
           i \notin call.hung, Answers # {}
    PROVE  \E w \in Workers : thread[w] = i /\ WorkerCan(w)
BY DEF Attended, WorkerCan, Slots, Free

\* If no peer hangs and there is a thread, some thread can go on as long as an item is
\* neither finished nor cancelled.
LEMMA SomeoneCan ==
    ASSUME IndInv, Attended, NEW i \in 1 .. submitted, fut[i] \in {"pending", "running"},
           call.hung = {}, alive > 0, Answers # {}
    PROVE  \E w \in Workers : WorkerCan(w)
<1>1. /\ TypeOK /\ call.n \in Nat /\ submitted \in Nat /\ next \in Nat /\ submitted <= call.n
      /\ Items \subseteq Slots /\ thread \in [Workers -> 0 .. call.n]
  <2>1. TypeOK /\ call.n \in Nat /\ Items \subseteq Slots
    BY Sizes, ScatterAssumption DEF IndInv
  <2>2. submitted \in Nat /\ submitted <= call.n
    BY <2>1 DEF TypeOK
  <2>3. next \in Nat
    BY <2>1, <2>2 DEF TypeOK
  <2> QED
    BY <2>1, <2>2, <2>3 DEF TypeOK
<1>2. i \in Slots /\ i \notin call.hung
  BY <1>1 DEF Items
<1>3. CASE i < next
  BY <1>2, <1>3, HolderCan
<1>4. CASE ~(i < next)
  <2>1. next <= submitted
    BY <1>1, <1>4
  <2>2. 1 \in Workers /\ 1 <= alive
    <3>1. alive \in {0} \cup Workers
      BY <1>1 DEF TypeOK
    <3>2. alive \in Workers
      BY <3>1
    <3> QED
      BY <1>1, <3>2, ScatterAssumption DEF Workers, _clamp
  <2>3. CASE thread[1] = Free
    BY <2>1, <2>2, <2>3 DEF WorkerCan
  <2>4. CASE thread[1] # Free
    <3>1. fut[thread[1]] \in {"pending", "running"}
      BY <2>2, <2>4 DEF IndInv, Queued
    <3> QED
      BY <2>2, <2>4, <3>1 DEF WorkerCan
  <2> QED
    BY <2>3, <2>4
<1> QED
  BY <1>3, <1>4

\* The sort always has an outcome.
LEMMA SortCan == TypeOK => StableOrders(SortKeys) # {}
<1> SUFFICES ASSUME TypeOK PROVE StableOrders(SortKeys) # {}
  OBVIOUS
<1>1. results \in Seq([item : Slots, ok : BOOLEAN, terminal : Verdicts])
  BY DEF TypeOK
<1>2. Len(results) \in Nat /\ \A k \in 1 .. Len(results) : results[k].item \in Slots
  <2>1. \A k \in 1 .. Len(results) : results[k] \in [item : Slots, ok : BOOLEAN, terminal : Verdicts]
    BY <1>1, ElementOfSeq
  <2> QED
    BY <1>1, <2>1
<1>3. \A k \in 1 .. Len(results) : Name[results[k].item] \in Nat
  BY <1>2, ScatterAssumption DEF Slots
<1>4. SortKeys \in [1 .. Len(results) -> Nat]
  BY <1>3 DEF SortKeys
<1>5. SortKeys \in Seq(Nat)
  BY <1>2, <1>4, SeqDef
<1> QED
  BY <1>5, SortsOneWay

\* Somebody can go on until the call is over, if it has a deadline or its peers all
\* answer; and afterwards until what it handed over is finished, as NothingLeftBehind says.
Unstuck ==
    /\ pc \notin Gone /\ (call.deadline # "none" \/ call.hung = {}) =>
          CallerCan \/ ClockCan \/ \E w \in Workers : WorkerCan(w)
    /\ \A i \in Slots :
          (/\ pc \in Gone
           /\ i \in (1 .. submitted) \ call.hung
           /\ reason = NoThread => alive > 0 /\ call.hung = {}
           /\ fut[i] \notin {"finished", "cancelled"}) => \E w \in Workers : WorkerCan(w)

LEMMA UnstuckNow ==
    ASSUME IndInv, Attended, Answers # {}
    PROVE  Unstuck
<1>1. /\ TypeOK /\ call.n \in Nat /\ submitted \in Nat /\ next \in Nat /\ submitted <= call.n
      /\ Items \subseteq Slots /\ pending \subseteq Items /\ fut \in [Slots -> FutureStates]
  <2>1. TypeOK /\ call.n \in Nat /\ Items \subseteq Slots
    BY Sizes, ScatterAssumption DEF IndInv
  <2>2. submitted \in Nat /\ submitted <= call.n
    BY <2>1 DEF TypeOK
  <2>3. next \in Nat
    BY <2>1, <2>2 DEF TypeOK
  <2> QED
    BY <2>1, <2>2, <2>3 DEF TypeOK
<1>2. ASSUME pc \notin Gone, call.deadline # "none" \/ call.hung = {}
      PROVE  CallerCan \/ ClockCan \/ \E w \in Workers : WorkerCan(w)
  <2>1. CASE pc = "submit"
    BY <1>1, <2>1 DEF CallerCan
  <2>2. CASE pc = "yield"
    BY <2>2 DEF CallerCan
  <2>3. CASE pc = "wait"
    <3>1. CASE arrived # {} \/ expired \/ call.deadline = "nan"
      BY <2>3, <3>1 DEF CallerCan
    <3>2. CASE ~expired /\ call.deadline = "finite"
      BY <2>3, <3>2 DEF ClockCan, Waiting
    <3>3. CASE arrived = {} /\ call.deadline = "none"
      <4>1. PICK i \in pending : TRUE
        BY <2>3 DEF Attended
      <4>2. fut[i] # "finished"
        BY <2>3, <3>3 DEF IndInv, Gathering, Waiting
      <4>3. i \in 1 .. submitted /\ i \in Slots
        BY <1>1, <4>1 DEF IndInv, Accounts
      <4>4. fut[i] \in {"pending", "running"}
        BY <1>1, <2>3, <4>2, <4>3 DEF Attended, Waiting, FutureStates
      <4>5. submitted > 0
        BY <1>1, <4>3
      <4>6. alive > 0
        BY <2>3, <4>5 DEF Attended, IndInv, Accounts
      <4> QED
        BY <1>2, <3>3, <4>3, <4>4, <4>6, SomeoneCan
    <3>4. call.deadline \in DeadlineKinds /\ (call.deadline = "unrepresentable" => arrived # {})
      BY <1>1, <2>3, ScatterAssumption DEF Attended, TypeOK, Calls
    <3> QED
      BY <3>1, <3>2, <3>3, <3>4 DEF DeadlineKinds
  <2>4. CASE pc = "label"
    <3>1. pending \in SUBSET Nat
      BY <1>1 DEF Items
    <3> QED
      BY <2>4, <3>1, Least DEF CallerCan
  <2>5. CASE pc = "shutdown"
    BY <1>1, <2>5 DEF CallerCan
  <2>6. CASE pc = "sort"
    BY <1>1, <2>6, SortCan DEF CallerCan
  <2> QED
    BY <1>1, <1>2, <2>1, <2>2, <2>3, <2>4, <2>5, <2>6 DEF TypeOK, CallerStates, Gone
<1>3. ASSUME NEW i \in Slots, pc \in Gone, i \in (1 .. submitted) \ call.hung,
             reason = NoThread => alive > 0 /\ call.hung = {},
             fut[i] \notin {"finished", "cancelled"}
      PROVE  \E w \in Workers : WorkerCan(w)
  <2>1. fut[i] \in {"pending", "running"}
    BY <1>1, <1>3 DEF Attended, FutureStates
  <2>2. CASE reason = NoThread
    BY <1>3, <2>1, <2>2, SomeoneCan
  <2>3. CASE reason # NoThread
    <3>1. next > submitted
      BY <1>3, <2>3 DEF IndInv, Late, ShutDownDone
    <3>2. i < next
      BY <1>1, <1>3, <3>1
    <3> QED
      BY <1>3, <2>1, <3>2, HolderCan
  <2> QED
    BY <2>2, <2>3
<1> QED
  BY <1>2, <1>3 DEF Unstuck

\* "a single hung socket can no longer stall the batch" (fanout.py): a call with a deadline
\* is never stuck however many of its peers hang, nor is what it leaves behind.  With
\* EveryStepCounts, whoever goes on is done after at most 7 n + 8 steps.
THEOREM NeverStuck ==
    ASSUME Answers # {}
    PROVE  Spec => []Unstuck
<1>1. IndInv /\ Attended => Unstuck
  BY UnstuckNow
<1> QED
  BY <1>1, Invariance, AttendedHolds, PTL
===============================================================================
