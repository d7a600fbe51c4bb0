--------------------------- MODULE SyncQueueProofs ---------------------------
(***************************************************************************)
(* Proofs about SyncQueue, for any threads, items, capacity and timeouts:  *)
(* types, no thread asleep when its wakeup is due, and that the queue      *)
(* implements BoundedQueue.                                                *)
(*                                                                         *)
(* Two things carry the refinement.  The ring: an insertion at NextIndex   *)
(* appends to Items, and advancing index drops its head, however the slots *)
(* wrap round.  And CallsFit: what a thread is doing is known from its     *)
(* call alone, so that only a timed call ever gives up.                    *)
(***************************************************************************)
EXTENDS SyncQueue, TLAPS

\* Adding one modulo the capacity stays among the slots.
LEMMA NextIndexInSlots ==
  ASSUME index \in Slots, itemCount \in 0 .. Size
  PROVE  NextIndex \in Slots
  BY SizeAssumption DEF NextIndex, Slots

\* What Return leaves behind has the right types, if the result does.
LEMMA ReturnType ==
  ASSUME TypeOK, NEW t \in Threads, NEW r, NEW cvs, Return(t, r, cvs),
         r \in [item : Values \cup {NoItem}, flag : {"true", "false", "unset"}, count : 0 .. Size]
  PROVE  /\ pc' \in [Threads -> {"idle", "enter", "waiting", "woken", "timedOut"}]
         /\ call' \in [Threads -> [op : Ops \cup {"none"}, item : Values \cup {NoItem}, left : Nat]]
         /\ ret' \in [Threads -> [item : Values \cup {NoItem},
                                  flag : {"true", "false", "unset"}, count : 0 .. Size]]
  BY DEF Return, TypeOK, Idle

\* A result that carries an item, or none, and the item count, or 0.
LEMMA ResultType ==
  ASSUME TypeOK, NEW v \in Values \cup {NoItem}, NEW f \in {"true", "false", "unset"},
         NEW n \in {0, itemCount}
  PROVE  Result(v, f, n) \in [item : Values \cup {NoItem},
                              flag : {"true", "false", "unset"}, count : 0 .. Size]
  BY SizeAssumption DEF TypeOK, Result

\* The state of the ring has the right types after an insertion or a removal.
LEMMA RingType ==
  ASSUME TypeOK,
         \/ ~IsFull /\ (\E v \in Values \cup {NoItem} : AddTail(v))
         \/ ~IsEmpty /\ RemoveHead
         \/ UNCHANGED ring
  PROVE  index' \in Slots /\ itemCount' \in 0 .. Size /\ data' \in [Slots -> Values \cup {NoItem}]
<1>1. CASE ~IsFull /\ (\E v \in Values \cup {NoItem} : AddTail(v))
  BY <1>1, SizeAssumption, NextIndexInSlots DEF TypeOK, AddTail, IsFull
<1>2. CASE ~IsEmpty /\ RemoveHead
  BY <1>2, SizeAssumption DEF TypeOK, RemoveHead, IsEmpty, Slots
<1>3. CASE UNCHANGED ring
  BY <1>3 DEF TypeOK, ring
<1>4. QED
  BY <1>1, <1>2, <1>3

-----------------------------------------------------------------------------

\* Every step of a thread keeps the types.
LEMMA StepType ==
  ASSUME TypeOK, NEW t \in Threads,
         Invoke(t) \/ Section(t) \/ SpuriousWakeup(t) \/ Expire(t)
  PROVE  TypeOK'
<1>a. call[t].item \in Values \cup {NoItem} /\ data[index] \in Values \cup {NoItem}
  BY DEF TypeOK
<1>n. NoItem \in Values \cup {NoItem}
  OBVIOUS
<1>1. CASE Invoke(t)
  <2>1. PICK op \in Ops, v \in Values \cup {NoItem}, n \in Timeouts \cup {0} :
          call' = [call EXCEPT ![t] = [op |-> op, item |-> v, left |-> n]]
    BY <1>1 DEF Invoke
  <2>2. n \in Nat
    BY TimeoutAssumption
  <2>3. call' \in [Threads -> [op : Ops \cup {"none"}, item : Values \cup {NoItem}, left : Nat]]
    BY <2>1, <2>2 DEF TypeOK
  <2>4. ret' \in [Threads -> [item : Values \cup {NoItem},
                              flag : {"true", "false", "unset"}, count : 0 .. Size]]
    BY <1>1, ResultType, <1>n DEF Invoke, TypeOK, Nothing
  <2> QED
    BY <1>1, <2>3, <2>4 DEF Invoke, TypeOK, ring
<1>2. CASE SpuriousWakeup(t) \/ Expire(t) \/ Block(t)
  BY <1>2 DEF SpuriousWakeup, Expire, Block, TypeOK, ring
<1>3. CASE PutStores(t) \/ TryPutStores(t)
  BY <1>3, <1>a, <1>n, ResultType, ReturnType, RingType DEF PutStores, TryPutStores, TypeOK
<1>4. CASE GetTakes(t) \/ TryGetTakes(t) \/ DrainTakes(t)
  BY <1>4, <1>a, ResultType, ReturnType, RingType DEF GetTakes, TryGetTakes, DrainTakes, TypeOK
<1>5. CASE PutCanceled(t) \/ PutGivesUp(t) \/ TryPutFails(t)
  BY <1>5, <1>n, ResultType, ReturnType, RingType DEF PutCanceled, PutGivesUp, TryPutFails, TypeOK
<1>6. CASE GetCanceled(t) \/ GetTimesOut(t) \/ GetFails(t)
  BY <1>6, <1>n, ResultType, ReturnType, RingType
     DEF GetCanceled, GetTimesOut, GetFails, Nothing, TypeOK
<1>12. CASE TryGetFails(t) \/ DrainEmpty(t)
  BY <1>12, <1>n, ResultType, ReturnType, RingType DEF TryGetFails, DrainEmpty, TypeOK
<1>7. CASE WaitNotEmpty(t)
  BY <1>7, <1>n, ResultType, ReturnType, RingType
     DEF WaitNotEmpty, NotEmptySeen, NotEmptyTimesOut, NotEmptyFails, TypeOK
<1>8. CASE EmptySeen(t) \/ EmptyTimesOut(t) \/ EmptyFails(t)
  BY <1>8, <1>n, ResultType, ReturnType, RingType
     DEF EmptySeen, EmptyTimesOut, EmptyFails, TypeOK
<1>9. CASE EmptyElapsed(t)
  <2>1. PICK elapsed \in 0 .. call[t].left - 1 :
          IF MustWait("waitEmpty")
          THEN /\ pc' = [pc EXCEPT ![t] = "waiting"]
               /\ call' = [call EXCEPT ![t] =
                    [op |-> "waitEmpty", item |-> @.item, left |-> @.left - elapsed]]
               /\ UNCHANGED ret
          ELSE Return(t, Result(NoItem, "false", itemCount), {})
    BY <1>9 DEF EmptyElapsed
  <2>2. CASE MustWait("waitEmpty")
    <3>1. call[t] \in [op : Ops \cup {"none"}, item : Values \cup {NoItem}, left : Nat]
      BY DEF TypeOK
    <3>2. call[t].left - elapsed \in Nat
      BY <3>1
    <3>3. "waitEmpty" \in Ops
      BY <1>9, <3>1 DEF EmptyElapsed, Runs
    <3>4. call' \in [Threads -> [op : Ops \cup {"none"}, item : Values \cup {NoItem}, left : Nat]]
      BY <2>1, <2>2, <3>1, <3>2, <3>3 DEF TypeOK
    <3> QED
      BY <1>9, <2>1, <2>2, <3>4 DEF EmptyElapsed, TypeOK, ring
  <2>3. CASE ~MustWait("waitEmpty")
    BY <1>9, <2>1, <2>3, <1>n, ResultType, ReturnType, RingType DEF EmptyElapsed, TypeOK
  <2> QED
    BY <2>2, <2>3
<1>10. CASE Cancel(t)
  BY <1>10, <1>n, ResultType, ReturnType, RingType DEF Cancel, TypeOK, Nothing
<1>11. CASE Query(t)
  <2>1. \A b \in BOOLEAN : Flag(b) \in {"true", "false", "unset"}
    BY DEF Flag
  <2>2. IsEmpty \in BOOLEAN /\ IsFull \in BOOLEAN /\ canceled \in BOOLEAN
    BY DEF IsEmpty, IsFull, TypeOK
  <2> QED
    BY <1>11, <2>1, <2>2, <1>n, ResultType, ReturnType, RingType DEF Query, TypeOK
<1> QED
  BY <1>1, <1>2, <1>3, <1>4, <1>5, <1>6, <1>7, <1>8, <1>9, <1>10, <1>11, <1>12
     DEF Section, Put, TryPut, Get, TryGet, Drain, WaitEmpty

\* Every reachable state of the queue is well typed.
THEOREM TypeCorrect == Spec => []TypeOK
<1>1. ASSUME Init PROVE TypeOK
  <2>1. index \in Slots /\ itemCount \in 0 .. Size /\ data \in [Slots -> Values \cup {NoItem}]
    BY <1>1, SizeAssumption DEF Init, Slots
  <2>2. call \in [Threads -> [op : Ops \cup {"none"}, item : Values \cup {NoItem}, left : Nat]]
    BY <1>1 DEF Init, Idle
  <2>3. ret \in [Threads -> [item : Values \cup {NoItem},
                             flag : {"true", "false", "unset"}, count : 0 .. Size]]
    BY <1>1, SizeAssumption DEF Init, Nothing, Result
  <2> QED
    BY <1>1, <2>1, <2>2, <2>3 DEF Init, TypeOK
<1>2. TypeOK /\ [Next]_vars => TypeOK'
  <2>1. ASSUME TypeOK, Next PROVE TypeOK'
    BY <2>1, StepType DEF Next
  <2>2. ASSUME TypeOK, UNCHANGED vars PROVE TypeOK'
    BY <2>2 DEF TypeOK, vars
  <2> QED
    BY <2>1, <2>2
<1> QED
  BY <1>1, <1>2, PTL DEF Spec

-----------------------------------------------------------------------------
(* Wakeups.  The four statements about sleeping threads are inductive      *)
(* together with the types: a step that makes one of them false for some   *)
(* thread broadcasts the variable that thread sleeps on.                   *)

SleepInv ==
  /\ NoSleepOverItems
  /\ NoSleepAfterCancel
  /\ "drain" \notin Ops => PutterSleepsOnlyWhenFull /\ WaitEmptySleepsOnlyOverItems

\* Whoever still sleeps after a return slept before, on a variable that was
\* not broadcast.
LEMMA ReturnSleepers ==
  ASSUME TypeOK, NEW t \in Threads, NEW r, NEW cvs, Return(t, r, cvs),
         NEW u \in Threads, pc'[u] = "waiting"
  PROVE  pc[u] = "waiting" /\ call'[u] = call[u] /\ CondVar(call[u].op) \notin cvs
  BY DEF Return, TypeOK, WaitsOn

\* A step that leaves ring and flag alone, and puts no thread to sleep, keeps
\* SleepInv.
LEMMA QuietStep ==
  ASSUME SleepInv, UNCHANGED <<itemCount, canceled>>,
         \A u \in Threads : pc'[u] = "waiting" => pc[u] = "waiting" /\ call'[u] = call[u]
  PROVE  SleepInv'
  BY DEF SleepInv, NoSleepOverItems, NoSleepAfterCancel, PutterSleepsOnlyWhenFull,
         WaitEmptySleepsOnlyOverItems, WaitsOn, IsEmpty, IsFull

\* A thread goes to sleep only when its operation must wait.
LEMMA SleepStep ==
  ASSUME TypeOK, SleepInv, NEW t \in Threads, MustWait(call[t].op),
         UNCHANGED <<itemCount, canceled>>,
         call'[t].op = call[t].op,
         \A u \in Threads \ {t} : pc'[u] = pc[u] /\ call'[u] = call[u]
  PROVE  SleepInv'
  BY DEF SleepInv, NoSleepOverItems, NoSleepAfterCancel, PutterSleepsOnlyWhenFull,
         WaitEmptySleepsOnlyOverItems, WaitsOn, IsEmpty, IsFull, MustWait, CondVar

\* An insertion wakes the sleepers on notEmpty; those on notFull sleep in
\* front of a full ring, so there is no insertion, or wait for it to empty.
LEMMA StoreStep ==
  ASSUME TypeOK, SleepInv, NEW t \in Threads, NEW r, NEW v,
         ~IsFull, ~canceled, AddTail(v), Return(t, r, {"notEmpty"}), UNCHANGED canceled
  PROVE  SleepInv'
<1>1. \A u \in Threads : pc'[u] = "waiting" =>
        pc[u] = "waiting" /\ call'[u] = call[u] /\ CondVar(call[u].op) = "notFull"
  BY ReturnSleepers DEF CondVar
<1>2. itemCount' = itemCount + 1 /\ itemCount \in Nat
  BY DEF AddTail, TypeOK
<1> QED
  BY <1>1, <1>2 DEF SleepInv, NoSleepOverItems, NoSleepAfterCancel, PutterSleepsOnlyWhenFull,
         WaitEmptySleepsOnlyOverItems, WaitsOn, IsEmpty, IsFull, CondVar

\* A removal finds no sleeper on notEmpty, and one that is not a drain wakes
\* those on notFull.
LEMMA TakeStep ==
  ASSUME TypeOK, SleepInv, NEW t \in Threads, NEW r, NEW cvs,
         ~IsEmpty, RemoveHead, Return(t, r, cvs), UNCHANGED canceled,
         "drain" \notin Ops => "notFull" \in cvs
  PROVE  SleepInv'
<1>1. \A u \in Threads : pc'[u] = "waiting" =>
        pc[u] = "waiting" /\ call'[u] = call[u] /\ CondVar(call[u].op) \notin cvs
  BY ReturnSleepers
<1> QED
  BY <1>1 DEF SleepInv, NoSleepOverItems, NoSleepAfterCancel, PutterSleepsOnlyWhenFull,
         WaitEmptySleepsOnlyOverItems, WaitsOn, IsEmpty, IsFull, CondVar

\* Every step of a thread keeps SleepInv.
LEMMA StepSleep ==
  ASSUME TypeOK, SleepInv, NEW t \in Threads,
         Invoke(t) \/ Section(t) \/ SpuriousWakeup(t) \/ Expire(t)
  PROVE  SleepInv'
<1>1. CASE Invoke(t)
  BY <1>1, QuietStep DEF Invoke, TypeOK, ring
<1>2. CASE SpuriousWakeup(t) \/ Expire(t)
  BY <1>2, QuietStep DEF SpuriousWakeup, Expire, TypeOK, ring
<1>3. CASE Block(t)
  BY <1>3, SleepStep DEF Block, TypeOK, ring
<1>4. CASE PutStores(t) \/ TryPutStores(t)
  BY <1>4, StoreStep DEF PutStores, TryPutStores
<1>5. CASE GetTakes(t) \/ TryGetTakes(t)
  BY <1>5, TakeStep DEF GetTakes, TryGetTakes
<1>6. CASE DrainTakes(t)
  <2>1. "drain" \in Ops
    BY <1>6 DEF DrainTakes, Runs, TypeOK
  <2> QED
    BY <1>6, <2>1, TakeStep DEF DrainTakes
<1>7. ASSUME NEW r, NEW cvs, Return(t, r, cvs), UNCHANGED <<ring, canceled>>
      PROVE  SleepInv'
  BY <1>7, ReturnSleepers, QuietStep DEF ring
<1>8. CASE PutCanceled(t) \/ PutGivesUp(t) \/ TryPutFails(t)
  BY <1>8, <1>7 DEF PutCanceled, PutGivesUp, TryPutFails
<1>9. CASE GetCanceled(t) \/ GetTimesOut(t) \/ GetFails(t) \/ TryGetFails(t) \/ DrainEmpty(t)
  BY <1>9, <1>7 DEF GetCanceled, GetTimesOut, GetFails, TryGetFails, DrainEmpty
<1>10. CASE WaitNotEmpty(t)
  BY <1>10, <1>7 DEF WaitNotEmpty, NotEmptySeen, NotEmptyTimesOut, NotEmptyFails
<1>11. CASE EmptySeen(t) \/ EmptyTimesOut(t) \/ EmptyFails(t)
  BY <1>11, <1>7 DEF EmptySeen, EmptyTimesOut, EmptyFails
<1>12. CASE EmptyElapsed(t) /\ MustWait("waitEmpty")
  <2>1. PICK elapsed \in 0 .. call[t].left - 1 :
          /\ pc' = [pc EXCEPT ![t] = "waiting"]
          /\ call' = [call EXCEPT ![t] =
               [op |-> "waitEmpty", item |-> @.item, left |-> @.left - elapsed]]
    BY <1>12 DEF EmptyElapsed
  <2>2. call[t].op = "waitEmpty" /\ UNCHANGED <<itemCount, canceled>>
    BY <1>12 DEF EmptyElapsed, Runs, ring
  <2>3. call'[t].op = "waitEmpty"
    BY <2>1 DEF TypeOK
  <2>4. \A u \in Threads \ {t} : pc'[u] = pc[u] /\ call'[u] = call[u]
    BY <2>1 DEF TypeOK
  <2> QED
    BY <1>12, <2>2, <2>3, <2>4, SleepStep
<1>13. CASE EmptyElapsed(t) /\ ~MustWait("waitEmpty")
  BY <1>13, <1>7 DEF EmptyElapsed
<1>14. CASE Cancel(t) /\ canceled
  BY <1>14, <1>7 DEF Cancel
<1>15. CASE Cancel(t) /\ ~canceled
  <2>1. Return(t, Nothing, {"notEmpty", "notFull"}) /\ UNCHANGED itemCount
    BY <1>15 DEF Cancel, ring
  <2>2. \A u \in Threads : pc'[u] # "waiting"
    BY <2>1, ReturnSleepers DEF CondVar
  <2> QED
    BY <2>2 DEF SleepInv, NoSleepOverItems, NoSleepAfterCancel, PutterSleepsOnlyWhenFull,
         WaitEmptySleepsOnlyOverItems, WaitsOn
<1>16. CASE Query(t)
  BY <1>16, <1>7 DEF Query
<1> QED
  BY <1>1, <1>2, <1>3, <1>4, <1>5, <1>6, <1>8, <1>9, <1>10, <1>11, <1>12, <1>13, <1>14,
     <1>15, <1>16 DEF Section, Put, TryPut, Get, TryGet, Drain, WaitEmpty

\* The four statements hold in every reachable state.
LEMMA SleepInvariant == Spec => []SleepInv
<1>1. Init => SleepInv
  BY DEF Init, SleepInv, NoSleepOverItems, NoSleepAfterCancel, PutterSleepsOnlyWhenFull,
         WaitEmptySleepsOnlyOverItems, WaitsOn
<1>2. TypeOK /\ SleepInv /\ [Next]_vars => SleepInv'
  <2>1. ASSUME TypeOK, SleepInv, Next PROVE SleepInv'
    BY <2>1, StepSleep DEF Next
  <2>2. ASSUME SleepInv, UNCHANGED vars PROVE SleepInv'
    BY <2>2, QuietStep DEF vars
  <2> QED
    BY <2>1, <2>2
<1> QED
  BY <1>1, <1>2, TypeCorrect, PTL DEF Spec

\* No thread sleeps on notEmpty in front of items or of a cancellation,
\* whatever the operations and however many the threads.
THEOREM NoLostWakeup == Spec => []NoSleepOverItems
<1>1. SleepInv => NoSleepOverItems
  BY DEF SleepInv
<1> QED
  BY <1>1, SleepInvariant, PTL

\* No thread sleeps in a canceled queue.
THEOREM CancelReachesSleepers == Spec => []NoSleepAfterCancel
<1>1. SleepInv => NoSleepAfterCancel
  BY DEF SleepInv
<1> QED
  BY <1>1, SleepInvariant, PTL

\* If no client drains, a putter sleeps only in front of a full ring and
\* waitEmpty only in front of items.
THEOREM NoLostWakeupWithoutDrain ==
  ASSUME "drain" \notin Ops
  PROVE  Spec => []NoSleepOverRoom
<1>1. SleepInv => NoSleepOverRoom
  BY DEF SleepInv, NoSleepOverRoom
<1> QED
  BY <1>1, SleepInvariant, PTL

-----------------------------------------------------------------------------
(* The ring                                                                *)

LEMMA Wrap ==
  ASSUME NEW a \in Nat, a < 2 * Size
  PROVE  a % Size = IF a < Size THEN a ELSE a - Size
<1>0. Size \in Nat /\ Size > 0
  BY SizeAssumption
<1>1. CASE a < Size
  BY <1>0, <1>1
<1>2. CASE ~(a < Size)
  <2>1. a = 1 * Size + (a - Size) /\ a - Size \in 0 .. Size - 1
    BY <1>0, <1>2
  <2> QED
    BY <1>0, <1>2, <2>1
<1> QED
  BY <1>1, <1>2

\* The slot of the i-th oldest item when the oldest is in slot x.
SlotOf(x, i) == IF x + i - 1 < Size THEN x + i - 1 ELSE x + i - 1 - Size

LEMMA SlotIsModulo ==
  ASSUME NEW x \in Slots, NEW i \in 1 .. Size
  PROVE  (x + i - 1) % Size = SlotOf(x, i) /\ SlotOf(x, i) \in Slots
<1> DEFINE a == x + i - 1
<1>0. x \in Nat /\ i \in Nat /\ Size \in Nat /\ x < Size /\ i <= Size /\ i >= 1
  BY SizeAssumption DEF Slots
<1>1. a \in Nat /\ a < 2 * Size
  BY <1>0
<1>2. SlotOf(x, i) = IF a < Size THEN a ELSE a - Size
  BY <1>0 DEF SlotOf
<1>3. SlotOf(x, i) \in Slots
  BY <1>0, <1>1, <1>2 DEF Slots
<1> HIDE DEF a
<1>4. a % Size = IF a < Size THEN a ELSE a - Size
  BY <1>1, Wrap
<1> QED
  BY <1>2, <1>3, <1>4 DEF a

LEMMA ItemsAre ==
  ASSUME NEW x \in Slots, NEW n \in 0 .. Size, NEW d
  PROVE  [i \in 1 .. n |-> d[(x + i - 1) % Size]] = [i \in 1 .. n |-> d[SlotOf(x, i)]]
<1>1. ASSUME NEW i \in 1 .. n PROVE (x + i - 1) % Size = SlotOf(x, i)
  <2>1. i \in 1 .. Size
    BY SizeAssumption
  <2> QED
    BY <2>1, SlotIsModulo
<1> QED
  BY <1>1

LEMMA ItemsType ==
  ASSUME TypeOK
  PROVE  /\ Items = [i \in 1 .. itemCount |-> data[SlotOf(index, i)]]
         /\ Items \in Seq(Values \cup {NoItem})
         /\ Len(Items) = itemCount
<1>0. itemCount \in Nat /\ Size \in Nat /\ itemCount <= Size
  BY SizeAssumption DEF TypeOK
<1>1. \A i \in 1 .. itemCount : SlotOf(index, i) \in Slots
  BY <1>0, SlotIsModulo DEF TypeOK
<1>2. Items = [i \in 1 .. itemCount |-> data[SlotOf(index, i)]]
  BY ItemsAre DEF TypeOK, Items
<1> QED
  BY <1>0, <1>1, <1>2 DEF TypeOK

\* An insertion appends.
LEMMA Inserts ==
  ASSUME TypeOK, TypeOK', ~IsFull, NEW v, AddTail(v)
  PROVE  Items' = Append(Items, v)
<1>0. itemCount \in Nat /\ Size \in Nat /\ itemCount < Size /\ index \in Slots /\ index \in Nat
      /\ index < Size
  BY SizeAssumption DEF TypeOK, IsFull, Slots
<1>1. NextIndex \in Slots /\ NextIndex = SlotOf(index, itemCount + 1)
  <2>1. itemCount + 1 \in 1 .. Size /\ index + (itemCount + 1) - 1 = index + itemCount
    BY <1>0
  <2> QED
    BY <1>0, <2>1, SlotIsModulo DEF NextIndex
<1>2. \A i \in 1 .. itemCount : SlotOf(index, i) \in Slots /\ SlotOf(index, i) # NextIndex
  BY <1>0, <1>1 DEF Slots, SlotOf
<1>3. Items = [i \in 1 .. itemCount |-> data[SlotOf(index, i)]] /\ Len(Items) = itemCount
  BY ItemsType
<1>4. Items' = [i \in 1 .. itemCount + 1 |-> data'[SlotOf(index, i)]]
  <2>1. Items' = [i \in 1 .. itemCount + 1 |-> data'[(index + i - 1) % Size]]
    BY DEF AddTail, Items
  <2>2. itemCount + 1 \in 0 .. Size
    BY <1>0
  <2> QED
    BY <1>0, <2>1, <2>2, ItemsAre
<1>5. data' = [data EXCEPT ![NextIndex] = v]
  BY DEF AddTail
<1>6. data'[NextIndex] = v
      /\ \A i \in 1 .. itemCount : data'[SlotOf(index, i)] = data[SlotOf(index, i)]
  BY <1>1, <1>2, <1>5 DEF TypeOK
<1>7. Append(Items, v) = [i \in 1 .. itemCount + 1 |-> IF i <= itemCount THEN Items[i] ELSE v]
  BY <1>0, <1>3, ItemsType
<1> QED
  BY <1>0, <1>1, <1>3, <1>4, <1>6, <1>7

\* Advancing index drops the head.
LEMMA Removes ==
  ASSUME TypeOK, TypeOK', ~IsEmpty, RemoveHead
  PROVE  Items # <<>> /\ Items' = Tail(Items) /\ Head(Items) = data[index]
<1>0. itemCount \in Nat /\ Size \in Nat /\ itemCount <= Size /\ itemCount > 0 /\ index \in Nat
      /\ index < Size /\ index \in Slots /\ index' \in Slots
  BY SizeAssumption DEF TypeOK, IsEmpty, Slots
<1>1. Items = [i \in 1 .. itemCount |-> data[SlotOf(index, i)]] /\ Len(Items) = itemCount
      /\ Items \in Seq(Values \cup {NoItem})
  BY ItemsType
<1>2. Items # <<>> /\ Head(Items) = data[index]
  BY <1>0, <1>1 DEF SlotOf
<1>3. Items' = [i \in 1 .. itemCount - 1 |-> data[SlotOf(index', i)]]
  <2>1. Items' = [i \in 1 .. itemCount - 1 |-> data[(index' + i - 1) % Size]]
    BY DEF RemoveHead, Items
  <2>2. itemCount - 1 \in 0 .. Size
    BY <1>0
  <2> QED
    BY <1>0, <2>1, <2>2, ItemsAre
<1>4. \A i \in 1 .. itemCount - 1 : SlotOf(index', i) = SlotOf(index, i + 1)
  BY <1>0 DEF RemoveHead, SlotOf
<1>5. Tail(Items) = [i \in 1 .. itemCount - 1 |-> Items[i + 1]]
  BY <1>0, <1>1
<1>6. \A i \in 1 .. itemCount - 1 : Items[i + 1] = data[SlotOf(index, i + 1)]
  BY <1>0, <1>1
<1> QED
  BY <1>2, <1>3, <1>4, <1>5, <1>6
-----------------------------------------------------------------------------
(* What the calls say about their threads                                  *)

CallsFit ==
  \A t \in Threads :
    /\ pc[t] = "idle" <=> call[t].op = "none"
    /\ call[t].op = "none" => call[t] = Idle
    /\ call[t].op \in PutOps <=> call[t].item # NoItem
    /\ call[t].left > 0 => call[t].op \in TimedOps
    /\ pc[t] = "timedOut" => call[t].left > 0

LEMMA NoneIsNoOp == "none" \notin Ops
  BY OpsAssumption DEF AllOps, TimedOps

LEMMA ReturnFits ==
  ASSUME TypeOK, CallsFit, NEW t \in Threads, NEW r, NEW cvs, Return(t, r, cvs)
  PROVE  CallsFit'
<1>1. \A u \in Threads : call'[u] = IF u = t THEN Idle ELSE call[u]
  BY DEF Return, TypeOK
<1>2. /\ pc'[t] = "idle"
      /\ \A u \in Threads \ {t} : pc'[u] = pc[u] \/ (pc[u] = "waiting" /\ pc'[u] = "woken")
  BY DEF Return, TypeOK, WaitsOn
<1> QED
  BY <1>1, <1>2 DEF CallsFit, Idle, PutOps

LEMMA StepFits ==
  ASSUME TypeOK, CallsFit, NEW t \in Threads,
         Invoke(t) \/ Section(t) \/ SpuriousWakeup(t) \/ Expire(t)
  PROVE  CallsFit'
<1>1. CASE Invoke(t)
  <2>1. PICK op \in Ops, v \in Values \cup {NoItem}, n \in Timeouts \cup {0} :
          /\ (op \in PutOps) <=> (v # NoItem)
          /\ op \notin TimedOps => n = 0
          /\ call' = [call EXCEPT ![t] = [op |-> op, item |-> v, left |-> n]]
    BY <1>1 DEF Invoke
  <2> QED
    BY <1>1, <2>1, NoneIsNoOp DEF Invoke, TypeOK, CallsFit
<1>2. CASE SpuriousWakeup(t) \/ Expire(t) \/ Block(t)
  BY <1>2 DEF SpuriousWakeup, Expire, Block, TypeOK, CallsFit
<1>3. CASE EmptyElapsed(t) /\ MustWait("waitEmpty")
  <2>1. PICK elapsed \in 0 .. call[t].left - 1 :
          /\ pc' = [pc EXCEPT ![t] = "waiting"]
          /\ call' = [call EXCEPT ![t] =
               [op |-> "waitEmpty", item |-> @.item, left |-> @.left - elapsed]]
    BY <1>3 DEF EmptyElapsed
  <2>2. call[t].op = "waitEmpty" /\ pc[t] = "woken"
    BY <1>3 DEF EmptyElapsed, Runs
  <2> QED
    BY <2>1, <2>2 DEF TypeOK, CallsFit, PutOps, TimedOps
<1>4. ASSUME NEW r, NEW cvs, Return(t, r, cvs) PROVE CallsFit'
  BY <1>4, ReturnFits
<1>5. CASE EmptyElapsed(t) /\ ~MustWait("waitEmpty")
  BY <1>4, <1>5 DEF EmptyElapsed
<1>6. CASE Put(t) \/ TryPut(t)
  BY <1>4, <1>6 DEF Put, PutStores, PutCanceled, PutGivesUp, TryPut, TryPutStores, TryPutFails
<1>7. CASE Get(t) \/ TryGet(t) \/ Drain(t)
  BY <1>4, <1>7 DEF Get, GetTakes, GetCanceled, GetTimesOut, GetFails, TryGet, TryGetTakes,
                    TryGetFails, Drain, DrainTakes, DrainEmpty
<1>8. CASE WaitNotEmpty(t) \/ EmptySeen(t) \/ EmptyTimesOut(t) \/ EmptyFails(t)
  BY <1>4, <1>8 DEF WaitNotEmpty, NotEmptySeen, NotEmptyTimesOut, NotEmptyFails, EmptySeen,
                    EmptyTimesOut, EmptyFails
<1>9. CASE Cancel(t) \/ Query(t)
  BY <1>4, <1>9 DEF Cancel, Query
<1> QED
  BY <1>1, <1>2, <1>3, <1>5, <1>6, <1>7, <1>8, <1>9 DEF Section, WaitEmpty

LEMMA FitInvariant == Spec => []CallsFit
<1>1. ASSUME Init PROVE CallsFit
  <2>1. Idle.op = "none" /\ Idle.item = NoItem /\ ~(Idle.left > 0) /\ "none" \notin PutOps
    BY DEF Idle, PutOps
  <2>2. \A t \in Threads : call[t] = Idle /\ pc[t] = "idle"
    BY <1>1 DEF Init
  <2> QED
    BY <2>1, <2>2 DEF CallsFit
<1>2. TypeOK /\ CallsFit /\ [Next]_vars => CallsFit'
  <2>1. ASSUME TypeOK, CallsFit, Next PROVE CallsFit'
    BY <2>1, StepFits DEF Next
  <2>2. ASSUME CallsFit, UNCHANGED vars PROVE CallsFit'
    BY <2>2 DEF CallsFit, vars
  <2> QED
    BY <2>1, <2>2
<1> QED
  BY <1>1, <1>2, TypeCorrect, PTL DEF Spec

\* Once in a call t keeps what is left of its timeout, unless it returns.
LEMMA StepStaysTimed ==
  ASSUME TypeOK, NEW t \in Threads, call[t].left > 0, pc[t] # "idle",
         NEW u \in Threads, Invoke(u) \/ Section(u) \/ SpuriousWakeup(u) \/ Expire(u)
  PROVE  pc'[t] = "idle" \/ call'[t].left > 0
<1>1. ASSUME NEW r, NEW cvs, Return(u, r, cvs) PROVE pc'[t] = "idle" \/ call'[t].left > 0
  <2>1. t = u \/ call'[t] = call[t]
    BY <1>1 DEF Return, TypeOK
  <2> QED
    BY <1>1, <2>1 DEF Return
<1>2. CASE Invoke(u)
  BY <1>2 DEF Invoke, TypeOK
<1>3. CASE SpuriousWakeup(u) \/ Expire(u) \/ Block(u)
  BY <1>3 DEF SpuriousWakeup, Expire, Block
<1>4. CASE EmptyElapsed(u) /\ MustWait("waitEmpty")
  <2>1. PICK elapsed \in 0 .. call[u].left - 1 :
          call' = [call EXCEPT ![u] =
                     [op |-> "waitEmpty", item |-> @.item, left |-> @.left - elapsed]]
    BY <1>4 DEF EmptyElapsed
  <2>2. call[u].left \in Nat
    BY DEF TypeOK
  <2>3. call'[t].left = IF t = u THEN call[u].left - elapsed ELSE call[t].left
    BY <2>1 DEF TypeOK
  <2> QED
    BY <2>2, <2>3
<1>5. CASE EmptyElapsed(u) /\ ~MustWait("waitEmpty")
  BY <1>1, <1>5 DEF EmptyElapsed
<1>6. CASE Put(u) \/ TryPut(u)
  BY <1>1, <1>6 DEF Put, PutStores, PutCanceled, PutGivesUp, TryPut, TryPutStores, TryPutFails
<1>7. CASE Get(u) \/ TryGet(u) \/ Drain(u)
  BY <1>1, <1>7 DEF Get, GetTakes, GetCanceled, GetTimesOut, GetFails, TryGet, TryGetTakes,
                    TryGetFails, Drain, DrainTakes, DrainEmpty
<1>8. CASE WaitNotEmpty(u) \/ EmptySeen(u) \/ EmptyTimesOut(u) \/ EmptyFails(u)
  BY <1>1, <1>8 DEF WaitNotEmpty, NotEmptySeen, NotEmptyTimesOut, NotEmptyFails, EmptySeen,
                    EmptyTimesOut, EmptyFails
<1>9. CASE Cancel(u) \/ Query(u)
  BY <1>1, <1>9 DEF Cancel, Query
<1> QED
  BY <1>2, <1>3, <1>4, <1>5, <1>6, <1>7, <1>8, <1>9 DEF Section, WaitEmpty

\* A call with a timeout keeps one until it returns: waitEmpty, which subtracts the
\* time that has passed (cfl_sync_queue_waitEmptyTimeout), never reaches the 0 that
\* means for ever.
THEOREM TimedStaysTimed == Spec => TimedCallsStayTimed
<1> DEFINE Stays == \A t \in Threads :
                      pc[t] # "idle" /\ pc'[t] # "idle" /\ call[t].left > 0 => call'[t].left > 0
<1>1. TypeOK /\ [Next]_vars => [Stays]_vars
  BY StepStaysTimed DEF Next
<1> QED
  BY <1>1, TypeCorrect, PTL DEF Spec, TimedCallsStayTimed

-----------------------------------------------------------------------------
(* Steps of the queue as steps of the FIFO                                 *)

Abs(c) == [op |-> c.op, item |-> c.item, timed |-> c.left > 0]
AbsCall == [t \in Threads |-> Abs(call[t])]

\* The call of t as the FIFO sees it.
LEMMA Seen ==
  ASSUME NEW t \in Threads
  PROVE  /\ AbsCall[t].op = call[t].op /\ AbsCall[t].item = call[t].item
         /\ AbsCall[t].timed = (call[t].left > 0)
  BY DEF AbsCall, Abs

LEMMA Answers ==
  ASSUME TypeOK, NEW t \in Threads, NEW r, NEW cvs, Return(t, r, cvs)
  PROVE  Queue!Answer(t, r)
<1>1. call' = [call EXCEPT ![t] = Idle]
  BY DEF Return
<1>2. Abs(Idle) = Queue!Idle
  <2>1. ~(Idle.left > 0) /\ Idle.op = "none" /\ Idle.item = NoItem
    BY DEF Idle
  <2>2. (Idle.left > 0) = FALSE
    BY DEF Idle
  <2> QED
    BY <2>1, <2>2, Zenon DEF Abs, Queue!Idle
<1>3. AbsCall' = [AbsCall EXCEPT ![t] = Queue!Idle]
  <2>1. \A u \in Threads : call'[u] = IF u = t THEN Idle ELSE call[u]
    BY <1>1 DEF TypeOK
  <2>2. AbsCall' = [u \in Threads |-> Abs(call'[u])]
    BY DEF AbsCall, Abs
  <2>3. \A u \in Threads : Abs(call'[u]) = IF u = t THEN Queue!Idle ELSE Abs(call[u])
    BY <1>2, <2>1
  <2> QED
    BY <2>2, <2>3 DEF AbsCall
<1> QED
  BY <1>3 DEF Queue!Answer, AbsCall, Abs, Return

LEMMA SizeSeen ==
  ASSUME TypeOK
  PROVE  /\ Queue!Empty <=> IsEmpty
         /\ Queue!Full <=> IsFull
         /\ Len(Items) = itemCount
  BY ItemsType DEF Queue!Empty, Queue!Full, IsEmpty, IsFull, TypeOK

LEMMA Stores ==
  ASSUME TypeOK, TypeOK', NEW t \in Threads, call[t].op \in PutOps, ~IsFull, ~canceled,
         AddTail(call[t].item), Return(t, Result(NoItem, "true", 0), {"notEmpty"}),
         UNCHANGED canceled
  PROVE  Queue!Store(t)
<1>1. Items' = Append(Items, call[t].item)
  BY Inserts
<1>2. Queue!Answer(t, Result(NoItem, "true", 0))
  BY Answers
<1>3. AbsCall[t].op = call[t].op /\ AbsCall[t].item = call[t].item
  BY Seen
<1> QED
  BY <1>1, <1>2, <1>3, SizeSeen
  DEF Queue!Store, Queue!PutOps, PutOps, Queue!Result, Result, AbsCall, Abs

LEMMA Takes ==
  ASSUME TypeOK, TypeOK', NEW t \in Threads, ~IsEmpty, RemoveHead, NEW cvs, NEW f,
         \/ call[t].op = "get" /\ f = "false" /\ ~canceled
         \/ call[t].op = "tryGet" /\ f = "true" /\ ~canceled,
         Return(t, Result(data[index], f, 0), cvs), UNCHANGED canceled
  PROVE  Queue!Take(t)
<1>1. Items # <<>> /\ Items' = Tail(Items) /\ Head(Items) = data[index]
  BY Removes
<1> PICK r : r = Result(data[index], f, 0)
  OBVIOUS
<1>2. Queue!Answer(t, r)
  <2>1. Return(t, r, cvs)
    BY DEF Return
  <2> QED
    BY <2>1, Answers
<1>3. AbsCall[t].op = call[t].op
  BY Seen
<1>4. f = Queue!Flag(call[t].op = "tryGet")
  BY DEF Queue!Flag
<1>5. r = Queue!Result(Head(Items), Queue!Flag(AbsCall[t].op = "tryGet"), 0)
  BY <1>1, <1>3, <1>4, Zenon DEF Queue!Result, Result
<1>6. Queue!Answer(t, Queue!Result(Head(Items), Queue!Flag(AbsCall[t].op = "tryGet"), 0))
  BY <1>2, <1>5 DEF Queue!Answer
<1> QED
  BY <1>1, <1>3, <1>6, SizeSeen DEF Queue!Take, AbsCall, Abs

\* The one item queue_drain removes is one of those BoundedQueue lets it take.
LEMMA Drains ==
  ASSUME TypeOK, TypeOK', NEW t \in Threads, ~IsEmpty, RemoveHead, NEW cvs, call[t].op = "drain",
         Return(t, Result(data[index], "false", 0), cvs), UNCHANGED canceled
  PROVE  Queue!Drain(t)
<1>1. Items # <<>> /\ Items' = Tail(Items) /\ Head(Items) = data[index]
  BY Removes
<1> PICK r : r = Result(data[index], "false", 0)
  OBVIOUS
<1>2. Queue!Answer(t, r)
  <2>1. Return(t, r, cvs)
    BY DEF Return
  <2> QED
    BY <2>1, Answers
<1>3. AbsCall[t].op = "drain"
  BY Seen
<1>4. Items \in Seq(Values \cup {NoItem}) /\ Len(Items) \in Nat
  BY ItemsType
<1>5. 1 \in 1 .. Len(Items) /\ Items[1] = Head(Items) /\ SubSeq(Items, 1 + 1, Len(Items)) = Tail(Items)
  BY <1>1, <1>4
<1>6. r = Queue!Result(Items[1], "false", 0)
  BY <1>1, <1>5, Zenon DEF Queue!Result, Result
<1>7. Queue!Answer(t, Queue!Result(Items[1], "false", 0))
  BY <1>2, <1>6 DEF Queue!Answer
<1>8. Items' = SubSeq(Items, 1 + 1, Len(Items))
  BY <1>1, <1>5
<1> DEFINE Taken(n) == /\ Items' = SubSeq(Items, n + 1, Len(Items))
                       /\ Queue!Answer(t, Queue!Result(Items[n], "false", 0))
<1>9. Taken(1)
  BY <1>7, <1>8
<1>10. (\E n \in 1 .. Len(Items) : Taken(n)) => Queue!Drain(t)
  BY <1>3, Zenon DEF Queue!Drain, AbsCall, Abs
<1> HIDE DEF Taken
<1> QED
  BY <1>5, <1>9, <1>10

\* The answers that leave the queue alone, as BoundedQueue lists them.
Fits(op, timed, f, n) ==
  \/ op = "put" /\ canceled /\ f \in {"true", "false"} /\ n = 0
  \/ op = "put" /\ timed /\ f = "false" /\ n = 0
  \/ op = "tryPut" /\ (IsFull \/ canceled) /\ f = "false" /\ n = 0
  \/ op = "get" /\ canceled /\ f = "false" /\ n = 0
  \/ op = "get" /\ timed /\ f \in {"true", "unset"} /\ n = 0
  \/ op = "tryGet" /\ (IsEmpty \/ canceled) /\ f = "false" /\ n = 0
  \/ op = "drain" /\ IsEmpty /\ f = "true" /\ n = 0
  \/ op = "waitNotEmpty" /\ (~IsEmpty \/ canceled) /\ f = "false" /\ n = itemCount
  \/ op = "waitNotEmpty" /\ timed /\ f = "true" /\ n = itemCount
  \/ op = "waitNotEmpty" /\ timed /\ f = "false" /\ n = 0
  \/ op = "waitEmpty" /\ (IsEmpty \/ canceled) /\ f = "false" /\ n = itemCount
  \/ op = "waitEmpty" /\ timed /\ f # "unset" /\ n = itemCount
  \/ op = "isEmpty" /\ f = Flag(IsEmpty) /\ n = 0
  \/ op = "isFull" /\ f = Flag(IsFull) /\ n = 0
  \/ op = "canceled" /\ f = Flag(canceled) /\ n = 0

LEMMA Quiet ==
  ASSUME TypeOK, NEW t \in Threads, NEW f \in {"true", "false", "unset"}, NEW n \in {0, itemCount},
         NEW cvs, Fits(call[t].op, call[t].left > 0, f, n),
         Return(t, Result(NoItem, f, n), cvs), UNCHANGED <<ring, canceled>>
  PROVE  Queue!NoEffect(t)
<1>1. Queue!Answer(t, Queue!Result(NoItem, f, n))
  BY Answers DEF Queue!Result, Result
<1>2. AbsCall[t].op = call[t].op /\ AbsCall[t].timed = (call[t].left > 0)
  BY Seen
<1>3. n \in {0, Len(Items)} /\ Len(Items) = itemCount
  BY SizeSeen
<1>4. Items' = Items
  BY DEF ring, Items
<1>5. Queue!Flag(Queue!Empty) = Flag(IsEmpty) /\ Queue!Flag(Queue!Full) = Flag(IsFull)
      /\ Queue!Flag(canceled) = Flag(canceled)
  BY SizeSeen, Zenon DEF Queue!Flag, Flag
<1> QED
  BY <1>1, <1>2, <1>3, <1>4, <1>5, SizeSeen, Zenon DEF Queue!NoEffect, Fits, AbsCall, Abs

LEMMA QuietCount ==
  ASSUME TypeOK, NEW t \in Threads, NEW f \in {"true", "false", "unset"},
         NEW cvs, Fits(call[t].op, call[t].left > 0, f, itemCount),
         Return(t, Result(NoItem, f, itemCount), cvs), UNCHANGED <<ring, canceled>>
  PROVE  Queue!NoEffect(t)
<1> PICK n : n = itemCount
  OBVIOUS
<1>1. Return(t, Result(NoItem, f, n), cvs)
  BY DEF Return
<1>2. Fits(call[t].op, call[t].left > 0, f, n)
  BY DEF Fits
<1> QED
  BY <1>1, <1>2, Quiet

LEMMA Invokes ==
  ASSUME TypeOK, CallsFit, NEW t \in Threads, Invoke(t)
  PROVE  Queue!Invoke(t)
<1>1. PICK op \in Ops, v \in Values \cup {NoItem}, n \in Timeouts \cup {0} :
        /\ (op \in PutOps) <=> (v # NoItem)
        /\ op \notin TimedOps => n = 0
        /\ call' = [call EXCEPT ![t] = [op |-> op, item |-> v, left |-> n]]
  BY DEF Invoke
<1> DEFINE c == [op |-> op, item |-> v, left |-> n]
<1>2. AbsCall[t] = Queue!Idle
  <2>1. call[t].op = "none" /\ call[t] = Idle
    BY DEF Invoke, CallsFit
  <2>2. (Idle.left > 0) = FALSE /\ Idle.op = "none" /\ Idle.item = NoItem
    BY DEF Idle
  <2>3. AbsCall[t] = Abs(Idle)
    BY <2>1 DEF AbsCall
  <2> QED
    BY <2>2, <2>3, Zenon DEF Abs, Queue!Idle
<1>3. Abs(c) \in Queue!Calls
  <2>1. c.op = op /\ c.item = v /\ c.left = n
    OBVIOUS
  <2>2. op \in Queue!Operations
    BY OpsAssumption DEF AllOps, TimedOps, Queue!Operations, Queue!WaitOps
  <2>3. n > 0 => op \in Queue!WaitOps
    BY <1>1 DEF TimedOps, Queue!WaitOps
  <2>4. (n > 0) \in BOOLEAN
    BY TimeoutAssumption
  <2>5. op \in Queue!PutOps <=> v # NoItem
    BY <1>1 DEF PutOps, Queue!PutOps
  <2>6. Abs(c) = [op |-> op, item |-> v, timed |-> n > 0]
    BY <2>1, Zenon DEF Abs
  <2>7. PICK b \in BOOLEAN : b = (n > 0)
    BY <2>4, Zenon
  <2>8. b => op \in Queue!WaitOps
    BY <2>3, <2>7, Zenon
  <2>9. Abs(c) = [op |-> op, item |-> v, timed |-> b]
    BY <2>6, <2>7, Zenon
  <2> HIDE DEF c
  <2> QED
    BY <2>2, <2>5, <2>8, <2>9 DEF Queue!Calls
<1>4. AbsCall' = [AbsCall EXCEPT ![t] = Abs(c)]
  <2>1. \A u \in Threads : call'[u] = IF u = t THEN c ELSE call[u]
    BY <1>1 DEF TypeOK
  <2>2. AbsCall' = [u \in Threads |-> Abs(call'[u])]
    BY DEF AbsCall, Abs
  <2> HIDE DEF c
  <2>3. \A u \in Threads : Abs(call'[u]) = IF u = t THEN Abs(c) ELSE Abs(call[u])
    BY <2>1
  <2> QED
    BY <2>2, <2>3 DEF AbsCall
<1>5. ret' = [ret EXCEPT ![t] = Queue!Nothing]
  BY DEF Invoke, Nothing, Queue!Nothing, Result, Queue!Result
<1>6. Items' = Items /\ canceled' = canceled
  BY DEF Invoke, ring, Items
<1> HIDE DEF c
<1> QED
  BY <1>2, <1>3, <1>4, <1>5, <1>6, Zenon DEF Queue!Invoke, AbsCall, Abs

\* Going to sleep, being woken and running out of time are nothing to the FIFO.
LEMMA Stutters ==
  ASSUME UNCHANGED <<ring, canceled, ret>>, AbsCall' = AbsCall
  PROVE  UNCHANGED Queue!absVars
<1>1. Items' = Items
  BY DEF ring, Items
<1> QED
  BY <1>1 DEF Queue!absVars, AbsCall, Abs

LEMMA Steps ==
  ASSUME TypeOK, TypeOK', CallsFit, NEW t \in Threads,
         Invoke(t) \/ Section(t) \/ SpuriousWakeup(t) \/ Expire(t)
  PROVE  \/ Queue!Invoke(t) \/ Queue!Store(t) \/ Queue!Take(t) \/ Queue!Drain(t)
         \/ Queue!Cancel(t) \/ Queue!NoEffect(t) \/ UNCHANGED Queue!absVars
<1>0. /\ 0 \in {0, itemCount} /\ itemCount \in {0, itemCount}
      /\ "true" \in {"true", "false", "unset"} /\ "false" \in {"true", "false", "unset"}
      /\ "unset" \in {"true", "false", "unset"}
  OBVIOUS
<1>1. CASE Invoke(t)
  BY <1>1, Invokes
<1>2. CASE SpuriousWakeup(t) \/ Expire(t) \/ Block(t)
  <2>1. UNCHANGED <<ring, canceled, ret>> /\ call' = call
    BY <1>2 DEF SpuriousWakeup, Expire, Block
  <2>2. AbsCall' = AbsCall
    BY <2>1 DEF AbsCall, Abs
  <2> QED
    BY <2>1, <2>2, Stutters
<1>3. CASE PutStores(t) \/ TryPutStores(t)
  BY <1>3, Stores DEF PutStores, TryPutStores, Runs, PutOps
<1>4. CASE GetTakes(t)
  BY <1>4, Takes DEF GetTakes, Runs
<1>5. CASE TryGetTakes(t)
  BY <1>5, Takes DEF TryGetTakes, Runs
<1>6. CASE DrainTakes(t)
  BY <1>6, Drains DEF DrainTakes, Runs
<1>7. CASE PutCanceled(t) \/ PutGivesUp(t)
  <2>1. CASE PutCanceled(t)
    <3>1. Fits(call[t].op, call[t].left > 0, "true", 0)
      BY <2>1 DEF PutCanceled, Runs, Fits
    <3> QED
      BY <1>0, <2>1, <3>1, Quiet DEF PutCanceled
  <2>2. CASE PutGivesUp(t)
    <3>1. Fits(call[t].op, call[t].left > 0, "false", 0)
      BY <2>2 DEF PutGivesUp, CallsFit, Fits
    <3> QED
      BY <1>0, <2>2, <3>1, Quiet DEF PutGivesUp
  <2> QED
    BY <1>7, <2>1, <2>2
<1>8. CASE TryPutFails(t) \/ TryGetFails(t)
  <2>1. Fits(call[t].op, call[t].left > 0, "false", 0)
    BY <1>8 DEF TryPutFails, TryGetFails, Runs, Fits
  <2> QED
    BY <1>0, <1>8, <2>1, Quiet DEF TryPutFails, TryGetFails
<1>9. CASE GetCanceled(t) \/ GetTimesOut(t) \/ GetFails(t)
  <2>1. CASE GetCanceled(t)
    <3>1. Fits(call[t].op, call[t].left > 0, "false", 0)
      BY <2>1 DEF GetCanceled, Runs, Fits
    <3> QED
      BY <1>0, <2>1, <3>1, Quiet DEF GetCanceled
  <2>2. CASE GetTimesOut(t)
    <3>1. Fits(call[t].op, call[t].left > 0, "true", 0)
      BY <2>2 DEF GetTimesOut, CallsFit, Fits
    <3> QED
      BY <1>0, <2>2, <3>1, Quiet DEF GetTimesOut
  <2>3. CASE GetFails(t)
    <3>1. Fits(call[t].op, call[t].left > 0, "unset", 0)
      BY <2>3 DEF GetFails, Runs, Fits
    <3> QED
      BY <1>0, <2>3, <3>1, Quiet DEF GetFails, Nothing
  <2> QED
    BY <1>9, <2>1, <2>2, <2>3
<1>10. CASE DrainEmpty(t)
  <2>1. Fits(call[t].op, call[t].left > 0, "true", 0)
    BY <1>10 DEF DrainEmpty, Runs, Fits
  <2> QED
    BY <1>0, <1>10, <2>1, Quiet DEF DrainEmpty
<1>11. CASE NotEmptySeen(t) \/ EmptySeen(t)
  <2>1. Fits(call[t].op, call[t].left > 0, "false", itemCount)
    BY <1>11 DEF NotEmptySeen, EmptySeen, Runs, MustWait, Fits
  <2> QED
    BY <1>0, <1>11, <2>1, QuietCount DEF NotEmptySeen, EmptySeen
<1>12. CASE NotEmptyTimesOut(t) \/ EmptyTimesOut(t)
  <2>1. Fits(call[t].op, call[t].left > 0, "true", itemCount)
    BY <1>12 DEF NotEmptyTimesOut, EmptyTimesOut, CallsFit, Fits
  <2> QED
    BY <1>0, <1>12, <2>1, QuietCount DEF NotEmptyTimesOut, EmptyTimesOut
<1>13. CASE NotEmptyFails(t)
  <2>1. Fits(call[t].op, call[t].left > 0, "false", 0)
    BY <1>13 DEF NotEmptyFails, Runs, Fits
  <2> QED
    BY <1>0, <1>13, <2>1, Quiet DEF NotEmptyFails
<1>14. CASE EmptyFails(t)
  <2>1. Fits(call[t].op, call[t].left > 0, "false", itemCount)
    BY <1>14 DEF EmptyFails, Runs, Fits
  <2> QED
    BY <1>0, <1>14, <2>1, QuietCount DEF EmptyFails
<1>15. CASE EmptyElapsed(t)
  <2>1. PICK elapsed \in 0 .. call[t].left - 1 :
          IF MustWait("waitEmpty")
          THEN /\ pc' = [pc EXCEPT ![t] = "waiting"]
               /\ call' = [call EXCEPT ![t] =
                    [op |-> "waitEmpty", item |-> @.item, left |-> @.left - elapsed]]
               /\ UNCHANGED ret
          ELSE Return(t, Result(NoItem, "false", itemCount), {})
    BY <1>15 DEF EmptyElapsed
  <2>2. call[t].op = "waitEmpty" /\ UNCHANGED <<ring, canceled>>
    BY <1>15 DEF EmptyElapsed, Runs
  <2>3. CASE MustWait("waitEmpty")
    <3> DEFINE c == [op |-> "waitEmpty", item |-> call[t].item, left |-> call[t].left - elapsed]
    <3>1. \A u \in Threads : call'[u] = IF u = t THEN c ELSE call[u]
      BY <2>1, <2>3 DEF TypeOK
    <3>2. c.left > 0 /\ call[t].left > 0 /\ c.op = call[t].op /\ c.item = call[t].item
      BY <2>2 DEF TypeOK
    <3>3. (c.left > 0) = (call[t].left > 0)
      BY <3>2
    <3> HIDE DEF c
    <3>4. Abs(c) = Abs(call[t])
      BY <3>2, <3>3, Zenon DEF Abs
    <3>5. AbsCall' = [u \in Threads |-> Abs(call'[u])]
      BY DEF AbsCall, Abs
    <3>6. AbsCall' = AbsCall
      BY <3>1, <3>4, <3>5, Zenon DEF AbsCall
    <3> QED
      BY <2>1, <2>2, <2>3, <3>6, Stutters
  <2>4. CASE ~MustWait("waitEmpty")
    <3>1. Fits(call[t].op, call[t].left > 0, "false", itemCount)
      BY <2>2, <2>4 DEF MustWait, Fits
    <3> QED
      BY <1>0, <2>1, <2>2, <2>4, <3>1, QuietCount
  <2> QED
    BY <2>3, <2>4
<1>16. CASE Cancel(t)
  <2> PICK cvs : Return(t, Nothing, cvs)
    BY <1>16 DEF Cancel
  <2>1. Queue!Answer(t, Queue!Nothing)
    BY Answers DEF Nothing, Queue!Nothing, Result, Queue!Result
  <2>2. AbsCall[t].op = "cancel" /\ canceled' = TRUE /\ Items' = Items
    BY <1>16, Seen DEF Cancel, Runs, ring, Items
  <2> QED
    BY <2>1, <2>2 DEF Queue!Cancel, AbsCall, Abs
<1>17. CASE Query(t)
  <2> DEFINE b == IF call[t].op = "isEmpty" THEN IsEmpty
                  ELSE IF call[t].op = "isFull" THEN IsFull ELSE canceled
  <2>1. PICK f : f = Flag(b)
    OBVIOUS
  <2>2. f \in {"true", "false", "unset"}
    BY <2>1 DEF Flag
  <2>3. Fits(call[t].op, call[t].left > 0, f, 0)
    BY <1>17, <2>1 DEF Query, Runs, Fits
  <2>4. Return(t, Result(NoItem, f, 0), {}) /\ UNCHANGED <<ring, canceled>>
    BY <1>17, <2>1 DEF Query, Runs, Return
  <2> QED
    BY <1>0, <2>2, <2>3, <2>4, Quiet
<1> QED
  BY <1>1, <1>2, <1>3, <1>4, <1>5, <1>6, <1>7, <1>8, <1>9, <1>10, <1>11, <1>12, <1>13, <1>14,
     <1>15, <1>16, <1>17
  DEF Section, Put, TryPut, Get, TryGet, Drain, WaitNotEmpty, WaitEmpty

\* The ring of cfl_sync_queue.c, with its mutex, its waits and its cancellation,
\* is a bounded FIFO: every call takes effect in one step between its invocation
\* and its return, and answers what the FIFO would have answered.
THEOREM QueueIsFifo == Spec => ImplementsFifo
<1>1. Init => Queue!Init
  <2> SUFFICES ASSUME Init PROVE Queue!Init
    OBVIOUS
  <2>1. Items = <<>>
    BY DEF Init, Items
  <2>2. (Idle.left > 0) = FALSE /\ Idle.op = "none" /\ Idle.item = NoItem
    BY DEF Idle
  <2>3. Abs(Idle) = Queue!Idle
    BY <2>2, Zenon DEF Abs, Queue!Idle
  <2>4. \A t \in Threads : call[t] = Idle
    BY DEF Init
  <2>5. AbsCall = [t \in Threads |-> Queue!Idle]
    BY <2>3, <2>4, Zenon DEF AbsCall
  <2> QED
    BY <2>1, <2>5
    DEF Init, Queue!Init, Nothing, Queue!Nothing, Result, Queue!Result, AbsCall, Abs
<1>2. TypeOK /\ TypeOK' /\ CallsFit /\ [Next]_vars => [Queue!Next]_Queue!absVars
  <2>1. ASSUME TypeOK, TypeOK', CallsFit, Next PROVE [Queue!Next]_Queue!absVars
    <3>1. PICK t \in Threads : Invoke(t) \/ Section(t) \/ SpuriousWakeup(t) \/ Expire(t)
      BY <2>1 DEF Next
    <3>2. \/ Queue!Invoke(t) \/ Queue!Store(t) \/ Queue!Take(t) \/ Queue!Drain(t)
          \/ Queue!Cancel(t) \/ Queue!NoEffect(t) \/ UNCHANGED Queue!absVars
      BY <2>1, <3>1, Steps
    <3> QED
      BY <3>2 DEF Queue!Next
  <2>2. ASSUME UNCHANGED vars PROVE UNCHANGED Queue!absVars
    <3>1. UNCHANGED <<ring, canceled, ret>> /\ call' = call
      BY <2>2 DEF vars, ring
    <3>2. AbsCall' = AbsCall
      BY <3>1 DEF AbsCall, Abs
    <3> QED
      BY <3>1, <3>2, Stutters
  <2> QED
    BY <2>1, <2>2
<1> QED
  BY <1>1, <1>2, TypeCorrect, FitInvariant, PTL DEF Spec, ImplementsFifo, Queue!Spec
=============================================================================
