------------------------------ MODULE SyncQueue ------------------------------
(***************************************************************************)
(* cfl_sync_queue.c: a bounded ring of items shared by threads, guarded by *)
(* one mutex and two condition variables, with a cancel flag.              *)
(*                                                                         *)
(* Every operation takes the mutex first and gives it up only in           *)
(* cfl_lock_conditionWait* or on return, so the code between two of those  *)
(* points is one step here: a call is Invoke, then the critical sections   *)
(* that its thread runs each time it gets the mutex.  In between, other    *)
(* threads run theirs.  The one access outside the mutex,                  *)
(* cfl_sync_queue_canceled, reads a flag written once per section.         *)
(*                                                                         *)
(* A wait ends because the condition was broadcast, because the wait timed *)
(* out, or for no reason (a spurious wakeup); a thread whose wait ended    *)
(* queues for the mutex again.  A timed wait can also fail at once with    *)
(* the mutex held: waitCondition hands pthread_cond_timedwait a tv_nsec of *)
(* 1000000000 when the clock falls on it (cfl_lock.c:132) and gets EINVAL. *)
(***************************************************************************)
EXTENDS Integers, Sequences

CONSTANTS Threads,   \* the client threads
          Values,    \* the items they put
          NoItem,    \* the zeroed CFL_SYNC_QUEUE_ITEM
          Size,      \* capacity
          Timeouts,  \* the timeouts callers pass; 0 waits for ever
          Ops        \* the operations the clients call

PutOps   == {"put", "tryPut"}
TimedOps == {"put", "get", "waitNotEmpty", "waitEmpty"}
AllOps   == TimedOps \cup {"tryPut", "tryGet", "drain", "cancel",
                           "isEmpty", "isFull", "canceled"}

\* cfl_sync_queue_new refuses a size of 0.
ASSUME SizeAssumption == Size \in Nat \ {0}
ASSUME ItemAssumption == NoItem \notin Values
ASSUME TimeoutAssumption == Timeouts \subseteq Nat
ASSUME OpsAssumption == Ops \subseteq AllOps

VARIABLES index,      \* slot of the oldest item
          itemCount,  \* items in the ring
          canceled,   \* the cancel flag
          data,       \* the slots
          pc,         \* pc[t]: where t is in its call
          call,       \* call[t]: t's call, with the timeout it has left
          ret         \* ret[t]: what t's last call returned, until the next

ring == <<index, itemCount, data>>
vars == <<index, itemCount, canceled, data, pc, call, ret>>

Slots == 0 .. Size - 1
Idle == [op |-> "none", item |-> NoItem, left |-> 0]
Result(item, flag, count) == [item |-> item, flag |-> flag, count |-> count]
Nothing == Result(NoItem, "unset", 0)
Flag(b) == IF b THEN "true" ELSE "false"

TypeOK ==
  /\ index \in Slots
  /\ itemCount \in 0 .. Size
  /\ canceled \in BOOLEAN
  /\ data \in [Slots -> Values \cup {NoItem}]
  /\ pc \in [Threads -> {"idle", "enter", "waiting", "woken", "timedOut"}]
  /\ call \in [Threads -> [op : Ops \cup {"none"},
                           item : Values \cup {NoItem},
                           left : Nat]]
  /\ ret \in [Threads -> [item : Values \cup {NoItem},
                          flag : {"true", "false", "unset"},
                          count : 0 .. Size]]

IsEmpty == itemCount = 0
IsFull == itemCount = Size
NextIndex == (index + itemCount) % Size

\* The slots are not cleared by the allocation; no call reads one before a
\* put has written it, so their first content is left out.
Init ==
  /\ index = 0
  /\ itemCount = 0
  /\ canceled = FALSE
  /\ data = [i \in Slots |-> NoItem]
  /\ pc = [t \in Threads |-> "idle"]
  /\ call = [t \in Threads |-> Idle]
  /\ ret = [t \in Threads |-> Nothing]

-----------------------------------------------------------------------------
(* Condition variables and calls                                           *)

\* The condition an operation waits for and the variable it waits on.  Note
\* that waitEmpty shares notFull with the putters.
MustWait(op) ==
  /\ ~canceled
  /\ \/ op \in {"get", "waitNotEmpty"} /\ IsEmpty
     \/ op = "put" /\ IsFull
     \/ op = "waitEmpty" /\ ~IsEmpty

CondVar(op) == IF op \in {"get", "waitNotEmpty"} THEN "notEmpty" ELSE "notFull"

WaitsOn(t, cv) == pc[t] = "waiting" /\ CondVar(call[t].op) = cv

\* t returns r and, still inside the mutex, has broadcast the variables cvs.
Return(t, r, cvs) ==
  /\ pc' = [u \in Threads |->
              IF u = t THEN "idle"
              ELSE IF \E cv \in cvs : WaitsOn(u, cv) THEN "woken"
              ELSE pc[u]]
  /\ call' = [call EXCEPT ![t] = Idle]
  /\ ret' = [ret EXCEPT ![t] = r]

\* t has the mutex in op, having just entered or after a wait that ended well.
Runs(t, op) == pc[t] \in {"enter", "woken"} /\ call[t].op = op

Invoke(t) ==
  /\ pc[t] = "idle"
  /\ \E op \in Ops, v \in Values \cup {NoItem}, n \in Timeouts \cup {0} :
       /\ (op \in PutOps) <=> (v # NoItem)
       /\ op \notin TimedOps => n = 0
       /\ call' = [call EXCEPT ![t] = [op |-> op, item |-> v, left |-> n]]
  /\ pc' = [pc EXCEPT ![t] = "enter"]
  /\ ret' = [ret EXCEPT ![t] = Nothing]
  /\ UNCHANGED <<ring, canceled>>

\* The loop condition holds: release the mutex and wait.
Block(t) ==
  /\ pc[t] \in {"enter", "woken"}
  /\ MustWait(call[t].op)
  /\ ~(call[t].op = "waitEmpty" /\ pc[t] = "woken" /\ call[t].left > 0)
  /\ pc' = [pc EXCEPT ![t] = "waiting"]
  /\ UNCHANGED <<ring, canceled, call, ret>>

SpuriousWakeup(t) ==
  /\ pc[t] = "waiting"
  /\ pc' = [pc EXCEPT ![t] = "woken"]
  /\ UNCHANGED <<ring, canceled, call, ret>>

Expire(t) ==
  /\ pc[t] = "waiting"
  /\ call[t].left > 0
  /\ pc' = [pc EXCEPT ![t] = "timedOut"]
  /\ UNCHANGED <<ring, canceled, call, ret>>

-----------------------------------------------------------------------------
(* The ring                                                                *)

AddTail(item) ==
  /\ data' = [data EXCEPT ![NextIndex] = item]
  /\ itemCount' = itemCount + 1
  /\ UNCHANGED index

RemoveHead ==
  /\ itemCount' = itemCount - 1
  /\ index' = IF index + 1 >= Size THEN 0 ELSE index + 1
  /\ UNCHANGED data

-----------------------------------------------------------------------------
(* putItem, tryPutItem                                                     *)

\* A bug: the cancel flag is not looked at after the loop.
PutStoresCanceled(t) ==
  /\ Runs(t, "put")
  /\ ~IsFull
  /\ AddTail(call[t].item)
  /\ Return(t, Result(NoItem, "true", 0), {"notEmpty"})
  /\ UNCHANGED canceled

\* A bug: nobody is woken.
PutStoresSilently(t) ==
  /\ Runs(t, "put")
  /\ ~IsFull /\ ~canceled
  /\ AddTail(call[t].item)
  /\ Return(t, Result(NoItem, "true", 0), {})
  /\ UNCHANGED canceled

PutStores(t) ==
  /\ Runs(t, "put")
  /\ ~IsFull /\ ~canceled
  /\ AddTail(call[t].item)
  /\ Return(t, Result(NoItem, "true", 0), {"notEmpty"})
  /\ UNCHANGED canceled

\* The item is dropped and the answer is CFL_TRUE all the same, against
\* cfl_sync_queue.h (PutAnswersStored).
PutCanceled(t) ==
  /\ Runs(t, "put")
  /\ canceled
  /\ Return(t, Result(NoItem, "true", 0), {"notEmpty"})
  /\ UNCHANGED <<ring, canceled>>

\* Time out or wait error: CFL_FALSE, without another look at the ring.
PutGivesUp(t) ==
  /\ call[t].op = "put"
  /\ \/ pc[t] = "timedOut"
     \/ Runs(t, "put") /\ MustWait("put") /\ call[t].left > 0
  /\ Return(t, Result(NoItem, "false", 0), {})
  /\ UNCHANGED <<ring, canceled>>

\* A bug: nobody is woken.
TryPutStoresSilently(t) ==
  /\ Runs(t, "tryPut")
  /\ ~IsFull /\ ~canceled
  /\ AddTail(call[t].item)
  /\ Return(t, Result(NoItem, "true", 0), {})
  /\ UNCHANGED canceled

TryPutStores(t) ==
  /\ Runs(t, "tryPut")
  /\ ~IsFull /\ ~canceled
  /\ AddTail(call[t].item)
  /\ Return(t, Result(NoItem, "true", 0), {"notEmpty"})
  /\ UNCHANGED canceled

TryPutFails(t) ==
  /\ Runs(t, "tryPut")
  /\ IsFull \/ canceled
  /\ Return(t, Result(NoItem, "false", 0), {})
  /\ UNCHANGED <<ring, canceled>>

-----------------------------------------------------------------------------
(* getItem, tryGetItem, queue_drain                                        *)

\* A bug: nobody is woken.
GetTakesSilently(t) ==
  /\ Runs(t, "get")
  /\ ~IsEmpty /\ ~canceled
  /\ RemoveHead
  /\ Return(t, Result(data[index], "false", 0), {})
  /\ UNCHANGED canceled

GetTakes(t) ==
  /\ Runs(t, "get")
  /\ ~IsEmpty /\ ~canceled
  /\ RemoveHead
  /\ Return(t, Result(data[index], "false", 0), {"notFull"})
  /\ UNCHANGED canceled

GetCanceled(t) ==
  /\ Runs(t, "get")
  /\ canceled
  /\ Return(t, Result(NoItem, "false", 0), {"notFull"})
  /\ UNCHANGED <<ring, canceled>>

GetTimesOut(t) ==
  /\ call[t].op = "get"
  /\ pc[t] = "timedOut"
  /\ Return(t, Result(NoItem, "true", 0), {})
  /\ UNCHANGED <<ring, canceled>>

\* On a wait error *timesUp keeps whatever the caller had in it.
GetFails(t) ==
  /\ Runs(t, "get") /\ MustWait("get") /\ call[t].left > 0
  /\ Return(t, Nothing, {})
  /\ UNCHANGED <<ring, canceled>>

TryGetTakes(t) ==
  /\ Runs(t, "tryGet")
  /\ ~IsEmpty /\ ~canceled
  /\ RemoveHead
  /\ Return(t, Result(data[index], "true", 0), {"notFull"})
  /\ UNCHANGED canceled

TryGetFails(t) ==
  /\ Runs(t, "tryGet")
  /\ IsEmpty \/ canceled
  /\ Return(t, Result(NoItem, "false", 0), {})
  /\ UNCHANGED <<ring, canceled>>

\* Takes one item, from a canceled queue too, and wakes nobody.
DrainTakes(t) ==
  /\ Runs(t, "drain")
  /\ ~IsEmpty
  /\ RemoveHead
  /\ Return(t, Result(data[index], "false", 0), {})
  /\ UNCHANGED canceled

DrainEmpty(t) ==
  /\ Runs(t, "drain")
  /\ IsEmpty
  /\ Return(t, Result(NoItem, "true", 0), {})
  /\ UNCHANGED <<ring, canceled>>

-----------------------------------------------------------------------------
(* waitNotEmpty, waitEmpty                                                 *)

NotEmptySeen(t) ==
  /\ Runs(t, "waitNotEmpty")
  /\ ~MustWait("waitNotEmpty")
  /\ Return(t, Result(NoItem, "false", itemCount), {})
  /\ UNCHANGED <<ring, canceled>>

NotEmptyTimesOut(t) ==
  /\ call[t].op = "waitNotEmpty"
  /\ pc[t] = "timedOut"
  /\ Return(t, Result(NoItem, "true", itemCount), {})
  /\ UNCHANGED <<ring, canceled>>

NotEmptyFails(t) ==
  /\ Runs(t, "waitNotEmpty") /\ MustWait("waitNotEmpty") /\ call[t].left > 0
  /\ Return(t, Result(NoItem, "false", 0), {})
  /\ UNCHANGED <<ring, canceled>>

\* A timed waitEmpty accounts for the time its wait took before it looks at
\* the ring again (EmptyElapsed), so a woken one does not return from here.
EmptySeen(t) ==
  /\ Runs(t, "waitEmpty")
  /\ pc[t] = "woken" => call[t].left = 0
  /\ ~MustWait("waitEmpty")
  /\ Return(t, Result(NoItem, "false", itemCount), {})
  /\ UNCHANGED <<ring, canceled>>

\* A bug: a wait may use up the whole budget and leave 0, that is, for ever.
EmptyElapsedWhole(t) ==
  /\ Runs(t, "waitEmpty") /\ MustWait("waitEmpty")
  /\ pc[t] = "woken"
  /\ \E elapsed \in 0 .. call[t].left :
       call' = [call EXCEPT ![t] =
                  [op |-> "waitEmpty", item |-> @.item, left |-> @.left - elapsed]]
  /\ pc' = [pc EXCEPT ![t] = "waiting"]
  /\ UNCHANGED <<ring, canceled, ret>>

\* clock() counts processor time, so any elapsed time is possible; the loop
\* goes round in the same critical section with what is left of the timeout.
\* The next look at the ring is that of a thread that has just entered.
EmptyElapsed(t) ==
  /\ Runs(t, "waitEmpty")
  /\ pc[t] = "woken"
  /\ \E elapsed \in 0 .. call[t].left - 1 :
       /\ IF MustWait("waitEmpty")
          THEN /\ pc' = [pc EXCEPT ![t] = "waiting"]
               /\ call' = [call EXCEPT ![t] =
                    [op |-> "waitEmpty", item |-> @.item, left |-> @.left - elapsed]]
               /\ UNCHANGED ret
          ELSE Return(t, Result(NoItem, "false", itemCount), {})
  /\ UNCHANGED <<ring, canceled>>

\* The wait timed out, or a wakeup came when the budget was used up.
EmptyTimesOut(t) ==
  /\ call[t].op = "waitEmpty"
  /\ \/ pc[t] = "timedOut"
     \/ pc[t] = "woken" /\ call[t].left > 0
  /\ Return(t, Result(NoItem, "true", itemCount), {})
  /\ UNCHANGED <<ring, canceled>>

EmptyFails(t) ==
  /\ Runs(t, "waitEmpty") /\ MustWait("waitEmpty") /\ call[t].left > 0
  /\ Return(t, Result(NoItem, "false", itemCount), {})
  /\ UNCHANGED <<ring, canceled>>

-----------------------------------------------------------------------------
(* cancel and the queries                                                  *)

\* A bug: only the consumers are woken.
CancelHalf(t) ==
  /\ Runs(t, "cancel")
  /\ canceled' = TRUE
  /\ Return(t, Nothing, {"notEmpty"})
  /\ UNCHANGED ring

Cancel(t) ==
  /\ Runs(t, "cancel")
  /\ canceled' = TRUE
  /\ Return(t, Nothing,
            IF canceled THEN {} ELSE {"notEmpty", "notFull"})
  /\ UNCHANGED ring

\* canceled is read without the mutex.
Query(t) ==
  /\ \/ Runs(t, "isEmpty") /\ Return(t, Result(NoItem, Flag(IsEmpty), 0), {})
     \/ Runs(t, "isFull") /\ Return(t, Result(NoItem, Flag(IsFull), 0), {})
     \/ Runs(t, "canceled") /\ Return(t, Result(NoItem, Flag(canceled), 0), {})
  /\ UNCHANGED <<ring, canceled>>

-----------------------------------------------------------------------------

Put(t) == PutStores(t) \/ PutCanceled(t) \/ PutGivesUp(t)
TryPut(t) == TryPutStores(t) \/ TryPutFails(t)
Get(t) == GetTakes(t) \/ GetCanceled(t) \/ GetTimesOut(t) \/ GetFails(t)
TryGet(t) == TryGetTakes(t) \/ TryGetFails(t)
Drain(t) == DrainTakes(t) \/ DrainEmpty(t)
WaitNotEmpty(t) == NotEmptySeen(t) \/ NotEmptyTimesOut(t) \/ NotEmptyFails(t)
WaitEmpty(t) == EmptySeen(t) \/ EmptyElapsed(t) \/ EmptyTimesOut(t) \/ EmptyFails(t)

\* What t does once it has the mutex.
Section(t) ==
  \/ Block(t)
  \/ Put(t) \/ TryPut(t)
  \/ Get(t) \/ TryGet(t) \/ Drain(t)
  \/ WaitNotEmpty(t) \/ WaitEmpty(t)
  \/ Cancel(t) \/ Query(t)

Next ==
  \E t \in Threads : Invoke(t) \/ Section(t) \/ SpuriousWakeup(t) \/ Expire(t)

Spec == Init /\ [][Next]_vars

\* A thread that is ready to run a section gets the mutex sooner or later: no
\* section keeps it, and the scheduler and the mutex let every contender
\* through.  Nothing is assumed of clients, time outs or spurious wakeups.
Fairness == \A t \in Threads : WF_vars(Section(t))

FairSpec == Spec /\ Fairness

-----------------------------------------------------------------------------
(* Properties                                                              *)

\* No wakeup for consumers is ever lost: a thread asleep on notEmpty sleeps in
\* front of an empty queue that is not canceled.  Each put, tryPut and cancel
\* has to broadcast notEmpty for this to hold (getItem, waitNotEmpty).
NoSleepOverItems ==
  \A t \in Threads : WaitsOn(t, "notEmpty") => IsEmpty /\ ~canceled

\* Nobody sleeps in a canceled queue: cancel broadcasts both variables, and a
\* call that comes later does not wait at all.
NoSleepAfterCancel == canceled => \A t \in Threads : pc[t] # "waiting"

\* The counterpart of NoSleepOverItems on notFull: a putter sleeps only while
\* the ring is full, and waitEmpty only while it holds items.  It holds as
\* long as no client calls drain.
PutterSleepsOnlyWhenFull ==
  \A t \in Threads : WaitsOn(t, "notFull") /\ call[t].op = "put" => IsFull

WaitEmptySleepsOnlyOverItems ==
  \A t \in Threads : WaitsOn(t, "notFull") /\ call[t].op = "waitEmpty" => ~IsEmpty

NoSleepOverRoom == PutterSleepsOnlyWhenFull /\ WaitEmptySleepsOnlyOverItems

\* A timed call never turns into one that waits for ever: timeout 0 means no
\* limit, and waitEmpty subtracts the elapsed time from its timeout.
TimedCallsStayTimed ==
  [][\A t \in Threads :
       pc[t] # "idle" /\ pc'[t] # "idle" /\ call[t].left > 0
         => call'[t].left > 0]_vars

\* Cancel ends every call in progress, sleeping ones included.
CancelEndsCalls ==
  \A t \in Threads : (canceled /\ pc[t] # "idle") ~> (pc[t] = "idle")

\* A get in front of a nonempty queue comes back, unless others empty or
\* cancel the queue before it gets the mutex, and a put in front of a queue
\* with room, unless others fill it.  Like the sleep of putters, a drain would
\* break the second.
CallsProceed ==
  \A t \in Threads :
    /\ (call[t].op = "get" /\ ~IsEmpty) ~> (call[t].op # "get" \/ IsEmpty)
    /\ (call[t].op = "put" /\ ~IsFull) ~> (call[t].op # "put" \/ IsFull)

\* cfl_sync_queue.h:134 and 152: a put answers CFL_TRUE on success and CFL_FALSE
\* if the queue is canceled, so one that answers CFL_TRUE has stored its item.
\* The code does not keep this: putItem answers CFL_TRUE whenever its wait did
\* not fail, for a put that cancel has woken too.
PutAnswersStored ==
  [][\A t \in Threads :
       call[t].op \in PutOps /\ pc'[t] = "idle" /\ ret'[t].flag = "true"
         => itemCount' = itemCount + 1]_vars

-----------------------------------------------------------------------------
(* The queue implements BoundedQueue: the items of the ring in order are   *)
(* its FIFO, and a call takes effect in its last critical section.         *)

Items == [i \in 1 .. itemCount |-> data[(index + i - 1) % Size]]

Queue == INSTANCE BoundedQueue WITH
  queue <- Items,
  call <- [t \in Threads |->
             [op |-> call[t].op, item |-> call[t].item, timed |-> call[t].left > 0]]

\* Every behaviour of the ring is one of the FIFO (BoundedQueue).
ImplementsFifo == Queue!Spec
=============================================================================
