----------------------------- MODULE LockProofs ------------------------------
(***************************************************************************)
(* The reentrant lock is a lock, for any number of threads and any depth,  *)
(* although acquire and release look at owner without the mutex.  The      *)
(* reason is IInv: owner names t exactly while t has the mutex, but for    *)
(* the moment after it took it and the moment before it gives it up, and   *)
(* only t itself moves between these; so the answer to "is it me" is       *)
(* stable, whatever the others do to the field meanwhile.                  *)
(*                                                                         *)
(* The event loses no set on sleepers, for any number of threads and both  *)
(* kinds of event, though cfl_event_set signals after it has given up the  *)
(* mutex and an auto-reset event signals one waiter only.                  *)
(*                                                                         *)
(* NoSleepOverSetEvent is not inductive: a woken waiter of a manual-reset  *)
(* event goes and leaves the state on.  The reason it may is Announced:    *)
(* such an event wakes everybody, so that sleepers and a set state meet    *)
(* only between a set and its broadcast.                                   *)
(***************************************************************************)
EXTENDS MCThreads, FiniteSetTheorems, TLAPS

\* t has the mutex: between its calls, or at a point of a call.
Holding(t) ==
  \/ depth[t] > 0
  \/ pc[t] \in {"setOwner", "setCount", "testZero", "clearOwner", "unlock"}

MutexInv == \A t \in Threads : Holding(t) <=> mutex = t

OwnerInv ==
  \A t \in Threads : owner = t <=> Holding(t) /\ pc[t] \notin {"setOwner", "unlock"}

CountInv ==
  \A t \in Threads :
    Holding(t) /\ pc[t] \notin {"setOwner", "setCount"} => count = depth[t]

DepthInv ==
  \A t \in Threads :
    /\ pc[t] \in {"again", "decrement"} => depth[t] > 0
    /\ pc[t] \in {"lock", "tryLock", "setOwner", "setCount", "clearOwner", "unlock"}
         => depth[t] = 0
    /\ pc[t] \in {"check", "tryCheck", "again"} => depth[t] < MaxDepth

IInv == TypeOK /\ MutexInv /\ OwnerInv /\ CountInv /\ DepthInv

LEMMA InitInv == Init => IInv
  BY ThreadAssumption, DepthAssumption
     DEF Init, IInv, TypeOK, MutexInv, OwnerInv, CountInv, DepthInv, Holding, Labels

\* Every step of a thread preserves IInv.
LEMMA StepInv ==
  ASSUME IInv, NEW t \in Threads, Acquire(t) \/ Release(t)
  PROVE  IInv'
<1> USE ThreadAssumption, DepthAssumption
        DEF IInv, TypeOK, MutexInv, OwnerInv, CountInv, DepthInv, Holding, At, Goto, Labels
<1>1. CASE CallAcquire(t)
  BY <1>1 DEF CallAcquire
<1>2. CASE Check(t)
  BY <1>2 DEF Check
<1>3. CASE TryCheck(t)
  BY <1>3 DEF TryCheck
<1>4. CASE Again(t)
  BY <1>4 DEF Again, Acquired
<1>5. CASE Lock(t)
  BY <1>5 DEF Lock
<1>6. CASE TryLockFails(t)
  BY <1>6 DEF TryLockFails
<1>7. CASE SetOwner(t)
  BY <1>7 DEF SetOwner
<1>8. CASE SetCount(t)
  BY <1>8 DEF SetCount, Acquired
<1>9. CASE CallRelease(t)
  BY <1>9 DEF CallRelease
<1>10. CASE ReleaseCheck(t)
  BY <1>10 DEF ReleaseCheck
<1>11. CASE Decrement(t)
  BY <1>11 DEF Decrement
<1>12. CASE TestZero(t)
  BY <1>12 DEF TestZero
<1>13. CASE ClearOwner(t)
  BY <1>13 DEF ClearOwner
<1>14. CASE Unlock(t)
  BY <1>14 DEF Unlock
<1> QED
  BY <1>1, <1>2, <1>3, <1>4, <1>5, <1>6, <1>7, <1>8, <1>9, <1>10, <1>11, <1>12, <1>13, <1>14
     DEF Acquire, Release

\* IInv holds in every reachable state.
LEMMA Invariant == Spec => []IInv
<1>1. IInv /\ [Next]_vars => IInv'
  <2>1. ASSUME IInv, Next PROVE IInv'
    BY <2>1, StepInv DEF Next
  <2>2. ASSUME IInv, UNCHANGED vars PROVE IInv'
    BY <2>2 DEF IInv, TypeOK, MutexInv, OwnerInv, CountInv, DepthInv, Holding, vars
  <2> QED
    BY <2>1, <2>2
<1> QED
  BY <1>1, InitInv, PTL DEF Spec

\* The fields keep their types: count never wraps below 0 or past MaxDepth.
THEOREM TypeCorrect == Spec => []TypeOK
<1>1. IInv => TypeOK
  BY DEF IInv
<1> QED
  BY <1>1, Invariant, PTL

\* At most one thread holds the lock, and owner and count describe it.
THEOREM MutualExclusion == Spec => []HolderIsOwner
<1>1. IInv => HolderIsOwner
  BY ThreadAssumption
     DEF IInv, TypeOK, MutexInv, OwnerInv, CountInv, DepthInv, Holding, HolderIsOwner, At
<1> QED
  BY <1>1, Invariant, PTL

\* The owner never waits for its own lock.
THEOREM Reentrancy == Spec => []HolderNeverBlocks
<1>1. IInv => HolderNeverBlocks
  BY DEF IInv, TypeOK, DepthInv, HolderNeverBlocks
<1> QED
  BY <1>1, Invariant, PTL

\* No step of another thread touches the fields of a held lock.
THEOREM HeldLockIsStable == Spec => OnlyHolderWrites
<1>1. IInv /\ [Next]_vars =>
        [\A t \in Threads : depth[t] > 0 /\ depth'[t] = depth[t] =>
           UNCHANGED <<mutex, owner, count>>]_vars
  <2> SUFFICES ASSUME IInv, Next, NEW t \in Threads, depth[t] > 0, depth'[t] = depth[t]
               PROVE  UNCHANGED <<mutex, owner, count>>
    OBVIOUS
  <2>1. PICK u \in Threads : Acquire(u) \/ Release(u)
    BY DEF Next
  <2>2. mutex = t /\ owner \in {t, NoThread} /\ (u # t => ~Holding(u))
    BY ThreadAssumption DEF IInv, TypeOK, MutexInv, OwnerInv, Holding
  <2>3. CASE u # t
    <3>1. depth[u] = 0 /\ pc[u] \notin {"again", "decrement", "setOwner", "setCount", "clearOwner", "unlock"}
      BY <2>2, <2>3 DEF Holding, IInv, TypeOK, DepthInv
    <3> QED
      BY <2>1, <2>2, <3>1, ThreadAssumption
         DEF Acquire, Release, CallAcquire, Check, TryCheck, Again, Lock, TryLockFails,
             SetOwner, SetCount, CallRelease, ReleaseCheck, Decrement, TestZero, ClearOwner,
             Unlock, At
  <2>4. CASE u = t
    <3>1. pc[u] \notin {"setOwner", "setCount", "clearOwner", "unlock", "lock", "tryLock"}
      BY <2>4 DEF IInv, TypeOK, DepthInv
    <3>2. ~Again(u) /\ ~Decrement(u)
      BY <2>4 DEF IInv, TypeOK, Again, Acquired, Decrement
    <3> QED
      BY <2>1, <3>1, <3>2
         DEF Acquire, Release, CallAcquire, Check, TryCheck, Lock, TryLockFails,
             SetOwner, SetCount, CallRelease, ReleaseCheck, TestZero, ClearOwner, Unlock, At
  <2> QED
    BY <2>3, <2>4
<1> QED
  BY <1>1, Invariant, PTL DEF Spec, OnlyHolderWrites

-----------------------------------------------------------------------------
(* The event                                                               *)

Announced ==
  ~autoReset /\ state /\ E!Sleepers # {} => \E t \in Threads : eventPc[t] = "signal"

EventInv == E!TypeOK /\ E!NoSleepOverSetEvent /\ Announced

LEMMA EventInitInv == E!Init => EventInv
  BY DEF E!Init, EventInv, E!TypeOK, E!NoSleepOverSetEvent, Announced, E!Sleepers

-----------------------------------------------------------------------------
(* The event: types                                                        *)

LEMMA EventTypeStep == ASSUME E!TypeOK, E!Next PROVE E!TypeOK'
<1> USE DEF E!TypeOK, E!Return, E!AllOps, E!WaitOps
<1> PICK t \in Threads : E!Invoke(t) \/ E!Section(t) \/ E!SpuriousWakeup(t) \/ E!Expire(t)
  BY DEF E!Next
<1>0. "none" \notin Ops
  BY OpsAreCalls
<1>1. CASE E!Invoke(t)
  BY <1>0, <1>1 DEF E!Invoke
<1>2. CASE E!SetState(t)
  BY <1>2 DEF E!SetState
<1>3. CASE E!SetSignal(t)
  BY <1>3 DEF E!SetSignal, E!Sleepers
<1>4. CASE E!Reset(t)
  BY <1>4 DEF E!Reset
<1>5. CASE E!WaitSet(t) \/ E!WokenUntimed(t)
  BY <1>5 DEF E!WaitSet, E!WokenUntimed, E!Released
<1>6. CASE E!WaitSleep(t)
  BY <1>6 DEF E!WaitSleep
<1>7. CASE E!PollBusy(t)
  BY <1>7 DEF E!PollBusy
<1>8. CASE E!WokenTimed(t)
  BY <1>8 DEF E!WokenTimed, E!Released
<1>9. CASE E!WaitTimesOut(t)
  BY <1>9 DEF E!WaitTimesOut
<1>10. CASE E!SpuriousWakeup(t) \/ E!Expire(t)
  BY <1>10 DEF E!SpuriousWakeup, E!Expire
<1> QED
  BY <1>1, <1>2, <1>3, <1>4, <1>5, <1>6, <1>7, <1>8, <1>9, <1>10 DEF E!Section

-----------------------------------------------------------------------------
(* The event: signals                                                      *)

LEMMA SameCardinality == ASSUME NEW S PROVE E!Cardinality(S) = Cardinality(S)
BY DEF E!Cardinality, Cardinality

\* The signal of set wakes somebody if anybody sleeps, the broadcast everybody.
LEMMA SignalInv ==
  ASSUME EventInv, NEW t \in Threads, E!SetSignal(t)
  PROVE  E!NoSleepOverSetEvent' /\ Announced'
<1> USE DEF EventInv, E!TypeOK, E!NoSleepOverSetEvent, Announced, E!Sleepers
<1> PICK W \in SUBSET E!Sleepers :
       /\ IF autoReset THEN Cardinality(W) = (IF E!Sleepers = {} THEN 0 ELSE 1)
                       ELSE W = E!Sleepers
       /\ eventPc' = [u \in Threads |-> IF u = t THEN "idle"
                                   ELSE IF u \in W THEN "woken" ELSE eventPc[u]]
  BY SameCardinality DEF E!SetSignal
<1>1. E!Sleepers' \subseteq E!Sleepers \ W /\ autoReset' = autoReset /\ t \notin W
  BY DEF E!SetSignal
<1>2. CASE autoReset /\ E!Sleepers # {}
  <2>1. PICK u : u \in W
    BY <1>2, FS_EmptySet
  <2>2. u \in Threads /\ eventPc'[u] = "woken"
    BY <1>1, <2>1
  <2> QED
    BY <1>1, <1>2, <2>2
<1>3. CASE ~autoReset \/ E!Sleepers = {}
  BY <1>1, <1>3
<1> QED
  BY <1>2, <1>3

\* Every other step leaves the signals, the woken threads and the sleepers as
\* they are, makes a signal, or finds or leaves the state off.
LEMMA EventStepInv == ASSUME EventInv, E!Next PROVE EventInv'
<1> USE DEF EventInv, E!TypeOK, E!NoSleepOverSetEvent, Announced, E!Sleepers, E!Return
<1>0. E!TypeOK'
  BY EventTypeStep
<1> PICK t \in Threads : E!Invoke(t) \/ E!Section(t) \/ E!SpuriousWakeup(t) \/ E!Expire(t)
  BY DEF E!Next
<1>1. CASE E!Invoke(t)
  BY <1>0, <1>1 DEF E!Invoke
<1>2. CASE E!SetState(t)
  BY <1>0, <1>2 DEF E!SetState
<1>3. CASE E!SetSignal(t)
  BY <1>0, <1>3, SignalInv
<1>4. CASE E!Reset(t)
  BY <1>0, <1>4 DEF E!Reset
<1>5. CASE E!WaitSet(t)
  BY <1>0, <1>5 DEF E!WaitSet, E!Released
<1>6. CASE E!WokenUntimed(t)
  <2>1. E!Sleepers' \subseteq E!Sleepers /\ autoReset' = autoReset
    BY <1>6 DEF E!WokenUntimed, E!Released
  <2>2. CASE autoReset
    <3>1. ~state'
      BY <1>6, <2>2 DEF E!WokenUntimed, E!Released
    <3> QED
      BY <1>0, <3>1
  <2>3. CASE ~autoReset
    <3>1. state' = state
      BY <1>6, <2>3 DEF E!WokenUntimed, E!Released
    <3>2. \A u \in Threads : eventPc[u] = "signal" => eventPc'[u] = "signal"
      BY <1>6 DEF E!WokenUntimed, E!Released
    <3> QED
      BY <1>0, <2>1, <2>3, <3>1, <3>2
  <2> QED
    BY <2>2, <2>3
<1>7. CASE E!WaitSleep(t)
  BY <1>0, <1>7 DEF E!WaitSleep
<1>8. CASE E!PollBusy(t)
  BY <1>0, <1>8 DEF E!PollBusy
<1>9. CASE E!WokenTimed(t)
  BY <1>0, <1>9 DEF E!WokenTimed, E!Released
<1>10. CASE E!WaitTimesOut(t)
  BY <1>0, <1>10 DEF E!WaitTimesOut
<1>11. CASE E!SpuriousWakeup(t)
  BY <1>0, <1>11 DEF E!SpuriousWakeup
<1>12. CASE E!Expire(t)
  BY <1>0, <1>12 DEF E!Expire
<1> QED
  BY <1>1, <1>2, <1>3, <1>4, <1>5, <1>6, <1>7, <1>8, <1>9, <1>10, <1>11, <1>12 DEF E!Section

LEMMA EventInvariant == OneSpec => []EventInv
<1>1. EventInv /\ [E!Next]_E!vars => EventInv'
  <2>1. CASE UNCHANGED E!vars
    BY <2>1 DEF E!vars, EventInv, E!TypeOK, E!NoSleepOverSetEvent, Announced, E!Sleepers
  <2> QED
    BY <2>1, EventStepInv
<1>2. OneInit => EventInv
  BY EventInitInv DEF OneInit
<1>3. [OneNext]_allVars => [E!Next]_E!vars
  BY DEF OneNext, EventRests, allVars, eventVars, E!vars
<1> QED
  BY <1>1, <1>2, <1>3, PTL DEF OneSpec

\* The state of an event stays well typed (cfl_event.c), for any threads and
\* operations.
THEOREM EventTypeCorrect == OneSpec => []E!TypeOK
<1>1. EventInv => E!TypeOK
  BY DEF EventInv
<1> QED
  BY <1>1, EventInvariant, PTL

\* However many threads set, reset and wait, and whichever wakeups are spurious,
\* nobody sleeps on an event that is set without a signal on its way or a woken
\* thread to take it (cfl_event_set, unlockedWaitForEvent).
THEOREM NoSetLost == OneSpec => []NoSleepOverSetEvent
<1>1. EventInv => NoSleepOverSetEvent
  BY DEF EventInv, NoSleepOverSetEvent
<1> QED
  BY <1>1, EventInvariant, PTL
=============================================================================
