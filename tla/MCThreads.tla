------------------------------ MODULE MCThreads ------------------------------
(* What threads meet, for model checking: the reentrant lock, the event, a *)
(* thread variable and the object of a thread.  The threads use one of     *)
(* them, the others stay as they were made.                                *)
EXTENDS RLock

CONSTANTS Ops,                                        \* of the event
          Keys, NoKey, Values, Default, NoData,       \* of the variable
          Workers, NoWorker                           \* of the thread object

ASSUME ValuesAssumption == Default \in Values /\ NoData \notin Values
ASSUME KeysAssumption == NoKey \notin Keys
ASSUME NoWorkerAssumption == NoWorker \notin Workers

VARIABLES used,                                       \* the one
          autoReset, state, eventMutex, eventPc, op, ret,
          initialized, storageKey, liveKeys, slot, varPc, request, stored,
          status, handle, joined, alive, call, place, cancelled, released,
          killed, signalled, completed

lockVars == vars
eventVars == <<autoReset, state, eventMutex, eventPc, op, ret>>
varVars == <<initialized, storageKey, liveKeys, slot, varPc, request, stored>>
objectVars == <<status, handle, joined, alive, call, place, cancelled, released,
                killed, signalled, completed>>
allVars == <<used, lockVars, eventVars, varVars, objectVars>>

E == INSTANCE Event WITH mutex <- eventMutex, pc <- eventPc
V == INSTANCE ThreadVar WITH pc <- varPc
P == INSTANCE Thread

ASSUME OpsAreCalls == Ops \subseteq E!AllOps

OneInit ==
  /\ used \in {"rlock", "event", "var", "object"}
  /\ Init
  /\ E!Init /\ (used # "event" => autoReset = FALSE)
  /\ V!Init
  /\ P!Init

\* A wait that timed out may keep the mutex of an event for ever: then nothing
\* follows.
EventRests == used = "event" /\ UNCHANGED allVars

OneNext ==
  \/ used = "rlock" /\ Next /\ UNCHANGED <<used, eventVars, varVars, objectVars>>
  \/ used = "event" /\ E!Next /\ UNCHANGED <<used, lockVars, varVars, objectVars>>
  \/ used = "var" /\ V!Next /\ UNCHANGED <<used, lockVars, eventVars, objectVars>>
  \/ used = "object" /\ P!Next /\ UNCHANGED <<used, lockVars, eventVars, varVars>>
  \/ EventRests

OneSpec == OneInit /\ [][OneNext]_allVars

FairOneSpec == OneSpec /\ Fairness /\ E!Fairness /\ V!Fairness

-----------------------------------------------------------------------------
(* Properties of the instances; those of the lock are in RLock             *)

\* cfl_event.c: while the event is set and somebody sleeps, a signal is about to
\* be sent or a woken thread is on its way.
NoSleepOverSetEvent == E!NoSleepOverSetEvent

\* A waiter of an event that stays set returns, unless a wait that timed out
\* has kept the mutex.
WaiterReleased == E!WaiterReleased

\* cfl_thread.c:479: one thread at a time creates the key of a variable.
OneInitializer == V!OneInitializer

\* No key is leaked, and none is used before it exists (thread_dataGet).
KeyWhenInitialized == V!KeyWhenInitialized

\* A thread finds what it stored last in a thread variable.
ValueKept == V!ValueKept

\* Every call of a thread variable returns, whoever creates the key or fails to.
CallReturns == V!CallReturns

\* cfl_thread_free after a join: the thread does not touch the object any more.
NoTouchAfterFree == P!NoTouchAfterFree

\* Joined or detached, and not both: a wait that timed out has done neither.
ReleasedOnce == P!ReleasedOnce

\* The status of a thread that is over says something that happened.
SettledStatus == P!SettledStatus

\* An error that was signalled is the status in the end, unless the thread was
\* killed (cfl_thread.h:55 and 247): the code does not keep it.
ErrorReported == P!ErrorReported
=============================================================================
