-------------------------------- MODULE Event --------------------------------
(***************************************************************************)
(* cfl_event.c, the POSIX build: an event with a state, a mutex and a      *)
(* condition variable.  A manual-reset event stays set until it is reset,  *)
(* an auto-reset one goes back to unset when it releases a waiter.         *)
(*                                                                         *)
(* The mutex is explicit, because a wait that times out returns without    *)
(* giving it up.  A step of a thread is the code it runs between getting   *)
(* the mutex and giving it up, to pthread_cond_*wait or for good; the      *)
(* signal of cfl_event_set comes after the mutex has been given up and is  *)
(* a step of its own.                                                      *)
(***************************************************************************)
EXTENDS Integers, FiniteSets

CONSTANTS Threads,   \* the client threads
          NoThread,  \* nobody
          Ops        \* the operations the clients call

\* "wait" is cfl_event_wait and cfl_event_wait2, and cfl_event_waitTimeout2 with a
\* timeout of 0, which waits the same way; "poll" is cfl_event_waitTimeout
\* with a timeout of 0, "timedWait" cfl_event_waitTimeout and
\* cfl_event_waitTimeout2 with a positive one.
AllOps == {"set", "reset", "wait", "poll", "timedWait"}
WaitOps == {"wait", "poll", "timedWait"}

VARIABLES autoReset,  \* the kind of event
          state,      \* the event is set
          mutex,      \* who holds the mutex between two steps, or NoThread
          pc,         \* where each thread is in its call
          op,         \* the call each thread is in, "none" between calls
          ret         \* what its last call returned

vars == <<autoReset, state, mutex, pc, op, ret>>

TypeOK ==
  /\ autoReset \in BOOLEAN
  /\ state \in BOOLEAN
  /\ mutex \in Threads \cup {NoThread}
  /\ pc \in [Threads -> {"idle", "enter", "signal", "sleeping", "woken", "timedOut"}]
  /\ op \in [Threads -> Ops \cup {"none"}]
  /\ ret \in [Threads -> {"none", "done", "set", "timeout", "fail"}]
  /\ \A t \in Threads : pc[t] = "idle" <=> op[t] = "none"

Init ==
  /\ autoReset \in BOOLEAN
  /\ state = FALSE
  /\ mutex = NoThread
  /\ pc = [t \in Threads |-> "idle"]
  /\ op = [t \in Threads |-> "none"]
  /\ ret = [t \in Threads |-> "none"]

Invoke(t) ==
  /\ pc[t] = "idle"
  /\ \E o \in Ops : op' = [op EXCEPT ![t] = o]
  /\ pc' = [pc EXCEPT ![t] = "enter"]
  /\ ret' = [ret EXCEPT ![t] = "none"]
  /\ UNCHANGED <<autoReset, state, mutex>>

Return(t, r) ==
  /\ pc' = [pc EXCEPT ![t] = "idle"]
  /\ op' = [op EXCEPT ![t] = "none"]
  /\ ret' = [ret EXCEPT ![t] = r]

Free == mutex = NoThread

-----------------------------------------------------------------------------
(* set and reset                                                           *)

\* A bug: nobody is signalled.
SetStateSilently(t) ==
  /\ pc[t] = "enter" /\ op[t] = "set"
  /\ Free
  /\ state' = TRUE
  /\ Return(t, "done")
  /\ UNCHANGED <<autoReset, mutex>>

SetState(t) ==
  /\ pc[t] = "enter" /\ op[t] = "set"
  /\ Free
  /\ state' = TRUE
  /\ pc' = [pc EXCEPT ![t] = "signal"]
  /\ UNCHANGED <<autoReset, mutex, op, ret>>

Sleepers == {u \in Threads : pc[u] = "sleeping"}

\* pthread_cond_signal picks one sleeper, if there is one; a broadcast wakes all.
SetSignal(t) ==
  /\ pc[t] = "signal"
  /\ \E W \in SUBSET Sleepers :
       /\ IF autoReset THEN Cardinality(W) = (IF Sleepers = {} THEN 0 ELSE 1)
                       ELSE W = Sleepers
       /\ pc' = [u \in Threads |-> IF u = t THEN "idle"
                                   ELSE IF u \in W THEN "woken" ELSE pc[u]]
  /\ op' = [op EXCEPT ![t] = "none"]
  /\ ret' = [ret EXCEPT ![t] = "done"]
  /\ UNCHANGED <<autoReset, state, mutex>>

Reset(t) ==
  /\ pc[t] = "enter" /\ op[t] = "reset"
  /\ Free
  /\ state' = FALSE
  /\ Return(t, "done")
  /\ UNCHANGED <<autoReset, mutex>>

-----------------------------------------------------------------------------
(* unlockedWaitForEvent and its callers                                    *)

\* A successful wait unsets an auto-reset event.
Released(t) ==
  /\ state' = (state /\ ~autoReset)
  /\ Return(t, "set")
  /\ UNCHANGED <<autoReset, mutex>>

WaitSet(t) ==
  /\ pc[t] = "enter" /\ op[t] \in WaitOps
  /\ Free /\ state
  /\ Released(t)

WaitSleep(t) ==
  /\ pc[t] = "enter" /\ op[t] \in WaitOps
  /\ Free /\ ~state
  /\ pc' = [pc EXCEPT ![t] = "sleeping"]
  /\ UNCHANGED <<autoReset, state, mutex, op, ret>>

\* A timeout of 0 tries the mutex, and fails if anybody has it.  The sections
\* of other threads are too short to be seen here, so that somebody has it is
\* possible at any time.
PollBusy(t) ==
  /\ pc[t] = "enter" /\ op[t] = "poll"
  /\ ~Free \/ \E u \in Threads \ {t} : pc[u] \in {"enter", "woken", "timedOut"}
  /\ Return(t, "fail")
  /\ UNCHANGED <<autoReset, state, mutex>>

\* The untimed wait does not look at the state after it was woken.
WokenUntimed(t) ==
  /\ pc[t] = "woken" /\ op[t] \in {"wait", "poll"}
  /\ Free
  /\ Released(t)

WokenTimed(t) ==
  /\ pc[t] = "woken" /\ op[t] = "timedWait"
  /\ Free
  /\ IF state
     THEN Released(t)
     ELSE /\ pc' = [pc EXCEPT ![t] = "sleeping"]
          /\ UNCHANGED <<autoReset, state, mutex, op, ret>>

\* ETIMEDOUT comes back with the mutex locked, and the caller returns without
\* unlocking it.
WaitTimesOut(t) ==
  /\ pc[t] = "timedOut"
  /\ Free
  /\ mutex' = t
  /\ Return(t, "timeout")
  /\ UNCHANGED <<autoReset, state>>

SpuriousWakeup(t) ==
  /\ pc[t] = "sleeping"
  /\ pc' = [pc EXCEPT ![t] = "woken"]
  /\ UNCHANGED <<autoReset, state, mutex, op, ret>>

Expire(t) ==
  /\ pc[t] = "sleeping" /\ op[t] = "timedWait"
  /\ pc' = [pc EXCEPT ![t] = "timedOut"]
  /\ UNCHANGED <<autoReset, state, mutex, op, ret>>

-----------------------------------------------------------------------------

\* What t does by itself once it gets the mutex.
Section(t) ==
  \/ SetState(t) \/ SetSignal(t) \/ Reset(t)
  \/ WaitSet(t) \/ WaitSleep(t) \/ PollBusy(t)
  \/ WokenUntimed(t) \/ WokenTimed(t) \/ WaitTimesOut(t)

Next == \E t \in Threads : Invoke(t) \/ Section(t) \/ SpuriousWakeup(t) \/ Expire(t)

Spec == Init /\ [][Next]_vars

\* A thread that can go on gets the mutex sooner or later.
Fairness == \A t \in Threads : WF_vars(Section(t))

FairSpec == Spec /\ Fairness

-----------------------------------------------------------------------------
(* Properties                                                              *)

\* No set is lost: while the event is set and somebody sleeps, either a set is
\* about to signal or a woken thread is on its way to the state.
NoSleepOverSetEvent ==
  state /\ Sleepers # {} => \E t \in Threads : pc[t] \in {"signal", "woken"}

\* A waiter of an event that stays set returns, unless a wait that timed out
\* has kept the mutex.
WaiterReleased ==
  ([]<>Free) =>
    \A t \in Threads : (state /\ op[t] \in WaitOps) ~> (~state \/ op[t] = "none")

\* cfl_event_set "signals the event (sets it to signaled state)": it comes back.
SetReturns == \A t \in Threads : (op[t] = "set") ~> (op[t] = "none")
=============================================================================
