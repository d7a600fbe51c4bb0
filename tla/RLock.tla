-------------------------------- MODULE RLock --------------------------------
(***************************************************************************)
(* The reentrant lock of cfl_lock.c: a mutex, the thread that owns it and  *)
(* how often it has acquired it.                                           *)
(*                                                                         *)
(* owner and count are ordinary fields.  acquire, tryAcquire and release   *)
(* read owner before they have the mutex, while another thread may be      *)
(* writing it, so each access to a field is a step of its own.             *)
(***************************************************************************)
EXTENDS Integers

CONSTANTS Threads,   \* the client threads
          NoThread,  \* NULL_THREAD
          MaxDepth   \* bound on how deep a client nests acquisitions

\* count is a CFL_UINT32: clients that nest less than 2^32 deep stay in range.
ASSUME ThreadAssumption == NoThread \notin Threads
ASSUME DepthAssumption == MaxDepth \in Nat \ {0}

VARIABLES mutex,  \* the thread that holds the mutex, or NoThread
          owner,  \* the owner field
          count,  \* the count field
          pc,     \* where each thread is in its call
          depth   \* acquisitions t has made and not released, as t counts them

vars == <<mutex, owner, count, pc, depth>>

\* A thread at "lock" waits for the mutex; from "setOwner" to "unlock" it is
\* inside a call that has it.
Labels == {"idle", "check", "tryCheck", "again", "lock", "tryLock",
           "setOwner", "setCount", "releaseCheck", "decrement", "testZero",
           "clearOwner", "unlock"}

TypeOK ==
  /\ mutex \in Threads \cup {NoThread}
  /\ owner \in Threads \cup {NoThread}
  /\ count \in 0 .. MaxDepth
  /\ pc \in [Threads -> Labels]
  /\ depth \in [Threads -> 0 .. MaxDepth]

\* cfl_rlock_init
Init ==
  /\ mutex = NoThread
  /\ owner = NoThread
  /\ count = 0
  /\ pc = [t \in Threads |-> "idle"]
  /\ depth = [t \in Threads |-> 0]

At(t, l) == pc[t] = l
Goto(t, l) == pc' = [pc EXCEPT ![t] = l]

\* The acquisition is over, for the caller too.
Acquired(t) ==
  /\ Goto(t, "idle")
  /\ depth' = [depth EXCEPT ![t] = @ + 1]

-----------------------------------------------------------------------------
(* cfl_rlock_acquire, cfl_rlock_tryAcquire                                 *)

CallAcquire(t) ==
  /\ At(t, "idle") /\ depth[t] < MaxDepth
  /\ Goto(t, "check") \/ Goto(t, "tryCheck")
  /\ UNCHANGED <<mutex, owner, count, depth>>

\* A bug: the owner waits for itself.
CheckNotReentrant(t) ==
  /\ At(t, "check")
  /\ Goto(t, "lock")
  /\ UNCHANGED <<mutex, owner, count, depth>>

Check(t) ==
  /\ At(t, "check")
  /\ Goto(t, IF owner = t THEN "again" ELSE "lock")
  /\ UNCHANGED <<mutex, owner, count, depth>>

\* A bug: any owner will do.
TryCheckAnyOwner(t) ==
  /\ At(t, "tryCheck")
  /\ Goto(t, IF owner # NoThread THEN "again" ELSE "tryLock")
  /\ UNCHANGED <<mutex, owner, count, depth>>

TryCheck(t) ==
  /\ At(t, "tryCheck")
  /\ Goto(t, IF owner = t THEN "again" ELSE "tryLock")
  /\ UNCHANGED <<mutex, owner, count, depth>>

Again(t) ==
  /\ At(t, "again")
  /\ count' = count + 1
  /\ Acquired(t)
  /\ UNCHANGED <<mutex, owner>>

Lock(t) ==
  /\ At(t, "lock") \/ At(t, "tryLock")
  /\ mutex = NoThread
  /\ mutex' = t
  /\ Goto(t, "setOwner")
  /\ UNCHANGED <<owner, count, depth>>

TryLockFails(t) ==
  /\ At(t, "tryLock")
  /\ mutex # NoThread
  /\ Goto(t, "idle")
  /\ UNCHANGED <<mutex, owner, count, depth>>

SetOwner(t) ==
  /\ At(t, "setOwner")
  /\ owner' = t
  /\ Goto(t, "setCount")
  /\ UNCHANGED <<mutex, count, depth>>

SetCount(t) ==
  /\ At(t, "setCount")
  /\ count' = 1
  /\ Acquired(t)
  /\ UNCHANGED <<mutex, owner>>

-----------------------------------------------------------------------------
(* cfl_rlock_release                                                       *)

\* Any thread may call it; the call of one that is not the owner is ignored.
CallRelease(t) ==
  /\ At(t, "idle")
  /\ Goto(t, "releaseCheck")
  /\ UNCHANGED <<mutex, owner, count, depth>>

ReleaseCheck(t) ==
  /\ At(t, "releaseCheck")
  /\ Goto(t, IF owner = t THEN "decrement" ELSE "idle")
  /\ UNCHANGED <<mutex, owner, count, depth>>

Decrement(t) ==
  /\ At(t, "decrement")
  /\ count' = count - 1
  /\ depth' = [depth EXCEPT ![t] = @ - 1]
  /\ Goto(t, "testZero")
  /\ UNCHANGED <<mutex, owner>>

\* A bug: the owner is left in place.
TestZeroKeepsOwner(t) ==
  /\ At(t, "testZero")
  /\ Goto(t, IF count = 0 THEN "unlock" ELSE "idle")
  /\ UNCHANGED <<mutex, owner, count, depth>>

TestZero(t) ==
  /\ At(t, "testZero")
  /\ Goto(t, IF count = 0 THEN "clearOwner" ELSE "idle")
  /\ UNCHANGED <<mutex, owner, count, depth>>

\* A bug: the mutex is not given up.
ClearOwnerOnly(t) ==
  /\ At(t, "clearOwner")
  /\ owner' = NoThread
  /\ Goto(t, "idle")
  /\ UNCHANGED <<mutex, count, depth>>

ClearOwner(t) ==
  /\ At(t, "clearOwner")
  /\ owner' = NoThread
  /\ Goto(t, "unlock")
  /\ UNCHANGED <<mutex, count, depth>>

Unlock(t) ==
  /\ At(t, "unlock")
  /\ mutex' = NoThread
  /\ Goto(t, "idle")
  /\ UNCHANGED <<owner, count, depth>>

-----------------------------------------------------------------------------

Acquire(t) == \/ CallAcquire(t) \/ Check(t) \/ TryCheck(t) \/ Again(t)
              \/ Lock(t) \/ TryLockFails(t) \/ SetOwner(t) \/ SetCount(t)
Release(t) == \/ CallRelease(t) \/ ReleaseCheck(t) \/ Decrement(t)
              \/ TestZero(t) \/ ClearOwner(t) \/ Unlock(t)

Next == \E t \in Threads : Acquire(t) \/ Release(t)

Spec == Init /\ [][Next]_vars

\* A call that has begun goes on, and a contender gets a mutex that is free
\* again and again.  Nothing makes a client call.
Continues(t) ==
  \/ Check(t) \/ TryCheck(t) \/ Again(t) \/ TryLockFails(t)
  \/ SetOwner(t) \/ SetCount(t) \/ ReleaseCheck(t) \/ Decrement(t)
  \/ TestZero(t) \/ ClearOwner(t) \/ Unlock(t)

Fairness == \A t \in Threads : WF_vars(Continues(t)) /\ SF_vars(Lock(t))

FairSpec == Spec /\ Fairness

-----------------------------------------------------------------------------
(* Properties                                                              *)

\* No two threads hold the lock, and the fields tell the truth about the one
\* that does: outside its own calls it is the owner and count is its depth.
HolderIsOwner ==
  \A t \in Threads : depth[t] > 0 =>
    /\ mutex = t /\ owner = t
    /\ At(t, "idle") => count = depth[t]
    /\ \A u \in Threads \ {t} : depth[u] = 0

\* A thread that has the lock never waits for it.
HolderNeverBlocks ==
  \A t \in Threads : depth[t] > 0 => pc[t] \notin {"lock", "tryLock"}

\* A held lock changes only when its holder acquires or releases: a release by
\* another thread, and the checks of those that wait, leave it as it is.
OnlyHolderWrites ==
  [][\A t \in Threads : depth[t] > 0 /\ depth'[t] = depth[t] =>
       UNCHANGED <<mutex, owner, count>>]_vars

\* A call to acquire comes back, if nobody keeps the lock for ever.
AcquireReturns ==
  (\A u \in Threads : []<>(depth[u] = 0))
    => \A t \in Threads : At(t, "check") ~> At(t, "idle")
=============================================================================
