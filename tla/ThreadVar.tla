------------------------------ MODULE ThreadVar ------------------------------
(***************************************************************************)
(* A thread variable (CFL_THREAD_VARIABLE of cfl_thread.c): one value per  *)
(* thread, behind a pthread key that the first user creates.  The threads  *)
(* that use the variable at the same time elect the creator with a         *)
(* compare-and-swap, and the others spin until it has published the key or *)
(* its failure.  initializeThreadStorage runs the same protocol for the    *)
(* key of the CFL_THREAD objects.                                          *)
(*                                                                         *)
(* One step per access to the shared fields; what a thread does to its own *)
(* value is one step.  cfl_thread_varFree is called as its documentation   *)
(* asks: nobody uses the variable and no thread has data in it.            *)
(*                                                                         *)
(* Default is one of the Values, NoData is not, and NoKey is no key: those *)
(* who make an instance of the module assume it.                           *)
(***************************************************************************)
EXTENDS FiniteSets

CONSTANTS Threads,  \* the threads of the process
          Keys,     \* the pthread keys left for this variable
          NoKey,    \* the storageKey of a variable without a key
          Values,   \* what threads store
          Default,  \* what initData or memset stores in a new block
          NoData    \* NULL: no block, and the argument of a get

VARIABLES initialized,  \* the state of the variable
          storageKey,
          liveKeys,     \* keys created and not deleted
          slot,         \* slot[t][k]: what thread t keeps under key k
          pc,
          request,      \* the value a set stores, NoData for a get and between calls
          stored        \* history: what each thread stored last, in a block
                        \* that its slot keeps

vars == <<initialized, storageKey, liveKeys, slot, pc, request, stored>>

States == {"uninitialized", "initializing", "initialized", "error"}

Places == {"idle", "read", "cas", "create", "publishKey", "publishError", "spin", "check", "slot"}

TypeOK ==
  /\ initialized \in States
  /\ storageKey \in Keys \cup {NoKey}
  /\ liveKeys \subseteq Keys
  /\ slot \in [Threads -> [Keys -> Values \cup {NoData}]]
  /\ pc \in [Threads -> Places]
  /\ request \in [Threads -> Values \cup {NoData}]
  /\ stored \in [Threads -> Values]

\* CFL_THREAD_VAR
Init ==
  /\ initialized = "uninitialized"
  /\ storageKey = NoKey
  /\ liveKeys = {}
  /\ slot = [t \in Threads |-> [k \in Keys |-> NoData]]
  /\ pc = [t \in Threads |-> "idle"]
  /\ request = [t \in Threads |-> NoData]
  /\ stored = [t \in Threads |-> Default]

Goto(t, place) == pc' = [pc EXCEPT ![t] = place]

\* The call of t returns; its argument means nothing any more.
Return(t) == Goto(t, "idle") /\ request' = [request EXCEPT ![t] = NoData]

-----------------------------------------------------------------------------
(* cfl_thread_varGet and cfl_thread_varSet                                 *)

Call(t) ==
  /\ pc[t] = "idle"
  /\ \E v \in Values \cup {NoData} : request' = [request EXCEPT ![t] = v]
  /\ Goto(t, "read")
  /\ UNCHANGED <<initialized, storageKey, liveKeys, slot, stored>>

\* initializeVarStorage
Read(t) ==
  /\ pc[t] = "read"
  /\ Goto(t, IF initialized = "initialized" THEN "check" ELSE "cas")
  /\ UNCHANGED <<initialized, storageKey, liveKeys, slot, request, stored>>

\* A bug: a plain test where the compare-and-swap is, so that a thread that saw
\* another initializing goes on to create a key too.
CompareAndSwapBlind(t) ==
  /\ pc[t] = "cas"
  /\ IF initialized # "initialized"
     THEN initialized' = "initializing" /\ Goto(t, "create")
     ELSE Goto(t, "spin") /\ UNCHANGED initialized
  /\ UNCHANGED <<storageKey, liveKeys, slot, request, stored>>

\* A bug: the final state is stored before the key exists.
CompareAndSwapFinal(t) ==
  /\ pc[t] = "cas"
  /\ IF initialized = "uninitialized"
     THEN initialized' = "initialized" /\ Goto(t, "create")
     ELSE Goto(t, "spin") /\ UNCHANGED initialized
  /\ UNCHANGED <<storageKey, liveKeys, slot, request, stored>>

CompareAndSwap(t) ==
  /\ pc[t] = "cas"
  /\ IF initialized = "uninitialized"
     THEN initialized' = "initializing" /\ Goto(t, "create")
     ELSE Goto(t, "spin") /\ UNCHANGED initialized
  /\ UNCHANGED <<storageKey, liveKeys, slot, request, stored>>

\* A new key is NULL in every thread.
CreateKey(t) ==
  /\ pc[t] = "create"
  /\ \E k \in Keys \ liveKeys :
       /\ storageKey' = k
       /\ liveKeys' = liveKeys \cup {k}
       /\ slot' = [u \in Threads |-> [slot[u] EXCEPT ![k] = NoData]]
  /\ Goto(t, "publishKey")
  /\ UNCHANGED <<initialized, request, stored>>

\* The process may be out of keys.
CreateFails(t) ==
  /\ pc[t] = "create"
  /\ Goto(t, "publishError")
  /\ UNCHANGED <<initialized, storageKey, liveKeys, slot, request, stored>>

\* A bug: a failure is not published.
PublishKeyOnly(t) ==
  /\ pc[t] \in {"publishKey", "publishError"}
  /\ initialized' = IF pc[t] = "publishKey" THEN "initialized" ELSE initialized
  /\ Goto(t, "check")
  /\ UNCHANGED <<storageKey, liveKeys, slot, request, stored>>

Publish(t) ==
  /\ pc[t] \in {"publishKey", "publishError"}
  /\ initialized' = IF pc[t] = "publishKey" THEN "initialized" ELSE "error"
  /\ Goto(t, "check")
  /\ UNCHANGED <<storageKey, liveKeys, slot, request, stored>>

Spin(t) ==
  /\ pc[t] = "spin"
  /\ initialized \in {"initialized", "error"}
  /\ Goto(t, "check")
  /\ UNCHANGED <<initialized, storageKey, liveKeys, slot, request, stored>>

\* thread_dataGet: without a key the call fails.
Check(t) ==
  /\ pc[t] = "check"
  /\ IF initialized = "initialized" THEN Goto(t, "slot") /\ UNCHANGED request ELSE Return(t)
  /\ UNCHANGED <<initialized, storageKey, liveKeys, slot, stored>>

\* What t finds in its slot, in a new block if there is none.
Found(t) == IF slot[t][storageKey] = NoData THEN Default ELSE slot[t][storageKey]

\* A bug: every call takes a new block.
UseSlotAfresh(t) ==
  LET v == IF request[t] = NoData THEN Default ELSE request[t]
  IN  /\ pc[t] = "slot"
      /\ slot' = [slot EXCEPT ![t] = [@ EXCEPT ![storageKey] = v]]
      /\ stored' = [stored EXCEPT ![t] = IF request[t] = NoData THEN @ ELSE v]
      /\ Return(t)
      /\ UNCHANGED <<initialized, storageKey, liveKeys>>

\* A get returns the value in the slot, a set replaces it.
UseSlot(t) ==
  LET v == IF request[t] = NoData THEN Found(t) ELSE request[t]
  IN  /\ pc[t] = "slot"
      /\ slot' = [slot EXCEPT ![t] = [@ EXCEPT ![storageKey] = v]]
      /\ stored' = [stored EXCEPT ![t] = IF request[t] = NoData THEN @ ELSE v]
      /\ Return(t)
      /\ UNCHANGED <<initialized, storageKey, liveKeys>>

\* The block cannot be allocated, or pthread_setspecific, whose answer nobody
\* looks at (506), does not keep it: then the call works on a block that is lost,
\* value and memory, when it returns, and the slot is empty as before.
AllocationFails(t) ==
  /\ pc[t] = "slot" /\ slot[t][storageKey] = NoData
  /\ Return(t)
  /\ UNCHANGED <<initialized, storageKey, liveKeys, slot, stored>>

-----------------------------------------------------------------------------

\* freeVarData, the destructor of the key; another thread takes t's place.
Exit(t) ==
  /\ pc[t] = "idle"
  /\ slot' = [slot EXCEPT ![t] = [k \in Keys |-> NoData]]
  /\ stored' = [stored EXCEPT ![t] = Default]
  /\ UNCHANGED <<initialized, storageKey, liveKeys, pc, request>>

\* "Any per-thread data associated with this variable is NOT freed by this
\* call; it must have been freed or the threads must have exited".
Unused == \A t \in Threads : pc[t] = "idle" /\ \A k \in Keys : slot[t][k] = NoData

\* cfl_thread_varFree
VarFree ==
  /\ Unused /\ initialized = "initialized"
  /\ liveKeys' = liveKeys \ {storageKey}
  /\ storageKey' = NoKey
  /\ initialized' = "uninitialized"
  /\ UNCHANGED <<slot, pc, request, stored>>

\* What t does to finish a call.
Proceed(t) ==
  \/ Read(t) \/ CompareAndSwap(t) \/ CreateKey(t) \/ CreateFails(t) \/ Publish(t)
  \/ Spin(t) \/ Check(t) \/ UseSlot(t) \/ AllocationFails(t)

Next == VarFree \/ \E t \in Threads : Call(t) \/ Proceed(t) \/ Exit(t)

Spec == Init /\ [][Next]_vars

\* Every thread that is in a call keeps running.
Fairness == \A t \in Threads : WF_vars(Proceed(t))

FairSpec == Spec /\ Fairness

-----------------------------------------------------------------------------
(* Properties                                                              *)

\* Only one thread at a time creates a key (lines 479-485).
OneInitializer ==
  /\ \A t, u \in Threads :
       pc[t] \in {"create", "publishKey", "publishError"}
         /\ pc[u] \in {"create", "publishKey", "publishError"} => t = u
  /\ \A t \in Threads :
       pc[t] \in {"create", "publishKey", "publishError"} => initialized = "initializing"

\* No key is leaked, and no thread looks under a key before it exists: a live
\* key is the variable's, and there is one whenever the variable says so.
KeyWhenInitialized ==
  /\ initialized = "initialized" => liveKeys = {storageKey} /\ storageKey # NoKey
  /\ initialized \in {"uninitialized", "error"} => liveKeys = {}
  /\ \A t \in Threads : pc[t] = "slot" => initialized = "initialized"

\* A thread finds what it stored last, whoever created the key and whatever
\* the other threads stored, as long as its block was allocated and kept.
ValueKept ==
  initialized = "initialized" => \A t \in Threads : Found(t) = stored[t]

\* Every call of the variable returns: nobody spins for ever on an
\* initialization that failed or was done by another.
CallReturns == \A t \in Threads : (pc[t] # "idle") ~> (pc[t] = "idle")
=============================================================================
