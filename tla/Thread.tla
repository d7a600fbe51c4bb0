-------------------------------- MODULE Thread --------------------------------
(***************************************************************************)
(* The life of a CFL_THREAD (cfl_thread.c, POSIX build): its owner starts  *)
(* it, waits for it, kills and frees it, while the thread runs             *)
(* startFunction.  Both write status, without a lock.  One step per access *)
(* to the object or call of the system.                                    *)
(*                                                                         *)
(* The owner starts the thread once, joins it once, does not kill it after *)
(* that, and frees it as Completed says.  A second start before the thread *)
(* has written its status would create a second thread (358-362).          *)
(* NoWorker is none of the Workers: those who make an instance assume it.  *)
(***************************************************************************)
EXTENDS Integers

CONSTANTS Workers,     \* the threads the system may create for the object
          NoWorker     \* the handle of a thread that was not started

VARIABLES status, handle, joined,  \* the fields of the object
          alive,      \* the object is allocated
          call,       \* where the owner is
          place,      \* where each worker is
          cancelled,  \* workers with a cancellation request
          released,   \* how often the system was told to let go of the thread
          killed,     \* history: a kill has returned CFL_TRUE
          signalled,  \* history: a worker has signalled an error
          completed   \* history: a worker has run its function to the end

owner == <<handle, joined, alive, call, killed, released>>
worker == <<place, signalled, completed>>
vars == <<status, owner, worker, cancelled>>

Statuses == {"created", "running", "finished", "killed", "error"}

TypeOK ==
  /\ status \in Statuses
  /\ handle \in Workers \cup {NoWorker}
  /\ joined \in BOOLEAN /\ alive \in BOOLEAN
  /\ killed \in BOOLEAN /\ signalled \in BOOLEAN /\ completed \in BOOLEAN
  /\ call \in {"idle", "starting", "joining", "timedJoining", "killing", "marking"}
  /\ place \in [Workers -> {"unborn", "begin", "running", "returning", "exiting", "ended"}]
  /\ cancelled \subseteq Workers
  /\ released \in Nat

\* cfl_thread_new
Init ==
  /\ status = "created" /\ handle = NoWorker /\ joined = FALSE
  /\ alive = TRUE
  /\ call = "idle"
  /\ place = [w \in Workers |-> "unborn"]
  /\ cancelled = {} /\ released = 0
  /\ killed = FALSE /\ signalled = FALSE /\ completed = FALSE

-----------------------------------------------------------------------------
(* The thread: startFunction                                               *)

Move(w, from, to) == place[w] = from /\ place' = [place EXCEPT ![w] = to]

Begin(w) ==
  /\ Move(w, "begin", "running")
  /\ status' = "running"
  /\ UNCHANGED <<owner, cancelled, signalled, completed>>

\* The function calls cfl_thread_signalError.
SignalError(w) ==
  /\ place[w] = "running"
  /\ status' = "error" /\ signalled' = TRUE
  /\ UNCHANGED <<owner, place, cancelled, completed>>

FunctionReturns(w) ==
  /\ Move(w, "running", "returning")
  /\ completed' = TRUE
  /\ UNCHANGED <<status, owner, cancelled, signalled>>

Finish(w) ==
  /\ Move(w, "returning", "exiting")
  /\ status' = "finished"
  /\ UNCHANGED <<owner, cancelled, signalled, completed>>

\* The function reaches a cancellation point.
ActOnCancel(w) ==
  /\ w \in cancelled
  /\ Move(w, "running", "exiting")
  /\ UNCHANGED <<status, owner, cancelled, signalled, completed>>

\* freeOwnData, the destructor of the thread's own pointer to the object, reads
\* manualAllocation, however the thread ends.
Destruct(w) ==
  /\ Move(w, "exiting", "ended")
  /\ UNCHANGED <<status, owner, cancelled, signalled, completed>>

-----------------------------------------------------------------------------
(* The owner                                                               *)

\* The owner, who is at the first place, goes to the second.
Owner(from, to) == alive /\ call = from /\ call' = to

Start ==
  /\ handle = NoWorker
  /\ Owner("idle", IF status = "created" THEN "starting" ELSE "idle")
  /\ UNCHANGED <<status, handle, joined, alive, killed, released, worker, cancelled>>

Create ==
  /\ Owner("starting", "idle")
  /\ \E w \in Workers : Move(w, "unborn", "begin") /\ handle' = w
  /\ UNCHANGED <<status, joined, alive, killed, released, signalled, completed, cancelled>>

\* pthread_create has no more threads to give.
CreateFails ==
  /\ Owner("starting", "idle")
  /\ UNCHANGED <<status, handle, joined, alive, killed, released, worker, cancelled>>

\* cfl_thread_wait and cfl_thread_waitTimeout
Wait ==
  /\ handle # NoWorker /\ ~joined
  /\ \E to \in {"joining", "timedJoining"} : Owner("idle", to)
  /\ UNCHANGED <<status, handle, joined, alive, killed, released, worker, cancelled>>

\* pthread_join and pthread_timedjoin_np let go of a thread that has ended.
Join ==
  /\ \E from \in {"joining", "timedJoining"} : Owner(from, "idle")
  /\ place[handle] = "ended"
  /\ joined' = TRUE /\ released' = released + 1
  /\ UNCHANGED <<status, handle, alive, killed, worker, cancelled>>

\* A bug: joined, whatever pthread_timedjoin_np answers.
JoinTimesOutJoined ==
  /\ Owner("timedJoining", "idle")
  /\ joined' = TRUE
  /\ UNCHANGED <<status, handle, alive, killed, released, worker, cancelled>>

JoinTimesOut ==
  /\ Owner("timedJoining", "idle")
  /\ UNCHANGED <<status, handle, joined, alive, killed, released, worker, cancelled>>

Kill ==
  /\ ~joined
  /\ Owner("idle", IF status = "running" THEN "killing" ELSE "idle")
  /\ UNCHANGED <<status, handle, joined, alive, killed, released, worker, cancelled>>

\* pthread_cancel of a thread that was not joined succeeds, even if it has ended.
Cancel ==
  /\ Owner("killing", "marking")
  /\ cancelled' = cancelled \cup {handle}
  /\ UNCHANGED <<status, handle, joined, alive, killed, released, worker>>

\* A bug: the status is left as it was.
MarkNothing ==
  /\ Owner("marking", "idle")
  /\ killed' = TRUE
  /\ UNCHANGED <<status, handle, joined, alive, released, worker, cancelled>>

Mark ==
  /\ Owner("marking", "idle")
  /\ status' = "killed" /\ killed' = TRUE
  /\ UNCHANGED <<handle, joined, alive, released, worker, cancelled>>

\* "The thread must have completed (joined or killed) before freeing."
Completed == joined \/ killed

\* cfl_thread_free: a thread that was not joined is detached, and goes on.
Free ==
  /\ Completed
  /\ Owner("idle", "idle")
  /\ alive' = FALSE
  /\ \/ joined /\ UNCHANGED released
     \/ ~joined /\ released' = released + 1
  /\ UNCHANGED <<status, handle, joined, killed, worker, cancelled>>

\* The owner takes another object once nothing is left of this one.
New ==
  /\ ~alive /\ \A w \in Workers : place[w] \in {"unborn", "ended"}
  /\ status' = "created" /\ handle' = NoWorker /\ joined' = FALSE
  /\ alive' = TRUE
  /\ place' = [w \in Workers |-> "unborn"]
  /\ cancelled' = {} /\ released' = 0
  /\ killed' = FALSE /\ signalled' = FALSE /\ completed' = FALSE
  /\ UNCHANGED call

-----------------------------------------------------------------------------

\* The steps of a thread whose function returns.
Run(w) == Begin(w) \/ FunctionReturns(w) \/ Finish(w) \/ Destruct(w)

Next ==
  \/ \E w \in Workers : Run(w) \/ SignalError(w) \/ ActOnCancel(w)
  \/ Start \/ Create \/ CreateFails \/ Wait \/ Join \/ JoinTimesOut
  \/ Kill \/ Cancel \/ Mark \/ Free \/ New

Spec == Init /\ [][Next]_vars

-----------------------------------------------------------------------------
(* Properties                                                              *)

\* A thread never touches the object once its owner has joined it and called
\* cfl_thread_free: neither to begin, nor to write its last status, nor from the
\* destructor.  A kill without a join, with which cfl_thread.h:164 is content
\* too, gives no such promise, and none is stated for it.
NoTouchAfterFree ==
  ~alive /\ joined
    => \A w \in Workers : place[w] \notin {"begin", "running", "returning", "exiting"}

\* The system is told exactly once to let go of a thread, by the join or, for a
\* thread that was not joined, by the detach of cfl_thread_free: a wait that
\* timed out has not joined it (lines 303, 382, 412).
ReleasedOnce == released <= 1 /\ (~alive => released = 1)

\* The thread has ended and its owner is not in the middle of a call.
Over == alive /\ call = "idle" /\ handle # NoWorker /\ place[handle] = "ended"

\* Whatever races there were between the thread and its killer, the status of
\* a thread that is over says something that happened: never created or running,
\* finished only if its function returned, killed only if a kill answered
\* CFL_TRUE, error only if one was signalled.  Which of them is left, if several
\* happened, is not said here (see ErrorReported).
SettledStatus ==
  Over =>
    \/ status = "finished" /\ completed
    \/ status = "killed" /\ killed
    \/ status = "error" /\ signalled

\* cfl_thread.h:51 and 55: finished is a thread that has finished normally, error
\* one that encountered an error; cfl_thread_signalError (247) sets the latter.
\* The code does not keep it: startFunction writes CFL_THREAD_FINISHED over the
\* error when the function returns.
ErrorReported == Over /\ signalled /\ ~killed => status = "error"
===============================================================================
