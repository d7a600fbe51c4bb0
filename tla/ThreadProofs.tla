----------------------------- MODULE ThreadProofs -----------------------------
(***************************************************************************)
(* The status of a thread that has ended, and what is left of it after     *)
(* cfl_thread_free, for any number of threads the system may create.       *)
(*                                                                         *)
(* The status says little by itself: the thread and its killer write it    *)
(* without a lock.  IInv follows the one thread the object stands for.     *)
(* The part that carries the argument is Ending: a thread that ends before *)
(* its function returned was condemned, and a condemned thread can do no   *)
(* worse to the status than signal an error.                               *)
(***************************************************************************)
EXTENDS MCThreads, TLAPS

\* The object stands for no thread, and nothing has happened.
Fresh ==
  handle = NoWorker =>
    cancelled = {} /\ ~completed /\ ~killed /\ ~joined /\ status \in {"created"}

\* Only the thread of the handle was ever born.
OneWorker == \A w \in Workers : (place[w] # "unborn") <=> (w = handle)

Begun == handle # NoWorker /\ place[handle] # "begin"

\* What the owner waits for, kills or has joined is there.
CallsFit ==
  /\ call = "starting" => handle = NoWorker
  /\ call \in {"joining", "timedJoining"} => handle # NoWorker /\ ~joined
  /\ call \in {"killing", "marking"} \/ status = "running" \/ cancelled # {} => Begun
  /\ joined => handle # NoWorker /\ place[handle] = "ended"

Condemned == call = "marking" \/ (killed /\ status \in {"killed", "error"})

Ending ==
  /\ cancelled \subseteq {handle}
  /\ handle # NoWorker =>
       /\ place[handle] = "begin" => ~completed
       /\ place[handle] = "running" => ~completed /\ (cancelled # {} => Condemned)
       /\ place[handle] = "returning" => completed
       /\ place[handle] \in {"exiting", "ended"} =>
            IF completed THEN status \in {"finished", "killed"} ELSE Condemned

\* A status says something that happened.
Told ==
  /\ status = "error" => signalled
  /\ status = "killed" => killed
  /\ status = "finished" => completed

\* The object is freed between two calls; the system lets go of the thread with
\* the join or with the free.
Freed ==
  /\ ~alive => call = "idle"
  /\ joined \/ ~alive => released = 1
  /\ ~joined /\ alive => released = 0

IInv == P!TypeOK /\ Fresh /\ OneWorker /\ CallsFit /\ Ending /\ Told /\ Freed

LEMMA InitInv == P!Init => IInv
<1> SUFFICES ASSUME P!Init PROVE IInv
  OBVIOUS
<1>1. P!TypeOK
  BY DEF P!Init, P!TypeOK, P!Statuses
<1>2. Fresh /\ OneWorker /\ CallsFit
  BY NoWorkerAssumption DEF P!Init, Fresh, OneWorker, CallsFit, Begun
<1>3. Ending /\ Told
  BY NoWorkerAssumption DEF P!Init, Ending, Condemned, Told
<1>4. Freed
  BY DEF P!Init, Freed
<1> QED
  BY <1>1, <1>2, <1>3, <1>4 DEF IInv

-----------------------------------------------------------------------------
(* Types                                                                   *)

LEMMA TypeStep == ASSUME IInv, P!Next PROVE P!TypeOK'
<1> USE DEF IInv, P!TypeOK, P!Statuses, P!owner, P!worker, P!Move, P!Owner
<1>1. ASSUME NEW w \in Workers, P!Run(w) \/ P!SignalError(w) \/ P!ActOnCancel(w)
      PROVE  P!TypeOK'
  <2>1. CASE P!Begin(w) \/ P!SignalError(w)
    BY <2>1 DEF P!Begin, P!SignalError
  <2>2. CASE P!FunctionReturns(w) \/ P!Finish(w)
    BY <2>2 DEF P!FunctionReturns, P!Finish
  <2>3. CASE P!ActOnCancel(w) \/ P!Destruct(w)
    BY <2>3 DEF P!ActOnCancel, P!Destruct
  <2> QED
    BY <1>1, <2>1, <2>2, <2>3 DEF P!Run
<1>2. CASE P!Start
  BY <1>2 DEF P!Start
<1>3. CASE P!Create
  BY <1>3 DEF P!Create
<1>4. CASE P!CreateFails
  BY <1>4 DEF P!CreateFails
<1>5. CASE P!Wait
  BY <1>5 DEF P!Wait
<1>6. CASE P!Join
  BY <1>6 DEF P!Join
<1>7. CASE P!JoinTimesOut
  BY <1>7 DEF P!JoinTimesOut
<1>8. CASE P!Kill
  BY <1>8 DEF P!Kill
<1>9. CASE P!Cancel
  BY <1>9 DEF P!Cancel, CallsFit, Begun
<1>10. CASE P!Mark
  BY <1>10 DEF P!Mark
<1>11. CASE P!Free
  <2>1. released' \in Nat
    BY <1>11 DEF P!Free
  <2> QED
    BY <1>11, <2>1 DEF P!Free
<1>12. CASE P!New
  BY <1>12 DEF P!New
<1> QED
  BY <1>1, <1>2, <1>3, <1>4, <1>5, <1>6, <1>7, <1>8, <1>9, <1>10, <1>11, <1>12 DEF P!Next
-----------------------------------------------------------------------------
(* The steps                                                               *)

Rest == Fresh /\ OneWorker /\ CallsFit /\ Ending /\ Told /\ Freed

\* The thread: each of its steps is a step of the handle's thread.
LEMMA WorkerStep ==
  ASSUME IInv, NEW w \in Workers, P!Run(w) \/ P!SignalError(w) \/ P!ActOnCancel(w)
  PROVE  Rest'
<1> USE NoWorkerAssumption
    DEF IInv, P!TypeOK, P!Statuses, Rest, Fresh, OneWorker, CallsFit, Begun, Ending, Condemned, Told, Freed,
        P!owner, P!worker, P!Move
<1>0. w = handle /\ handle # NoWorker
  BY DEF P!Run, P!Begin, P!SignalError, P!FunctionReturns, P!Finish, P!ActOnCancel, P!Destruct
<1>1. CASE P!Begin(w)
  BY <1>0, <1>1 DEF P!Begin
<1>2. CASE P!SignalError(w)
  BY <1>0, <1>2 DEF P!SignalError
<1>3. CASE P!FunctionReturns(w)
  BY <1>0, <1>3 DEF P!FunctionReturns
<1>4. CASE P!Finish(w)
  BY <1>0, <1>4 DEF P!Finish
<1>5. CASE P!ActOnCancel(w)
  BY <1>0, <1>5 DEF P!ActOnCancel
<1>6. CASE P!Destruct(w)
  BY <1>0, <1>6 DEF P!Destruct
<1> QED
  BY <1>1, <1>2, <1>3, <1>4, <1>5, <1>6 DEF P!Run

\* The owner, and the next object.
LEMMA OwnerStep ==
  ASSUME IInv,
         \/ P!Start \/ P!Create \/ P!CreateFails \/ P!Wait \/ P!Join \/ P!JoinTimesOut
         \/ P!Kill \/ P!Cancel \/ P!Mark \/ P!Free \/ P!New
  PROVE  Rest'
<1> USE NoWorkerAssumption
    DEF IInv, P!TypeOK, P!Statuses, Rest, Fresh, OneWorker, CallsFit, Begun, Ending, Condemned, Told, Freed,
        P!owner, P!worker, P!Owner
<1>1. CASE P!Start \/ P!CreateFails
  BY <1>1 DEF P!Start, P!CreateFails
<1>2. CASE P!Create
  BY <1>2 DEF P!Create, P!Move
<1>3. CASE P!Wait \/ P!JoinTimesOut
  BY <1>3 DEF P!Wait, P!JoinTimesOut
<1>4. CASE P!Join
  BY <1>4 DEF P!Join
<1>5. CASE P!Kill
  BY <1>5 DEF P!Kill
<1>6. CASE P!Cancel
  BY <1>6 DEF P!Cancel
<1>7. CASE P!Mark
  BY <1>7 DEF P!Mark
<1>8. CASE P!Free
  BY <1>8 DEF P!Free, P!Completed
<1>9. CASE P!New
  BY <1>9 DEF P!New
<1> QED
  BY <1>1, <1>2, <1>3, <1>4, <1>5, <1>6, <1>7, <1>8, <1>9

LEMMA Invariant == OneSpec => []IInv
<1>1. ASSUME IInv, [P!Next]_P!vars PROVE IInv'
  <2>1. CASE P!Next
    <3>1. P!TypeOK'
      BY <1>1, <2>1, TypeStep
    <3>2. ASSUME NEW w \in Workers, P!Run(w) \/ P!SignalError(w) \/ P!ActOnCancel(w)
          PROVE  Rest'
      BY <1>1, <3>2, WorkerStep
    <3>3. Rest'
      BY <1>1, <2>1, <3>2, OwnerStep DEF P!Next
    <3> QED
      BY <3>1, <3>3 DEF IInv, Rest
  <2>2. CASE UNCHANGED P!vars
    BY <1>1, <2>2 DEF P!vars, P!owner, P!worker, IInv, P!TypeOK, Fresh, OneWorker, CallsFit, Begun, Ending,
                Condemned, Told, Freed
  <2> QED
    BY <1>1, <2>1, <2>2
<1>2. OneInit => IInv
  BY InitInv DEF OneInit
<1>3. [OneNext]_allVars => [P!Next]_P!vars
  BY DEF OneNext, EventRests, allVars, objectVars, P!vars, P!owner, P!worker
<1> QED
  BY <1>1, <1>2, <1>3, PTL DEF OneSpec

-----------------------------------------------------------------------------
(* The theorems                                                            *)

\* The fields of the object and the places of owner and threads stay well
\* typed (cfl_thread.c).
THEOREM TypeCorrect == OneSpec => []P!TypeOK
<1>1. IInv => P!TypeOK
  BY DEF IInv
<1> QED
  BY <1>1, Invariant, PTL

\* The races between startFunction, cfl_thread_signalError and cfl_thread_kill
\* over status leave one behind that says what happened: an ended thread is never
\* created or running, finished only if its function returned, killed only if a
\* kill said so, in error only if it signalled one.
THEOREM StatusIsSettled == OneSpec => []SettledStatus
<1>1. IInv => SettledStatus
  BY DEF IInv, P!TypeOK, P!Statuses, Ending, Condemned, Told, SettledStatus, P!SettledStatus, P!Over
<1> QED
  BY <1>1, Invariant, PTL

\* An owner who frees the object after he has joined the thread frees nothing the
\* thread will touch (cfl_thread_free, freeOwnData).
THEOREM FreedAlone == OneSpec => []NoTouchAfterFree
<1>1. IInv => NoTouchAfterFree
  BY NoWorkerAssumption
  DEF IInv, P!TypeOK, OneWorker, CallsFit, NoTouchAfterFree, P!NoTouchAfterFree
<1> QED
  BY <1>1, Invariant, PTL

\* Whatever waits timed out before, the system is told once to let go of a thread
\* whose object is freed, joined or killed, and never twice (cfl_thread_wait,
\* cfl_thread_waitTimeout, cfl_thread_free).
THEOREM LetGoOnce == OneSpec => []ReleasedOnce
<1>1. IInv => ReleasedOnce
  BY DEF IInv, Freed, ReleasedOnce, P!ReleasedOnce
<1> QED
  BY <1>1, Invariant, PTL
===============================================================================
