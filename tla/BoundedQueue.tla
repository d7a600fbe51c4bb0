----------------------------- MODULE BoundedQueue -----------------------------
(***************************************************************************)
(* What cfl_sync_queue promises to its callers: a FIFO of at most Size     *)
(* items shared by Threads, in which every call takes effect in one step   *)
(* between its invocation and its return.  Rings, locks and condition      *)
(* variables do not appear here; SyncQueue implements this module.         *)
(*                                                                         *)
(* Two answers on which cfl_sync_queue.h and cfl_sync_queue.c disagree are *)
(* left open here, so implementing this module settles neither.  A put on  *)
(* a canceled queue drops its item; the header has it answer CFL_FALSE     *)
(* (134, 152), the code CFL_TRUE.  A drain removes all items in the header *)
(* (170), one in the code and in the repository's own example; here it     *)
(* takes one or more from the head and returns the last it took.           *)
(*                                                                         *)
(* A canceled get answers "not timed out" with no item.                    *)
(***************************************************************************)
EXTENDS Integers, Sequences

CONSTANTS Threads,   \* the client threads
          Values,    \* what clients put
          NoItem,    \* the zeroed item a call returns when it has none
          Size       \* capacity of the queue

VARIABLES queue,     \* the items, oldest first
          canceled,  \* cfl_sync_queue_cancel has taken effect
          call,      \* call[t]: the call t has in progress, or Idle
          ret        \* ret[t]: what t's last call returned, until the next

absVars == <<queue, canceled, call, ret>>

Idle == [op |-> "none", item |-> NoItem, timed |-> FALSE]

PutOps  == {"put", "tryPut"}
WaitOps == {"put", "get", "waitNotEmpty", "waitEmpty"}
Operations     == WaitOps \cup {"tryPut", "tryGet", "drain", "cancel",
                         "isEmpty", "isFull", "canceled"}

Calls ==
  {c \in [op : Operations, item : Values \cup {NoItem}, timed : BOOLEAN] :
     /\ (c.op \in PutOps) <=> (c.item # NoItem)
     /\ c.timed => c.op \in WaitOps}

Result(item, flag, count) == [item |-> item, flag |-> flag, count |-> count]
Nothing == Result(NoItem, "unset", 0)
Flag(b) == IF b THEN "true" ELSE "false"

Init ==
  /\ queue = <<>>
  /\ canceled = FALSE
  /\ call = [t \in Threads |-> Idle]
  /\ ret = [t \in Threads |-> Nothing]

Invoke(t) ==
  /\ call[t] = Idle
  /\ \E c \in Calls : call' = [call EXCEPT ![t] = c]
  /\ ret' = [ret EXCEPT ![t] = Nothing]
  /\ UNCHANGED <<queue, canceled>>

\* The call of t returns r.
Answer(t, r) ==
  /\ call' = [call EXCEPT ![t] = Idle]
  /\ ret' = [ret EXCEPT ![t] = r]

Full == Len(queue) = Size
Empty == queue = <<>>

Store(t) ==
  /\ call[t].op \in PutOps
  /\ ~Full /\ ~canceled
  /\ queue' = Append(queue, call[t].item)
  /\ Answer(t, Result(NoItem, "true", 0))
  /\ UNCHANGED canceled

Take(t) ==
  /\ call[t].op \in {"get", "tryGet"}
  /\ ~Empty /\ ~canceled
  /\ queue' = Tail(queue)
  /\ Answer(t, Result(Head(queue), Flag(call[t].op = "tryGet"), 0))
  /\ UNCHANGED canceled

\* A canceled queue can be drained.
Drain(t) ==
  /\ call[t].op = "drain"
  /\ \E n \in 1 .. Len(queue) :
       /\ queue' = SubSeq(queue, n + 1, Len(queue))
       /\ Answer(t, Result(queue[n], "false", 0))
  /\ UNCHANGED canceled

Cancel(t) ==
  /\ call[t].op = "cancel"
  /\ canceled' = TRUE
  /\ Answer(t, Nothing)
  /\ UNCHANGED queue

\* The calls that leave the queue as it is, each with the state that lets it
\* return: an untimed blocking call never returns empty-handed from a queue
\* that was not canceled.
NoEffect(t) ==
  /\ \E f \in {"true", "false", "unset"} : \E n \in {0, Len(queue)} :
       LET timed == call[t].timed IN
       /\ \/ call[t].op = "put" /\ canceled /\ f \in {"true", "false"} /\ n = 0
          \/ call[t].op = "put" /\ timed /\ f = "false" /\ n = 0
          \/ call[t].op = "tryPut" /\ (Full \/ canceled) /\ f = "false" /\ n = 0
          \/ call[t].op = "get" /\ canceled /\ f = "false" /\ n = 0
          \/ call[t].op = "get" /\ timed /\ f \in {"true", "unset"} /\ n = 0
          \/ call[t].op = "tryGet" /\ (Empty \/ canceled) /\ f = "false" /\ n = 0
          \/ call[t].op = "drain" /\ Empty /\ f = "true" /\ n = 0
          \/ call[t].op = "waitNotEmpty" /\ (~Empty \/ canceled) /\ f = "false" /\ n = Len(queue)
          \/ call[t].op = "waitNotEmpty" /\ timed /\ f = "true" /\ n = Len(queue)
          \/ call[t].op = "waitNotEmpty" /\ timed /\ f = "false" /\ n = 0
          \/ call[t].op = "waitEmpty" /\ (Empty \/ canceled) /\ f = "false" /\ n = Len(queue)
          \/ call[t].op = "waitEmpty" /\ timed /\ f # "unset" /\ n = Len(queue)
          \/ call[t].op = "isEmpty" /\ f = Flag(Empty) /\ n = 0
          \/ call[t].op = "isFull" /\ f = Flag(Full) /\ n = 0
          \/ call[t].op = "canceled" /\ f = Flag(canceled) /\ n = 0
       /\ Answer(t, Result(NoItem, f, n))
  /\ UNCHANGED <<queue, canceled>>

Next ==
  \E t \in Threads :
    Invoke(t) \/ Store(t) \/ Take(t) \/ Drain(t) \/ Cancel(t) \/ NoEffect(t)

Spec == Init /\ [][Next]_absVars
=============================================================================
