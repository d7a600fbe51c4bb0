----------------------------- MODULE MCSyncQueue -----------------------------
(* Instances of SyncQueue for model checking. *)
EXTENDS SyncQueue, TLC

\* Threads and values are interchangeable.  Only for runs without liveness.
Symmetry == Permutations(Threads) \cup Permutations(Values)

\* Timeouts given to a timed call: for ever, and a budget that waitEmpty can
\* use up in one, two or more waits.
SomeTimeouts == {0, 2}
NoTimeouts == {0}

\* A work queue: producers, consumers and a shutdown, without drain,
\* the one operation that frees a slot and wakes nobody.
WorkQueueOps == {"put", "tryPut", "get", "tryGet", "waitEmpty", "cancel"}
=============================================================================
