------------------------------ MODULE Sequence ------------------------------
(***************************************************************************)
(* What a list promises: a sequence, changed only by the call that was     *)
(* made and only as it says, where a gap may hold any item.                *)
(***************************************************************************)
EXTENDS Integers, SequencesExt

CONSTANT Null

VARIABLES items,
          ret,     \* the last call: op, at (an index from 0), item, answer
          bare     \* is it an array that has no block yet?
vars == <<items, ret, bare>>

Init == ret.op = "new"

Add == ret'.op = "add" /\ items' = Append(items, ret'.item)

Insert ==
  /\ ret'.op = "insert"
  /\ IF ret'.at < Len(items) THEN items' = InsertAt(items, ret'.at + 1, ret'.item)
     ELSE /\ Len(items') = ret'.at + 1 /\ Last(items') = ret'.item
          /\ SubSeq(items', 1, Len(items)) = items

Delete ==
  /\ ret'.op = "delete"
  /\ IF ret'.at < Len(items) THEN /\ items' = RemoveAt(items, ret'.at + 1)
                                  /\ ret'.answer = items[ret'.at + 1]
     ELSE items' = items /\ ret'.answer = Null

DeleteItem ==
  /\ ret'.op = "deleteItem"
  /\ items' = RemoveFirst(items, ret'.item)

Set == ret'.op = "set"
       /\ items' = [i \in DOMAIN items |-> IF i = ret'.at + 1 THEN ret'.item ELSE items[i]]

Get == /\ ret'.op = "get" /\ items' = items
       /\ ret'.answer = IF ret'.at < Len(items) THEN items[ret'.at + 1] ELSE Null

\* New places are Null.  An array without a block gets the block and keeps its
\* length (cfl_array.c:192-194), where cfl_array.h:128-131 promises the length:
\* that case is left open.
SetLength ==
  /\ ret'.op = "length"
  /\ \/ /\ Len(items') = ret'.at
        /\ \A i \in DOMAIN items' : items'[i] = IF i <= Len(items) THEN items[i] ELSE Null
     \/ bare /\ items' = items

Same == ret'.op = "same" /\ items' = items

\* What has items has a block.
Next ==
  /\ bare' => items' = <<>>
  /\ Add \/ Insert \/ Delete \/ DeleteItem \/ Set \/ Get \/ SetLength \/ Same
Spec == Init /\ [][Next]_vars
=============================================================================
