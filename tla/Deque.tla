-------------------------------- MODULE Deque --------------------------------
(***************************************************************************)
(* What cfl_llist promises: a sequence of items with both ends open.       *)
(***************************************************************************)
EXTENDS Integers, Sequences

CONSTANTS Items,  \* what clients store
          None    \* NULL: the answer of an empty list

VARIABLES items,  \* first to last
          result  \* what the last operation returned

Init == items = <<>> /\ result = None

AddLast == \E x \in Items : items' = Append(items, x) /\ result' = None
AddFirst == \E x \in Items : items' = <<x>> \o items /\ result' = None

RemoveLast ==
  /\ items # <<>>
  /\ items' = SubSeq(items, 1, Len(items) - 1)
  /\ result' = items[Len(items)]

RemoveFirst ==
  /\ items # <<>>
  /\ items' = Tail(items)
  /\ result' = Head(items)

\* Looking at either end, and removing from an empty list.
Look ==
  /\ result' \in IF items = <<>> THEN {None} ELSE {Head(items), items[Len(items)]}
  /\ UNCHANGED items

Next == AddLast \/ AddFirst \/ RemoveLast \/ RemoveFirst \/ Look

Spec == Init /\ [][Next]_<<items, result>>
=============================================================================
