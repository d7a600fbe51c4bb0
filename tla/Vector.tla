------------------------------- MODULE Vector -------------------------------
(***************************************************************************)
(* cfl_array.c and cfl_list.c: a block of memory that grows, and how much  *)
(* of it is in use.  An array holds the items, a list pointers to them.    *)
(* The iterator of an array (cfl_iterator.c calls it through its class) is *)
(* an index that knows nothing of what happens to the array.  Lengths are  *)
(* small: the products with the item size stay within CFL_UINT32.          *)
(***************************************************************************)
EXTENDS Integers, Sequences

CONSTANTS Items,
          Null,           \* the zero that fills new places, and the answer "nothing"
          Junk,           \* a place nobody has written
          Capacities,     \* the capacities clients ask for
          MaxLength       \* bound on the length

VARIABLES kind,      \* "array" or "list"
          vec,       \* the block, from 0, and the number of items in it
          ret,       \* the last call and its answer
          index,     \* of the iterator: how many items it has passed
          steady,    \* history: has the array stayed as it was since the walk began,
          seen       \* and the items the walk has met

vars == <<kind, vec, ret, index, steady, seen>>

-----------------------------------------------------------------------------
(* The block                                                               *)

Vec(mem, capacity, length) == [mem |-> mem, capacity |-> capacity, length |-> length]
Fresh(capacity, fill, length) == Vec([i \in 0 .. capacity - 1 |-> fill], capacity, length)

Grown(v, capacity) ==
  Vec([i \in 0 .. capacity - 1 |-> IF i < v.capacity THEN v.mem[i] ELSE Junk], capacity, v.length)

\* A bug: the block grows only when the length has passed its end.
RoomLate(v) == IF v.length <= v.capacity THEN v ELSE Grown(v, v.capacity \div 2 + 1 + v.length)

\* Room for one more.
Room(v) == IF v.length < v.capacity THEN v
           ELSE Grown(v, IF v.capacity > 0 THEN v.capacity \div 2 + 1 + v.length ELSE 12)

Written(v, i, x, length) == Vec([v.mem EXCEPT ![i] = x], v.capacity, length)

\* cfl_array_add, where the caller then fills the place, and cfl_list_add.
Added(v, x) == LET r == Room(v) IN Written(r, v.length, x, v.length + 1)

\* Beyond the length the places in between keep what the block held.
Inserted(v, i, x) ==
  LET length == IF i < v.length THEN v.length ELSE i
      r == IF length < v.capacity THEN v
           ELSE Grown(v, (IF v.capacity > 0 THEN v.capacity ELSE length) \div 2 + 1 + length)
      moved == [j \in DOMAIN r.mem |-> IF j \in i + 1 .. v.length THEN r.mem[j - 1] ELSE r.mem[j]]
  IN  Written(Vec(moved, r.capacity, 0), i, x, length + 1)

\* A bug: the items behind move one place too few.
DeletedShort(v, i) ==
  Vec([j \in DOMAIN v.mem |-> IF j \in i .. v.length - 3 THEN v.mem[j + 1] ELSE v.mem[j]],
      v.capacity, v.length - 1)

\* The items behind move down; a list also clears the place that is free.
Deleted(v, i) ==
  Vec([j \in DOMAIN v.mem |->
         IF j \in i .. v.length - 2 THEN v.mem[j + 1]
         ELSE IF j = v.length - 1 /\ kind = "list" THEN Null ELSE v.mem[j]],
      v.capacity, v.length - 1)

\* New places are filled with zeros.
Lengthened(v, n) ==
  LET r == IF n > v.capacity THEN Grown(v, n \div 2 + 1 + n) ELSE v
  IN  Vec([i \in DOMAIN r.mem |-> IF i \in v.length .. n - 1 THEN Null ELSE r.mem[i]],
          r.capacity, n)

At(v, i) == IF i \in 0 .. v.length - 1 THEN v.mem[i] ELSE Null

-----------------------------------------------------------------------------
(* Operations                                                              *)

Ret(op, at, item, answer) == [op |-> op, at |-> at, item |-> item, answer |-> answer]

\* new, or newLen, which fills a list with NULL and leaves an array as it is.
Init ==
  /\ kind \in {"array", "list"}
  /\ \E c \in Capacities, length \in Capacities :
        /\ length \in {0, c}
        /\ vec = Fresh(c, IF kind = "list" /\ length > 0 THEN Null ELSE Junk, length)
  /\ ret = Ret("new", 0, Null, Null)
  /\ index = 0 /\ steady = TRUE /\ seen = <<>>

\* The walk that was under way no longer tells anything of the array.
Changed(v, r) ==
  /\ vec' = v /\ ret' = r
  /\ steady' = FALSE /\ seen' = <<>>
  /\ UNCHANGED <<kind, index>>

Add(x) == vec.length < MaxLength /\ Changed(Added(vec, x), Ret("add", 0, x, Null))

Insert(i, x) == /\ kind = "array" /\ vec.length < MaxLength
                /\ Changed(Inserted(vec, i, x), Ret("insert", i, x, Null))

\* cfl_array_del, cfl_list_del and remove, which answers the item.
Remove(i) ==
  Changed(IF i < vec.length THEN Deleted(vec, i) ELSE vec, Ret("delete", i, Null, At(vec, i)))

\* The index of the last item of an empty list wraps, and is refused.
RemoveLast == kind = "list" /\ IF vec.length > 0 THEN Remove(vec.length - 1) ELSE Remove(MaxLength)

\* cfl_list_delItem.
RemoveItem(x) ==
  /\ kind = "list"
  /\ LET at == {i \in 0 .. vec.length - 1 : vec.mem[i] = x}
     IN  Changed(IF at = {} THEN vec ELSE Deleted(vec, CHOOSE i \in at : \A j \in at : i <= j),
                 Ret("deleteItem", 0, x, Null))

Set(i, x) ==
  Changed(IF i < vec.length THEN Written(vec, i, x, vec.length) ELSE vec, Ret("set", i, x, Null))

Get(i) == /\ ret' = Ret("get", i, Null, At(vec, i))
          /\ UNCHANGED <<kind, vec, index, steady, seen>>

Clear == Changed(Vec(vec.mem, vec.capacity, 0), Ret("length", 0, Null, Null))

\* An array without a block gets one, and keeps its length.
WithLength(v, n) ==
  IF kind = "array" /\ v.capacity = 0 THEN Fresh(n \div 2 + 1 + n, Junk, v.length)
  ELSE IF n > v.length THEN Lengthened(v, n) ELSE Vec(v.mem, v.capacity, n)

SetLength(n) == Changed(WithLength(vec, n), Ret("length", n, Null, Null))

\* The client goes on with the clone, which has just the room it needs.
Clone ==
  /\ vec' = Vec([i \in 0 .. vec.length - 1 |-> vec.mem[i]], vec.length, vec.length)
  /\ ret' = Ret("same", 0, Null, Null)
  /\ UNCHANGED <<kind, index, steady, seen>>

-----------------------------------------------------------------------------
(* The iterator of an array                                                *)

Move(to, answer, met, begins) ==
  /\ kind = "array"
  /\ index' = to /\ steady' = (steady \/ begins)
  /\ seen' = IF steady' THEN met ELSE <<>>
  /\ ret' = Ret("same", 0, Null, answer)
  /\ UNCHANGED <<kind, vec>>

Step(to, answer, met) == Move(to, answer, met, FALSE)
NewIterator == Move(0, Null, <<>>, TRUE)

\* The difference is unsigned: an index beyond the end has a next as well.
HasNext == vec.length # index

IteratorNext ==
  IF index < vec.length THEN Step(index + 1, At(vec, index), Append(seen, At(vec, index)))
  ELSE Step(index, Null, seen)

\* previous goes back one and answers the item before, as value does.
IteratorPrevious ==
  LET to == IF index > 0 THEN index - 1 ELSE 0
  IN  Step(to, At(vec, to - 1), SubSeq(seen, 1, Len(seen) - 1))

IteratorFirst ==
  IF vec.length > 0 THEN Move(1, Null, <<vec.mem[0]>>, TRUE) ELSE Move(0, Null, <<>>, TRUE)

IteratorLast == Move(vec.length, Null, [i \in 1 .. vec.length |-> vec.mem[i - 1]], TRUE)

\* The index stays, so the item that took the place will not be met.
IteratorRemove == kind = "array" /\ index > 0 /\ Remove(index - 1)

Next ==
  \/ \E x \in Items : Add(x) \/ RemoveItem(x)
  \/ \E i \in 0 .. MaxLength - 1 :
        \/ Remove(i) \/ Get(i)
        \/ \E x \in Items : Insert(i, x)
        \/ \E x \in Items \cup {Null} : Set(i, x)
  \/ \E n \in 0 .. MaxLength : SetLength(n)
  \/ RemoveLast \/ Clear \/ Clone
  \/ NewIterator \/ IteratorNext \/ IteratorPrevious \/ IteratorFirst \/ IteratorLast \/ IteratorRemove

Spec == Init /\ [][Next]_vars

-----------------------------------------------------------------------------
(* Properties                                                              *)

Contents == [i \in 1 .. vec.length |-> vec.mem[i - 1]]

\* Whatever way the length was reached (add, insert, setLength, clone, each of
\* which computes its own capacity), the items in use lie in the block.
InsideBlock == vec.length <= vec.capacity

Promise == INSTANCE Sequence WITH items <- Contents, bare <- kind = "array" /\ vec.capacity = 0

\* The shifts of insert, del and remove, the growth and the zero fill of
\* setLength make a sequence: nothing that was deleted comes back, but in the
\* places an insert beyond the end skips.  Whether the first setLength of an array
\* without a block sets its length is left open.
ImplementsSequence == Promise!Spec

\* A walk over an array that stays as it is meets its items in order, back and
\* forth, and hasNext tells whether any are left.
WalkMeetsAll ==
  steady => seen = SubSeq(Contents, 1, index) /\ (HasNext <=> Len(seen) < vec.length)
=============================================================================
