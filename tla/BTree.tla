------------------------------- MODULE BTree --------------------------------
(***************************************************************************)
(* cfl_btree.c: a B-tree of keys with at most Order keys in a node, and    *)
(* its iterators.                                                          *)
(*                                                                         *)
(* The tree is a nested value: a node holds its keys and its children, a   *)
(* leaf has none.  The code frees nodes that the tree still uses, so each  *)
(* node says what happened to it: mem is "freed" once CFL_MEM_FREE was     *)
(* called on it, "corrupt" in a node one of whose children was freed       *)
(* twice.  Keys past a fault mean nothing any more: no step follows.       *)
(* An application may install its own allocator (cfl_mem.c); with one that *)
(* frees nothing, an arena, the tree lives on after a premature free, and  *)
(* the rest of the algorithm can be looked at.                             *)
(***************************************************************************)
EXTENDS Integers, Sequences, SequencesExt, FiniteSets

CONSTANTS Keys,         \* the keys, integers
          NoKey,        \* NULL where a key is expected
          Order,        \* lKeys, the most keys in a node
          LikeWidth,    \* keys with the same k \div LikeWidth are partially equal
          MaxKeys       \* the clients add nothing to a tree of so many keys

VARIABLES tree,   \* the root node, with all below it
          arena,  \* does the allocator keep freed memory as it is?
          astray, \* has a deletion taken a wrong way to a predecessor or a wrong side in a merge?
          ret,    \* the answer of the last add or delete
          it,     \* the iterator, its frames from the oldest to pIt itself
          seen    \* the keys next has returned since it was set to the first key

vars == <<tree, arena, astray, ret, it, seen>>

-----------------------------------------------------------------------------
(* Nodes                                                                   *)

Node(keys, kids) == [keys |-> keys, kids |-> kids, mem |-> "ok"]
IsLeaf(n) == n.kids = <<>>
Gone(n) == [n EXCEPT !.mem = IF arena THEN @ ELSE "freed"]
T == (Order + 1) \div 2

RECURSIVE Faults(_), InOrder(_), Height(_)
Faults(n) == ({n.mem} \ {"ok"}) \cup UNION {Faults(n.kids[i]) : i \in DOMAIN n.kids}

InOrder(n) ==
  IF IsLeaf(n) THEN n.keys
  ELSE FoldLeft(LAMBDA s, i : s \o <<n.keys[i]>> \o InOrder(n.kids[i + 1]),
                InOrder(n.kids[1]), [i \in DOMAIN n.keys |-> i])

Height(n) == IF IsLeaf(n) THEN 1 ELSE 1 + Height(n.kids[1])

\* The first position whose key is not below k, or the last one, and the last
\* position whose key is not above k, or the first.
KeyAscPosition(n, k) ==
  LET find[lo, hi \in 1 .. Order] ==
        IF lo >= hi THEN hi
        ELSE LET mid == (lo + hi) \div 2
             IN  IF k <= n.keys[mid] THEN find[lo, mid] ELSE find[mid + 1, hi]
  IN  IF Len(n.keys) > 1 THEN find[1, Len(n.keys)] ELSE 1

\* The position of k, one of them if it is there twice, or 0.
NodeSearch(n, k) ==
  LET find[lo, hi \in 0 .. Order + 1] ==
        IF lo > hi THEN 0
        ELSE LET mid == lo + (hi - lo) \div 2
             IN  IF n.keys[mid] < k THEN find[mid + 1, hi]
                 ELSE IF n.keys[mid] > k THEN find[lo, mid - 1] ELSE mid
  IN  find[1, Len(n.keys)]

KeyDescPosition(n, k) ==
  LET find[lo, hi \in 1 .. Order] ==
        IF lo >= hi THEN lo
        ELSE LET mid == (lo + hi + 1) \div 2
             IN  IF k >= n.keys[mid] THEN find[mid, hi] ELSE find[lo, mid - 1]
  IN  IF Len(n.keys) > 1 THEN find[1, Len(n.keys)] ELSE 1

\* No iterator, or one that was not set to the first key.
Untracked == [tracked |-> FALSE, keys |-> <<>>]
NoAnswer == [op |-> "none", key |-> NoKey, yes |-> FALSE, got |-> NoKey]

-----------------------------------------------------------------------------
(* Adding                                                                  *)

RECURSIVE ExistsKey(_, _), Search(_, _), Insert(_, _)

\* The child after the position is taken whether k is above or below the key.
ExistsKey(n, k) ==
  /\ n.keys # <<>>
  /\ LET i == KeyAscPosition(n, k)
     IN  \/ n.keys[i] = k
         \/ ~IsLeaf(n) /\ ExistsKey(n.kids[i + 1], k)

Search(n, k) ==
  /\ n.keys # <<>>
  /\ LET i == KeyAscPosition(n, k)
     IN  \/ n.keys[i] = k
         \/ ~IsLeaf(n) /\ Search(n.kids[IF k > n.keys[i] THEN i + 1 ELSE i], k)

\* The i-th child of p is full: its upper half becomes a new node after it and
\* the key between moves up.  The children given to the new node are freed.
\* With an even Order the last key and child go to neither half.
SplitChildNode(p, i) ==
  LET c == p.kids[i]
      kids == IF IsLeaf(c) THEN 0 ELSE T
      new == Node(SubSeq(c.keys, T + 1, 2 * T - 1), [j \in 1 .. kids |-> Gone(c.kids[j + T])])
      old == Node(SubSeq(c.keys, 1, T - 1), [j \in 1 .. kids |-> c.kids[j]])
  IN  [p EXCEPT !.keys = InsertAt(@, i, c.keys[T]),
                !.kids = InsertAt([@ EXCEPT ![i] = old], i + 1, new)]

\* The place after the last key that is not above k.
PlaceFor(n, k) == SelectLastInSeq(n.keys, LAMBDA x : x <= k) + 1

\* A bug: the full child is split after the way down was chosen.
InsertNoStepRight(n, k) ==
  LET i == PlaceFor(n, k)
  IN  IF IsLeaf(n) THEN [n EXCEPT !.keys = InsertAt(@, i, k)]
      ELSE LET m == IF Len(n.kids[i].keys) = Order THEN SplitChildNode(n, i) ELSE n
           IN  [m EXCEPT !.kids[i] = Insert(@, k)]

Insert(n, k) ==
  LET i == PlaceFor(n, k)
  IN  IF IsLeaf(n) THEN [n EXCEPT !.keys = InsertAt(@, i, k)]
      ELSE LET split == Len(n.kids[i].keys) = Order
               m == IF split THEN SplitChildNode(n, i) ELSE n
               c == IF split /\ k > m.keys[i] THEN i + 1 ELSE i
           IN  [m EXCEPT !.kids[c] = Insert(@, k)]

\* A key that is there and that existsKey overlooks is stored once more.
Add(k) ==
  /\ LET new == ~ExistsKey(tree, k)
         root == IF Len(tree.keys) = Order
                 THEN SplitChildNode(Node(<<>>, <<tree>>), 1) ELSE tree
     IN  /\ tree' = IF new THEN Insert(root, k) ELSE tree
         /\ ret' = [op |-> "add", key |-> k, yes |-> new, got |-> NoKey]
  /\ UNCHANGED <<arena, astray, it, seen>>

-----------------------------------------------------------------------------
(* Deleting                                                                *)

\* Key i leaves n with the child on the given side, 0 for left and 1 for
\* right.  What is freed is the child that was last, wherever it is now.
NodeRemove(n, i, side) ==
  LET last == Len(n.kids)
  IN  IF IsLeaf(n) THEN [n EXCEPT !.keys = RemoveAt(@, i)]
      ELSE [keys |-> RemoveAt(n.keys, i),
            kids |-> RemoveAt([n.kids EXCEPT ![last] = Gone(@)], i + side),
            mem  |-> IF n.kids[last].mem = "freed" THEN "corrupt" ELSE n.mem]

\* Child d takes in child s, its neighbour, with key i of n between them.
MergeNodes(n, i, d, s) ==
  LET dst == n.kids[d]
      src == n.kids[s]
  IN  IF src.keys[1] < Last(dst.keys)
      THEN [dst EXCEPT !.keys = src.keys \o <<n.keys[i]>> \o @, !.kids = src.kids \o @]
      ELSE [dst EXCEPT !.keys = @ \o <<n.keys[i]>> \o src.keys, !.kids = @ \o src.kids]

\* Merge, free s, and move the key down.
Joined(n, i, d, s, side) ==
  NodeRemove([n EXCEPT !.kids = [@ EXCEPT ![d] = MergeNodes(n, i, d, s), ![s] = Gone(@)]],
             i, side)

\* Child c, short of a key, gets one from the end of its left sibling, or from
\* the beginning of its right one, by way of n.
BorrowLeft(n, c) ==
  LET left == n.kids[c - 1]
      m == Len(left.keys)
      child == [n.kids[c] EXCEPT !.keys = <<n.keys[c - 1]>> \o @,
                                 !.kids = IF IsLeaf(left) THEN <<>>
                                          ELSE <<Gone(left.kids[m + 1])>> \o @]
  IN  [n EXCEPT !.keys = [@ EXCEPT ![c - 1] = left.keys[m]],
                !.kids = [@ EXCEPT ![c - 1] = NodeRemove(left, m, 1), ![c] = child]]

\* A bug: the key that moves up stays in the sibling too.
BorrowRightKeeps(n, c) ==
  [n EXCEPT !.keys = [@ EXCEPT ![c] = n.kids[c + 1].keys[1]],
            !.kids = [@ EXCEPT ![c] = [@ EXCEPT !.keys = Append(@, n.keys[c])]]]

BorrowRight(n, c) ==
  LET right == n.kids[c + 1]
      child == [n.kids[c] EXCEPT !.keys = Append(@, n.keys[c]),
                                 !.kids = IF IsLeaf(right) THEN <<>>
                                          ELSE Append(@, right.kids[1])]
  IN  [n EXCEPT !.keys = [@ EXCEPT ![c] = right.keys[1]],
                !.kids = [@ EXCEPT ![c] = child, ![c + 1] = NodeRemove(right, 1, 0)]]

RECURSIVE Predecessor(_, _), Strays(_, _), Successor(_), ErasePredecessor(_, _), EraseSuccessor(_),
          DeleteFromNode(_, _, _)

\* The walk to the predecessor takes child w of every node, the number of keys
\* of the node where the deletion is, instead of the last child.
Predecessor(n, w) == IF IsLeaf(n) THEN Last(n.keys) ELSE Predecessor(n.kids[w], w)
Strays(n, w) == ~IsLeaf(n) /\ (w # Len(n.kids) \/ Strays(n.kids[w], w))
Successor(n) == IF IsLeaf(n) THEN n.keys[1] ELSE Successor(n.kids[1])

\* The deletion goes on from the node above the leaf, or from the leaf itself
\* when there is none.
ErasePredecessor(n, w) ==
  IF IsLeaf(n) \/ IsLeaf(n.kids[w])
  THEN DeleteFromNode(n, Predecessor(n, w), FALSE).node
  ELSE [n EXCEPT !.kids[w] = ErasePredecessor(@, w)]

EraseSuccessor(n) ==
  IF IsLeaf(n) \/ IsLeaf(n.kids[1])
  THEN DeleteFromNode(n, Successor(n), FALSE).node
  ELSE [n EXCEPT !.kids[1] = EraseSuccessor(@)]

\* The node that stands where n was, the key returned, and whether it strayed:
\* walked to the predecessor by a child that is not the last, or took in a left
\* sibling on the right, as the keys that tell them apart are equal.  isRoot
\* says that n is the root, which gives way to its only child.
DeleteFromNode(n, k, isRoot) ==
  LET i == NodeSearch(n, k)
      here == i # 0
      size(c) == IF c \in DOMAIN n.kids THEN Len(n.kids[c].keys) ELSE 0
      below(m, c, top) ==
        LET r == DeleteFromNode(m.kids[c], k, FALSE)
        IN  IF top /\ m.keys = <<>>
            THEN LET root == IF m.mem = "ok" THEN m.kids[c] ELSE [m.kids[c] EXCEPT !.mem = m.mem]
                 IN  DeleteFromNode(root, k, TRUE)
            ELSE [r EXCEPT !.node = [m EXCEPT !.kids[c] = r.node]]
      p == KeyAscPosition(n, k)
      c == IF k < n.keys[p] THEN p ELSE Len(n.keys) + 1
  IN  CASE IsLeaf(n) ->
             IF here THEN [node |-> NodeRemove(n, i, 0), key |-> k, strays |-> FALSE]
             ELSE [node |-> n, key |-> NoKey, strays |-> FALSE]
        [] ~IsLeaf(n) /\ here /\ size(i) >= T ->
             LET pred == Predecessor(n.kids[i], Len(n.keys))
             IN  [node |-> [n EXCEPT !.keys[i] = pred,
                                     !.kids[i] = ErasePredecessor(@, Len(n.keys))],
                  key |-> pred, strays |-> Strays(n.kids[i], Len(n.keys))]
        [] ~IsLeaf(n) /\ here /\ size(i) < T /\ size(i + 1) >= T ->
             LET succ == Successor(n.kids[i + 1])
             IN  [node |-> [n EXCEPT !.keys[i] = succ, !.kids[i + 1] = EraseSuccessor(@)],
                  key |-> succ, strays |-> FALSE]
        [] ~IsLeaf(n) /\ here /\ size(i) < T /\ size(i + 1) < T ->
             below(Joined(n, i, i, i + 1, 1), i, isRoot)
        [] ~IsLeaf(n) /\ ~here ->
             CASE size(c) # T - 1   -> below(n, c, FALSE)
               [] size(c) = T - 1 /\ size(c - 1) >= T -> below(BorrowLeft(n, c), c, FALSE)
               [] size(c) = T - 1 /\ size(c - 1) < T /\ size(c + 1) >= T ->
                    below(BorrowRight(n, c), c, FALSE)
               [] OTHER ->
                    IF c > 1
                    THEN LET r == below(Joined(n, c - 1, c, c - 1, 0), c - 1, isRoot)
                         IN  [r EXCEPT !.strays = @ \/ Last(n.kids[c].keys) <= n.kids[c - 1].keys[1]]
                    ELSE below(Joined(n, c, c, c + 1, 1), c, isRoot)

Delete(k) ==
  LET r == DeleteFromNode(tree, k, TRUE)
  IN  /\ tree' = r.node
      /\ astray' = (astray \/ r.strays)
      /\ ret' = [op |-> "delete", key |-> k, yes |-> r.key # NoKey, got |-> r.key]
      /\ UNCHANGED <<arena, it, seen>>

-----------------------------------------------------------------------------
(* Iterators                                                               *)

\* A BTreeIterator: a node, given by its path of child numbers from the root,
\* and the index lKey, which counts from 0.  pPreviousIt is the frame before.
Frame(at, lKey) == [at |-> at, lKey |-> lKey]

NodeAt(path) == FoldLeft(LAMBDA n, c : n.kids[c], tree, path)

KeyAt(f) == NodeAt(f.at).keys[f.lKey + 1]

RECURSIVE FirstFrames(_), LastFrames(_), Advance(_, _), Retreat(_, _), LikeFrames(_, _, _, _)

FirstFrames(path) ==
  <<Frame(path, 0)>> \o IF IsLeaf(NodeAt(path)) THEN <<>> ELSE FirstFrames(Append(path, 1))

LastFrames(path) ==
  LET n == NodeAt(path)
  IN  <<Frame(path, Len(n.keys) - 1)>>
        \o IF IsLeaf(n) THEN <<>> ELSE LastFrames(Append(path, Len(n.kids)))

\* next: the key at pIt in a leaf or on the way back up; down from any other.
\* An inner node whose keys have all been returned is left without a visit to
\* its last child.
Advance(frames, back) ==
  LET f == Last(frames)
      n == NodeAt(f.at)
  IN  IF f.lKey < Len(n.keys)
      THEN IF IsLeaf(n) \/ back
           THEN [it |-> Append(Front(frames), Frame(f.at, f.lKey + 1)), key |-> KeyAt(f)]
           ELSE Advance(Append(frames, Frame(Append(f.at, f.lKey + 1), 0)), back)
      ELSE IF Len(frames) > 1 THEN Advance(Front(frames), TRUE)
           ELSE [it |-> frames, key |-> NoKey]

\* previous: the mirror image, without an end when no key is left.
Retreat(frames, back) ==
  LET f == Last(frames)
      n == NodeAt(f.at)
      kid == Append(f.at, f.lKey + 1)
  IN  IF f.lKey > 0
      THEN IF IsLeaf(n) \/ back
           THEN LET g == Frame(f.at, f.lKey - 1)
                IN  [it |-> Append(Front(frames), g), key |-> KeyAt(g)]
           ELSE Retreat(Append(frames, Frame(kid, Len(NodeAt(kid).keys))), back)
      ELSE Retreat(Front(frames), TRUE)

HasNext(frames) == \E i \in DOMAIN frames : frames[i].lKey < Len(NodeAt(frames[i].at).keys)
HasPrevious(frames) == \E i \in DOMAIN frames : frames[i].lKey > 0

IteratorFirst ==
  /\ tree.keys # <<>>
  /\ it' = FirstFrames(<<>>) /\ seen' = [tracked |-> TRUE, keys |-> <<>>]
  /\ ret' = NoAnswer
  /\ UNCHANGED <<tree, arena, astray>>

IteratorLast ==
  /\ tree.keys # <<>>
  /\ it' = LastFrames(<<>>) /\ seen' = Untracked
  /\ ret' = NoAnswer
  /\ UNCHANGED <<tree, arena, astray>>

IteratorNext ==
  /\ it # <<>>
  /\ LET r == Advance(it, FALSE)
     IN  /\ it' = r.it
         /\ seen' = IF seen.tracked /\ r.key # NoKey
                     THEN [seen EXCEPT !.keys = Append(@, r.key)] ELSE seen
  /\ UNCHANGED <<tree, arena, astray, ret>>

\* Clients ask hasPrevious first.
IteratorPrevious ==
  /\ it # <<>> /\ HasPrevious(it)
  /\ it' = Retreat(it, FALSE).it
  /\ seen' = Untracked
  /\ UNCHANGED <<tree, arena, astray, ret>>

IteratorFree ==
  /\ it # <<>>
  /\ it' = <<>> /\ seen' = Untracked
  /\ UNCHANGED <<tree, arena, astray, ret>>

\* The comparison that is not exact.
Like(k, key, rel) ==
  LET a == k \div LikeWidth
      b == key \div LikeWidth
  IN  a = b \/ (rel = "soft" /\ a > b) \/ (rel = "softLast" /\ a < b)

\* iteratorSearch ("exact"), SearchLike ("like"), SoftSearchLike ("soft"),
\* SearchLastLike ("last") and SoftSearchLastLike ("softLast") from the node at
\* path, below the frames parent.  A frame made on the way down forgets the one
\* before; that of the exact search names the child with an index of its parent.
LikeFrames(path, k, parent, rel) ==
  LET n == NodeAt(path)
      i == IF rel \in {"last", "softLast"} THEN KeyDescPosition(n, k) ELSE KeyAscPosition(n, k)
      found == IF IsLeaf(n) THEN <<>>
               ELSE LikeFrames(Append(path, i + 1), k,
                               <<Frame(IF rel = "exact" THEN Append(path, i + 1) ELSE path, i)>>, rel)
  IN  IF n.keys[i] = k THEN Append(parent, Frame(path, i - 1))
      ELSE IF found # <<>> THEN found
      ELSE IF ~IsLeaf(n) /\ rel # "exact" /\ i < Len(n.keys) /\ Like(k, n.keys[i + 1], rel)
           THEN Append(parent, Frame(path, i))
      ELSE <<>>

\* searchLike returns the key where iteratorSearchLike would stand.
SearchLike(k) ==
  LET frames == LikeFrames(<<>>, k, <<>>, "like")
  IN  IF frames = <<>> THEN NoKey ELSE KeyAt(Last(frames))

RECURSIVE PositionFrom(_, _)

\* searchPosition: the key and what is left to count.  The last child of an
\* inner node is not looked at.
PositionFrom(n, count) ==
  IF IsLeaf(n)
  THEN IF count <= Len(n.keys) THEN [key |-> n.keys[count], count |-> 0]
       ELSE [key |-> NoKey, count |-> count - Len(n.keys)]
  ELSE FoldLeft(LAMBDA r, i :
                  IF r.key # NoKey THEN r
                  ELSE LET s == PositionFrom(n.kids[i], r.count)
                       IN  IF s.key # NoKey THEN s
                           ELSE [key |-> IF s.count = 1 THEN n.keys[i] ELSE NoKey,
                                 count |-> s.count - 1],
                [key |-> NoKey, count |-> count], [i \in DOMAIN n.keys |-> i])

-----------------------------------------------------------------------------
(* Specification                                                           *)

Init ==
  /\ tree = Node(<<>>, <<>>)
  /\ arena \in BOOLEAN /\ astray = FALSE
  /\ ret = NoAnswer
  /\ it = <<>> /\ seen = Untracked

\* An iterator is made for a tree with keys and freed before the tree changes.
\* Bounds: a key is added to a tree of fewer than MaxKeys keys that no deletion
\* has led astray.
Next ==
  /\ Faults(tree) = {}
  /\ \/ it = <<>> /\ \E k \in Keys : Delete(k) \/ (~astray /\ Len(InOrder(tree)) < MaxKeys /\ Add(k))
     \/ IteratorFirst \/ IteratorLast \/ IteratorNext \/ IteratorPrevious \/ IteratorFree

Spec == Init /\ [][Next]_vars

-----------------------------------------------------------------------------
(* Properties                                                              *)

RECURSIVE WellFormed(_, _)

\* n heads a B-tree: between T - 1 and Order keys in every node but the root,
\* one child more than keys in every inner node, all leaves equally deep.
WellFormed(n, isRoot) ==
  /\ Len(n.keys) <= Order
  /\ isRoot \/ Len(n.keys) >= T - 1
  /\ ~IsLeaf(n) => /\ Len(n.kids) = Len(n.keys) + 1
                   /\ \A i \in DOMAIN n.kids : /\ WellFormed(n.kids[i], FALSE)
                                               /\ Height(n.kids[i]) = Height(n.kids[1])

\* Splits, merges and borrowed keys leave a B-tree with its keys in order, equal
\* keys beside each other, and a search finds exactly the keys that are in it.
\* The order holds until a deletion strays.
SoundTree ==
  Faults(tree) = {} /\ it = <<>> =>
    /\ WellFormed(tree, TRUE)
    /\ LET s == InOrder(tree)
       IN  astray \/ /\ \A i \in 1 .. Len(s) - 1 : s[i] <= s[i + 1]
                     /\ \A k \in Keys : Search(tree, k) <=> k \in ToSet(s)

Stored == LET s == InOrder(tree)
          IN  [k \in ToSet(s) |-> Cardinality({i \in DOMAIN s : s[i] = k})]

\* Until a fault or a deletion that strayed, add and delete are those of a bag of
\* keys: no call loses another key, keeps the one it deletes or adds one unasked.
Abstract == INSTANCE KeyBag WITH keys <- Stored
ImplementsKeyBag ==
  [][~astray' /\ Faults(tree') = {} => UNCHANGED <<tree, ret>> \/ Abstract!Next]_vars

\* cfl_btree.h:84: add answers CFL_FALSE, and stores nothing, if the key exists.
RefusesExisting ==
  [][tree' # tree /\ ret'.op = "add" => ret'.key \notin DOMAIN Stored]_vars

\* From the first key next returns keys in order; in a tree that is one node it
\* returns them all before hasNext denies one more, and in a tree of two levels
\* it skips none as far as it goes.  hasNext says whether next will return one.
IteratorInOrder ==
  it # <<>> /\ ~astray =>
    /\ HasNext(it) <=> Advance(it, FALSE).key # NoKey
    /\ \A i \in 1 .. Len(seen.keys) - 1 : seen.keys[i] <= seen.keys[i + 1]
    /\ Height(tree) <= 2 => IsPrefix(seen.keys, InOrder(tree))
    /\ Height(tree) = 1 /\ seen.tracked /\ ~HasNext(it) => seen.keys = tree.keys

\* What a partial search returns or stands on matches the key looked for, and a
\* position in a tree of up to two levels, before its last child, is that of the
\* key counted.
SearchAnswersMatch ==
  Faults(tree) = {} /\ tree.keys # <<>> /\ it = <<>> =>
    /\ \A k \in Keys, rel \in {"exact", "like", "soft", "last", "softLast"} :
         LET frames == LikeFrames(<<>>, k, <<>>, rel)
         IN  frames # <<>> => \/ KeyAt(Last(frames)) = k
                              \/ rel # "exact" /\ Like(k, KeyAt(Last(frames)), rel)
    /\ LET s == InOrder(tree)
           skipped == IF IsLeaf(tree) THEN 0 ELSE Len(Last(tree.kids).keys)
       IN  Height(tree) <= 2 =>
             \A p \in 1 .. Len(s) - skipped : PositionFrom(tree, p).key = s[p]
=============================================================================
