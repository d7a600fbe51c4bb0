-------------------------------- MODULE LList --------------------------------
(***************************************************************************)
(* cfl_llist.c: a doubly linked chain of nodes from first to last.  The    *)
(* nodes from head to tail carry the items of the list; those before head  *)
(* and after tail are kept for reuse, up to maxNodeCache nodes in all.  An *)
(* empty list has no head and no tail, but may have a chain.               *)
(*                                                                         *)
(* The chain is modelled with its pointers, because each operation mends   *)
(* them by hand.  A list belongs to one thread, so an operation is a step. *)
(***************************************************************************)
EXTENDS Integers, Sequences, FiniteSets

CONSTANTS Nodes,     \* the addresses malloc has to give
          Null,      \* NULL, as a node and as an item
          Items,     \* what clients store
          MaxCaches  \* the values of maxNodeCache clients ask for

ASSUME NodesAssumption == Null \notin Nodes /\ Null \notin Items /\ IsFiniteSet(Nodes)
ASSUME CacheAssumption == MaxCaches \subseteq Nat

VARIABLES first, last,   \* ends of the chain
          head, tail,    \* ends of the list
          nodeCount,     \* nodes in the chain
          maxNodeCache,
          next, previous, data,  \* the fields of the nodes
          allocated,     \* the nodes malloc gave and free did not take back
          result         \* what the last operation returned

ends == <<first, last, head, tail>>
vars == <<first, last, head, tail, nodeCount, maxNodeCache, next, previous, data, allocated, result>>

Pointer == Nodes \cup {Null}

TypeOK ==
  /\ {first, last, head, tail} \subseteq allocated \cup {Null}
  /\ nodeCount = Cardinality(allocated)
  /\ maxNodeCache \in MaxCaches
  /\ next \in [Nodes -> Pointer] /\ previous \in [Nodes -> Pointer]
  /\ data \in [Nodes -> Items \cup {Null}]
  /\ allocated \subseteq Nodes
  /\ result \in Items \cup {Null}

Init ==
  /\ first = Null /\ last = Null /\ head = Null /\ tail = Null
  /\ nodeCount = 0
  /\ maxNodeCache \in MaxCaches
  /\ next = [n \in Nodes |-> Null]
  /\ previous = [n \in Nodes |-> Null]
  /\ data = [n \in Nodes |-> Null]
  /\ allocated = {}
  /\ result = Null

\* A fresh node with these neighbours.
Allocate(n, before, after) ==
  /\ n \in Nodes \ allocated
  /\ allocated' = allocated \cup {n}
  /\ nodeCount' = nodeCount + 1
  /\ previous' = [m \in Nodes |-> IF m = n THEN before ELSE IF m = after THEN n ELSE previous[m]]
  /\ next' = [m \in Nodes |-> IF m = n THEN after ELSE IF m = before THEN n ELSE next[m]]

\* The item goes into node n.
Store(n, x) == data' = [data EXCEPT ![n] = x] /\ result' = Null

SameChain == UNCHANGED <<next, previous, allocated, nodeCount>>

-----------------------------------------------------------------------------
(* Into an empty list, at either end: reuse the first node of the chain,   *)
(* or start a chain.                                                       *)

AddToEmpty(x) ==
  /\ head = Null
  /\ \E n \in Nodes :
       /\ IF first # Null
          THEN n = first /\ SameChain /\ UNCHANGED <<first, last>>
          ELSE Allocate(n, Null, Null) /\ first' = n /\ last' = n
       /\ head' = n /\ tail' = n
       /\ Store(n, x)
  /\ UNCHANGED maxNodeCache

-----------------------------------------------------------------------------
(* cfl_llist_addLast                                                       *)

AddLastAfterTail(x) ==
  /\ tail # Null /\ next[tail] # Null
  /\ tail' = next[tail]
  /\ Store(next[tail], x)
  /\ SameChain /\ UNCHANGED <<first, last, head, maxNodeCache>>

\* A bug: the node stays linked from the new first node.
AddLastFromBeginStillLinked(x) ==
  /\ tail # Null /\ next[tail] = Null /\ first # head
  /\ first' = next[first]
  /\ previous' = [previous EXCEPT ![first] = last]
  /\ next' = [next EXCEPT ![first] = Null, ![last] = first]
  /\ tail' = first /\ last' = first
  /\ Store(first, x)
  /\ UNCHANGED <<head, allocated, nodeCount, maxNodeCache>>

\* The node at the other end of the chain moves here.
AddLastFromBegin(x) ==
  /\ tail # Null /\ next[tail] = Null /\ first # head
  /\ first' = next[first]
  /\ previous' = [previous EXCEPT ![next[first]] = Null, ![first] = last]
  /\ next' = [next EXCEPT ![first] = Null, ![last] = first]
  /\ tail' = first /\ last' = first
  /\ Store(first, x)
  /\ UNCHANGED <<head, allocated, nodeCount, maxNodeCache>>

AddLastNew(x) ==
  /\ tail # Null /\ next[tail] = Null /\ first = head
  /\ \E n \in Nodes : /\ Allocate(n, tail, Null)
                      /\ tail' = n /\ last' = n
                      /\ Store(n, x)
  /\ UNCHANGED <<first, head, maxNodeCache>>

-----------------------------------------------------------------------------
(* cfl_llist_addFirst                                                      *)

AddFirstBeforeHead(x) ==
  /\ head # Null /\ previous[head] # Null
  /\ head' = previous[head]
  /\ Store(previous[head], x)
  /\ SameChain /\ UNCHANGED <<first, last, tail, maxNodeCache>>

AddFirstFromEnd(x) ==
  /\ head # Null /\ previous[head] = Null /\ last # tail
  /\ last' = previous[last]
  /\ next' = [next EXCEPT ![previous[last]] = Null, ![last] = first]
  /\ previous' = [previous EXCEPT ![last] = Null, ![first] = last]
  /\ head' = last /\ first' = last
  /\ Store(last, x)
  /\ UNCHANGED <<tail, allocated, nodeCount, maxNodeCache>>

AddFirstNew(x) ==
  /\ head # Null /\ previous[head] = Null /\ last = tail
  /\ \E n \in Nodes : /\ Allocate(n, Null, head)
                      /\ head' = n /\ first' = n
                      /\ Store(n, x)
  /\ UNCHANGED <<last, tail, maxNodeCache>>

-----------------------------------------------------------------------------
(* checkCacheOverflow: free cached nodes, from the beginning and then from *)
(* the end, until the chain has at most maxNodeCache nodes.                *)

\* The i-th node from n in the direction of a link.
Step(link, n) ==
  LET f[i \in 0 .. Cardinality(Nodes)] ==
        IF i = 0 THEN n ELSE IF f[i - 1] = Null THEN Null ELSE link[f[i - 1]]
  IN  f

\* How many nodes lie before m on the way from n.
Distance(link, n, m) ==
  CHOOSE i \in 0 .. Cardinality(Nodes) :
    Step(link, n)[i] = m /\ \A j \in 0 .. i - 1 : Step(link, n)[j] # m

Least(a, b) == IF a < b THEN a ELSE b

\* By how many nodes the chain is too long.
Excess == IF nodeCount > maxNodeCache THEN nodeCount - maxNodeCache ELSE 0

\* h and t are the new head and tail, Null if the list is now empty.
CheckCacheOverflow(h, t) ==
  LET begin == Least(Excess, Distance(next, first, h))
      newFirst == Step(next, first)[begin]
      end == IF newFirst = Null THEN 0
             ELSE Least(Excess - begin, Distance(previous, last, t))
      newLast == IF newFirst = Null THEN Null ELSE Step(previous, last)[end]
      freed == {Step(next, first)[i] : i \in 0 .. begin - 1}
               \cup {Step(previous, last)[i] : i \in 0 .. end - 1}
  IN  /\ head' = h /\ tail' = t
      /\ first' = newFirst /\ last' = newLast
      /\ allocated' = allocated \ freed
      /\ nodeCount' = nodeCount - (begin + end)
      /\ previous' = [m \in Nodes |-> IF m \in freed \/ m = newFirst THEN Null ELSE previous[m]]
      /\ next' = [m \in Nodes |-> IF m \in freed \/ m = newLast THEN Null ELSE next[m]]
      /\ data' = [m \in Nodes |-> IF m \in freed THEN Null ELSE data[m]]

RemoveLast ==
  /\ tail # Null
  /\ result' = data[tail]
  /\ IF tail = head THEN CheckCacheOverflow(Null, Null)
                    ELSE CheckCacheOverflow(head, previous[tail])
  /\ UNCHANGED maxNodeCache

\* A bug: the first node of the chain is taken for the first of the list.
RemoveFirstOfChain ==
  /\ head # Null
  /\ result' = data[first]
  /\ IF head = tail THEN CheckCacheOverflow(Null, Null)
                    ELSE CheckCacheOverflow(next[head], tail)
  /\ UNCHANGED maxNodeCache

RemoveFirst ==
  /\ head # Null
  /\ result' = data[head]
  /\ IF head = tail THEN CheckCacheOverflow(Null, Null)
                    ELSE CheckCacheOverflow(next[head], tail)
  /\ UNCHANGED maxNodeCache

\* removeLast, removeFirst, getLast and getFirst of an empty list, and the get
\* operations of another.
Look ==
  /\ result' \in IF head = Null THEN {Null} ELSE {data[head], data[tail]}
  /\ UNCHANGED <<ends, nodeCount, maxNodeCache, next, previous, data, allocated>>

Add ==
  \E x \in Items :
    \/ AddToEmpty(x)
    \/ AddLastAfterTail(x) \/ AddLastFromBegin(x) \/ AddLastNew(x)
    \/ AddFirstBeforeHead(x) \/ AddFirstFromEnd(x) \/ AddFirstNew(x)

Next == Add \/ RemoveLast \/ RemoveFirst \/ Look

Spec == Init /\ [][Next]_vars

-----------------------------------------------------------------------------
(* Properties                                                              *)

ChainOf(link, n) == {Step(link, n)[i] : i \in 0 .. Cardinality(Nodes)} \ {Null}

\* Both directions of the chain agree, from first to last, and the chain holds
\* exactly the nodes that are allocated: none leaks, none is used after it was
\* freed.
ChainWellLinked ==
  /\ first = Null <=> last = Null
  /\ first # Null => previous[first] = Null /\ next[last] = Null
  /\ \A n \in allocated : /\ next[n] # Null => previous[next[n]] = n
                          /\ previous[n] # Null => next[previous[n]] = n
  /\ ChainOf(next, first) = allocated
  /\ ChainOf(previous, last) = allocated

\* The list is a segment of the chain.
ListInsideChain ==
  /\ head = Null <=> tail = Null
  /\ head # Null => tail \in ChainOf(next, head)

Length == IF head = Null THEN 0 ELSE 1 + Distance(next, head, tail)

\* The cache respects its limit: cfl_llist_new documents maxNodeCache as the
\* "Maximum number of unused nodes to keep cached".
CacheWithinLimit == nodeCount - Length <= maxNodeCache

\* The cache is used: a removal frees nodes only from a chain longer than the
\* limit, and never more than brings it back to the limit (checkCacheOverflow).
FreesOnlyExcess == [][nodeCount' < nodeCount => nodeCount' >= maxNodeCache]_vars

D == INSTANCE Deque WITH
  None <- Null,
  items <- [i \in 1 .. Length |-> data[Step(next, head)[i - 1]]]

\* Whatever nodes it reuses, moves or frees, the list is a deque.
ImplementsDeque == D!Spec
=============================================================================
