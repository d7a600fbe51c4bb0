-------------------------- MODULE StructuresProofs --------------------------
(***************************************************************************)
(* The linked list is sound and a deque, for any nodes, items and cache    *)
(* limits; the hash table is sound and a set of keys, for any keys, hash   *)
(* function and table sizes.                                               *)
(*                                                                         *)
(* The invariant of the list names the chain: there is a function c from   *)
(* places to nodes such that next and previous lead from a place to its    *)
(* neighbours, and the list lies between two places a and b.  Each         *)
(* operation gives the chain and the places of the next state; what the    *)
(* list shows follows.                                                     *)
(*                                                                         *)
(* The invariant of the table says where its iterator is: what it has given *)
(* and what is still to come, from the next entry on, are the entries there *)
(* were, and its three entries are neighbours for as long as one of them   *)
(* may be removed.                                                         *)
(***************************************************************************)
EXTENDS MCStructures, FunctionTheorems, FiniteSetTheorems, SequenceTheorems, WellFoundedInduction, TLAPS

\* A set of naturals that is not empty has a least element.
LEMMA LeastOfNat ==
  ASSUME NEW A, A \subseteq Nat, A # {}
  PROVE  \E i \in A : \A j \in A : i <= j
<1>1. IsWellFoundedOn(OpToRel(<, Nat), Nat)
  BY NatLessThanWellFounded
<1>2. PICK i \in A : \A j \in A : ~(<<j, i>> \in OpToRel(<, Nat))
  BY <1>1, WFMin
<1>3. \A j \in A : ~(j < i)
  BY <1>2 DEF OpToRel
<1> QED
  BY <1>3

-----------------------------------------------------------------------------
(* The list: its chain as a function of the place                          *)

\* The node at a place of a chain of n nodes, and NULL beyond its ends.
NodeAt(n, c, i) == IF i \in 1 .. n THEN c[i] ELSE Null

Chain(n, c) ==
  /\ n \in Nat /\ c \in [1 .. n -> Nodes]
  /\ \A i, j \in 1 .. n : c[i] = c[j] => i = j
  /\ allocated = {c[i] : i \in 1 .. n}
  /\ nodeCount = n
  /\ first = NodeAt(n, c, 1) /\ last = NodeAt(n, c, n)
  /\ next \in [Nodes -> Pointer] /\ previous \in [Nodes -> Pointer]
  /\ \A i \in 1 .. n : next[c[i]] = NodeAt(n, c, i + 1) /\ previous[c[i]] = NodeAt(n, c, i - 1)

\* The list lies from a to b, and is empty if b is before a.
Segment(n, c, a, b) ==
  /\ a \in 1 .. n + 1 /\ b \in a - 1 .. n
  /\ head = IF a <= b THEN c[a] ELSE Null
  /\ tail = IF a <= b THEN c[b] ELSE Null
  /\ data \in [Nodes -> Items \cup {Null}]
  /\ maxNodeCache \in MaxCaches
  /\ n - ((b - a) + 1) <= maxNodeCache

Most == Cardinality(Nodes)

\* The number of nodes malloc has to give is a natural number.
LEMMA MostIsNat == Most \in Nat
BY NodesAssumption, FS_CardinalityType DEF Most

\* A chain has at most that many nodes, and they are the allocated ones.
LEMMA ChainFits ==
  ASSUME NEW n, NEW c, Chain(n, c)
  PROVE  /\ n <= Most /\ IsFiniteSet(allocated) /\ Cardinality(allocated) = n
         /\ allocated \subseteq Nodes
<1> DEFINE S == {c[i] : i \in 1 .. n}
<1>1. n \in Nat /\ c \in [1 .. n -> Nodes] /\ S = allocated /\ S \subseteq Nodes
      /\ \A i, j \in 1 .. n : c[i] = c[j] => i = j
  BY DEF Chain
<1>2. c \in Bijection(1 .. n, S)
  BY <1>1 DEF Bijection, Injection, Surjection, IsInjective
<1>6. ExistsBijection(1 .. n, S)
  BY <1>2 DEF ExistsBijection
<1>3. IsFiniteSet(1 .. n) /\ Cardinality(1 .. n) = n
  BY <1>1, FS_Interval
<1>4. IsFiniteSet(S) /\ Cardinality(S) <= Most
  BY <1>1, NodesAssumption, FS_Subset DEF Most
<1> HIDE DEF S
<1>5. Cardinality(S) = n
  BY <1>3, <1>6, FS_Bijection
<1> QED
  BY <1>1, <1>4, <1>5

\* A walk along a link is what a step after the other gives.
LEMMA StepIs ==
  ASSUME NEW link, NEW start, NEW g \in [0 .. Most -> Pointer], g[0] = start,
         \A i \in 1 .. Most : g[i] = IF g[i - 1] = Null THEN Null ELSE link[g[i - 1]]
  PROVE  Step(link, start) = g
<1> DEFINE Walks(f) == f = [i \in 0 .. Most |->
                              IF i = 0 THEN start ELSE IF f[i - 1] = Null THEN Null ELSE link[f[i - 1]]]
<1>0. Most \in Nat
  BY MostIsNat
<1>1. Walks(g)
  <2>1. \A i \in 0 .. Most :
          g[i] = IF i = 0 THEN start ELSE IF g[i - 1] = Null THEN Null ELSE link[g[i - 1]]
    BY <1>0
  <2>2. g = [i \in 0 .. Most |-> g[i]]
    OBVIOUS
  <2> QED
    BY <2>1, <2>2, Zenon
<1>2. Step(link, start) = CHOOSE f : Walks(f)
  BY DEF Step, Most
<1> DEFINE f == Step(link, start)
<1>3. Walks(f)
  <2> HIDE DEF Walks
  <2> QED
    BY <1>1, <1>2, Zenon
<1> HIDE DEF f
<1>4. f = [i \in 0 .. Most |-> f[i]] /\ f[0] = start
      /\ \A i \in 1 .. Most : f[i] = IF f[i - 1] = Null THEN Null ELSE link[f[i - 1]]
  <2>1. \A i \in 0 .. Most :
          f[i] = IF i = 0 THEN start ELSE IF f[i - 1] = Null THEN Null ELSE link[f[i - 1]]
    BY <1>3, Zenon
  <2>2. f = [i \in 0 .. Most |-> f[i]]
    BY <1>3, <2>1, Zenon
  <2>3. \A i \in 1 .. Most : i \in 0 .. Most /\ i # 0
    BY <1>0
  <2>4. f[0] = start
    <3>1. 0 \in 0 .. Most
      BY <1>0
    <3> QED
      BY <2>1, <3>1, Zenon
  <2>5. \A i \in 1 .. Most : f[i] = IF f[i - 1] = Null THEN Null ELSE link[f[i - 1]]
    BY <2>1, <2>3, Zenon
  <2> QED
    BY <2>2, <2>4, <2>5, Zenon
<1> HIDE DEF Walks
<1> DEFINE A == {i \in 0 .. Most : f[i] # g[i]}
<1>5. A = {}
  <2> SUFFICES ASSUME A # {} PROVE FALSE
    OBVIOUS
  <2>1. A \subseteq Nat
    OBVIOUS
  <2>2. PICK i \in A : \A j \in A : i <= j
    BY <2>1, LeastOfNat
  <2>3. i # 0 /\ i \in 1 .. Most /\ i - 1 \notin A /\ i - 1 \in 0 .. Most
    BY <1>0, <1>4, <2>2
  <2>4. f[i - 1] = g[i - 1]
    BY <2>3
  <2>5. f[i] = g[i]
    BY <1>4, <2>3, <2>4, Zenon
  <2> QED
    BY <2>5
<1>6. \A i \in 0 .. Most : f[i] = g[i]
  BY <1>5
<1> QED
  BY <1>4, <1>6 DEF f

\* The distance to the first place where the walk meets a node.
LEMMA DistanceIs ==
  ASSUME NEW link, NEW start, NEW m, NEW d \in 0 .. Most, Step(link, start)[d] = m,
         \A j \in 0 .. Most : j < d => Step(link, start)[j] # m
  PROVE  Distance(link, start, m) = d
<1> DEFINE g == Step(link, start)
           Meets(i) == g[i] = m /\ \A j \in 0 .. i - 1 : g[j] # m
<1>0. Most \in Nat
  BY MostIsNat
<1>1. Meets(d)
  BY <1>0
<1>2. \A i \in 0 .. Most : Meets(i) => i = d
  BY <1>0
<1>3. Distance(link, start, m) = CHOOSE i \in 0 .. Most : Meets(i)
  BY DEF Distance, Most
<1> HIDE DEF Meets
<1> QED
  BY <1>1, <1>2, <1>3

-----------------------------------------------------------------------------
(* The list: walks along the chain                                         *)

\* What is at a place of the chain is a node or NULL.
LEMMA PlacesArePointers ==
  ASSUME NEW n, NEW c, Chain(n, c), NEW i
  PROVE  NodeAt(n, c, i) \in Pointer
BY DEF Chain, NodeAt, Pointer

\* A node is at one place only.
LEMMA NodesDiffer ==
  ASSUME NEW n, NEW c, Chain(n, c), NEW i \in 0 .. n + 1, NEW j \in 0 .. n + 1, i # j,
         i \in 1 .. n
  PROVE  NodeAt(n, c, i) # NodeAt(n, c, j) /\ NodeAt(n, c, i) # Null /\ NodeAt(n, c, i) \in Nodes
<1>1. n \in Nat /\ c \in [1 .. n -> Nodes] /\ \A k, l \in 1 .. n : c[k] = c[l] => k = l
  BY DEF Chain
<1>2. NodeAt(n, c, i) = c[i] /\ c[i] \in Nodes
  BY <1>1 DEF NodeAt
<1>3. CASE j \in 1 .. n
  BY <1>1, <1>2, <1>3, NodesAssumption DEF NodeAt
<1>4. CASE j \notin 1 .. n
  BY <1>1, <1>2, <1>4, NodesAssumption DEF NodeAt
<1> QED
  BY <1>3, <1>4

\* A walk along next from place a visits the places after it.
LEMMA StepsNext ==
  ASSUME NEW n, NEW c, Chain(n, c), NEW a \in 1 .. n + 1
  PROVE  Step(next, NodeAt(n, c, a)) = [i \in 0 .. Most |-> NodeAt(n, c, a + i)]
<1> DEFINE g == [i \in 0 .. Most |-> NodeAt(n, c, a + i)]
<1>1. n \in Nat /\ \A i \in 1 .. n : next[c[i]] = NodeAt(n, c, i + 1)
  BY DEF Chain
<1>2. Most \in Nat
  BY MostIsNat
<1>3. g \in [0 .. Most -> Pointer] /\ g[0] = NodeAt(n, c, a)
  BY <1>1, <1>2, PlacesArePointers
<1>4. ASSUME NEW i \in 1 .. Most PROVE g[i] = IF g[i - 1] = Null THEN Null ELSE next[g[i - 1]]
  <2>1. i - 1 \in 0 .. Most /\ a + (i - 1) \in Nat /\ g[i - 1] = NodeAt(n, c, a + (i - 1))
        /\ g[i] = NodeAt(n, c, a + i) /\ (a + (i - 1)) + 1 = a + i
    BY <1>1, <1>2
  <2>2. CASE a + (i - 1) \in 1 .. n
    <3>1. NodeAt(n, c, a + (i - 1)) = c[a + (i - 1)] /\ NodeAt(n, c, a + (i - 1)) # Null
      <4>1. a + (i - 1) \in 0 .. n + 1 /\ 0 \in 0 .. n + 1 /\ a + (i - 1) # 0
        BY <1>1, <2>2
      <4> QED
        BY <2>2, <4>1, NodesDiffer DEF NodeAt
    <3> QED
      BY <1>1, <2>1, <2>2, <3>1
  <2>3. CASE a + (i - 1) \notin 1 .. n
    BY <1>1, <2>1, <2>3 DEF NodeAt
  <2> QED
    BY <2>2, <2>3
<1> HIDE DEF g
<1>5. Step(next, NodeAt(n, c, a)) = g
  BY <1>3, <1>4, StepIs
<1> QED
  BY <1>5 DEF g

\* A walk along previous from place b visits the places before it.
LEMMA StepsPrevious ==
  ASSUME NEW n, NEW c, Chain(n, c), NEW b \in 0 .. n
  PROVE  Step(previous, NodeAt(n, c, b)) = [i \in 0 .. Most |-> NodeAt(n, c, b - i)]
<1> DEFINE g == [i \in 0 .. Most |-> NodeAt(n, c, b - i)]
<1>1. n \in Nat /\ \A i \in 1 .. n : previous[c[i]] = NodeAt(n, c, i - 1)
  BY DEF Chain
<1>2. Most \in Nat
  BY MostIsNat
<1>3. g \in [0 .. Most -> Pointer] /\ g[0] = NodeAt(n, c, b)
  BY <1>1, <1>2, PlacesArePointers
<1>4. ASSUME NEW i \in 1 .. Most PROVE g[i] = IF g[i - 1] = Null THEN Null ELSE previous[g[i - 1]]
  <2>1. i - 1 \in 0 .. Most /\ b - (i - 1) \in Int /\ g[i - 1] = NodeAt(n, c, b - (i - 1))
        /\ g[i] = NodeAt(n, c, b - i) /\ (b - (i - 1)) - 1 = b - i
    BY <1>1, <1>2
  <2>2. CASE b - (i - 1) \in 1 .. n
    <3>1. NodeAt(n, c, b - (i - 1)) = c[b - (i - 1)] /\ NodeAt(n, c, b - (i - 1)) # Null
      <4>1. b - (i - 1) \in 0 .. n + 1 /\ 0 \in 0 .. n + 1 /\ b - (i - 1) # 0
        BY <1>1, <2>2
      <4> QED
        BY <2>2, <4>1, NodesDiffer DEF NodeAt
    <3> QED
      BY <1>1, <2>1, <2>2, <3>1
  <2>3. CASE b - (i - 1) \notin 1 .. n
    BY <1>1, <2>1, <2>3 DEF NodeAt
  <2> QED
    BY <2>2, <2>3
<1> HIDE DEF g
<1>5. Step(previous, NodeAt(n, c, b)) = g
  BY <1>3, <1>4, StepIs
<1> QED
  BY <1>5 DEF g

\* The distance along next is that of the places.
LEMMA DistanceNext ==
  ASSUME NEW n, NEW c, Chain(n, c), NEW a \in 1 .. n + 1, NEW d \in a .. n + 1
  PROVE  Distance(next, NodeAt(n, c, a), NodeAt(n, c, d)) = d - a
<1>1. n \in Nat /\ Most \in Nat /\ n <= Most
  BY MostIsNat, ChainFits DEF Chain
<1>2. Step(next, NodeAt(n, c, a)) = [i \in 0 .. Most |-> NodeAt(n, c, a + i)]
  BY StepsNext
<1>3. d - a \in 0 .. Most /\ Step(next, NodeAt(n, c, a))[d - a] = NodeAt(n, c, d)
  BY <1>1, <1>2
<1>4. ASSUME NEW j \in 0 .. Most, j < d - a
      PROVE  Step(next, NodeAt(n, c, a))[j] # NodeAt(n, c, d)
  <2>1. a + j \in 1 .. n /\ a + j # d /\ a + j \in 0 .. n + 1 /\ d \in 0 .. n + 1
    BY <1>1, <1>4
  <2>2. NodeAt(n, c, a + j) # NodeAt(n, c, d)
    BY <2>1, NodesDiffer
  <2> QED
    BY <1>2, <2>2
<1> DEFINE w == d - a
<1> HIDE DEF w
<1> QED
  BY <1>3, <1>4, DistanceIs DEF w

\* The distance along previous is that of the places.
LEMMA DistancePrevious ==
  ASSUME NEW n, NEW c, Chain(n, c), NEW b \in 0 .. n, NEW d \in 0 .. b
  PROVE  Distance(previous, NodeAt(n, c, b), NodeAt(n, c, d)) = b - d
<1>1. n \in Nat /\ Most \in Nat /\ n <= Most
  BY MostIsNat, ChainFits DEF Chain
<1>2. Step(previous, NodeAt(n, c, b)) = [i \in 0 .. Most |-> NodeAt(n, c, b - i)]
  BY StepsPrevious
<1>3. b - d \in 0 .. Most /\ Step(previous, NodeAt(n, c, b))[b - d] = NodeAt(n, c, d)
  BY <1>1, <1>2
<1>4. ASSUME NEW j \in 0 .. Most, j < b - d
      PROVE  Step(previous, NodeAt(n, c, b))[j] # NodeAt(n, c, d)
  <2>1. b - j \in 1 .. n /\ b - j # d /\ b - j \in 0 .. n + 1 /\ d \in 0 .. n + 1
    BY <1>1, <1>4
  <2>2. NodeAt(n, c, b - j) # NodeAt(n, c, d)
    BY <2>1, NodesDiffer
  <2> QED
    BY <1>2, <2>2
<1> QED
  BY <1>3, <1>4, DistanceIs

-----------------------------------------------------------------------------
(* The list: what the invariant says                                       *)

\* The items of a list from a to b.
Shown(c, a, b) == [i \in 1 .. (b - a) + 1 |-> data[c[(a + i) - 1]]]

ListItems == [i \in 1 .. Length |-> data[Step(next, head)[i - 1]]]

\* The length of the list is that of its segment.
LEMMA LengthIs ==
  ASSUME NEW n, NEW c, Chain(n, c), NEW a, NEW b, Segment(n, c, a, b)
  PROVE  Length = (b - a) + 1
<1>1. n \in Nat /\ a \in 1 .. n + 1 /\ b \in a - 1 .. n
  BY DEF Chain, Segment
<1>2. CASE a <= b
  <2>1. head = NodeAt(n, c, a) /\ tail = NodeAt(n, c, b) /\ a \in 1 .. n /\ b \in a .. n + 1
        /\ 0 \in 0 .. n + 1 /\ a \in 0 .. n + 1 /\ a # 0
    BY <1>1, <1>2 DEF Segment, NodeAt
  <2>2. head # Null
    BY <2>1, NodesDiffer
  <2>3. Distance(next, head, tail) = b - a
    BY <1>1, <2>1, DistanceNext
  <2> QED
    BY <1>1, <2>2, <2>3 DEF Length
<1>3. CASE b < a
  BY <1>1, <1>3 DEF Segment, Length
<1> QED
  BY <1>1, <1>2, <1>3

\* The items of the list are those of the nodes of its segment.
LEMMA ItemsAre ==
  ASSUME NEW n, NEW c, Chain(n, c), NEW a, NEW b, Segment(n, c, a, b)
  PROVE  ListItems = Shown(c, a, b)
<1>0. Length = (b - a) + 1 /\ Most \in Nat /\ n <= Most
  BY LengthIs, MostIsNat, ChainFits
<1>1. n \in Nat /\ a \in 1 .. n + 1 /\ b \in a - 1 .. n /\ Length = (b - a) + 1
      /\ Most \in Nat /\ n <= Most
  BY <1>0 DEF Chain, Segment
<1>2. ASSUME NEW i \in 1 .. (b - a) + 1
      PROVE  Step(next, head)[i - 1] = c[(a + i) - 1]
  <2>1. head = NodeAt(n, c, a) /\ i - 1 \in 0 .. Most /\ a + (i - 1) \in 1 .. n /\ a + (i - 1) = (a + i) - 1
    BY <1>1 DEF Segment, NodeAt
  <2>2. Step(next, NodeAt(n, c, a))[i - 1] = NodeAt(n, c, a + (i - 1))
    <3>1. Step(next, NodeAt(n, c, a)) = [j \in 0 .. Most |-> NodeAt(n, c, a + j)]
      BY <1>1, StepsNext
    <3> QED
      BY <2>1, <3>1
  <2>3. NodeAt(n, c, a + (i - 1)) = c[(a + i) - 1]
    BY <2>1 DEF NodeAt
  <2> QED
    BY <2>1, <2>2, <2>3
<1> QED
  BY <1>1, <1>2 DEF ListItems, Shown

-----------------------------------------------------------------------------
(* The list: sequences as functions                                        *)

\* A function on 1 .. l is a sequence of length l.
LEMMA FunctionIsSeq ==
  ASSUME NEW S, NEW l \in Nat, NEW s \in [1 .. l -> S]
  PROVE  s \in Seq(S) /\ Len(s) = l
OBVIOUS

\* What it takes to be a sequence with an item added at its end.
LEMMA AppendIs ==
  ASSUME NEW S, NEW l \in Nat, NEW s \in [1 .. l -> S], NEW x \in S,
         NEW t \in [1 .. l + 1 -> S], \A i \in 1 .. l : t[i] = s[i], t[l + 1] = x
  PROVE  t = Append(s, x)
<1>1. s \in Seq(S) /\ Len(s) = l /\ t \in Seq(S) /\ Len(t) = l + 1
  BY FunctionIsSeq
<1> DEFINE u == Append(s, x)
<1>2. u \in Seq(S) /\ Len(u) = l + 1 /\ (\A i \in 1 .. l : u[i] = s[i]) /\ u[l + 1] = x
  BY <1>1, AppendProperties
<1> HIDE DEF u
<1>3. \A i \in 1 .. l + 1 : t[i] = u[i]
  BY <1>2
<1>4. t = u
  BY <1>1, <1>2, <1>3, SeqEqual
<1> QED
  BY <1>4 DEF u

\* What it takes to be a sequence with an item added at its beginning.
LEMMA PrependIs ==
  ASSUME NEW S, NEW l \in Nat, NEW s \in [1 .. l -> S], NEW x \in S,
         NEW t \in [1 .. l + 1 -> S], \A i \in 1 .. l : t[i + 1] = s[i], t[1] = x
  PROVE  t = <<x>> \o s
<1>1. s \in Seq(S) /\ Len(s) = l /\ t \in Seq(S) /\ Len(t) = l + 1
      /\ <<x>> \in Seq(S) /\ Len(<<x>>) = 1 /\ <<x>>[1] = x
  BY FunctionIsSeq
<1> DEFINE u == <<x>> \o s
<1>2. u \in Seq(S) /\ Len(u) = l + 1 /\ (\A i \in 1 .. l : u[i + 1] = s[i]) /\ u[1] = x
  BY <1>1, ConcatProperties
<1> HIDE DEF u
<1>3. ASSUME NEW i \in 1 .. l + 1 PROVE t[i] = u[i]
  <2>1. CASE i = 1
    BY <1>2, <2>1
  <2>2. CASE i # 1
    <3>1. i - 1 \in 1 .. l /\ (i - 1) + 1 = i
      BY <2>2
    <3> QED
      BY <1>2, <3>1
  <2> QED
    BY <2>1, <2>2
<1>4. t = u
  BY <1>1, <1>2, <1>3, SeqEqual
<1> QED
  BY <1>4 DEF u

\* What it takes to be a sequence without its first item.
LEMMA TailIs ==
  ASSUME NEW S, NEW l \in Nat \ {0}, NEW s \in [1 .. l -> S],
         NEW t \in [1 .. l - 1 -> S], \A i \in 1 .. l - 1 : t[i] = s[i + 1]
  PROVE  t = Tail(s) /\ s # <<>> /\ Head(s) = s[1]
<1>1. s \in Seq(S) /\ Len(s) = l /\ l - 1 \in Nat
  BY FunctionIsSeq
<1>2. t \in Seq(S) /\ Len(t) = l - 1
  BY <1>1, FunctionIsSeq
<1> DEFINE u == Tail(s)
<1>3. s # <<>>
  BY <1>1
<1>4. u \in Seq(S) /\ Len(u) = l - 1 /\ (\A i \in 1 .. l - 1 : u[i] = s[i + 1]) /\ Head(s) = s[1]
  BY <1>1, <1>3, HeadTailProperties
<1> HIDE DEF u
<1>5. t = u
  BY <1>2, <1>4, SeqEqual
<1> QED
  BY <1>3, <1>4, <1>5 DEF u

\* What it takes to be a sequence without its last item.
LEMMA FrontIs ==
  ASSUME NEW S, NEW l \in Nat \ {0}, NEW s \in [1 .. l -> S],
         NEW t \in [1 .. l - 1 -> S], \A i \in 1 .. l - 1 : t[i] = s[i]
  PROVE  t = SubSeq(s, 1, Len(s) - 1) /\ s # <<>> /\ Len(s) = l
<1>1. s \in Seq(S) /\ Len(s) = l /\ l - 1 \in Nat /\ s # <<>>
  BY FunctionIsSeq
<1>2. t \in Seq(S) /\ Len(t) = l - 1
  BY <1>1, FunctionIsSeq
<1> DEFINE u == SubSeq(s, 1, l - 1)
<1>3. u \in Seq(S) /\ Len(u) = l - 1 /\ (\A i \in 1 .. l - 1 : u[i] = s[i])
  BY <1>1
<1> HIDE DEF u
<1>4. t = u
  BY <1>2, <1>3, SeqEqual
<1> QED
  BY <1>1, <1>4 DEF u

-----------------------------------------------------------------------------
(* The list: additions                                                     *)

\* An item is stored in node m; the others are in chain d from place o.
Stored(c, a, b, d, e, f, o, m, x) ==
  /\ a \in Int /\ b \in Int /\ e \in Int /\ f \in Int
  /\ a <= b + 1 /\ f - e = (b - a) + 1
  /\ x \in Items /\ m \in Nodes
  /\ data \in [Nodes -> Items \cup {Null}] /\ data' = [data EXCEPT ![m] = x]
  /\ \A i \in 0 .. b - a : d[o + i] = c[a + i] /\ c[a + i] \in Nodes /\ c[a + i] # m

\* The list then shows the item behind the others, or before them.
Appended(c, a, b, d, e, f, x) == Shown(d, e, f)' = Append(Shown(c, a, b), x)
Prepended(c, a, b, d, e, f, x) == Shown(d, e, f)' = <<x>> \o Shown(c, a, b)

\* An item stored after the old ones is appended to what the list shows.
LEMMA ShownLast ==
  ASSUME NEW c, NEW a, NEW b, NEW d, NEW e, NEW f, NEW x,
         Stored(c, a, b, d, e, f, e, d[f], x)
  PROVE  Appended(c, a, b, d, e, f, x)
<1> DEFINE l == (b - a) + 1
           s == Shown(c, a, b)
           t == Shown(d, e, f)'
           S == Items \cup {Null}
           m == d[f]
<1>0. /\ a \in Int /\ b \in Int /\ e \in Int /\ f \in Int
      /\ a <= b + 1 /\ f - e = (b - a) + 1
      /\ x \in Items /\ m \in Nodes
      /\ data \in [Nodes -> Items \cup {Null}] /\ data' = [data EXCEPT ![m] = x]
      /\ \A i \in 0 .. b - a : d[e + i] = c[a + i] /\ c[a + i] \in Nodes /\ c[a + i] # m
  BY DEF Stored
<1>1. l \in Nat /\ f - e = l /\ f = e + l /\ b - a = l - 1
  BY <1>0
<1>2. s = [i \in 1 .. l |-> data[c[(a + i) - 1]]] /\ t = [i \in 1 .. l + 1 |-> data'[d[(e + i) - 1]]]
  BY <1>1 DEF Shown
<1> HIDE DEF m
<1>3. ASSUME NEW i \in 1 .. l PROVE s[i] \in S /\ t[i] = s[i]
  <2>1. i - 1 \in 0 .. b - a /\ (e + i) - 1 = e + (i - 1) /\ (a + i) - 1 = a + (i - 1) /\ i \in 1 .. l + 1
    BY <1>0, <1>1
  <2>2. d[(e + i) - 1] = c[(a + i) - 1] /\ c[(a + i) - 1] \in Nodes /\ c[(a + i) - 1] # m
    BY <1>0, <2>1
  <2>3. s[i] = data[c[(a + i) - 1]] /\ t[i] = data'[c[(a + i) - 1]]
    BY <1>2, <2>1, <2>2
  <2> QED
    BY <1>0, <2>2, <2>3
<1>4. t[l + 1] = x
  <2>1. (e + (l + 1)) - 1 = e + l /\ l + 1 \in 1 .. l + 1
    BY <1>0, <1>1
  <2>2. t[l + 1] = data'[d[e + l]]
    BY <1>2, <2>1
  <2> QED
    BY <1>0, <2>2 DEF m
<1>5. s = [i \in 1 .. l |-> s[i]] /\ t = [i \in 1 .. l + 1 |-> t[i]]
  BY <1>2
<1>6. x \in S
  BY <1>0
<1> HIDE DEF s, t, S, l
<1>7. ASSUME NEW i \in 1 .. l + 1 PROVE t[i] \in S
  <2>1. i \in 1 .. l \/ i = l + 1
    BY <1>1
  <2> QED
    BY <1>3, <1>4, <1>6, <2>1
<1>8. s \in [1 .. l -> S] /\ t \in [1 .. l + 1 -> S]
  BY <1>3, <1>5, <1>7
<1>9. t = Append(s, x)
  BY <1>1, <1>3, <1>4, <1>6, <1>8, AppendIs
<1> QED
  BY <1>9, Zenon DEF s, t, Appended

\* An item stored before the old ones is prepended to what the list shows.
LEMMA ShownFirst ==
  ASSUME NEW c, NEW a, NEW b, NEW d, NEW e, NEW f, NEW x,
         Stored(c, a, b, d, e, f, e + 1, d[e], x)
  PROVE  Prepended(c, a, b, d, e, f, x)
<1> DEFINE l == (b - a) + 1
           s == Shown(c, a, b)
           t == Shown(d, e, f)'
           S == Items \cup {Null}
           m == d[e]
<1>0. /\ a \in Int /\ b \in Int /\ e \in Int /\ f \in Int
      /\ a <= b + 1 /\ f - e = (b - a) + 1
      /\ x \in Items /\ m \in Nodes
      /\ data \in [Nodes -> Items \cup {Null}] /\ data' = [data EXCEPT ![m] = x]
      /\ \A i \in 0 .. b - a : d[(e + 1) + i] = c[a + i] /\ c[a + i] \in Nodes /\ c[a + i] # m
  BY DEF Stored
<1>1. l \in Nat /\ f - e = l /\ f = e + l /\ b - a = l - 1
  BY <1>0
<1>2. s = [i \in 1 .. l |-> data[c[(a + i) - 1]]] /\ t = [i \in 1 .. l + 1 |-> data'[d[(e + i) - 1]]]
  BY <1>1 DEF Shown
<1> HIDE DEF m
<1>3. ASSUME NEW i \in 1 .. l PROVE s[i] \in S /\ t[i + 1] = s[i]
  <2>1. i - 1 \in 0 .. b - a /\ (e + (i + 1)) - 1 = (e + 1) + (i - 1) /\ (a + i) - 1 = a + (i - 1)
        /\ i + 1 \in 1 .. l + 1
    BY <1>0, <1>1
  <2>2. d[(e + (i + 1)) - 1] = c[(a + i) - 1] /\ c[(a + i) - 1] \in Nodes /\ c[(a + i) - 1] # m
    BY <1>0, <2>1
  <2>3. s[i] = data[c[(a + i) - 1]] /\ t[i + 1] = data'[c[(a + i) - 1]]
    BY <1>2, <2>1, <2>2
  <2> QED
    BY <1>0, <2>2, <2>3
<1>4. t[1] = x
  <2>1. (e + 1) - 1 = e /\ 1 \in 1 .. l + 1
    BY <1>0, <1>1
  <2>2. t[1] = data'[d[e]]
    BY <1>2, <2>1
  <2> QED
    BY <1>0, <2>2 DEF m
<1>5. s = [i \in 1 .. l |-> s[i]] /\ t = [i \in 1 .. l + 1 |-> t[i]]
  BY <1>2
<1>6. x \in S
  BY <1>0
<1> HIDE DEF s, t, S, l
<1>7. ASSUME NEW i \in 1 .. l + 1 PROVE t[i] \in S
  <2>1. CASE i = 1
    BY <1>4, <1>6, <2>1
  <2>2. CASE i # 1
    <3>1. i - 1 \in 1 .. l /\ (i - 1) + 1 = i
      BY <1>1, <2>2
    <3> QED
      BY <1>3, <3>1
  <2> QED
    BY <2>1, <2>2
<1>8. s \in [1 .. l -> S] /\ t \in [1 .. l + 1 -> S]
  BY <1>3, <1>5, <1>7
<1>9. t = <<x>> \o s
  BY <1>1, <1>3, <1>4, <1>6, <1>8, PrependIs
<1> QED
  BY <1>9, Zenon DEF s, t, Prepended

-----------------------------------------------------------------------------
(* The list: how the chain changes                                         *)

\* Operations that leave the links alone leave the chain.
LEMMA ChainStays ==
  ASSUME NEW n, NEW c, Chain(n, c), SameChain, UNCHANGED <<first, last>>
  PROVE  Chain(n, c)'
BY DEF Chain, SameChain

\* What has to be shown of a new chain.
LEMMA ChainIs ==
  ASSUME NEW n \in Nat, NEW c \in [1 .. n -> Nodes],
         \A i, j \in 1 .. n : c[i] = c[j] => i = j,
         allocated' = {c[i] : i \in 1 .. n}, nodeCount' = n,
         first' = NodeAt(n, c, 1), last' = NodeAt(n, c, n),
         next' \in [Nodes -> Pointer], previous' \in [Nodes -> Pointer],
         \A i \in 1 .. n : next'[c[i]] = NodeAt(n, c, i + 1) /\ previous'[c[i]] = NodeAt(n, c, i - 1)
  PROVE  Chain(n, c)'
BY DEF Chain

\* What is known of a chain.
LEMMA ChainFacts ==
  ASSUME NEW n, NEW c, Chain(n, c)
  PROVE  /\ n \in Nat /\ c \in [1 .. n -> Nodes]
         /\ \A i, j \in 1 .. n : c[i] = c[j] => i = j
         /\ allocated = {c[i] : i \in 1 .. n} /\ nodeCount = n
         /\ first = NodeAt(n, c, 1) /\ last = NodeAt(n, c, n)
         /\ next \in [Nodes -> Pointer] /\ previous \in [Nodes -> Pointer]
         /\ \A i \in 1 .. n : next[c[i]] = NodeAt(n, c, i + 1) /\ previous[c[i]] = NodeAt(n, c, i - 1)
BY DEF Chain

\* A fresh node behind the last.
ThenNode(n, c, m) == [i \in 1 .. n + 1 |-> IF i <= n THEN c[i] ELSE m]

\* A node allocated after the last one makes the chain longer by it.
LEMMA ChainLonger ==
  ASSUME NEW n, NEW c, Chain(n, c), NEW m, Allocate(m, last, Null), last' = m,
         first' = IF n = 0 THEN m ELSE first
  PROVE  Chain(n + 1, ThenNode(n, c, m))'
<1> DEFINE d == ThenNode(n, c, m)
           k == n + 1
<1>1. /\ n \in Nat /\ c \in [1 .. n -> Nodes]
      /\ \A i, j \in 1 .. n : c[i] = c[j] => i = j
      /\ allocated = {c[i] : i \in 1 .. n} /\ nodeCount = n
      /\ first = NodeAt(n, c, 1) /\ last = NodeAt(n, c, n)
      /\ next \in [Nodes -> Pointer] /\ previous \in [Nodes -> Pointer]
      /\ \A i \in 1 .. n : next[c[i]] = NodeAt(n, c, i + 1) /\ previous[c[i]] = NodeAt(n, c, i - 1)
  BY ChainFacts
<1>2. m \in Nodes /\ m \notin allocated /\ Null \notin Nodes
  BY NodesAssumption DEF Allocate
<1>3. k \in Nat /\ d \in [1 .. k -> Nodes] /\ d[k] = m /\ \A i \in 1 .. n : d[i] = c[i] /\ c[i] # m
  BY <1>1, <1>2 DEF ThenNode
<1>4. \A i, j \in 1 .. k : d[i] = d[j] => i = j
  <2>1. \A i \in 1 .. k : i \in 1 .. n \/ i = k
    BY <1>1
  <2> HIDE DEF d, k
  <2> QED
    BY <1>1, <1>3, <2>1
<1>5. allocated' = {d[i] : i \in 1 .. k}
  <2>1. allocated' = allocated \cup {m}
    BY DEF Allocate
  <2>2. \A i \in 1 .. n : i \in 1 .. k
    BY <1>1
  <2>3. \A i \in 1 .. k : i \in 1 .. n \/ i = k
    BY <1>1
  <2>4. k \in 1 .. k
    BY <1>1
  <2> HIDE DEF d, k
  <2> QED
    BY <1>1, <1>3, <2>1, <2>2, <2>3, <2>4
<1>6. nodeCount' = k
  BY <1>1 DEF Allocate
<1>7. first' = NodeAt(k, d, 1) /\ last' = NodeAt(k, d, k)
  <2>1. last' = NodeAt(k, d, k)
    BY <1>1, <1>3 DEF NodeAt
  <2>2. CASE n = 0
    BY <1>1, <1>3, <2>2 DEF NodeAt
  <2>3. CASE n # 0
    <3>1. 1 \in 1 .. n /\ 1 \in 1 .. k
      BY <1>1, <2>3
    <3> QED
      BY <1>1, <1>3, <2>3, <3>1 DEF NodeAt
  <2> QED
    BY <2>1, <2>2, <2>3
<1>8. /\ previous' = [q \in Nodes |-> IF q = m THEN last ELSE IF q = Null THEN m ELSE previous[q]]
      /\ next' = [q \in Nodes |-> IF q = m THEN Null ELSE IF q = last THEN m ELSE next[q]]
  BY DEF Allocate
<1>9. next' \in [Nodes -> Pointer] /\ previous' \in [Nodes -> Pointer]
  <2>1. last \in Pointer
    BY <1>1, PlacesArePointers
  <2> QED
    BY <1>1, <1>2, <1>8, <2>1 DEF Pointer
<1>10. ASSUME NEW i \in 1 .. k
       PROVE  next'[d[i]] = NodeAt(k, d, i + 1) /\ previous'[d[i]] = NodeAt(k, d, i - 1)
  <2>1. CASE i = k
    <3>1. next'[m] = Null /\ previous'[m] = last
      BY <1>2, <1>8
    <3>2. NodeAt(k, d, i + 1) = Null
      BY <1>1, <2>1 DEF NodeAt
    <3>3. NodeAt(k, d, i - 1) = NodeAt(n, c, n)
      BY <1>1, <1>3, <2>1 DEF NodeAt
    <3> HIDE DEF d, k
    <3> QED
      BY <1>1, <1>3, <2>1, <3>1, <3>2, <3>3
  <2>2. CASE i # k
    <3>1. i \in 1 .. n /\ d[i] = c[i] /\ c[i] \in Nodes /\ c[i] # m /\ c[i] # Null
      BY <1>1, <1>2, <1>3, <2>2
    <3>2. previous'[c[i]] = previous[c[i]] /\ next'[c[i]] = IF c[i] = last THEN m ELSE next[c[i]]
      BY <1>8, <3>1
    <3>3. NodeAt(k, d, i - 1) = NodeAt(n, c, i - 1)
      BY <1>1, <1>3, <3>1 DEF NodeAt
    <3>4. CASE i = n
      <4>1. c[i] = last /\ NodeAt(k, d, i + 1) = m
        BY <1>1, <1>3, <3>1, <3>4 DEF NodeAt
      <4> QED
        BY <1>1, <3>1, <3>2, <3>3, <4>1
    <3>5. CASE i # n
      <4>1. n \in 1 .. n /\ c[n] = last /\ i + 1 \in 1 .. n
        BY <1>1, <3>1, <3>5 DEF NodeAt
      <4>2. c[i] # last
        BY <1>1, <3>1, <3>5, <4>1
      <4>3. NodeAt(k, d, i + 1) = NodeAt(n, c, i + 1)
        BY <1>1, <1>3, <4>1 DEF NodeAt
      <4> QED
        BY <1>1, <3>1, <3>2, <3>3, <4>2, <4>3
    <3> QED
      BY <3>4, <3>5
  <2> QED
    BY <2>1, <2>2
<1> HIDE DEF d, k
<1>11. Chain(k, d)'
  BY <1>3, <1>4, <1>5, <1>6, <1>7, <1>9, <1>10, ChainIs
<1> QED
  BY <1>11 DEF d, k

\* A fresh node before the first.
NodeThen(n, c, m) == [i \in 1 .. n + 1 |-> IF i = 1 THEN m ELSE c[i - 1]]

\* A node allocated before the first one makes the chain longer by it.
LEMMA ChainLongerBefore ==
  ASSUME NEW n, NEW c, Chain(n, c), n # 0, NEW m, Allocate(m, Null, first), first' = m, last' = last
  PROVE  Chain(n + 1, NodeThen(n, c, m))'
<1> DEFINE d == NodeThen(n, c, m)
           k == n + 1
<1>1. /\ n \in Nat /\ c \in [1 .. n -> Nodes]
      /\ \A i, j \in 1 .. n : c[i] = c[j] => i = j
      /\ allocated = {c[i] : i \in 1 .. n} /\ nodeCount = n
      /\ first = NodeAt(n, c, 1) /\ last = NodeAt(n, c, n)
      /\ next \in [Nodes -> Pointer] /\ previous \in [Nodes -> Pointer]
      /\ \A i \in 1 .. n : next[c[i]] = NodeAt(n, c, i + 1) /\ previous[c[i]] = NodeAt(n, c, i - 1)
  BY ChainFacts
<1>2. m \in Nodes /\ m \notin allocated /\ Null \notin Nodes
  BY NodesAssumption DEF Allocate
<1>3. /\ k \in Nat /\ d \in [1 .. k -> Nodes] /\ d[1] = m
      /\ \A i \in 1 .. n : d[i + 1] = c[i] /\ c[i] # m
  BY <1>1, <1>2 DEF NodeThen
<1>a. \A i \in 1 .. k : i = 1 \/ (i - 1 \in 1 .. n /\ (i - 1) + 1 = i)
  BY <1>1
<1>b. \A i \in 1 .. n : i + 1 \in 1 .. k /\ (i + 1) - 1 = i
  BY <1>1
<1>4. \A i, j \in 1 .. k : d[i] = d[j] => i = j
  <2> SUFFICES ASSUME NEW i \in 1 .. k, NEW j \in 1 .. k, d[i] = d[j] PROVE i = j
    OBVIOUS
  <2> HIDE DEF d, k
  <2>1. CASE i = 1 \/ j = 1
    BY <1>3, <1>a, <2>1
  <2>2. CASE i # 1 /\ j # 1
    <3>1. i - 1 \in 1 .. n /\ j - 1 \in 1 .. n /\ d[i] = c[i - 1] /\ d[j] = c[j - 1]
      BY <1>3, <1>a, <2>2
    <3>2. i - 1 = j - 1
      BY <1>1, <3>1
    <3> QED
      BY <3>2 DEF k
  <2> QED
    BY <2>1, <2>2
<1>5. allocated' = {d[i] : i \in 1 .. k}
  <2>1. allocated' = allocated \cup {m}
    BY DEF Allocate
  <2>2. 1 \in 1 .. k
    BY <1>1
  <2> HIDE DEF d, k
  <2>3. \A i \in 1 .. k : d[i] = m \/ d[i] \in allocated
    BY <1>1, <1>3, <1>a
  <2>4. \A i \in 1 .. n : \E j \in 1 .. k : d[j] = c[i]
    BY <1>3, <1>b
  <2>5. m \in {d[j] : j \in 1 .. k}
    BY <1>3, <2>2
  <2>6. ASSUME NEW i \in 1 .. n PROVE c[i] \in {d[j] : j \in 1 .. k}
    <3>1. PICK j \in 1 .. k : d[j] = c[i]
      BY <2>4
    <3> QED
      BY <3>1
  <2>7. allocated' \subseteq {d[j] : j \in 1 .. k}
    <3> SUFFICES ASSUME NEW x \in allocated' PROVE x \in {d[j] : j \in 1 .. k}
      OBVIOUS
    <3>1. CASE x = m
      BY <2>5, <3>1
    <3>2. CASE x \in allocated
      <4>1. PICK i \in 1 .. n : x = c[i]
        BY <1>1, <3>2
      <4> QED
        BY <2>6, <4>1
    <3> QED
      BY <2>1, <3>1, <3>2
  <2>8. {d[j] : j \in 1 .. k} \subseteq allocated'
    BY <2>1, <2>3
  <2> QED
    BY <2>7, <2>8
<1>6. nodeCount' = k
  BY <1>1 DEF Allocate
<1>7. first' = NodeAt(k, d, 1) /\ last' = NodeAt(k, d, k)
  <2>1. first' = NodeAt(k, d, 1)
    BY <1>1, <1>3 DEF NodeAt
  <2>2. n \in 1 .. n /\ k \in 1 .. k
    BY <1>1
  <2> QED
    BY <1>1, <1>3, <2>1, <2>2 DEF NodeAt
<1>8. /\ previous' = [q \in Nodes |-> IF q = m THEN Null ELSE IF q = first THEN m ELSE previous[q]]
      /\ next' = [q \in Nodes |-> IF q = m THEN first ELSE IF q = Null THEN m ELSE next[q]]
  BY DEF Allocate
<1>9. next' \in [Nodes -> Pointer] /\ previous' \in [Nodes -> Pointer]
  <2>1. first \in Pointer
    BY <1>1, PlacesArePointers
  <2> QED
    BY <1>1, <1>2, <1>8, <2>1 DEF Pointer
<1>10. ASSUME NEW i \in 1 .. k
       PROVE  next'[d[i]] = NodeAt(k, d, i + 1) /\ previous'[d[i]] = NodeAt(k, d, i - 1)
  <2>1. CASE i = 1
    <3>1. next'[m] = first /\ previous'[m] = Null
      BY <1>2, <1>8
    <3>2. NodeAt(k, d, i - 1) = Null
      BY <1>1, <2>1 DEF NodeAt
    <3>3. 1 \in 1 .. n /\ i + 1 \in 1 .. k /\ d[i + 1] = c[1]
      BY <1>1, <1>3, <2>1
    <3>4. NodeAt(k, d, i + 1) = NodeAt(n, c, 1)
      BY <3>3 DEF NodeAt
    <3> HIDE DEF d, k
    <3> QED
      BY <1>1, <1>3, <2>1, <3>1, <3>2, <3>4
  <2>2. CASE i # 1
    <3> DEFINE j == i - 1
    <3>1. j \in 1 .. n /\ i = j + 1 /\ d[i] = c[j] /\ c[j] \in Nodes /\ c[j] # m /\ c[j] # Null
      BY <1>1, <1>2, <1>3, <2>2
    <3>2. next'[c[j]] = next[c[j]] /\ previous'[c[j]] = IF c[j] = first THEN m ELSE previous[c[j]]
      BY <1>8, <3>1
    <3>3. NodeAt(k, d, i + 1) = NodeAt(n, c, j + 1)
      <4>1. i + 1 \in 1 .. k <=> j + 1 \in 1 .. n
        BY <1>1, <3>1
      <4>2. CASE j + 1 \in 1 .. n
        BY <1>3, <3>1, <4>1, <4>2 DEF NodeAt
      <4> QED
        BY <4>1, <4>2 DEF NodeAt
    <3>4. CASE j = 1
      <4>1. c[j] = first /\ NodeAt(k, d, i - 1) = m
        BY <1>1, <1>3, <3>1, <3>4 DEF NodeAt
      <4> QED
        BY <1>1, <3>1, <3>2, <3>3, <4>1
    <3>5. CASE j # 1
      <4>1. 1 \in 1 .. n /\ c[1] = first /\ j - 1 \in 1 .. n /\ (j - 1) + 1 = i - 1 /\ i - 1 \in 1 .. k
        BY <1>1, <3>1, <3>5 DEF NodeAt
      <4>2. c[j] # first
        BY <1>1, <3>1, <3>5, <4>1
      <4>3. NodeAt(k, d, i - 1) = NodeAt(n, c, j - 1)
        BY <1>3, <4>1 DEF NodeAt
      <4> QED
        BY <1>1, <3>1, <3>2, <3>3, <4>2, <4>3
    <3> QED
      BY <3>4, <3>5
  <2> QED
    BY <2>1, <2>2
<1> HIDE DEF d, k
<1>11. Chain(k, d)'
  BY <1>3, <1>4, <1>5, <1>6, <1>7, <1>9, <1>10, ChainIs
<1> QED
  BY <1>11 DEF d, k

\* The first node goes behind the last, and back.
Turned(n, c) == [i \in 1 .. n |-> IF i < n THEN c[i + 1] ELSE c[1]]
TurnedBack(n, c) == [i \in 1 .. n |-> IF i = 1 THEN c[n] ELSE c[i - 1]]

\* Moving the first node to the end gives a chain of the same nodes.
LEMMA TurnedNodes ==
  ASSUME NEW n \in Nat, n > 1, NEW c \in [1 .. n -> Nodes], \A i, j \in 1 .. n : c[i] = c[j] => i = j
  PROVE  LET d == Turned(n, c)
         IN  /\ d \in [1 .. n -> Nodes] /\ \A i, j \in 1 .. n : d[i] = d[j] => i = j
             /\ {d[i] : i \in 1 .. n} = {c[i] : i \in 1 .. n}
             /\ d[n] = c[1] /\ \A i \in 1 .. n - 1 : d[i] = c[i + 1]
<1> DEFINE d == Turned(n, c)
           from(i) == IF i < n THEN i + 1 ELSE 1
<1>1. \A i \in 1 .. n : from(i) \in 1 .. n /\ d[i] = c[from(i)]
  BY DEF Turned
<1>2. \A i, j \in 1 .. n : from(i) = from(j) => i = j
  OBVIOUS
<1>3. \A i \in 1 .. n : \E j \in 1 .. n : from(j) = i
  <2> SUFFICES ASSUME NEW i \in 1 .. n PROVE \E j \in 1 .. n : from(j) = i
    OBVIOUS
  <2>1. CASE i = 1
    BY <2>1
  <2>2. CASE i # 1
    <3>1. i - 1 \in 1 .. n /\ from(i - 1) = i
      BY <2>2
    <3> QED
      BY <3>1
  <2> QED
    BY <2>1, <2>2
<1>4. d = [i \in 1 .. n |-> d[i]]
  BY DEF Turned
<1>5. d[n] = c[1] /\ \A i \in 1 .. n - 1 : d[i] = c[i + 1]
  BY DEF Turned
<1> HIDE DEF d, from
<1>6. d \in [1 .. n -> Nodes]
  BY <1>1, <1>4
<1>7. \A i, j \in 1 .. n : d[i] = d[j] => i = j
  BY <1>1, <1>2
<1>8. {d[i] : i \in 1 .. n} = {c[i] : i \in 1 .. n}
  <2>1. \A i \in 1 .. n : \E j \in 1 .. n : d[i] = c[j]
    BY <1>1
  <2>2. \A j \in 1 .. n : \E i \in 1 .. n : d[i] = c[j]
    <3> SUFFICES ASSUME NEW j \in 1 .. n PROVE \E i \in 1 .. n : d[i] = c[j]
      OBVIOUS
    <3>1. PICK i \in 1 .. n : from(i) = j
      BY <1>3
    <3> QED
      BY <1>1, <3>1
  <2>3. {d[i] : i \in 1 .. n} \subseteq {c[i] : i \in 1 .. n}
    BY <2>1
  <2>4. ASSUME NEW j \in 1 .. n PROVE c[j] \in {d[i] : i \in 1 .. n}
    <3>1. PICK i \in 1 .. n : d[i] = c[j]
      BY <2>2
    <3> QED
      BY <3>1
  <2>5. {c[i] : i \in 1 .. n} \subseteq {d[i] : i \in 1 .. n}
    BY <2>4
  <2> QED
    BY <2>3, <2>5
<1> QED
  BY <1>5, <1>6, <1>7, <1>8 DEF d

\* Moving the last node to the beginning gives a chain of the same nodes.
LEMMA TurnedBackNodes ==
  ASSUME NEW n \in Nat, n > 1, NEW c \in [1 .. n -> Nodes], \A i, j \in 1 .. n : c[i] = c[j] => i = j
  PROVE  LET d == TurnedBack(n, c)
         IN  /\ d \in [1 .. n -> Nodes] /\ \A i, j \in 1 .. n : d[i] = d[j] => i = j
             /\ {d[i] : i \in 1 .. n} = {c[i] : i \in 1 .. n}
             /\ d[1] = c[n] /\ \A i \in 1 .. n - 1 : d[i + 1] = c[i]
<1> DEFINE d == TurnedBack(n, c)
           from(i) == IF i = 1 THEN n ELSE i - 1
<1>1. \A i \in 1 .. n : from(i) \in 1 .. n /\ d[i] = c[from(i)]
  BY DEF TurnedBack
<1>2. \A i, j \in 1 .. n : from(i) = from(j) => i = j
  OBVIOUS
<1>3. \A i \in 1 .. n : \E j \in 1 .. n : from(j) = i
  <2> SUFFICES ASSUME NEW i \in 1 .. n PROVE \E j \in 1 .. n : from(j) = i
    OBVIOUS
  <2>1. CASE i = n
    BY <2>1
  <2>2. CASE i # n
    <3>1. i + 1 \in 1 .. n /\ from(i + 1) = i
      BY <2>2
    <3> QED
      BY <3>1
  <2> QED
    BY <2>1, <2>2
<1>4. d = [i \in 1 .. n |-> d[i]]
  BY DEF TurnedBack
<1>5. d[1] = c[n] /\ \A i \in 1 .. n - 1 : d[i + 1] = c[i]
  BY DEF TurnedBack
<1> HIDE DEF d, from
<1>6. d \in [1 .. n -> Nodes]
  BY <1>1, <1>4
<1>7. \A i, j \in 1 .. n : d[i] = d[j] => i = j
  BY <1>1, <1>2
<1>8. {d[i] : i \in 1 .. n} = {c[i] : i \in 1 .. n}
  <2>1. \A i \in 1 .. n : \E j \in 1 .. n : d[i] = c[j]
    BY <1>1
  <2>2. \A j \in 1 .. n : \E i \in 1 .. n : d[i] = c[j]
    <3> SUFFICES ASSUME NEW j \in 1 .. n PROVE \E i \in 1 .. n : d[i] = c[j]
      OBVIOUS
    <3>1. PICK i \in 1 .. n : from(i) = j
      BY <1>3
    <3> QED
      BY <1>1, <3>1
  <2>3. {d[i] : i \in 1 .. n} \subseteq {c[i] : i \in 1 .. n}
    BY <2>1
  <2>4. ASSUME NEW j \in 1 .. n PROVE c[j] \in {d[i] : i \in 1 .. n}
    <3>1. PICK i \in 1 .. n : d[i] = c[j]
      BY <2>2
    <3> QED
      BY <3>1
  <2>5. {c[i] : i \in 1 .. n} \subseteq {d[i] : i \in 1 .. n}
    BY <2>4
  <2> QED
    BY <2>3, <2>5
<1> QED
  BY <1>5, <1>6, <1>7, <1>8 DEF d

\* The pointers addLast mends link the chain with its first node at the end.
LEMMA ChainTurned ==
  ASSUME NEW n, NEW c, Chain(n, c), n > 1,
         first' = next[first], last' = first,
         previous' = [previous EXCEPT ![next[first]] = Null, ![first] = last],
         next' = [next EXCEPT ![first] = Null, ![last] = first],
         allocated' = allocated, nodeCount' = nodeCount
  PROVE  Chain(n, Turned(n, c))'
<1> DEFINE d == Turned(n, c)
<1>1. /\ n \in Nat /\ c \in [1 .. n -> Nodes]
      /\ \A i, j \in 1 .. n : c[i] = c[j] => i = j
      /\ allocated = {c[i] : i \in 1 .. n} /\ nodeCount = n
      /\ first = NodeAt(n, c, 1) /\ last = NodeAt(n, c, n)
      /\ next \in [Nodes -> Pointer] /\ previous \in [Nodes -> Pointer]
      /\ \A i \in 1 .. n : next[c[i]] = NodeAt(n, c, i + 1) /\ previous[c[i]] = NodeAt(n, c, i - 1)
  BY ChainFacts
<1>2. /\ d \in [1 .. n -> Nodes] /\ \A i, j \in 1 .. n : d[i] = d[j] => i = j
      /\ {d[i] : i \in 1 .. n} = {c[i] : i \in 1 .. n}
      /\ d[n] = c[1] /\ \A i \in 1 .. n - 1 : d[i] = c[i + 1]
  BY <1>1, TurnedNodes
<1> HIDE DEF d
<1>3. 1 \in 1 .. n /\ 2 \in 1 .. n /\ n \in 1 .. n /\ 1 \in 1 .. n - 1
  BY <1>1
<1>4. first = c[1] /\ last = c[n] /\ next[first] = c[2] /\ d[1] = c[2]
  BY <1>1, <1>2, <1>3 DEF NodeAt
<1>5. c[1] # c[2] /\ c[1] # c[n] /\ c[1] \in Nodes /\ c[2] \in Nodes /\ c[n] \in Nodes
  BY <1>1, <1>3
<1>6. /\ \A m \in Nodes : previous'[m] = IF m = c[1] THEN c[n] ELSE IF m = c[2] THEN Null ELSE previous[m]
      /\ \A m \in Nodes : next'[m] = IF m = c[n] THEN c[1] ELSE IF m = c[1] THEN Null ELSE next[m]
  BY <1>1, <1>4, <1>5
<1>7. next' \in [Nodes -> Pointer] /\ previous' \in [Nodes -> Pointer]
  BY <1>1, <1>4, <1>5 DEF Pointer
<1>8. first' = NodeAt(n, d, 1) /\ last' = NodeAt(n, d, n)
  BY <1>2, <1>3, <1>4 DEF NodeAt
<1>9. ASSUME NEW i \in 1 .. n
      PROVE  next'[d[i]] = NodeAt(n, d, i + 1) /\ previous'[d[i]] = NodeAt(n, d, i - 1)
  <2>1. CASE i = n
    <3>1. d[i] = c[1] /\ next'[c[1]] = Null /\ previous'[c[1]] = c[n]
      BY <1>2, <1>5, <1>6, <2>1
    <3>2. i - 1 \in 1 .. n - 1 /\ i - 1 \in 1 .. n /\ (i - 1) + 1 = n /\ ~(i + 1 \in 1 .. n)
      BY <1>1, <2>1
    <3>3. d[i - 1] = c[n]
      BY <1>2, <3>2
    <3> QED
      BY <3>1, <3>2, <3>3 DEF NodeAt
  <2>2. CASE i # n
    <3>1. i \in 1 .. n - 1 /\ i + 1 \in 1 .. n /\ (i + 1) - 1 = i /\ (i + 1) + 1 = i + 2 /\ i + 1 # 1
      BY <1>1, <2>2
    <3>2. d[i] = c[i + 1] /\ c[i + 1] \in Nodes /\ c[i + 1] # c[1]
      BY <1>1, <1>2, <1>3, <3>1
    <3>3. next[c[i + 1]] = NodeAt(n, c, i + 2) /\ previous[c[i + 1]] = NodeAt(n, c, i)
      BY <1>1, <3>1
    <3>4. next'[d[i]] = NodeAt(n, d, i + 1)
      <4>1. CASE i + 1 = n
        BY <1>2, <1>6, <3>1, <3>2, <4>1 DEF NodeAt
      <4>2. CASE i + 1 # n
        <5>1. i + 1 \in 1 .. n - 1 /\ i + 2 \in 1 .. n /\ (i + 1) + 1 = i + 2
          BY <1>1, <3>1, <4>2
        <5>2. c[i + 1] # c[n]
          BY <1>1, <1>3, <3>1, <4>2
        <5>3. d[i + 1] = c[i + 2]
          BY <1>2, <5>1
        <5> QED
          BY <1>6, <3>1, <3>2, <3>3, <5>1, <5>2, <5>3 DEF NodeAt
      <4> QED
        BY <4>1, <4>2
    <3>5. previous'[d[i]] = NodeAt(n, d, i - 1)
      <4>1. CASE i = 1
        <5>1. d[i] = c[2] /\ ~(i - 1 \in 1 .. n)
          BY <1>1, <1>4, <4>1
        <5>2. previous'[c[2]] = Null
          BY <1>5, <1>6
        <5> QED
          BY <5>1, <5>2 DEF NodeAt
      <4>2. CASE i # 1
        <5>1. i - 1 \in 1 .. n - 1 /\ i - 1 \in 1 .. n /\ (i - 1) + 1 = i /\ i \in 1 .. n /\ i + 1 # 2
          BY <1>1, <3>1, <4>2
        <5>2. c[i + 1] # c[2] /\ d[i - 1] = c[i]
          BY <1>1, <1>2, <1>3, <3>1, <5>1
        <5> QED
          BY <1>6, <3>2, <3>3, <5>1, <5>2 DEF NodeAt
      <4> QED
        BY <4>1, <4>2
    <3> QED
      BY <3>4, <3>5
  <2> QED
    BY <2>1, <2>2
<1>10. allocated' = {d[i] : i \in 1 .. n} /\ nodeCount' = n
  BY <1>1, <1>2
<1>11. Chain(n, d)'
  BY <1>1, <1>2, <1>7, <1>8, <1>9, <1>10, ChainIs
<1> QED
  BY <1>11 DEF d

\* The pointers addFirst mends link the chain with its last node in front.
LEMMA ChainTurnedBack ==
  ASSUME NEW n, NEW c, Chain(n, c), n > 1,
         last' = previous[last], first' = last,
         next' = [next EXCEPT ![previous[last]] = Null, ![last] = first],
         previous' = [previous EXCEPT ![last] = Null, ![first] = last],
         allocated' = allocated, nodeCount' = nodeCount
  PROVE  Chain(n, TurnedBack(n, c))'
<1> DEFINE d == TurnedBack(n, c)
           p == n - 1
<1>1. /\ n \in Nat /\ c \in [1 .. n -> Nodes]
      /\ \A i, j \in 1 .. n : c[i] = c[j] => i = j
      /\ allocated = {c[i] : i \in 1 .. n} /\ nodeCount = n
      /\ first = NodeAt(n, c, 1) /\ last = NodeAt(n, c, n)
      /\ next \in [Nodes -> Pointer] /\ previous \in [Nodes -> Pointer]
      /\ \A i \in 1 .. n : next[c[i]] = NodeAt(n, c, i + 1) /\ previous[c[i]] = NodeAt(n, c, i - 1)
  BY ChainFacts
<1>2. /\ d \in [1 .. n -> Nodes] /\ \A i, j \in 1 .. n : d[i] = d[j] => i = j
      /\ {d[i] : i \in 1 .. n} = {c[i] : i \in 1 .. n}
      /\ d[1] = c[n] /\ \A i \in 1 .. p : d[i + 1] = c[i]
  BY <1>1, TurnedBackNodes
<1>3. 1 \in 1 .. n /\ p \in 1 .. n /\ n \in 1 .. n /\ p \in 1 .. p /\ p # n /\ p + 1 = n
  BY <1>1
<1> HIDE DEF d
<1>4. first = c[1] /\ last = c[n] /\ previous[last] = c[p] /\ d[n] = c[p]
  BY <1>1, <1>2, <1>3 DEF NodeAt
<1>5. c[n] # c[p] /\ c[1] # c[n] /\ c[1] \in Nodes /\ c[p] \in Nodes /\ c[n] \in Nodes
  BY <1>1, <1>3
<1>6. /\ \A m \in Nodes : next'[m] = IF m = c[n] THEN c[1] ELSE IF m = c[p] THEN Null ELSE next[m]
      /\ \A m \in Nodes : previous'[m] = IF m = c[1] THEN c[n] ELSE IF m = c[n] THEN Null ELSE previous[m]
  BY <1>1, <1>4, <1>5
<1>7. next' \in [Nodes -> Pointer] /\ previous' \in [Nodes -> Pointer]
  BY <1>1, <1>4, <1>5 DEF Pointer
<1>8. first' = NodeAt(n, d, 1) /\ last' = NodeAt(n, d, n)
  BY <1>2, <1>3, <1>4 DEF NodeAt
<1>9. ASSUME NEW i \in 1 .. n
      PROVE  next'[d[i]] = NodeAt(n, d, i + 1) /\ previous'[d[i]] = NodeAt(n, d, i - 1)
  <2>1. CASE i = 1
    <3>1. d[i] = c[n] /\ next'[c[n]] = c[1] /\ previous'[c[n]] = Null
      BY <1>2, <1>5, <1>6, <2>1
    <3>2. 1 \in 1 .. p /\ i + 1 = 1 + 1 /\ i + 1 \in 1 .. n /\ ~(i - 1 \in 1 .. n)
      BY <1>1, <2>1
    <3>3. d[i + 1] = c[1]
      BY <1>2, <3>2
    <3> QED
      BY <3>1, <3>2, <3>3 DEF NodeAt
  <2>2. CASE i # 1
    <3> DEFINE j == i - 1
    <3>1. j \in 1 .. p /\ j \in 1 .. n /\ j + 1 = i /\ j # n
      BY <1>1, <2>2
    <3>2. d[i] = c[j] /\ c[j] \in Nodes /\ c[j] # c[n]
      BY <1>1, <1>2, <1>3, <3>1
    <3>3. next[c[j]] = NodeAt(n, c, j + 1) /\ previous[c[j]] = NodeAt(n, c, j - 1)
      BY <1>1, <3>1
    <3>4. next'[d[i]] = NodeAt(n, d, i + 1)
      <4>1. CASE i = n
        <5>1. j = p /\ ~(i + 1 \in 1 .. n)
          BY <1>1, <4>1
        <5> QED
          BY <1>5, <1>6, <3>2, <5>1 DEF NodeAt
      <4>2. CASE i # n
        <5>1. i \in 1 .. p /\ i + 1 \in 1 .. n /\ j # p
          BY <1>1, <3>1, <4>2
        <5>2. c[j] # c[p] /\ d[i + 1] = c[i]
          BY <1>1, <1>2, <1>3, <3>1, <5>1
        <5> QED
          BY <1>6, <3>1, <3>2, <3>3, <5>1, <5>2 DEF NodeAt
      <4> QED
        BY <4>1, <4>2
    <3>5. previous'[d[i]] = NodeAt(n, d, i - 1)
      <4>1. CASE j = 1
        <5>1. i - 1 = 1 /\ d[i] = c[1] /\ d[i - 1] = c[n] /\ i - 1 \in 1 .. n
          BY <1>2, <1>3, <3>2, <4>1
        <5>2. previous'[c[1]] = c[n]
          BY <1>5, <1>6
        <5> QED
          BY <5>1, <5>2 DEF NodeAt
      <4>2. CASE j # 1
        <5>1. j - 1 \in 1 .. p /\ j - 1 \in 1 .. n /\ (j - 1) + 1 = i - 1 /\ i - 1 \in 1 .. n
          BY <1>1, <3>1, <4>2
        <5>2. c[j] # c[1] /\ d[i - 1] = c[j - 1]
          BY <1>1, <1>2, <1>3, <3>1, <4>2, <5>1
        <5> QED
          BY <1>6, <3>2, <3>3, <5>1, <5>2 DEF NodeAt
      <4> QED
        BY <4>1, <4>2
    <3> QED
      BY <3>4, <3>5
  <2> QED
    BY <2>1, <2>2
<1>10. allocated' = {d[i] : i \in 1 .. n} /\ nodeCount' = n
  BY <1>1, <1>2
<1>11. Chain(n, d)'
  BY <1>1, <1>2, <1>7, <1>8, <1>9, <1>10, ChainIs
<1> QED
  BY <1>11 DEF d

-----------------------------------------------------------------------------
(* The list: what an addition does                                         *)

\* What is known of the segment of the list.
LEMMA SegmentFacts ==
  ASSUME NEW n, NEW c, Chain(n, c), NEW a, NEW b, Segment(n, c, a, b)
  PROVE  /\ n \in Nat /\ a \in 1 .. n + 1 /\ b \in a - 1 .. n
         /\ data \in [Nodes -> Items \cup {Null}] /\ maxNodeCache \in MaxCaches /\ maxNodeCache \in Nat
         /\ n - ((b - a) + 1) <= maxNodeCache
         /\ head = Null <=> b < a
         /\ tail = Null <=> b < a
         /\ a <= b => a \in 1 .. n /\ b \in 1 .. n /\ head = c[a] /\ tail = c[b]
<1>1. n \in Nat /\ c \in [1 .. n -> Nodes]
  BY DEF Chain
<1>2. /\ a \in 1 .. n + 1 /\ b \in a - 1 .. n
      /\ data \in [Nodes -> Items \cup {Null}] /\ maxNodeCache \in MaxCaches
      /\ n - ((b - a) + 1) <= maxNodeCache
      /\ head = IF a <= b THEN c[a] ELSE Null
      /\ tail = IF a <= b THEN c[b] ELSE Null
  BY DEF Segment
<1>3. a \in Int /\ b \in Int /\ (b < a <=> ~(a <= b)) /\ maxNodeCache \in Nat
  BY <1>1, <1>2, CacheAssumption
<1>4. CASE a <= b
  <2>1. a \in 1 .. n /\ b \in 1 .. n
    BY <1>1, <1>2, <1>4
  <2>2. c[a] # Null /\ c[b] # Null
    BY <1>1, <2>1, NodesAssumption
  <2> QED
    BY <1>1, <1>2, <1>3, <1>4, <2>1, <2>2
<1>5. CASE b < a
  BY <1>1, <1>2, <1>3, <1>5
<1> QED
  BY <1>3, <1>4, <1>5

\* The new segment, which is not empty, and no more of the cache is used.
LEMMA SegmentIs ==
  ASSUME NEW n \in Nat, NEW c \in [1 .. n -> Nodes], NEW a \in 1 .. n, NEW b \in a .. n,
         head' = c[a], tail' = c[b],
         data' \in [Nodes -> Items \cup {Null}], maxNodeCache' \in MaxCaches,
         n - ((b - a) + 1) <= maxNodeCache'
  PROVE  Segment(n, c, a, b)'
BY DEF Segment

\* Adding to an empty list, in the first cached node or in a new one.
LEMMA AddsToEmpty ==
  ASSUME NEW n, NEW c, Chain(n, c), NEW a, NEW b, Segment(n, c, a, b),
         NEW x \in Items, AddToEmpty(x)
  PROVE  \E k, d, e, f : /\ Chain(k, d)' /\ Segment(k, d, e, f)'
                         /\ Appended(c, a, b, d, e, f, x)
<1>1. /\ n \in Nat /\ a \in 1 .. n + 1 /\ b \in a - 1 .. n
      /\ data \in [Nodes -> Items \cup {Null}] /\ maxNodeCache \in MaxCaches /\ maxNodeCache \in Nat
      /\ n - ((b - a) + 1) <= maxNodeCache
      /\ head = Null <=> b < a
  BY SegmentFacts
<1>2. head = Null /\ b = a - 1 /\ (b - a) + 1 = 0 /\ n <= maxNodeCache /\ maxNodeCache' = maxNodeCache
  BY <1>1 DEF AddToEmpty
<1>3. c \in [1 .. n -> Nodes] /\ first = NodeAt(n, c, 1) /\ last = NodeAt(n, c, n)
  BY ChainFacts
<1>4. PICK m \in Nodes :
        /\ IF first # Null
           THEN m = first /\ SameChain /\ UNCHANGED <<first, last>>
           ELSE Allocate(m, Null, Null) /\ first' = m /\ last' = m
        /\ head' = m /\ tail' = m
        /\ Store(m, x)
  BY DEF AddToEmpty
<1>5. data' = [data EXCEPT ![m] = x] /\ data' \in [Nodes -> Items \cup {Null}]
  BY <1>1, <1>4 DEF Store
<1>6. ASSUME NEW d, d[1] = m
      PROVE  Appended(c, a, b, d, 1, 1, x)
  <2>1. \A i \in 0 .. b - a : d[1 + i] = c[a + i] /\ c[a + i] \in Nodes /\ c[a + i] # m
    BY <1>1, <1>2
  <2>2. a \in Int /\ b \in Int /\ a <= b + 1 /\ 1 - 1 = (b - a) + 1 /\ 1 \in Int
    BY <1>1, <1>2
  <2>3. Stored(c, a, b, d, 1, 1, 1, d[1], x)
    BY <1>1, <1>5, <1>6, <2>1, <2>2 DEF Stored
  <2> QED
    BY <2>3, ShownLast
<1>7. CASE first # Null
  <2>1. 1 \in 1 .. n /\ m = c[1]
    BY <1>3, <1>4, <1>7 DEF NodeAt
  <2>2. Chain(n, c)'
    BY <1>4, <1>7, ChainStays
  <2>3. 1 \in 1 .. 1 /\ n - ((1 - 1) + 1) <= maxNodeCache /\ 1 \in 1 .. n
    BY <1>1, <1>2, <2>1
  <2>4. Segment(n, c, 1, 1)'
    BY <1>1, <1>2, <1>3, <1>4, <1>5, <2>1, <2>3, SegmentIs
  <2>5. Appended(c, a, b, c, 1, 1, x)
    BY <1>6, <2>1
  <2> QED
    BY <2>2, <2>4, <2>5
<1>8. CASE first = Null
  <2>1. n = 0 /\ last = Null
    <3>1. ~(1 \in 1 .. n)
      BY <1>3, <1>8, NodesAssumption DEF NodeAt
    <3> QED
      BY <1>1, <1>3, <3>1 DEF NodeAt
  <2> DEFINE d == ThenNode(n, c, m)
  <2>2. Chain(1, d)'
    <3>1. Allocate(m, last, Null) /\ last' = m /\ first' = IF n = 0 THEN m ELSE first
      BY <1>4, <1>8, <2>1
    <3>2. Chain(n + 1, d)'
      BY <3>1, ChainLonger
    <3> QED
      BY <2>1, <3>2
  <2>3. d[1] = m /\ d \in [1 .. 1 -> Nodes]
    BY <2>1 DEF ThenNode
  <2> HIDE DEF d
  <2>4. Segment(1, d, 1, 1)'
    <3>1. 1 - ((1 - 1) + 1) <= maxNodeCache /\ 1 \in 1 .. 1 /\ 1 \in Nat
      BY <1>1
    <3> QED
      BY <1>1, <1>2, <1>4, <1>5, <2>3, <3>1, SegmentIs
  <2>5. Appended(c, a, b, d, 1, 1, x)
    BY <1>6, <2>3
  <2> QED
    BY <2>2, <2>4, <2>5
<1> QED
  BY <1>7, <1>8

\* addLast, in the cached node after the tail.
LEMMA AddsLastAfterTail ==
  ASSUME NEW n, NEW c, Chain(n, c), NEW a, NEW b, Segment(n, c, a, b),
         NEW x \in Items, AddLastAfterTail(x)
  PROVE  \E k, d, e, f : /\ Chain(k, d)' /\ Segment(k, d, e, f)'
                         /\ Appended(c, a, b, d, e, f, x)
<1>1. /\ n \in Nat /\ a \in 1 .. n + 1 /\ b \in a - 1 .. n
      /\ data \in [Nodes -> Items \cup {Null}] /\ maxNodeCache \in MaxCaches /\ maxNodeCache \in Nat
      /\ n - ((b - a) + 1) <= maxNodeCache
      /\ tail = Null <=> b < a
      /\ a <= b => a \in 1 .. n /\ b \in 1 .. n /\ head = c[a] /\ tail = c[b]
  BY SegmentFacts
<1>2. /\ tail # Null /\ next[tail] # Null /\ tail' = next[tail] /\ data' = [data EXCEPT ![next[tail]] = x]
      /\ head' = head /\ maxNodeCache' = maxNodeCache /\ SameChain /\ UNCHANGED <<first, last>>
  BY DEF AddLastAfterTail, Store
<1>3. /\ c \in [1 .. n -> Nodes] /\ \A i, j \in 1 .. n : c[i] = c[j] => i = j
      /\ \A i \in 1 .. n : next[c[i]] = NodeAt(n, c, i + 1)
  BY ChainFacts
<1>4. a <= b /\ a \in 1 .. n /\ b \in 1 .. n /\ head = c[a] /\ tail = c[b]
  BY <1>1, <1>2
<1>5. b + 1 \in a .. n /\ b + 1 \in 1 .. n /\ next[tail] = c[b + 1] /\ c[b + 1] \in Nodes
  <2>1. b + 1 \in 1 .. n
    BY <1>2, <1>3, <1>4 DEF NodeAt
  <2> QED
    BY <1>1, <1>3, <1>4, <2>1 DEF NodeAt
<1>6. Chain(n, c)'
  BY <1>2, ChainStays
<1>7. data' \in [Nodes -> Items \cup {Null}]
  BY <1>1, <1>2
<1>8. Segment(n, c, a, b + 1)'
  <2>1. n - (((b + 1) - a) + 1) <= maxNodeCache
    BY <1>1, <1>4
  <2> QED
    BY <1>1, <1>2, <1>3, <1>4, <1>5, <1>7, <2>1, SegmentIs
<1>9. Appended(c, a, b, c, a, b + 1, x)
  <2>1. a \in Int /\ b \in Int /\ a <= b + 1 /\ b + 1 \in Int /\ (b + 1) - a = (b - a) + 1
    BY <1>1
  <2>2. ASSUME NEW i \in 0 .. b - a PROVE c[a + i] = c[a + i] /\ c[a + i] \in Nodes /\ c[a + i] # c[b + 1]
    <3>1. a + i \in 1 .. n /\ a + i # b + 1
      BY <1>1, <1>4
    <3> QED
      BY <1>3, <1>5, <3>1
  <2>3. data' = [data EXCEPT ![c[b + 1]] = x]
    BY <1>2, <1>5
  <2> DEFINE f == b + 1
  <2> HIDE DEF f
  <2>4. Appended(c, a, b, c, a, f, x)
    <3>1. Stored(c, a, b, c, a, f, a, c[f], x)
      BY <1>1, <1>5, <2>1, <2>2, <2>3 DEF f, Stored
    <3> QED
      BY <3>1, ShownLast
  <2> QED
    BY <2>4 DEF f
<1> QED
  BY <1>6, <1>8, <1>9

\* addLast, in the cached node moved from the beginning of the chain.
LEMMA AddsLastFromBegin ==
  ASSUME NEW n, NEW c, Chain(n, c), NEW a, NEW b, Segment(n, c, a, b),
         NEW x \in Items, AddLastFromBegin(x)
  PROVE  \E k, d, e, f : /\ Chain(k, d)' /\ Segment(k, d, e, f)'
                         /\ Appended(c, a, b, d, e, f, x)
<1>1. /\ n \in Nat /\ a \in 1 .. n + 1 /\ b \in a - 1 .. n
      /\ data \in [Nodes -> Items \cup {Null}] /\ maxNodeCache \in MaxCaches /\ maxNodeCache \in Nat
      /\ n - ((b - a) + 1) <= maxNodeCache
      /\ tail = Null <=> b < a
      /\ a <= b => a \in 1 .. n /\ b \in 1 .. n /\ head = c[a] /\ tail = c[b]
  BY SegmentFacts
<1>2. /\ tail # Null /\ next[tail] = Null /\ first # head
      /\ first' = next[first]
      /\ previous' = [previous EXCEPT ![next[first]] = Null, ![first] = last]
      /\ next' = [next EXCEPT ![first] = Null, ![last] = first]
      /\ tail' = first /\ last' = first
      /\ data' = [data EXCEPT ![first] = x]
      /\ head' = head /\ allocated' = allocated /\ nodeCount' = nodeCount /\ maxNodeCache' = maxNodeCache
  BY DEF AddLastFromBegin, Store
<1>3. /\ c \in [1 .. n -> Nodes] /\ \A i, j \in 1 .. n : c[i] = c[j] => i = j
      /\ first = NodeAt(n, c, 1)
      /\ \A i \in 1 .. n : next[c[i]] = NodeAt(n, c, i + 1)
  BY ChainFacts
<1>4. a <= b /\ a \in 1 .. n /\ b \in 1 .. n /\ head = c[a] /\ tail = c[b]
  BY <1>1, <1>2
<1>5. b = n
  <2>1. ~(b + 1 \in 1 .. n)
    BY <1>2, <1>3, <1>4, NodesAssumption DEF NodeAt
  <2> QED
    BY <1>1, <1>4, <2>1
<1>6. 1 \in 1 .. n /\ first = c[1] /\ a # 1 /\ n > 1
  <2>1. 1 \in 1 .. n /\ first = c[1]
    BY <1>1, <1>3, <1>4 DEF NodeAt
  <2>2. a # 1
    BY <1>2, <1>4, <2>1
  <2> QED
    BY <1>1, <1>4, <2>1, <2>2
<1> DEFINE d == Turned(n, c)
<1>7. Chain(n, d)'
  BY <1>2, <1>6, ChainTurned
<1>8. d \in [1 .. n -> Nodes] /\ d[n] = c[1] /\ \A i \in 1 .. n - 1 : d[i] = c[i + 1]
  BY <1>1, <1>3, <1>6, TurnedNodes
<1> HIDE DEF d
<1>9. data' \in [Nodes -> Items \cup {Null}]
  BY <1>1, <1>2
<1>10. Segment(n, d, a - 1, n)'
  <2>1. a - 1 \in 1 .. n /\ n \in a - 1 .. n /\ n - ((n - (a - 1)) + 1) <= maxNodeCache
        /\ a - 1 \in 1 .. n - 1 /\ (a - 1) + 1 = a
    BY <1>1, <1>4, <1>5, <1>6
  <2>2. head' = d[a - 1] /\ tail' = d[n]
    BY <1>2, <1>4, <1>6, <1>8, <2>1
  <2> QED
    BY <1>1, <1>2, <1>8, <1>9, <2>1, <2>2, SegmentIs
<1>11. Appended(c, a, b, d, a - 1, n, x)
  <2>1. a \in Int /\ b \in Int /\ a <= b + 1 /\ a - 1 \in Int /\ n - (a - 1) = (b - a) + 1 /\ n \in Int
    BY <1>1, <1>5
  <2>2. ASSUME NEW i \in 0 .. b - a
        PROVE  d[(a - 1) + i] = c[a + i] /\ c[a + i] \in Nodes /\ c[a + i] # c[1]
    <3>1. a + i \in 1 .. n /\ a + i # 1 /\ (a - 1) + i \in 1 .. n - 1 /\ ((a - 1) + i) + 1 = a + i
      BY <1>1, <1>4, <1>5, <1>6
    <3> QED
      BY <1>3, <1>6, <1>8, <3>1
  <2>3. d[n] = c[1] /\ data' = [data EXCEPT ![c[1]] = x] /\ c[1] \in Nodes
    BY <1>2, <1>3, <1>6, <1>8, <2>1
  <2> DEFINE e == a - 1
  <2> HIDE DEF e
  <2>4. Appended(c, a, b, d, e, n, x)
    <3>1. Stored(c, a, b, d, e, n, e, d[n], x)
      BY <1>1, <2>1, <2>2, <2>3 DEF e, Stored
    <3> QED
      BY <3>1, ShownLast
  <2> QED
    BY <2>4 DEF e
<1> QED
  BY <1>7, <1>10, <1>11

\* addLast, in a new node.
LEMMA AddsLastNew ==
  ASSUME NEW n, NEW c, Chain(n, c), NEW a, NEW b, Segment(n, c, a, b),
         NEW x \in Items, AddLastNew(x)
  PROVE  \E k, d, e, f : /\ Chain(k, d)' /\ Segment(k, d, e, f)'
                         /\ Appended(c, a, b, d, e, f, x)
<1>1. /\ n \in Nat /\ a \in 1 .. n + 1 /\ b \in a - 1 .. n
      /\ data \in [Nodes -> Items \cup {Null}] /\ maxNodeCache \in MaxCaches /\ maxNodeCache \in Nat
      /\ n - ((b - a) + 1) <= maxNodeCache
      /\ tail = Null <=> b < a
      /\ a <= b => a \in 1 .. n /\ b \in 1 .. n /\ head = c[a] /\ tail = c[b]
  BY SegmentFacts
<1>2. /\ tail # Null /\ next[tail] = Null /\ first' = first /\ head' = head
      /\ maxNodeCache' = maxNodeCache
      /\ \E m \in Nodes : Allocate(m, tail, Null) /\ tail' = m /\ last' = m /\ Store(m, x)
  BY DEF AddLastNew
<1>3. PICK m \in Nodes : Allocate(m, tail, Null) /\ tail' = m /\ last' = m /\ Store(m, x)
  BY <1>2
<1>4. /\ c \in [1 .. n -> Nodes] /\ last = NodeAt(n, c, n) /\ allocated = {c[i] : i \in 1 .. n}
      /\ \A i \in 1 .. n : next[c[i]] = NodeAt(n, c, i + 1)
  BY ChainFacts
<1>5. a <= b /\ a \in 1 .. n /\ b \in 1 .. n /\ head = c[a] /\ tail = c[b]
  BY <1>1, <1>2
<1>6. b = n
  <2>1. ~(b + 1 \in 1 .. n)
    BY <1>2, <1>4, <1>5, NodesAssumption DEF NodeAt
  <2> QED
    BY <1>1, <1>5, <2>1
<1>7. tail = last /\ n # 0
  BY <1>4, <1>5, <1>6 DEF NodeAt
<1> DEFINE d == ThenNode(n, c, m)
           k == n + 1
<1>8. Chain(k, d)'
  BY <1>2, <1>3, <1>7, ChainLonger
<1>9. /\ k \in Nat /\ d \in [1 .. k -> Nodes] /\ d[k] = m /\ \A i \in 1 .. n : d[i] = c[i]
      /\ m \notin allocated
  <2>1. m \notin allocated
    BY <1>3 DEF Allocate
  <2>2. k \in Nat /\ d \in [1 .. k -> Nodes] /\ d[k] = m /\ \A i \in 1 .. n : d[i] = c[i]
    BY <1>1, <1>4 DEF ThenNode
  <2> QED
    BY <2>1, <2>2
<1>10. data' = [data EXCEPT ![m] = x] /\ data' \in [Nodes -> Items \cup {Null}]
  BY <1>1, <1>3 DEF Store
<1>11. k \in a .. k /\ a \in 1 .. k /\ k - ((k - a) + 1) <= maxNodeCache /\ k - a = (b - a) + 1
       /\ k \in Int /\ a \in Int /\ b \in Int /\ a <= b + 1
  BY <1>1, <1>5, <1>6
<1> HIDE DEF d, k
<1>12. Segment(k, d, a, k)'
  <2>1. head' = d[a] /\ tail' = d[k]
    BY <1>2, <1>3, <1>5, <1>9
  <2> QED
    BY <1>1, <1>2, <1>9, <1>10, <1>11, <2>1, SegmentIs
<1>13. Appended(c, a, b, d, a, k, x)
  <2>1. ASSUME NEW i \in 0 .. b - a PROVE d[a + i] = c[a + i] /\ c[a + i] \in Nodes /\ c[a + i] # m
    <3>1. a + i \in 1 .. n
      BY <1>1, <1>5
    <3> QED
      BY <1>4, <1>9, <3>1
  <2>2. Stored(c, a, b, d, a, k, a, d[k], x)
    BY <1>1, <1>9, <1>10, <1>11, <2>1 DEF Stored
  <2> QED
    BY <2>2, ShownLast
<1> QED
  BY <1>8, <1>12, <1>13

\* addFirst, in the cached node before the head.
LEMMA AddsFirstBeforeHead ==
  ASSUME NEW n, NEW c, Chain(n, c), NEW a, NEW b, Segment(n, c, a, b),
         NEW x \in Items, AddFirstBeforeHead(x)
  PROVE  \E k, d, e, f : /\ Chain(k, d)' /\ Segment(k, d, e, f)'
                         /\ Prepended(c, a, b, d, e, f, x)
<1>1. /\ n \in Nat /\ a \in 1 .. n + 1 /\ b \in a - 1 .. n
      /\ data \in [Nodes -> Items \cup {Null}] /\ maxNodeCache \in MaxCaches /\ maxNodeCache \in Nat
      /\ n - ((b - a) + 1) <= maxNodeCache
      /\ head = Null <=> b < a
      /\ a <= b => a \in 1 .. n /\ b \in 1 .. n /\ head = c[a] /\ tail = c[b]
  BY SegmentFacts
<1>2. /\ head # Null /\ previous[head] # Null /\ head' = previous[head]
      /\ data' = [data EXCEPT ![previous[head]] = x]
      /\ tail' = tail /\ maxNodeCache' = maxNodeCache /\ SameChain /\ UNCHANGED <<first, last>>
  BY DEF AddFirstBeforeHead, Store
<1>3. /\ c \in [1 .. n -> Nodes] /\ \A i, j \in 1 .. n : c[i] = c[j] => i = j
      /\ \A i \in 1 .. n : previous[c[i]] = NodeAt(n, c, i - 1)
  BY ChainFacts
<1>4. a <= b /\ a \in 1 .. n /\ b \in 1 .. n /\ head = c[a] /\ tail = c[b]
  BY <1>1, <1>2
<1> DEFINE e == a - 1
<1>5. e \in 1 .. n /\ previous[head] = c[e] /\ c[e] \in Nodes
  <2>1. e \in 1 .. n
    BY <1>2, <1>3, <1>4 DEF NodeAt
  <2> QED
    BY <1>3, <1>4, <2>1 DEF NodeAt
<1>6. Chain(n, c)'
  BY <1>2, ChainStays
<1>7. data' \in [Nodes -> Items \cup {Null}]
  BY <1>1, <1>2
<1>8. /\ e \in 1 .. n /\ b \in e .. n /\ n - ((b - e) + 1) <= maxNodeCache
      /\ b - e = (b - a) + 1 /\ e \in Int /\ a \in Int /\ b \in Int /\ a <= b + 1 /\ e + 1 = a
  BY <1>1, <1>4, <1>5
<1>9. ASSUME NEW i \in 0 .. b - a PROVE c[a + i] \in Nodes /\ c[a + i] # c[e]
  <2>1. a + i \in 1 .. n /\ a + i # e
    BY <1>1, <1>4
  <2> QED
    BY <1>3, <1>5, <2>1
<1> HIDE DEF e
<1>10. Segment(n, c, e, b)'
  BY <1>1, <1>2, <1>3, <1>4, <1>5, <1>7, <1>8, SegmentIs
<1>11. Prepended(c, a, b, c, e, b, x)
  <2>1. Stored(c, a, b, c, e, b, e + 1, c[e], x)
    BY <1>1, <1>2, <1>5, <1>8, <1>9 DEF Stored
  <2> QED
    BY <2>1, ShownFirst
<1> QED
  BY <1>6, <1>10, <1>11

\* addFirst, in the cached node moved from the end of the chain.
LEMMA AddsFirstFromEnd ==
  ASSUME NEW n, NEW c, Chain(n, c), NEW a, NEW b, Segment(n, c, a, b),
         NEW x \in Items, AddFirstFromEnd(x)
  PROVE  \E k, d, e, f : /\ Chain(k, d)' /\ Segment(k, d, e, f)'
                         /\ Prepended(c, a, b, d, e, f, x)
<1>1. /\ n \in Nat /\ a \in 1 .. n + 1 /\ b \in a - 1 .. n
      /\ data \in [Nodes -> Items \cup {Null}] /\ maxNodeCache \in MaxCaches /\ maxNodeCache \in Nat
      /\ n - ((b - a) + 1) <= maxNodeCache
      /\ head = Null <=> b < a
      /\ a <= b => a \in 1 .. n /\ b \in 1 .. n /\ head = c[a] /\ tail = c[b]
  BY SegmentFacts
<1>2. /\ head # Null /\ previous[head] = Null /\ last # tail
      /\ last' = previous[last]
      /\ next' = [next EXCEPT ![previous[last]] = Null, ![last] = first]
      /\ previous' = [previous EXCEPT ![last] = Null, ![first] = last]
      /\ head' = last /\ first' = last
      /\ data' = [data EXCEPT ![last] = x]
      /\ tail' = tail /\ allocated' = allocated /\ nodeCount' = nodeCount /\ maxNodeCache' = maxNodeCache
  BY DEF AddFirstFromEnd, Store
<1>3. /\ c \in [1 .. n -> Nodes] /\ \A i, j \in 1 .. n : c[i] = c[j] => i = j
      /\ last = NodeAt(n, c, n)
      /\ \A i \in 1 .. n : previous[c[i]] = NodeAt(n, c, i - 1)
  BY ChainFacts
<1>4. a <= b /\ a \in 1 .. n /\ b \in 1 .. n /\ head = c[a] /\ tail = c[b]
  BY <1>1, <1>2
<1>5. a = 1
  <2>1. ~(a - 1 \in 1 .. n)
    BY <1>2, <1>3, <1>4, NodesAssumption DEF NodeAt
  <2> QED
    BY <1>1, <1>4, <2>1
<1>6. n \in 1 .. n /\ last = c[n] /\ b # n /\ n > 1
  <2>1. n \in 1 .. n /\ last = c[n]
    BY <1>1, <1>3, <1>4 DEF NodeAt
  <2>2. b # n
    BY <1>2, <1>4, <2>1
  <2> QED
    BY <1>1, <1>4, <2>1, <2>2
<1> DEFINE d == TurnedBack(n, c)
           f == b + 1
<1>7. Chain(n, d)'
  BY <1>2, <1>6, ChainTurnedBack
<1>8. d \in [1 .. n -> Nodes] /\ d[1] = c[n] /\ \A i \in 1 .. n - 1 : d[i + 1] = c[i]
  BY <1>1, <1>3, <1>6, TurnedBackNodes
<1> HIDE DEF d
<1>9. data' \in [Nodes -> Items \cup {Null}]
  BY <1>1, <1>2
<1>10. /\ 1 \in 1 .. n /\ f \in 1 .. n /\ n - ((f - 1) + 1) <= maxNodeCache /\ b \in 1 .. n - 1
       /\ f - 1 = (b - a) + 1 /\ 1 \in Int /\ f \in Int /\ a \in Int /\ b \in Int /\ a <= b + 1
  BY <1>1, <1>4, <1>5, <1>6
<1>11. head' = d[1] /\ tail' = d[f]
  BY <1>2, <1>4, <1>6, <1>8, <1>10
<1> HIDE DEF f
<1>12. Segment(n, d, 1, f)'
  BY <1>1, <1>2, <1>8, <1>9, <1>10, <1>11, SegmentIs
<1>13. Prepended(c, a, b, d, 1, f, x)
  <2>1. ASSUME NEW i \in 0 .. b - a
        PROVE  d[(1 + 1) + i] = c[a + i] /\ c[a + i] \in Nodes /\ c[a + i] # c[n]
    <3>1. a + i \in 1 .. n /\ a + i # n /\ a + i \in 1 .. n - 1 /\ (1 + 1) + i = (a + i) + 1
      BY <1>1, <1>4, <1>5, <1>6
    <3> QED
      BY <1>3, <1>6, <1>8, <3>1
  <2>2. Stored(c, a, b, d, 1, f, 1 + 1, d[1], x)
    BY <1>1, <1>2, <1>3, <1>6, <1>8, <1>10, <2>1 DEF Stored
  <2> QED
    BY <2>2, ShownFirst
<1> QED
  BY <1>7, <1>12, <1>13

\* addFirst, in a new node.
LEMMA AddsFirstNew ==
  ASSUME NEW n, NEW c, Chain(n, c), NEW a, NEW b, Segment(n, c, a, b),
         NEW x \in Items, AddFirstNew(x)
  PROVE  \E k, d, e, f : /\ Chain(k, d)' /\ Segment(k, d, e, f)'
                         /\ Prepended(c, a, b, d, e, f, x)
<1>1. /\ n \in Nat /\ a \in 1 .. n + 1 /\ b \in a - 1 .. n
      /\ data \in [Nodes -> Items \cup {Null}] /\ maxNodeCache \in MaxCaches /\ maxNodeCache \in Nat
      /\ n - ((b - a) + 1) <= maxNodeCache
      /\ head = Null <=> b < a
      /\ a <= b => a \in 1 .. n /\ b \in 1 .. n /\ head = c[a] /\ tail = c[b]
  BY SegmentFacts
<1>2. /\ head # Null /\ previous[head] = Null /\ last' = last /\ tail' = tail
      /\ maxNodeCache' = maxNodeCache
      /\ \E m \in Nodes : Allocate(m, Null, head) /\ head' = m /\ first' = m /\ Store(m, x)
  BY DEF AddFirstNew
<1>3. PICK m \in Nodes : Allocate(m, Null, head) /\ head' = m /\ first' = m /\ Store(m, x)
  BY <1>2
<1>4. /\ c \in [1 .. n -> Nodes] /\ first = NodeAt(n, c, 1) /\ allocated = {c[i] : i \in 1 .. n}
      /\ \A i \in 1 .. n : previous[c[i]] = NodeAt(n, c, i - 1)
  BY ChainFacts
<1>5. a <= b /\ a \in 1 .. n /\ b \in 1 .. n /\ head = c[a] /\ tail = c[b]
  BY <1>1, <1>2
<1>6. a = 1
  <2>1. ~(a - 1 \in 1 .. n)
    BY <1>2, <1>4, <1>5, NodesAssumption DEF NodeAt
  <2> QED
    BY <1>1, <1>5, <2>1
<1>7. head = first /\ n # 0
  BY <1>4, <1>5, <1>6 DEF NodeAt
<1> DEFINE d == NodeThen(n, c, m)
           k == n + 1
           f == b + 1
<1>8. Chain(k, d)'
  BY <1>2, <1>3, <1>7, ChainLongerBefore
<1>9. /\ k \in Nat /\ d \in [1 .. k -> Nodes] /\ d[1] = m /\ \A i \in 1 .. n : d[i + 1] = c[i]
      /\ m \notin allocated
  <2>1. m \notin allocated
    BY <1>3 DEF Allocate
  <2>2. k \in Nat /\ d \in [1 .. k -> Nodes] /\ d[1] = m /\ \A i \in 1 .. n : d[i + 1] = c[i]
    <3>1. k \in Nat /\ \A i \in 1 .. n : i + 1 \in 1 .. k /\ i + 1 # 1 /\ (i + 1) - 1 = i
      BY <1>1
    <3>2. 1 \in 1 .. k /\ \A i \in 1 .. k : i # 1 => i - 1 \in 1 .. n
      BY <1>1
    <3>3. d = [i \in 1 .. k |-> IF i = 1 THEN m ELSE c[i - 1]]
      BY DEF NodeThen
    <3> HIDE DEF d, k
    <3> QED
      BY <1>4, <3>1, <3>2, <3>3
  <2> QED
    BY <2>1, <2>2
<1>10. data' = [data EXCEPT ![m] = x] /\ data' \in [Nodes -> Items \cup {Null}]
  BY <1>1, <1>3 DEF Store
<1>11. /\ 1 \in 1 .. k /\ f \in 1 .. k /\ k - ((f - 1) + 1) <= maxNodeCache /\ f - 1 = (b - a) + 1
       /\ f \in Int /\ a \in Int /\ b \in Int /\ 1 \in Int /\ a <= b + 1
  BY <1>1, <1>5, <1>6
<1>12. head' = d[1] /\ tail' = d[f]
  BY <1>2, <1>3, <1>5, <1>9
<1> HIDE DEF d, k, f
<1>13. Segment(k, d, 1, f)'
  BY <1>1, <1>2, <1>9, <1>10, <1>11, <1>12, SegmentIs
<1>14. Prepended(c, a, b, d, 1, f, x)
  <2>1. ASSUME NEW i \in 0 .. b - a
        PROVE  d[(1 + 1) + i] = c[a + i] /\ c[a + i] \in Nodes /\ c[a + i] # m
    <3>1. a + i \in 1 .. n /\ (1 + 1) + i = (a + i) + 1
      BY <1>1, <1>5, <1>6
    <3> QED
      BY <1>4, <1>9, <3>1
  <2>2. Stored(c, a, b, d, 1, f, 1 + 1, d[1], x)
    BY <1>1, <1>9, <1>10, <1>11, <2>1 DEF Stored
  <2> QED
    BY <2>2, ShownFirst
<1> QED
  BY <1>8, <1>13, <1>14

-----------------------------------------------------------------------------
(* The list: what a removal does                                           *)

\* The nodes freed: p of them from the beginning and q from the end.
Freed(p, q) == {Step(next, first)[i] : i \in 0 .. p - 1} \cup {Step(previous, last)[i] : i \in 0 .. q - 1}

\* What checkCacheOverflow does, once it is known how many nodes it frees.
Trims(h, t, p, q, f, l) ==
  /\ head' = h /\ tail' = t
  /\ first' = f /\ last' = l
  /\ allocated' = allocated \ Freed(p, q)
  /\ nodeCount' = nodeCount - (p + q)
  /\ previous' = [m \in Nodes |-> IF m \in Freed(p, q) \/ m = f THEN Null ELSE previous[m]]
  /\ next' = [m \in Nodes |-> IF m \in Freed(p, q) \/ m = l THEN Null ELSE next[m]]
  /\ data' = [m \in Nodes |-> IF m \in Freed(p, q) THEN Null ELSE data[m]]

\* checkCacheOverflow trims the chain at both ends.
LEMMA OverflowTrims ==
  ASSUME NEW h, NEW t, CheckCacheOverflow(h, t)
  PROVE  LET begin == Least(Excess, Distance(next, first, h))
             newFirst == Step(next, first)[begin]
             end == IF newFirst = Null THEN 0
                    ELSE Least(Excess - begin, Distance(previous, last, t))
             newLast == IF newFirst = Null THEN Null ELSE Step(previous, last)[end]
         IN  Trims(h, t, begin, end, newFirst, newLast)
BY Zenon DEF CheckCacheOverflow, Trims, Freed

\* It frees the nodes of the first p places and of the last q.
LEMMA FreedIs ==
  ASSUME NEW n, NEW c, Chain(n, c), NEW p \in Nat, NEW q \in Nat, p + q <= n
  PROVE  \A j \in 1 .. n : c[j] \in Freed(p, q) <=> j <= p \/ j > n - q
<1>1. /\ n \in Nat /\ c \in [1 .. n -> Nodes] /\ \A i, j \in 1 .. n : c[i] = c[j] => i = j
      /\ first = NodeAt(n, c, 1) /\ last = NodeAt(n, c, n)
  BY ChainFacts
<1>2. Most \in Nat /\ n <= Most
  BY MostIsNat, ChainFits
<1>3. \A i \in 0 .. p - 1 : Step(next, first)[i] = c[1 + i]
  <2>1. Step(next, first) = [i \in 0 .. Most |-> NodeAt(n, c, 1 + i)]
    BY <1>1, StepsNext
  <2>2. \A i \in 0 .. p - 1 : i \in 0 .. Most /\ 1 + i \in 1 .. n
    BY <1>1, <1>2
  <2> QED
    BY <2>1, <2>2 DEF NodeAt
<1>4. \A i \in 0 .. q - 1 : Step(previous, last)[i] = c[n - i]
  <2>1. Step(previous, last) = [i \in 0 .. Most |-> NodeAt(n, c, n - i)]
    BY <1>1, StepsPrevious
  <2>2. \A i \in 0 .. q - 1 : i \in 0 .. Most /\ n - i \in 1 .. n
    BY <1>1, <1>2
  <2> QED
    BY <2>1, <2>2 DEF NodeAt
<1> SUFFICES ASSUME NEW j \in 1 .. n PROVE c[j] \in Freed(p, q) <=> j <= p \/ j > n - q
  OBVIOUS
<1>5. ASSUME j <= p PROVE c[j] \in Freed(p, q)
  <2>1. j - 1 \in 0 .. p - 1 /\ 1 + (j - 1) = j
    BY <1>1, <1>5
  <2>2. Step(next, first)[j - 1] = c[j]
    BY <1>3, <2>1
  <2> QED
    BY <2>1, <2>2 DEF Freed
<1>6. ASSUME j > n - q PROVE c[j] \in Freed(p, q)
  <2>1. n - j \in 0 .. q - 1 /\ n - (n - j) = j
    BY <1>1, <1>6
  <2>2. Step(previous, last)[n - j] = c[j]
    BY <1>4, <2>1
  <2> QED
    BY <2>1, <2>2 DEF Freed
<1>7. ASSUME c[j] \in Freed(p, q) PROVE j <= p \/ j > n - q
  <2>1. CASE \E i \in 0 .. p - 1 : c[j] = Step(next, first)[i]
    <3>1. PICK i \in 0 .. p - 1 : c[j] = c[1 + i]
      BY <1>3, <2>1
    <3>2. 1 + i \in 1 .. n
      BY <1>1
    <3>3. j = 1 + i
      BY <1>1, <3>1, <3>2
    <3> QED
      BY <3>3
  <2>2. CASE \E i \in 0 .. q - 1 : c[j] = Step(previous, last)[i]
    <3>1. PICK i \in 0 .. q - 1 : c[j] = c[n - i]
      BY <1>4, <2>2
    <3>2. n - i \in 1 .. n
      BY <1>1
    <3>3. j = n - i
      BY <1>1, <3>1, <3>2
    <3> QED
      BY <1>1, <3>3
  <2> QED
    BY <1>7, <2>1, <2>2 DEF Freed
<1> QED
  BY <1>5, <1>6, <1>7

\* What is left of a chain.
Trimmed(n, c, p, q) == [i \in 1 .. n - (p + q) |-> c[p + i]]

\* The items in them stay.
DataStays(n, c, p, q) == \A i \in p + 1 .. n - q : data'[c[i]] = data[c[i]]

\* What is left is a chain, and its nodes keep their items.
LEMMA ChainTrimmed ==
  ASSUME NEW n, NEW c, Chain(n, c), NEW p \in Nat, NEW q \in Nat, p + q <= n,
         NEW h, NEW t, NEW f, NEW l, Trims(h, t, p, q, f, l),
         f = IF p + q = n THEN Null ELSE c[p + 1],
         l = IF p + q = n THEN Null ELSE c[n - q],
         data \in [Nodes -> Items \cup {Null}]
  PROVE  /\ Chain(n - (p + q), Trimmed(n, c, p, q))'
         /\ data' \in [Nodes -> Items \cup {Null}]
         /\ DataStays(n, c, p, q)
<1> DEFINE d == Trimmed(n, c, p, q)
           k == n - (p + q)
           F == Freed(p, q)
<1>1. /\ n \in Nat /\ c \in [1 .. n -> Nodes] /\ \A i, j \in 1 .. n : c[i] = c[j] => i = j
      /\ allocated = {c[i] : i \in 1 .. n} /\ nodeCount = n
      /\ next \in [Nodes -> Pointer] /\ previous \in [Nodes -> Pointer]
      /\ \A i \in 1 .. n : next[c[i]] = NodeAt(n, c, i + 1) /\ previous[c[i]] = NodeAt(n, c, i - 1)
  BY ChainFacts
<1>2. /\ first' = f /\ last' = l /\ allocated' = allocated \ F /\ nodeCount' = nodeCount - (p + q)
      /\ previous' = [m \in Nodes |-> IF m \in F \/ m = f THEN Null ELSE previous[m]]
      /\ next' = [m \in Nodes |-> IF m \in F \/ m = l THEN Null ELSE next[m]]
      /\ data' = [m \in Nodes |-> IF m \in F THEN Null ELSE data[m]]
  BY DEF Trims
<1>3. \A j \in 1 .. n : c[j] \in F <=> j <= p \/ j > n - q
  BY FreedIs
<1>4. k \in Nat /\ \A i \in 1 .. k : p + i \in 1 .. n /\ ~(p + i <= p) /\ ~(p + i > n - q)
  BY <1>1
<1>5. d \in [1 .. k -> Nodes] /\ \A i \in 1 .. k : d[i] = c[p + i] /\ d[i] \notin F
  BY <1>1, <1>3, <1>4 DEF Trimmed
<1> HIDE DEF d, F
<1>6. \A i, j \in 1 .. k : d[i] = d[j] => i = j
  <2> SUFFICES ASSUME NEW i \in 1 .. k, NEW j \in 1 .. k, d[i] = d[j] PROVE i = j
    OBVIOUS
  <2>1. p + i \in 1 .. n /\ p + j \in 1 .. n /\ c[p + i] = c[p + j]
    BY <1>4, <1>5
  <2>2. p + i = p + j
    BY <1>1, <2>1
  <2> QED
    BY <1>4, <2>2
<1>7. allocated' = {d[i] : i \in 1 .. k}
  <2>1. ASSUME NEW x \in allocated' PROVE x \in {d[i] : i \in 1 .. k}
    <3>1. PICK j \in 1 .. n : x = c[j] /\ c[j] \notin F
      BY <1>1, <1>2, <2>1
    <3>2. j - p \in 1 .. k /\ p + (j - p) = j
      BY <1>1, <1>3, <3>1
    <3>3. d[j - p] = x
      BY <1>5, <3>1, <3>2
    <3> HIDE DEF k
    <3> QED
      BY <3>2, <3>3
  <2>2. ASSUME NEW i \in 1 .. k PROVE d[i] \in allocated'
    <3>1. p + i \in 1 .. n /\ d[i] = c[p + i] /\ d[i] \notin F
      BY <1>4, <1>5
    <3>2. d[i] \in allocated
      BY <1>1, <3>1
    <3> QED
      BY <1>2, <3>1, <3>2
  <2> HIDE DEF k
  <2>3. {d[i] : i \in 1 .. k} \subseteq allocated'
    BY <2>2
  <2>4. allocated' \subseteq {d[i] : i \in 1 .. k}
    BY <2>1
  <2> QED
    BY <2>3, <2>4
<1>8. nodeCount' = k
  BY <1>1, <1>2
<1>9. first' = NodeAt(k, d, 1) /\ last' = NodeAt(k, d, k)
  <2>1. CASE p + q = n
    BY <1>2, <2>1 DEF NodeAt
  <2>2. CASE p + q # n
    <3>1. 1 \in 1 .. k /\ k \in 1 .. k /\ p + k = n - q
      BY <1>1, <2>2
    <3> HIDE DEF k
    <3> QED
      BY <1>2, <1>5, <2>2, <3>1 DEF NodeAt
  <2> QED
    BY <2>1, <2>2
<1>10. next' \in [Nodes -> Pointer] /\ previous' \in [Nodes -> Pointer]
       /\ data' \in [Nodes -> Items \cup {Null}]
  BY <1>1, <1>2 DEF Pointer
<1>11. ASSUME NEW i \in 1 .. k
       PROVE  next'[d[i]] = NodeAt(k, d, i + 1) /\ previous'[d[i]] = NodeAt(k, d, i - 1)
  <2>1. /\ p + i \in 1 .. n /\ d[i] = c[p + i] /\ d[i] \notin F /\ d[i] \in Nodes
        /\ n - q \in 1 .. n /\ p + 1 \in 1 .. n /\ p + q # n
        /\ (p + i) + 1 = p + (i + 1) /\ (p + i) - 1 = p + (i - 1)
    BY <1>1, <1>4, <1>5
  <2>2. next'[d[i]] = IF d[i] = l THEN Null ELSE NodeAt(n, c, p + (i + 1))
    BY <1>1, <1>2, <2>1
  <2>3. previous'[d[i]] = IF d[i] = f THEN Null ELSE NodeAt(n, c, p + (i - 1))
    BY <1>1, <1>2, <2>1
  <2>4. next'[d[i]] = NodeAt(k, d, i + 1)
    <3>1. CASE i = k
      <4>1. p + i = n - q /\ ~(i + 1 \in 1 .. k)
        BY <1>1, <3>1
      <4> QED
        BY <2>1, <2>2, <4>1 DEF NodeAt
    <3>2. CASE i # k
      <4>1. p + i # n - q /\ i + 1 \in 1 .. k /\ p + (i + 1) \in 1 .. n
        BY <1>1, <3>2
      <4>2. d[i] # l
        BY <1>1, <2>1, <4>1
      <4>3. d[i + 1] = c[p + (i + 1)]
        BY <1>5, <4>1
      <4> HIDE DEF k
      <4> QED
        BY <2>2, <4>1, <4>2, <4>3 DEF NodeAt
    <3> QED
      BY <3>1, <3>2
  <2>5. previous'[d[i]] = NodeAt(k, d, i - 1)
    <3>1. CASE i = 1
      <4>1. ~(i - 1 \in 1 .. k)
        BY <3>1
      <4> QED
        BY <2>1, <2>3, <3>1, <4>1 DEF NodeAt
    <3>2. CASE i # 1
      <4>1. p + i # p + 1 /\ i - 1 \in 1 .. k /\ p + (i - 1) \in 1 .. n
        BY <1>1, <3>2
      <4>2. d[i] # f
        BY <1>1, <2>1, <4>1
      <4>3. d[i - 1] = c[p + (i - 1)]
        BY <1>5, <4>1
      <4> HIDE DEF k
      <4> QED
        BY <2>3, <4>1, <4>2, <4>3 DEF NodeAt
    <3> QED
      BY <3>1, <3>2
  <2> QED
    BY <2>4, <2>5
<1>12. DataStays(n, c, p, q)
  <2> USE DEF DataStays
  <2> SUFFICES ASSUME NEW i \in p + 1 .. n - q PROVE data'[c[i]] = data[c[i]]
    OBVIOUS
  <2>1. i \in 1 .. n /\ ~(i <= p) /\ ~(i > n - q)
    BY <1>1
  <2> QED
    BY <1>1, <1>2, <1>3, <2>1
<1> HIDE DEF k
<1>13. Chain(k, d)'
  BY <1>4, <1>5, <1>6, <1>7, <1>8, <1>9, <1>10, <1>11, ChainIs
<1> QED
  BY <1>10, <1>12, <1>13 DEF d, k

\* The list shows, after the step, what it showed from a to b of the old chain.
Shows(c, a, b, d, e, f) == Shown(d, e, f)' = Shown(c, a, b)

\* A list whose nodes keep their items shows the same.
LEMMA ShownStays ==
  ASSUME NEW c, NEW a \in Int, NEW b \in Int, NEW d, NEW e \in Int, NEW f \in Int, f - e = b - a,
         \A i \in 0 .. b - a : data'[d[e + i]] = data[c[a + i]]
  PROVE  Shows(c, a, b, d, e, f)
<1> DEFINE l == (b - a) + 1
<1>1. l \in Int /\ (f - e) + 1 = l
  OBVIOUS
<1>2. ASSUME NEW i \in 1 .. l PROVE data'[d[(e + i) - 1]] = data[c[(a + i) - 1]]
  <2>1. i - 1 \in 0 .. b - a /\ (e + i) - 1 = e + (i - 1) /\ (a + i) - 1 = a + (i - 1)
    OBVIOUS
  <2> QED
    BY <2>1
<1> HIDE DEF l
<1>3. [i \in 1 .. l |-> data'[d[(e + i) - 1]]] = [i \in 1 .. l |-> data[c[(a + i) - 1]]]
  BY <1>2
<1>4. Shown(d, e, f)' = [i \in 1 .. l |-> data'[d[(e + i) - 1]]]
  BY <1>1 DEF Shown
<1>5. Shown(c, a, b) = [i \in 1 .. l |-> data[c[(a + i) - 1]]]
  BY DEF l, Shown
<1> QED
  BY <1>3, <1>4, <1>5 DEF Shows

\* No more is freed than brings the chain back to its limit.
FreesExcess == nodeCount' < nodeCount => nodeCount' >= maxNodeCache

\* The nodes in excess of the limit, bounds.
LEMMA ExcessIs ==
  ASSUME nodeCount \in Nat, maxNodeCache \in Nat
  PROVE  /\ Excess \in Nat /\ nodeCount - Excess <= maxNodeCache
         /\ Excess > 0 => nodeCount - Excess = maxNodeCache
         /\ Excess <= nodeCount
BY DEF Excess

\* How many nodes it frees on either side of a list that is not empty: all the
\* excess, or all the cached nodes.
LEMMA OverflowFrees ==
  ASSUME NEW n, NEW c, Chain(n, c), NEW a \in 1 .. n, NEW b \in a .. n,
         maxNodeCache \in MaxCaches, CheckCacheOverflow(c[a], c[b])
  PROVE  \E p \in 0 .. a - 1, q \in 0 .. n - b :
           /\ Trims(c[a], c[b], p, q, c[p + 1], c[n - q])
           /\ p + q <= Excess
           /\ p + q = Excess \/ (p = a - 1 /\ q = n - b)
<1>1. n \in Nat /\ c \in [1 .. n -> Nodes] /\ nodeCount = n
      /\ first = NodeAt(n, c, 1) /\ last = NodeAt(n, c, n) /\ maxNodeCache \in Nat
  BY ChainFacts, CacheAssumption
<1>2. Most \in Nat /\ n <= Most
  BY MostIsNat, ChainFits
<1> DEFINE p == Least(Excess, Distance(next, first, c[a]))
           f == Step(next, first)[p]
           q == IF f = Null THEN 0 ELSE Least(Excess - p, Distance(previous, last, c[b]))
           l == IF f = Null THEN Null ELSE Step(previous, last)[q]
<1>3. Excess \in Nat /\ Excess <= n
  BY <1>1, ExcessIs
<1>4. Trims(c[a], c[b], p, q, f, l)
  BY OverflowTrims, Zenon
<1>5. Distance(next, first, c[a]) = a - 1 /\ Distance(previous, last, c[b]) = n - b
  <2>1. 1 \in 1 .. n + 1 /\ a \in 1 .. n + 1 /\ n \in 0 .. n /\ b \in 0 .. n /\ b \in 1 .. n
    BY <1>1
  <2>2. c[a] = NodeAt(n, c, a) /\ c[b] = NodeAt(n, c, b)
    BY <2>1 DEF NodeAt
  <2>3. Distance(next, NodeAt(n, c, 1), NodeAt(n, c, a)) = a - 1
    BY <2>1, DistanceNext
  <2>4. Distance(previous, NodeAt(n, c, n), NodeAt(n, c, b)) = n - b
    BY <2>1, DistancePrevious
  <2> QED
    BY <1>1, <2>2, <2>3, <2>4
<1>6. p = Least(Excess, a - 1) /\ p \in 0 .. a - 1
  BY <1>1, <1>3, <1>5 DEF Least
<1>7. f = c[p + 1] /\ f # Null
  <2>1. Step(next, first) = [i \in 0 .. Most |-> NodeAt(n, c, 1 + i)]
    BY <1>1, StepsNext
  <2>2. p \in 0 .. Most /\ 1 + p = p + 1 /\ p + 1 \in 1 .. n
    BY <1>1, <1>2, <1>6
  <2>3. f = NodeAt(n, c, p + 1)
    <3> HIDE DEF p
    <3> QED
      BY <2>1, <2>2
  <2>4. c[p + 1] # Null
    BY <1>1, <2>2, NodesAssumption
  <2> QED
    BY <2>2, <2>3, <2>4 DEF NodeAt
<1> HIDE DEF f
<1>8. q = Least(Excess - p, n - b)
  BY <1>5, <1>7
<1> HIDE DEF p, q
<1>9. q \in 0 .. n - b /\ p + q <= Excess /\ (p + q = Excess \/ (p = a - 1 /\ q = n - b))
  BY <1>1, <1>3, <1>6, <1>8 DEF Least
<1>10. l = c[n - q]
  <2>1. Step(previous, last) = [i \in 0 .. Most |-> NodeAt(n, c, n - i)]
    BY <1>1, StepsPrevious
  <2>2. q \in 0 .. Most /\ n - q \in 1 .. n
    BY <1>1, <1>2, <1>9
  <2> QED
    BY <1>7, <2>1, <2>2 DEF NodeAt
<1> HIDE DEF l
<1>11. Trims(c[a], c[b], p, q, c[p + 1], c[n - q])
  BY <1>4, <1>7, <1>10
<1> QED
  BY <1>6, <1>9, <1>11

\* checkCacheOverflow of a list that is not empty keeps it and the limit.
LEMMA OverflowKeeps ==
  ASSUME NEW n, NEW c, Chain(n, c), NEW a \in 1 .. n, NEW b \in a .. n,
         data \in [Nodes -> Items \cup {Null}], maxNodeCache \in MaxCaches, maxNodeCache' = maxNodeCache,
         CheckCacheOverflow(c[a], c[b])
  PROVE  /\ \E k, d, e, f : Chain(k, d)' /\ Segment(k, d, e, f)' /\ Shows(c, a, b, d, e, f)
         /\ FreesExcess
<1>1. n \in Nat /\ c \in [1 .. n -> Nodes] /\ nodeCount = n /\ maxNodeCache \in Nat
  BY ChainFacts, CacheAssumption
<1>2. Excess \in Nat /\ n - Excess <= maxNodeCache /\ (Excess > 0 => n - Excess = maxNodeCache) /\ Excess <= n
  BY <1>1, ExcessIs
<1>3. PICK p \in 0 .. a - 1, q \in 0 .. n - b :
        /\ Trims(c[a], c[b], p, q, c[p + 1], c[n - q])
        /\ p + q <= Excess
        /\ p + q = Excess \/ (p = a - 1 /\ q = n - b)
  BY OverflowFrees
<1>4. p \in Nat /\ q \in Nat /\ p + q < n /\ p + q <= n
  BY <1>1
<1> DEFINE d == Trimmed(n, c, p, q)
           k == n - (p + q)
           e == a - p
           g == b - p
<1>5. /\ Chain(k, d)'
      /\ data' \in [Nodes -> Items \cup {Null}]
      /\ \A i \in p + 1 .. n - q : data'[c[i]] = data[c[i]]
  <2> DEFINE f == c[p + 1]
             l == c[n - q]
  <2>1. f = (IF p + q = n THEN Null ELSE c[p + 1]) /\ l = IF p + q = n THEN Null ELSE c[n - q]
    BY <1>1, <1>4
  <2>2. Trims(c[a], c[b], p, q, f, l)
    BY <1>3
  <2> HIDE DEF f, l
  <2>3. Chain(k, d)' /\ data' \in [Nodes -> Items \cup {Null}]
    BY <1>4, <2>1, <2>2, ChainTrimmed
  <2>4. DataStays(n, c, p, q)
    BY <1>4, <2>1, <2>2, ChainTrimmed
  <2> QED
    BY <2>3, <2>4 DEF DataStays
<1>6. d \in [1 .. k -> Nodes] /\ \A i \in 1 .. k : d[i] = c[p + i]
  <2>1. \A i \in 1 .. k : p + i \in 1 .. n
    BY <1>1, <1>4
  <2> QED
    BY <1>1, <2>1 DEF Trimmed
<1>7. /\ k \in Nat /\ e \in 1 .. k /\ g \in e .. k /\ g \in 1 .. k /\ p + e = a /\ p + g = b
      /\ e \in Int /\ g \in Int /\ a \in Int /\ b \in Int /\ g - e = b - a
  BY <1>1, <1>4
<1>8. k - ((g - e) + 1) <= maxNodeCache
  BY <1>1, <1>2, <1>3, <1>4
<1>9. head' = d[e] /\ tail' = d[g]
  <2>1. head' = c[a] /\ tail' = c[b]
    BY <1>3 DEF Trims
  <2> QED
    BY <1>6, <1>7, <2>1
<1> HIDE DEF d
<1>10. \A i \in 0 .. b - a : data'[d[e + i]] = data[c[a + i]]
  <2> SUFFICES ASSUME NEW i \in 0 .. b - a PROVE data'[d[e + i]] = data[c[a + i]]
    OBVIOUS
  <2>1. a + i \in p + 1 .. n - q /\ e + i \in 1 .. k /\ p + (e + i) = a + i
    BY <1>1, <1>4
  <2>2. d[e + i] = c[a + i]
    BY <1>6, <2>1
  <2> QED
    BY <1>5, <2>1, <2>2
<1>11. nodeCount' = k
  BY <1>1, <1>3 DEF Trims
<1>12. FreesExcess
  BY <1>1, <1>2, <1>3, <1>4, <1>11 DEF FreesExcess
<1> HIDE DEF k, e, g
<1>13. Segment(k, d, e, g)'
  BY <1>5, <1>6, <1>7, <1>8, <1>9, SegmentIs
<1>14. Shows(c, a, b, d, e, g)
  BY <1>7, <1>10, ShownStays
<1> QED
  BY <1>5, <1>12, <1>13, <1>14

\* How many nodes it frees when the list is empty: the excess, from the beginning.
LEMMA OverflowEmptyFrees ==
  ASSUME NEW n, NEW c, Chain(n, c),
         maxNodeCache \in MaxCaches, CheckCacheOverflow(Null, Null)
  PROVE  \E p \in 0 .. n :
           /\ p = Excess
           /\ Trims(Null, Null, p, 0, IF p + 0 = n THEN Null ELSE c[p + 1],
                    IF p + 0 = n THEN Null ELSE c[n - 0])
<1>1. n \in Nat /\ c \in [1 .. n -> Nodes] /\ nodeCount = n
      /\ first = NodeAt(n, c, 1) /\ last = NodeAt(n, c, n) /\ maxNodeCache \in Nat
  BY ChainFacts, CacheAssumption
<1>2. Most \in Nat /\ n <= Most
  BY MostIsNat, ChainFits
<1> DEFINE p == Least(Excess, Distance(next, first, Null))
           f == Step(next, first)[p]
           q == IF f = Null THEN 0 ELSE Least(Excess - p, Distance(previous, last, Null))
           l == IF f = Null THEN Null ELSE Step(previous, last)[q]
<1>3. Excess \in Nat /\ Excess <= n
  BY <1>1, ExcessIs
<1>4. Trims(Null, Null, p, q, f, l)
  BY OverflowTrims, Zenon
<1>5. Distance(next, first, Null) = n /\ Distance(previous, last, Null) = n
  <2> DEFINE w == n + 1
  <2>1. 1 \in 1 .. n + 1 /\ w \in 1 .. n + 1 /\ n \in 0 .. n /\ 0 \in 0 .. n /\ w - 1 = n /\ n - 0 = n
    BY <1>1
  <2>2. Null = NodeAt(n, c, w) /\ Null = NodeAt(n, c, 0)
    BY <1>1 DEF NodeAt
  <2> HIDE DEF w
  <2>3. Distance(next, NodeAt(n, c, 1), NodeAt(n, c, w)) = w - 1
    BY <2>1, DistanceNext
  <2>4. Distance(previous, NodeAt(n, c, n), NodeAt(n, c, 0)) = n - 0
    BY <2>1, DistancePrevious
  <2> QED
    BY <1>1, <2>1, <2>2, <2>3, <2>4
<1>6. p = Excess /\ p \in 0 .. n
  BY <1>1, <1>3, <1>5 DEF Least
<1>7. f = NodeAt(n, c, p + 1)
  <2>1. Step(next, first) = [i \in 0 .. Most |-> NodeAt(n, c, 1 + i)]
    BY <1>1, StepsNext
  <2>2. p \in 0 .. Most /\ 1 + p = p + 1
    BY <1>1, <1>2, <1>6
  <2> HIDE DEF p
  <2> QED
    BY <2>1, <2>2
<1> HIDE DEF f
<1>8. q = 0
  BY <1>1, <1>3, <1>5, <1>6 DEF Least
<1> HIDE DEF p, q
<1>9. f = (IF p + 0 = n THEN Null ELSE c[p + 1]) /\ l = IF p + 0 = n THEN Null ELSE c[n - 0]
  <2>1. CASE p = n
    BY <1>1, <1>7, <2>1 DEF NodeAt
  <2>2. CASE p # n
    <3>1. p + 1 \in 1 .. n /\ n \in 1 .. n /\ n - 0 = n /\ p + 0 # n /\ n \in 0 .. n
      BY <1>1, <1>6, <2>2
    <3>2. f = c[p + 1] /\ f # Null
      BY <1>1, <1>7, <3>1, NodesAssumption DEF NodeAt
    <3>3. Step(previous, NodeAt(n, c, n)) = [i \in 0 .. Most |-> NodeAt(n, c, n - i)]
      BY <3>1, StepsPrevious
    <3>4. l = NodeAt(n, c, n - 0)
      BY <1>1, <1>2, <1>8, <3>2, <3>3
    <3> QED
      BY <3>1, <3>2, <3>4 DEF NodeAt
  <2> QED
    BY <2>1, <2>2
<1> HIDE DEF l
<1>10. Trims(Null, Null, p, 0, f, l)
  BY <1>4, <1>8
<1> QED
  BY <1>6, <1>9, <1>10

\* checkCacheOverflow of an empty list keeps it empty and within the limit.
LEMMA OverflowEmpty ==
  ASSUME NEW n, NEW c, Chain(n, c),
         data \in [Nodes -> Items \cup {Null}], maxNodeCache \in MaxCaches, maxNodeCache' = maxNodeCache,
         CheckCacheOverflow(Null, Null)
  PROVE  /\ \E k, d : Chain(k, d)' /\ Segment(k, d, 1, 0)'
         /\ FreesExcess
<1>1. n \in Nat /\ c \in [1 .. n -> Nodes] /\ nodeCount = n /\ maxNodeCache \in Nat
  BY ChainFacts, CacheAssumption
<1>2. Excess \in Nat /\ n - Excess <= maxNodeCache /\ (Excess > 0 => n - Excess = maxNodeCache) /\ Excess <= n
  BY <1>1, ExcessIs
<1>3. PICK p \in 0 .. n :
        /\ p = Excess
        /\ Trims(Null, Null, p, 0, IF p + 0 = n THEN Null ELSE c[p + 1],
                 IF p + 0 = n THEN Null ELSE c[n - 0])
  BY OverflowEmptyFrees
<1> DEFINE f == IF p + 0 = n THEN Null ELSE c[p + 1]
           l == IF p + 0 = n THEN Null ELSE c[n - 0]
           d == Trimmed(n, c, p, 0)
           k == n - (p + 0)
<1>4. /\ Trims(Null, Null, p, 0, f, l)
      /\ f = IF p + 0 = n THEN Null ELSE c[p + 1]
      /\ l = IF p + 0 = n THEN Null ELSE c[n - 0]
  BY <1>3
<1> HIDE DEF f, l
<1>5. p \in Nat /\ 0 \in Nat /\ p + 0 <= n /\ k \in Nat /\ k - ((0 - 1) + 1) <= maxNodeCache
      /\ 1 \in 1 .. k + 1 /\ 0 \in 1 - 1 .. k
  BY <1>1, <1>2, <1>3
<1>6. Chain(k, d)' /\ data' \in [Nodes -> Items \cup {Null}]
  BY <1>4, <1>5, ChainTrimmed
<1>7. nodeCount' = k /\ head' = Null /\ tail' = Null
  BY <1>1, <1>4 DEF Trims
<1>8. FreesExcess
  BY <1>1, <1>2, <1>3, <1>7 DEF FreesExcess
<1> HIDE DEF k, d
<1>9. Segment(k, d, 1, 0)'
  <2>1. ~(1 <= 0)
    OBVIOUS
  <2> QED
    BY <1>5, <1>6, <1>7, <2>1 DEF Segment
<1> QED
  BY <1>6, <1>8, <1>9

\* removeLast shortens the segment at its end and returns what was there.
LEMMA RemovesLast ==
  ASSUME NEW n, NEW c, Chain(n, c), NEW a, NEW b, Segment(n, c, a, b), RemoveLast
  PROVE  /\ \E k, d, e, f : Chain(k, d)' /\ Segment(k, d, e, f)' /\ Shows(c, a, b - 1, d, e, f)
         /\ FreesExcess /\ a <= b /\ result' = data[c[b]]
<1>1. /\ n \in Nat /\ a \in 1 .. n + 1 /\ b \in a - 1 .. n
      /\ data \in [Nodes -> Items \cup {Null}] /\ maxNodeCache \in MaxCaches
      /\ tail = Null <=> b < a
      /\ a <= b => a \in 1 .. n /\ b \in 1 .. n /\ head = c[a] /\ tail = c[b]
  BY SegmentFacts
<1>2. /\ tail # Null /\ result' = data[tail] /\ maxNodeCache' = maxNodeCache
      /\ IF tail = head THEN CheckCacheOverflow(Null, Null) ELSE CheckCacheOverflow(head, previous[tail])
  BY DEF RemoveLast
<1>3. a <= b /\ a \in 1 .. n /\ b \in 1 .. n /\ head = c[a] /\ tail = c[b]
  BY <1>1, <1>2
<1>4. /\ \A i, j \in 1 .. n : c[i] = c[j] => i = j
      /\ \A i \in 1 .. n : previous[c[i]] = NodeAt(n, c, i - 1)
  BY ChainFacts
<1> DEFINE g == b - 1
<1>5. CASE a = b
  <2>1. CheckCacheOverflow(Null, Null)
    BY <1>2, <1>3, <1>5
  <2>2. FreesExcess /\ \E k, d : Chain(k, d)' /\ Segment(k, d, 1, 0)'
    BY <1>1, <1>2, <2>1, OverflowEmpty
  <2>3. PICK k, d : Chain(k, d)' /\ Segment(k, d, 1, 0)'
    BY <2>2
  <2>4. a \in Int /\ g \in Int /\ 1 \in Int /\ 0 \in Int /\ 0 - 1 = g - a
        /\ \A i \in 0 .. g - a : data'[d[1 + i]] = data[c[a + i]]
    BY <1>1, <1>5
  <2> HIDE DEF g
  <2>5. Shows(c, a, g, d, 1, 0)
    BY <2>4, ShownStays
  <2> QED
    BY <1>2, <1>3, <2>2, <2>3, <2>5 DEF g
<1>6. CASE a # b
  <2>1. tail # head /\ g \in 1 .. n /\ g \in a .. n /\ previous[tail] = c[g]
    BY <1>1, <1>3, <1>4, <1>6 DEF NodeAt
  <2> HIDE DEF g
  <2>2. CheckCacheOverflow(c[a], c[g])
    BY <1>2, <1>3, <2>1
  <2>3. /\ \E k, d, e, f : Chain(k, d)' /\ Segment(k, d, e, f)' /\ Shows(c, a, g, d, e, f)
        /\ FreesExcess
    BY <1>1, <1>2, <1>3, <2>1, <2>2, OverflowKeeps
  <2> QED
    BY <1>2, <1>3, <2>3 DEF g
<1> QED
  BY <1>5, <1>6

\* removeFirst shortens the segment at its beginning and returns what was there.
LEMMA RemovesFirst ==
  ASSUME NEW n, NEW c, Chain(n, c), NEW a, NEW b, Segment(n, c, a, b), RemoveFirst
  PROVE  /\ \E k, d, e, f : Chain(k, d)' /\ Segment(k, d, e, f)' /\ Shows(c, a + 1, b, d, e, f)
         /\ FreesExcess /\ a <= b /\ result' = data[c[a]]
<1>1. /\ n \in Nat /\ a \in 1 .. n + 1 /\ b \in a - 1 .. n
      /\ data \in [Nodes -> Items \cup {Null}] /\ maxNodeCache \in MaxCaches
      /\ head = Null <=> b < a
      /\ a <= b => a \in 1 .. n /\ b \in 1 .. n /\ head = c[a] /\ tail = c[b]
  BY SegmentFacts
<1>2. /\ head # Null /\ result' = data[head] /\ maxNodeCache' = maxNodeCache
      /\ IF head = tail THEN CheckCacheOverflow(Null, Null) ELSE CheckCacheOverflow(next[head], tail)
  BY DEF RemoveFirst
<1>3. a <= b /\ a \in 1 .. n /\ b \in 1 .. n /\ head = c[a] /\ tail = c[b]
  BY <1>1, <1>2
<1>4. /\ \A i, j \in 1 .. n : c[i] = c[j] => i = j
      /\ \A i \in 1 .. n : next[c[i]] = NodeAt(n, c, i + 1)
  BY ChainFacts
<1> DEFINE g == a + 1
<1>5. CASE a = b
  <2>1. CheckCacheOverflow(Null, Null)
    BY <1>2, <1>3, <1>5
  <2>2. FreesExcess /\ \E k, d : Chain(k, d)' /\ Segment(k, d, 1, 0)'
    BY <1>1, <1>2, <2>1, OverflowEmpty
  <2>3. PICK k, d : Chain(k, d)' /\ Segment(k, d, 1, 0)'
    BY <2>2
  <2>4. b \in Int /\ g \in Int /\ 1 \in Int /\ 0 \in Int /\ 0 - 1 = b - g
        /\ \A i \in 0 .. b - g : data'[d[1 + i]] = data[c[g + i]]
    BY <1>1, <1>5
  <2> HIDE DEF g
  <2>5. Shows(c, g, b, d, 1, 0)
    BY <2>4, ShownStays
  <2> QED
    BY <1>2, <1>3, <2>2, <2>3, <2>5 DEF g
<1>6. CASE a # b
  <2>1. head # tail /\ g \in 1 .. n /\ b \in g .. n /\ next[head] = c[g]
    BY <1>1, <1>3, <1>4, <1>6 DEF NodeAt
  <2> HIDE DEF g
  <2>2. CheckCacheOverflow(c[g], c[b])
    BY <1>2, <1>3, <2>1
  <2>3. /\ \E k, d, e, f : Chain(k, d)' /\ Segment(k, d, e, f)' /\ Shows(c, g, b, d, e, f)
        /\ FreesExcess
    BY <1>1, <1>2, <2>1, <2>2, OverflowKeeps
  <2> QED
    BY <1>2, <1>3, <2>3 DEF g
<1> QED
  BY <1>5, <1>6

-----------------------------------------------------------------------------
(* The list: the deque it is                                               *)

\* What the list shows is a sequence of items.
LEMMA ShownIsSeq ==
  ASSUME NEW n, NEW c, Chain(n, c), NEW a, NEW b, Segment(n, c, a, b)
  PROVE  /\ (b - a) + 1 \in Nat
         /\ Shown(c, a, b) \in [1 .. (b - a) + 1 -> Items \cup {Null}]
         /\ \A i \in 1 .. (b - a) + 1 : Shown(c, a, b)[i] = data[c[(a + i) - 1]]
<1>1. /\ n \in Nat /\ a \in 1 .. n + 1 /\ b \in a - 1 .. n
      /\ data \in [Nodes -> Items \cup {Null}]
  BY SegmentFacts
<1>2. c \in [1 .. n -> Nodes]
  BY ChainFacts
<1>3. \A i \in 1 .. (b - a) + 1 : (a + i) - 1 \in 1 .. n
  BY <1>1
<1> QED
  BY <1>1, <1>2, <1>3 DEF Shown

\* The list after a step, in terms of the one before it.
LEMMA ItemsAreNext ==
  ASSUME NEW n, NEW c, NEW a, NEW b
  PROVE  Chain(n, c)' /\ Segment(n, c, a, b)' => ListItems' = Shown(c, a, b)'
<1>1. Chain(n, c) /\ Segment(n, c, a, b) => ListItems = Shown(c, a, b)
  BY ItemsAre
<1>2. (Chain(n, c) /\ Segment(n, c, a, b) => ListItems = Shown(c, a, b))'
  BY <1>1, PTL
<1> QED
  BY <1>2

\* Without its last place, the segment shows what is left by a removal there.
LEMMA FrontShown ==
  ASSUME NEW n, NEW c, Chain(n, c), NEW a, NEW b, Segment(n, c, a, b), a <= b
  PROVE  LET s == Shown(c, a, b)
         IN  s # <<>> /\ Shown(c, a, b - 1) = SubSeq(s, 1, Len(s) - 1) /\ s[Len(s)] = data[c[b]]
<1> DEFINE s == Shown(c, a, b)
           t == Shown(c, a, b - 1)
           l == (b - a) + 1
           S == Items \cup {Null}
<1>1. n \in Nat /\ a \in 1 .. n + 1 /\ b \in a - 1 .. n
  BY SegmentFacts
<1>2. l \in Nat /\ s \in [1 .. l -> S] /\ \A i \in 1 .. l : s[i] = data[c[(a + i) - 1]]
  BY ShownIsSeq
<1>3. l \in Nat \ {0} /\ l \in 1 .. l /\ (a + l) - 1 = b /\ ((b - 1) - a) + 1 = l - 1
      /\ \A i \in 1 .. l - 1 : i \in 1 .. l
  BY <1>1
<1>4. t = [i \in 1 .. l - 1 |-> data[c[(a + i) - 1]]]
  BY <1>3 DEF Shown
<1> HIDE DEF s, t, l, S
<1>5. t \in [1 .. l - 1 -> S] /\ \A i \in 1 .. l - 1 : t[i] = s[i]
  BY <1>2, <1>3, <1>4
<1>6. t = SubSeq(s, 1, Len(s) - 1) /\ s # <<>> /\ Len(s) = l
  BY <1>2, <1>3, <1>5, FrontIs
<1>7. s[l] = data[c[b]]
  BY <1>2, <1>3
<1> QED
  BY <1>6, <1>7 DEF s, t

\* Without its first place, the segment shows what is left by a removal there.
LEMMA TailShown ==
  ASSUME NEW n, NEW c, Chain(n, c), NEW a, NEW b, Segment(n, c, a, b), a <= b
  PROVE  LET s == Shown(c, a, b)
         IN  s # <<>> /\ Shown(c, a + 1, b) = Tail(s) /\ Head(s) = data[c[a]]
<1> DEFINE s == Shown(c, a, b)
           t == Shown(c, a + 1, b)
           l == (b - a) + 1
           S == Items \cup {Null}
<1>1. n \in Nat /\ a \in 1 .. n + 1 /\ b \in a - 1 .. n
  BY SegmentFacts
<1>2. l \in Nat /\ s \in [1 .. l -> S] /\ \A i \in 1 .. l : s[i] = data[c[(a + i) - 1]]
  BY ShownIsSeq
<1>3. l \in Nat \ {0} /\ 1 \in 1 .. l /\ (a + 1) - 1 = a /\ (b - (a + 1)) + 1 = l - 1
      /\ \A i \in 1 .. l - 1 : i + 1 \in 1 .. l /\ ((a + 1) + i) - 1 = (a + (i + 1)) - 1
  BY <1>1
<1>4. t = [i \in 1 .. l - 1 |-> data[c[((a + 1) + i) - 1]]]
  BY <1>3 DEF Shown
<1> HIDE DEF s, t, l, S
<1>5. t \in [1 .. l - 1 -> S] /\ \A i \in 1 .. l - 1 : t[i] = s[i + 1]
  BY <1>2, <1>3, <1>4
<1>6. t = Tail(s) /\ s # <<>> /\ Head(s) = s[1]
  BY <1>2, <1>3, <1>5, TailIs
<1>7. s[1] = data[c[a]]
  BY <1>2, <1>3
<1> QED
  BY <1>6, <1>7 DEF s, t

\* The initial states of the deque, in terms of the list.
LEMMA InitMeans == D!Init <=> ListItems = <<>> /\ result = Null
BY DEF D!Init, ListItems

\* The deque's additions at the end, in terms of the list.
LEMMA AddLastMeans == D!AddLast <=> \E x \in Items : ListItems' = Append(ListItems, x) /\ result' = Null
BY DEF D!AddLast, ListItems

\* The deque's additions at the beginning, in terms of the list.
LEMMA AddFirstMeans == D!AddFirst <=> \E x \in Items : ListItems' = <<x>> \o ListItems /\ result' = Null
BY DEF D!AddFirst, ListItems

\* The deque's removals at the end, in terms of the list.
LEMMA RemoveLastMeans ==
  D!RemoveLast <=> /\ ListItems # <<>> /\ ListItems' = SubSeq(ListItems, 1, Len(ListItems) - 1)
                   /\ result' = ListItems[Len(ListItems)]
BY DEF D!RemoveLast, ListItems

\* The deque's removals at the beginning, in terms of the list.
LEMMA RemoveFirstMeans ==
  D!RemoveFirst <=> ListItems # <<>> /\ ListItems' = Tail(ListItems) /\ result' = Head(ListItems)
BY DEF D!RemoveFirst, ListItems

\* The deque's gets, in terms of the list.
LEMMA LookMeans ==
  D!Look <=> /\ result' \in IF ListItems = <<>> THEN {Null}
                            ELSE {Head(ListItems), ListItems[Len(ListItems)]}
             /\ ListItems' = ListItems
BY DEF D!Look, ListItems

\* There is a chain and a place of the list in it.
ListInv ==
  /\ result \in Items \cup {Null}
  /\ \E n, c, a, b : Chain(n, c) /\ Segment(n, c, a, b)

\* A walk along next meets every allocated node.
LEMMA WalkNext ==
  ASSUME NEW n, NEW c, Chain(n, c)
  PROVE  ChainOf(next, first) = allocated
<1>1. n \in Nat /\ c \in [1 .. n -> Nodes] /\ allocated = {c[i] : i \in 1 .. n} /\ first = NodeAt(n, c, 1)
  BY ChainFacts
<1>2. Most \in Nat /\ n <= Most
  BY MostIsNat, ChainFits
<1>3. Step(next, first) = [i \in 0 .. Most |-> NodeAt(n, c, 1 + i)]
  <2>1. 1 \in 1 .. n + 1
    BY <1>1
  <2> QED
    BY <1>1, <2>1, StepsNext
<1>4. ASSUME NEW m \in allocated PROVE m \in ChainOf(next, first)
  <2>1. PICK i \in 1 .. n : m = c[i]
    BY <1>1
  <2>2. i - 1 \in 0 .. Most /\ 1 + (i - 1) = i
    BY <1>1, <1>2
  <2>3. Step(next, first)[i - 1] = m /\ m # Null
    BY <1>1, <1>3, <2>1, <2>2, NodesAssumption DEF NodeAt
  <2> QED
    BY <2>2, <2>3 DEF ChainOf, Most
<1>5. ASSUME NEW m \in ChainOf(next, first) PROVE m \in allocated
  <2>1. PICK i \in 0 .. Most : m = Step(next, first)[i] /\ m # Null
    BY DEF ChainOf, Most
  <2>2. m = NodeAt(n, c, 1 + i)
    BY <1>3, <2>1
  <2> QED
    BY <1>1, <2>1, <2>2 DEF NodeAt
<1>6. allocated \subseteq ChainOf(next, first)
  BY <1>4
<1>7. ChainOf(next, first) \subseteq allocated
  BY <1>5
<1> QED
  BY <1>6, <1>7

\* A walk along previous meets every allocated node.
LEMMA WalkPrevious ==
  ASSUME NEW n, NEW c, Chain(n, c)
  PROVE  ChainOf(previous, last) = allocated
<1>1. n \in Nat /\ c \in [1 .. n -> Nodes] /\ allocated = {c[i] : i \in 1 .. n} /\ last = NodeAt(n, c, n)
  BY ChainFacts
<1>2. Most \in Nat /\ n <= Most
  BY MostIsNat, ChainFits
<1>3. Step(previous, last) = [i \in 0 .. Most |-> NodeAt(n, c, n - i)]
  <2>1. n \in 0 .. n
    BY <1>1
  <2> QED
    BY <1>1, <2>1, StepsPrevious
<1>4. ASSUME NEW m \in allocated PROVE m \in ChainOf(previous, last)
  <2>1. PICK i \in 1 .. n : m = c[i]
    BY <1>1
  <2>2. n - i \in 0 .. Most /\ n - (n - i) = i
    BY <1>1, <1>2
  <2>3. Step(previous, last)[n - i] = m /\ m # Null
    BY <1>1, <1>3, <2>1, <2>2, NodesAssumption DEF NodeAt
  <2> QED
    BY <2>2, <2>3 DEF ChainOf, Most
<1>5. ASSUME NEW m \in ChainOf(previous, last) PROVE m \in allocated
  <2>1. PICK i \in 0 .. Most : m = Step(previous, last)[i] /\ m # Null
    BY DEF ChainOf, Most
  <2>2. m = NodeAt(n, c, n - i)
    BY <1>3, <2>1
  <2> QED
    BY <1>1, <2>1, <2>2 DEF NodeAt
<1>6. allocated \subseteq ChainOf(previous, last)
  BY <1>4
<1>7. ChainOf(previous, last) \subseteq allocated
  BY <1>5
<1> QED
  BY <1>6, <1>7

\* The invariant implies what the list promises.
LEMMA ListInvIsEnough == ListInv => ListSound
<1> SUFFICES ASSUME ListInv PROVE ListSound
  OBVIOUS
<1>1. PICK n, c, a, b : Chain(n, c) /\ Segment(n, c, a, b)
  BY DEF ListInv
<1>2. /\ n \in Nat /\ c \in [1 .. n -> Nodes]
      /\ \A i, j \in 1 .. n : c[i] = c[j] => i = j
      /\ allocated = {c[i] : i \in 1 .. n} /\ nodeCount = n
      /\ first = NodeAt(n, c, 1) /\ last = NodeAt(n, c, n)
      /\ next \in [Nodes -> Pointer] /\ previous \in [Nodes -> Pointer]
      /\ \A i \in 1 .. n : next[c[i]] = NodeAt(n, c, i + 1) /\ previous[c[i]] = NodeAt(n, c, i - 1)
  BY <1>1, ChainFacts
<1>3. /\ a \in 1 .. n + 1 /\ b \in a - 1 .. n
      /\ data \in [Nodes -> Items \cup {Null}] /\ maxNodeCache \in MaxCaches /\ maxNodeCache \in Nat
      /\ n - ((b - a) + 1) <= maxNodeCache
      /\ head = Null <=> b < a
      /\ tail = Null <=> b < a
      /\ a <= b => a \in 1 .. n /\ b \in 1 .. n /\ head = c[a] /\ tail = c[b]
  BY <1>1, SegmentFacts
<1>4. allocated \subseteq Nodes /\ Cardinality(allocated) = n
  BY <1>1, ChainFits
<1>5. first \in allocated \cup {Null} /\ last \in allocated \cup {Null}
  BY <1>2 DEF NodeAt
<1>6. head \in allocated \cup {Null} /\ tail \in allocated \cup {Null}
  BY <1>2, <1>3
<1>7. TypeOK
  BY <1>2, <1>3, <1>4, <1>5, <1>6 DEF TypeOK, ListInv
<1>8. ChainWellLinked
  <2>1. CASE n = 0
    <3>1. first = Null /\ last = Null /\ allocated = {}
      BY <1>2, <2>1 DEF NodeAt
    <3> QED
      BY <1>1, <3>1, WalkNext, WalkPrevious DEF ChainWellLinked
  <2>2. CASE n # 0
    <3>1. 1 \in 1 .. n /\ n \in 1 .. n /\ ~(1 - 1 \in 1 .. n) /\ ~(n + 1 \in 1 .. n)
      BY <1>2, <2>2
    <3>2. first = c[1] /\ last = c[n] /\ first # Null /\ last # Null
      BY <1>2, <3>1, NodesAssumption DEF NodeAt
    <3>3. previous[first] = Null /\ next[last] = Null
      BY <1>2, <3>1, <3>2 DEF NodeAt
    <3>4. ASSUME NEW m \in allocated
          PROVE  /\ next[m] # Null => previous[next[m]] = m
                 /\ previous[m] # Null => next[previous[m]] = m
      <4>1. PICK i \in 1 .. n : m = c[i]
        BY <1>2
      <4>2. next[m] = NodeAt(n, c, i + 1) /\ previous[m] = NodeAt(n, c, i - 1) /\ m = NodeAt(n, c, i)
        BY <1>2, <4>1 DEF NodeAt
      <4>3. ASSUME next[m] # Null PROVE previous[next[m]] = m
        <5>1. i + 1 \in 1 .. n /\ next[m] = c[i + 1] /\ (i + 1) - 1 = i
          BY <4>2, <4>3 DEF NodeAt
        <5> QED
          BY <1>2, <4>2, <5>1
      <4>4. ASSUME previous[m] # Null PROVE next[previous[m]] = m
        <5>1. i - 1 \in 1 .. n /\ previous[m] = c[i - 1] /\ (i - 1) + 1 = i
          BY <4>2, <4>4 DEF NodeAt
        <5> QED
          BY <1>2, <4>2, <5>1
      <4> QED
        BY <4>3, <4>4
    <3> QED
      BY <1>1, <3>2, <3>3, <3>4, WalkNext, WalkPrevious DEF ChainWellLinked
  <2> QED
    BY <2>1, <2>2
<1>9. ListInsideChain
  <2>1. CASE a <= b
    <3>1. Most \in Nat /\ n <= Most
      BY <1>1, MostIsNat, ChainFits
    <3>2. head = NodeAt(n, c, a) /\ tail = c[b] /\ tail # Null
      BY <1>2, <1>3, <2>1, NodesAssumption DEF NodeAt
    <3>3. Step(next, head) = [i \in 0 .. Most |-> NodeAt(n, c, a + i)]
      BY <1>1, <1>3, <3>2, StepsNext
    <3>4. b - a \in 0 .. Most /\ a + (b - a) = b
      BY <1>2, <1>3, <2>1, <3>1
    <3>5. Step(next, head)[b - a] = tail
      BY <1>3, <2>1, <3>2, <3>3, <3>4 DEF NodeAt
    <3>6. tail \in ChainOf(next, head)
      BY <3>2, <3>4, <3>5 DEF ChainOf, Most
    <3> QED
      BY <1>3, <3>6 DEF ListInsideChain
  <2>2. CASE ~(a <= b)
    BY <1>2, <1>3, <2>2 DEF ListInsideChain
  <2> QED
    BY <2>1, <2>2
<1>10. CacheWithinLimit
  BY <1>1, <1>2, <1>3, LengthIs DEF CacheWithinLimit
<1> QED
  BY <1>7, <1>8, <1>9, <1>10 DEF ListSound

\* A new list has an empty chain and is an empty deque.
LEMMA ListInvInit == Init => ListInv /\ D!Init
<1> SUFFICES ASSUME Init PROVE ListInv /\ D!Init
  OBVIOUS
<1> DEFINE c == [i \in 1 .. 0 |-> Null]
<1>1. Chain(0, c)
  <2>1. c \in [1 .. 0 -> Nodes] /\ {c[i] : i \in 1 .. 0} = {} /\ \A i \in 1 .. 0 : FALSE
    OBVIOUS
  <2>2. ~(1 \in 1 .. 0) /\ ~(0 \in 1 .. 0)
    OBVIOUS
  <2>3. next \in [Nodes -> Pointer] /\ previous \in [Nodes -> Pointer]
    BY DEF Init, Pointer
  <2> HIDE DEF c
  <2> QED
    BY <2>1, <2>2, <2>3 DEF Chain, Init, NodeAt
<1> HIDE DEF c
<1>2. Segment(0, c, 1, 0)
  <2>1. maxNodeCache \in Nat /\ data \in [Nodes -> Items \cup {Null}]
    BY CacheAssumption DEF Init
  <2>2. 1 \in 1 .. 0 + 1 /\ 0 \in 1 - 1 .. 0 /\ 0 - ((0 - 1) + 1) <= maxNodeCache /\ ~(1 <= 0)
    BY <2>1
  <2> QED
    BY <2>1, <2>2 DEF Segment, Init
<1>3. ListItems = <<>>
  <2>1. Shown(c, 1, 0) = <<>>
    BY DEF Shown
  <2> QED
    BY <1>1, <1>2, <2>1, ItemsAre
<1>4. result = Null
  BY DEF Init
<1> QED
  BY <1>1, <1>2, <1>3, <1>4, InitMeans DEF ListInv

\* What a step of the list keeps and what it does to the deque.
GoodStep == ListInv' /\ FreesExcess /\ (D!Next \/ (ListItems' = ListItems /\ result' = result))

\* A step that appends is the deque's addition at the end.
LEMMA Appends ==
  ASSUME NEW n, NEW c, Chain(n, c), NEW a, NEW b, Segment(n, c, a, b), NEW x \in Items,
         nodeCount' \in Nat, nodeCount \in Nat, nodeCount' >= nodeCount, result' = Null,
         \E k, d, e, f : Chain(k, d)' /\ Segment(k, d, e, f)' /\ Appended(c, a, b, d, e, f, x)
  PROVE  GoodStep
<1>1. PICK k, d, e, f : Chain(k, d)' /\ Segment(k, d, e, f)' /\ Appended(c, a, b, d, e, f, x)
  OBVIOUS
<1>2. ListItems = Shown(c, a, b)
  BY ItemsAre
<1>3. ListItems' = Shown(d, e, f)'
  BY <1>1, ItemsAreNext
<1>4. ListItems' = Append(ListItems, x)
  BY <1>1, <1>2, <1>3, Zenon DEF Appended
<1>5. D!AddLast
  BY <1>4, AddLastMeans
<1>6. ListInv'
  BY <1>1 DEF ListInv
<1>7. FreesExcess
  BY DEF FreesExcess
<1> QED
  BY <1>5, <1>6, <1>7 DEF GoodStep, D!Next

\* A step that prepends is the deque's addition at the beginning.
LEMMA Prepends ==
  ASSUME NEW n, NEW c, Chain(n, c), NEW a, NEW b, Segment(n, c, a, b), NEW x \in Items,
         nodeCount' \in Nat, nodeCount \in Nat, nodeCount' >= nodeCount, result' = Null,
         \E k, d, e, f : Chain(k, d)' /\ Segment(k, d, e, f)' /\ Prepended(c, a, b, d, e, f, x)
  PROVE  GoodStep
<1>1. PICK k, d, e, f : Chain(k, d)' /\ Segment(k, d, e, f)' /\ Prepended(c, a, b, d, e, f, x)
  OBVIOUS
<1>2. ListItems = Shown(c, a, b)
  BY ItemsAre
<1>3. ListItems' = Shown(d, e, f)'
  BY <1>1, ItemsAreNext
<1>4. ListItems' = <<x>> \o ListItems
  BY <1>1, <1>2, <1>3, Zenon DEF Prepended
<1>5. D!AddFirst
  BY <1>4, AddFirstMeans
<1>6. ListInv'
  BY <1>1 DEF ListInv
<1>7. FreesExcess
  BY DEF FreesExcess
<1> QED
  BY <1>5, <1>6, <1>7 DEF GoodStep, D!Next

\* Each of the seven ways to add is an addition of the deque.
LEMMA AddIsGood ==
  ASSUME NEW n, NEW c, Chain(n, c), NEW a, NEW b, Segment(n, c, a, b), Add
  PROVE  GoodStep
<1>1. nodeCount = n /\ n \in Nat
  BY ChainFacts
<1>2. PICK x \in Items :
        \/ AddToEmpty(x)
        \/ AddLastAfterTail(x) \/ AddLastFromBegin(x) \/ AddLastNew(x)
        \/ AddFirstBeforeHead(x) \/ AddFirstFromEnd(x) \/ AddFirstNew(x)
  BY DEF Add
<1>3. result' = Null
  BY <1>2 DEF AddToEmpty, AddLastAfterTail, AddLastFromBegin, AddLastNew,
              AddFirstBeforeHead, AddFirstFromEnd, AddFirstNew, Store
<1>4. nodeCount' = nodeCount \/ nodeCount' = nodeCount + 1
  BY <1>2 DEF AddToEmpty, AddLastAfterTail, AddLastFromBegin, AddLastNew,
              AddFirstBeforeHead, AddFirstFromEnd, AddFirstNew, Allocate, SameChain
<1>5. nodeCount' \in Nat /\ nodeCount \in Nat /\ nodeCount' >= nodeCount
  BY <1>1, <1>4
<1>6. CASE AddToEmpty(x)
  BY <1>3, <1>5, <1>6, AddsToEmpty, Appends
<1>7. CASE AddLastAfterTail(x)
  BY <1>3, <1>5, <1>7, AddsLastAfterTail, Appends
<1>8. CASE AddLastFromBegin(x)
  BY <1>3, <1>5, <1>8, AddsLastFromBegin, Appends
<1>9. CASE AddLastNew(x)
  BY <1>3, <1>5, <1>9, AddsLastNew, Appends
<1>10. CASE AddFirstBeforeHead(x)
  BY <1>3, <1>5, <1>10, AddsFirstBeforeHead, Prepends
<1>11. CASE AddFirstFromEnd(x)
  BY <1>3, <1>5, <1>11, AddsFirstFromEnd, Prepends
<1>12. CASE AddFirstNew(x)
  BY <1>3, <1>5, <1>12, AddsFirstNew, Prepends
<1> QED
  BY <1>2, <1>6, <1>7, <1>8, <1>9, <1>10, <1>11, <1>12

\* removeLast is the deque's.
LEMMA RemoveLastIsGood ==
  ASSUME NEW n, NEW c, Chain(n, c), NEW a, NEW b, Segment(n, c, a, b), RemoveLast
  PROVE  GoodStep
<1>1. /\ \E k, d, e, f : Chain(k, d)' /\ Segment(k, d, e, f)' /\ Shows(c, a, b - 1, d, e, f)
      /\ FreesExcess /\ a <= b /\ result' = data[c[b]]
  BY RemovesLast
<1>2. PICK k, d, e, f : Chain(k, d)' /\ Segment(k, d, e, f)' /\ Shows(c, a, b - 1, d, e, f)
  BY <1>1
<1>3. ListItems = Shown(c, a, b) /\ ListItems' = Shown(d, e, f)'
  BY <1>2, ItemsAre, ItemsAreNext
<1> DEFINE s == Shown(c, a, b)
<1>4. s # <<>> /\ Shown(c, a, b - 1) = SubSeq(s, 1, Len(s) - 1) /\ s[Len(s)] = data[c[b]]
  BY <1>1, FrontShown
<1>5. ListItems' = SubSeq(s, 1, Len(s) - 1)
  BY <1>2, <1>3, <1>4 DEF Shows
<1> HIDE DEF s
<1>6. D!RemoveLast
  BY <1>1, <1>3, <1>4, <1>5, RemoveLastMeans DEF s
<1>7. ListInv'
  <2>1. result' \in Items \cup {Null}
    BY <1>1, SegmentFacts, ChainFacts
  <2> QED
    BY <1>2, <2>1 DEF ListInv
<1> QED
  BY <1>1, <1>6, <1>7 DEF GoodStep, D!Next

\* removeFirst is the deque's.
LEMMA RemoveFirstIsGood ==
  ASSUME NEW n, NEW c, Chain(n, c), NEW a, NEW b, Segment(n, c, a, b), RemoveFirst
  PROVE  GoodStep
<1>1. /\ \E k, d, e, f : Chain(k, d)' /\ Segment(k, d, e, f)' /\ Shows(c, a + 1, b, d, e, f)
      /\ FreesExcess /\ a <= b /\ result' = data[c[a]]
  BY RemovesFirst
<1>2. PICK k, d, e, f : Chain(k, d)' /\ Segment(k, d, e, f)' /\ Shows(c, a + 1, b, d, e, f)
  BY <1>1
<1>3. ListItems = Shown(c, a, b) /\ ListItems' = Shown(d, e, f)'
  BY <1>2, ItemsAre, ItemsAreNext
<1> DEFINE s == Shown(c, a, b)
<1>4. s # <<>> /\ Shown(c, a + 1, b) = Tail(s) /\ Head(s) = data[c[a]]
  BY <1>1, TailShown
<1>5. ListItems' = Tail(s)
  BY <1>2, <1>3, <1>4 DEF Shows
<1> HIDE DEF s
<1>6. D!RemoveFirst
  BY <1>1, <1>3, <1>4, <1>5, RemoveFirstMeans DEF s
<1>7. ListInv'
  <2>1. result' \in Items \cup {Null}
    BY <1>1, SegmentFacts, ChainFacts
  <2> QED
    BY <1>2, <2>1 DEF ListInv
<1> QED
  BY <1>1, <1>6, <1>7 DEF GoodStep, D!Next

\* The same list, seen through unchanged variables.
LEMMA ListUnchanged ==
  ASSUME NEW n, NEW c, Chain(n, c), NEW a, NEW b, Segment(n, c, a, b),
         UNCHANGED <<ends, nodeCount, maxNodeCache, next, previous, data, allocated>>
  PROVE  Chain(n, c)' /\ Segment(n, c, a, b)' /\ ListItems' = ListItems /\ FreesExcess
<1>1. UNCHANGED <<first, last, head, tail, nodeCount, maxNodeCache, next, previous, data, allocated>>
  BY DEF ends
<1>2. Chain(n, c)'
  BY <1>1 DEF Chain
<1>3. Segment(n, c, a, b)'
  BY <1>1 DEF Segment
<1>4. Shown(c, a, b)' = Shown(c, a, b)
  BY <1>1 DEF Shown
<1>5. ListItems = Shown(c, a, b) /\ ListItems' = Shown(c, a, b)'
  BY <1>2, <1>3, ItemsAre, ItemsAreNext
<1>6. FreesExcess
  <2>1. nodeCount \in Nat
    BY ChainFacts
  <2> QED
    BY <1>1, <2>1 DEF FreesExcess
<1> QED
  BY <1>2, <1>3, <1>4, <1>5, <1>6

\* A get changes nothing and answers an item at one of the ends.
LEMMA LookIsGood ==
  ASSUME NEW n, NEW c, Chain(n, c), NEW a, NEW b, Segment(n, c, a, b), Look
  PROVE  GoodStep
<1>1. /\ result' \in IF head = Null THEN {Null} ELSE {data[head], data[tail]}
      /\ UNCHANGED <<ends, nodeCount, maxNodeCache, next, previous, data, allocated>>
  BY DEF Look
<1>2. Chain(n, c)' /\ Segment(n, c, a, b)' /\ ListItems' = ListItems /\ FreesExcess
  BY <1>1, ListUnchanged
<1>3. /\ n \in Nat /\ a \in 1 .. n + 1 /\ b \in a - 1 .. n
      /\ data \in [Nodes -> Items \cup {Null}]
      /\ head = Null <=> b < a
      /\ a <= b => a \in 1 .. n /\ b \in 1 .. n /\ head = c[a] /\ tail = c[b]
  BY SegmentFacts
<1> DEFINE s == Shown(c, a, b)
<1>4. ListItems = s
  BY ItemsAre
<1>5. result' \in (IF s = <<>> THEN {Null} ELSE {Head(s), s[Len(s)]}) /\ result' \in Items \cup {Null}
  <2>1. CASE head = Null
    <3>1. s = <<>>
      <4>1. (b - a) + 1 = 0
        BY <1>3, <2>1
      <4>2. s \in [1 .. 0 -> Items \cup {Null}]
        BY <4>1, ShownIsSeq
      <4> HIDE DEF s
      <4> QED
        BY <4>2
    <3> HIDE DEF s
    <3> QED
      BY <1>1, <2>1, <3>1
  <2>2. CASE head # Null
    <3>1. a <= b
      BY <1>3, <2>2
    <3>2. s # <<>> /\ Head(s) = data[c[a]]
      BY <3>1, TailShown
    <3>3. s[Len(s)] = data[c[b]]
      BY <3>1, FrontShown
    <3>4. c \in [1 .. n -> Nodes]
      BY ChainFacts
    <3> HIDE DEF s
    <3> QED
      BY <1>1, <1>3, <2>2, <3>1, <3>2, <3>3, <3>4
  <2> QED
    BY <2>1, <2>2
<1> HIDE DEF s
<1>6. D!Look
  BY <1>2, <1>4, <1>5, LookMeans
<1>7. ListInv'
  BY <1>2, <1>5 DEF ListInv
<1> QED
  BY <1>2, <1>6, <1>7 DEF GoodStep, D!Next

\* Every step keeps the invariant, is one of the deque, and frees only excess.
LEMMA ListStep ==
  ASSUME ListInv, [Next]_vars
  PROVE  GoodStep
<1>1. PICK n, c, a, b : Chain(n, c) /\ Segment(n, c, a, b)
  BY DEF ListInv
<1>2. CASE Add
  BY <1>1, <1>2, AddIsGood
<1>3. CASE RemoveLast
  BY <1>1, <1>3, RemoveLastIsGood
<1>4. CASE RemoveFirst
  BY <1>1, <1>4, RemoveFirstIsGood
<1>5. CASE Look
  BY <1>1, <1>5, LookIsGood
<1>6. CASE UNCHANGED vars
  <2>1. UNCHANGED <<ends, nodeCount, maxNodeCache, next, previous, data, allocated>> /\ result' = result
    BY <1>6 DEF vars, ends
  <2>2. Chain(n, c)' /\ Segment(n, c, a, b)' /\ ListItems' = ListItems /\ FreesExcess
    BY <1>1, <2>1, ListUnchanged
  <2> QED
    BY <2>1, <2>2 DEF GoodStep, ListInv
<1> QED
  BY <1>2, <1>3, <1>4, <1>5, <1>6 DEF Next

\* A step of the client is one of the list or leaves it alone.
LEMMA OneStepIsListStep == [OneNext]_allVars => [Next]_vars
BY DEF OneNext, allVars, listVars

\* cfl_llist.c, for any nodes, items and cache: the chain is linked both ways,
\* holds every allocated node and nothing else, the list is a segment of it, and
\* the cache keeps its limit.
THEOREM ListStaysSound == OneSpec => []ListSound
<1>1. OneInit => ListInv
  BY ListInvInit DEF OneInit
<1>2. ListInv /\ [OneNext]_allVars => ListInv'
  BY ListStep, OneStepIsListStep DEF GoodStep
<1>3. ListInv => ListSound
  BY ListInvIsEnough
<1> QED
  BY <1>1, <1>2, <1>3, PTL DEF OneSpec

\* The list is a deque, whatever nodes an operation reuses, moves, takes from
\* malloc or frees, and only a chain beyond its limit is cut.
THEOREM ListIsADeque == OneSpec => ListIsDeque
<1>1. OneInit => ListInv /\ D!Init
  BY ListInvInit DEF OneInit
<1>2. ListInv /\ [OneNext]_allVars => ListInv'
  BY ListStep, OneStepIsListStep DEF GoodStep
<1>3. ListInv /\ [OneNext]_allVars => [nodeCount' < nodeCount => nodeCount' >= maxNodeCache]_vars
  BY ListStep, OneStepIsListStep DEF GoodStep, FreesExcess
<1>4. ListInv /\ [OneNext]_allVars => [D!Next]_<<[i \in 1 .. Length |-> data[Step(next, head)[i - 1]]], result>>
  <2> SUFFICES ASSUME ListInv, [OneNext]_allVars
               PROVE  D!Next \/ UNCHANGED <<ListItems, result>>
    BY DEF ListItems
  <2>1. GoodStep
    BY ListStep, OneStepIsListStep
  <2> QED
    BY <2>1 DEF GoodStep
<1>5. OneSpec => FreesOnlyExcess
  BY <1>1, <1>2, <1>3, PTL DEF OneSpec, FreesOnlyExcess
<1>6. OneSpec => ImplementsDeque
  BY <1>1, <1>2, <1>4, PTL DEF OneSpec, ImplementsDeque, D!Spec
<1> QED
  BY <1>5, <1>6 DEF ListIsDeque

-----------------------------------------------------------------------------
(* The table: its chains                                                   *)

\* A table of n chains, under the hash function h: each entry is in the chain of
\* its bucket, at one place.
Filed(h, t, n) ==
  /\ n \in Nat \ {0}
  /\ h \in [HashKeys -> Nat]
  /\ t \in [0 .. n - 1 -> Seq(HashKeys)]
  /\ \A b \in 0 .. n - 1 : \A i \in 1 .. Len(t[b]) : h[t[b][i]] % n = b
  /\ \A b \in 0 .. n - 1 : \A i, j \in 1 .. Len(t[b]) : t[b][i] = t[b][j] => i = j

\* The entries of the first n chains.
Kept(t, n) == {k \in HashKeys : \E b \in 0 .. n - 1 : \E i \in 1 .. Len(t[b]) : t[b][i] = k}

\* What is in a chain.
Inside(s) == {s[i] : i \in 1 .. Len(s)}

\* A chain for bucket b.
Belongs(h, s, n, b) ==
  /\ s \in Seq(HashKeys)
  /\ \A i \in 1 .. Len(s) : h[s[i]] % n = b
  /\ \A i, j \in 1 .. Len(s) : s[i] = s[j] => i = j

\* The chain of bucket b becomes s.
Rechains(t, b, s, u) == u = [t EXCEPT ![b] = s]

\* A chain may be replaced by another of entries that belong there.
LEMMA Rechained ==
  ASSUME NEW h, NEW t, NEW n, Filed(h, t, n), NEW b \in 0 .. n - 1, NEW s, Belongs(h, s, n, b),
         NEW u, Rechains(t, b, s, u)
  PROVE  /\ Filed(h, u, n) /\ u[b] = s /\ \A c \in 0 .. n - 1 : c # b => u[c] = t[c]
         /\ Kept(u, n) = (Kept(t, n) \ Inside(t[b])) \cup Inside(s)
<1>1. n \in Nat \ {0} /\ t \in [0 .. n - 1 -> Seq(HashKeys)] /\ h \in [HashKeys -> Nat]
  BY DEF Filed
<1>0. /\ s \in Seq(HashKeys)
      /\ \A i \in 1 .. Len(s) : h[s[i]] % n = b
      /\ \A i, j \in 1 .. Len(s) : s[i] = s[j] => i = j
  BY DEF Belongs
<1>2. /\ u \in [0 .. n - 1 -> Seq(HashKeys)] /\ u[b] = s
      /\ \A c \in 0 .. n - 1 : c # b => u[c] = t[c]
  BY <1>0, <1>1 DEF Rechains
<1>3. /\ \A c \in 0 .. n - 1 : \A i \in 1 .. Len(t[c]) : h[t[c][i]] % n = c
      /\ \A c \in 0 .. n - 1 : \A i, j \in 1 .. Len(t[c]) : t[c][i] = t[c][j] => i = j
  BY DEF Filed
<1>4. /\ \A c \in 0 .. n - 1 : \A i \in 1 .. Len(u[c]) : h[u[c][i]] % n = c
      /\ \A c \in 0 .. n - 1 : \A i, j \in 1 .. Len(u[c]) : u[c][i] = u[c][j] => i = j
  <2>1. ASSUME NEW c \in 0 .. n - 1 PROVE (u[c] = s /\ c = b) \/ u[c] = t[c]
    BY <1>2
  <2> QED
    BY <1>0, <1>3, <2>1
<1>5. Filed(h, u, n)
  BY <1>1, <1>2, <1>4 DEF Filed
<1>6. ASSUME NEW k \in Kept(u, n) PROVE k \in (Kept(t, n) \ Inside(t[b])) \cup Inside(s)
  <2>1. PICK c \in 0 .. n - 1 : \E i \in 1 .. Len(u[c]) : u[c][i] = k
    BY DEF Kept
  <2>2. CASE c = b
    BY <1>2, <2>1, <2>2 DEF Inside
  <2>3. CASE c # b
    <3>1. PICK i \in 1 .. Len(t[c]) : t[c][i] = k
      BY <1>2, <2>1, <2>3
    <3>2. k \in Kept(t, n)
      BY <3>1, <1>6 DEF Kept
    <3>3. k \notin Inside(t[b])
      BY <1>3, <2>3, <3>1 DEF Inside
    <3> QED
      BY <3>2, <3>3
  <2> QED
    BY <2>2, <2>3
<1>7. ASSUME NEW k \in Kept(t, n), k \notin Inside(t[b]) PROVE k \in Kept(u, n)
  <2>1. PICK c \in 0 .. n - 1 : \E i \in 1 .. Len(t[c]) : t[c][i] = k
    BY DEF Kept
  <2>2. c # b
    BY <1>7, <2>1 DEF Inside
  <2>3. u[c] = t[c]
    BY <1>2, <2>2
  <2> QED
    BY <2>1, <2>3 DEF Kept
<1>8. ASSUME NEW k \in Inside(s) PROVE k \in Kept(u, n)
  <2>1. PICK i \in 1 .. Len(s) : s[i] = k
    BY DEF Inside
  <2>2. k \in HashKeys
    BY <1>0, <2>1
  <2> QED
    BY <1>2, <2>1, <2>2 DEF Kept
<1> QED
  BY <1>2, <1>5, <1>6, <1>7, <1>8

\* An entry is looked for in one chain.
LEMMA HomeOf ==
  ASSUME NEW h, NEW t, NEW n, Filed(h, t, n), NEW k \in HashKeys
  PROVE  h[k] % n \in 0 .. n - 1 /\ (k \in Kept(t, n) <=> k \in Inside(t[h[k] % n]))
<1>1. n \in Nat \ {0} /\ h[k] \in Nat
  BY DEF Filed
<1>2. h[k] % n \in 0 .. n - 1
  BY <1>1
<1>3. \A b \in 0 .. n - 1 : \A i \in 1 .. Len(t[b]) : h[t[b][i]] % n = b
  BY DEF Filed
<1> QED
  BY <1>2, <1>3 DEF Kept, Inside

\* A table without entries.
LEMMA NoneFiled ==
  ASSUME NEW h \in [HashKeys -> Nat], NEW n \in Nat \ {0}
  PROVE  Filed(h, H!Empty(n), n) /\ Kept(H!Empty(n), n) = {}
<1>1. H!Empty(n) \in [0 .. n - 1 -> Seq(HashKeys)] /\ \A b \in 0 .. n - 1 : H!Empty(n)[b] = <<>>
  BY DEF H!Empty
<1>2. \A b \in 0 .. n - 1 : 1 .. Len(H!Empty(n)[b]) = {}
  BY <1>1
<1> QED
  BY <1>1, <1>2 DEF Filed, Kept

\* k becomes the head of its chain.
Links(h, t, n, k, u) == u = [t EXCEPT ![h[k] % n] = <<k>> \o @]

\* Such a table keeps one entry more.
LEMMA LinkedIs ==
  ASSUME NEW h, NEW t, NEW n, Filed(h, t, n), NEW k \in HashKeys, k \notin Kept(t, n),
         NEW u, Links(h, t, n, k, u)
  PROVE  Filed(h, u, n) /\ Kept(u, n) = Kept(t, n) \cup {k}
<1>0. PICK b \in 0 .. n - 1 : b = h[k] % n
  BY HomeOf
<1>14. PICK s : s = <<k>> \o t[b]
  OBVIOUS
<1>1. b \in 0 .. n - 1 /\ k \notin Inside(t[b])
  BY <1>0, HomeOf
<1>2. t \in [0 .. n - 1 -> Seq(HashKeys)]
  BY DEF Filed
<1>3. t[b] \in Seq(HashKeys)
  BY <1>1, <1>2
<1>4. /\ s \in Seq(HashKeys) /\ Len(s) = Len(t[b]) + 1 /\ s[1] = k
      /\ \A i \in 2 .. Len(s) : i - 1 \in 1 .. Len(t[b]) /\ s[i] = t[b][i - 1]
  BY <1>14, <1>3
<1>5. Len(t[b]) \in Nat
  BY <1>3
<1>6. /\ \A i \in 1 .. Len(t[b]) : h[t[b][i]] % n = b
      /\ \A i, j \in 1 .. Len(t[b]) : t[b][i] = t[b][j] => i = j
  BY <1>1 DEF Filed
<1>7. Rechains(t, b, s, u)
  BY <1>0, <1>14, <1>2 DEF Rechains, Links
<1>8. h[k] % n = b
  BY <1>0
<1>9. ASSUME NEW i \in 1 .. Len(s) PROVE h[s[i]] % n = b
  <2>1. i = 1 \/ i \in 2 .. Len(s)
    BY <1>4, <1>5
  <2>2. CASE i = 1
    BY <1>4, <1>8, <2>2
  <2>3. CASE i \in 2 .. Len(s)
    <3>1. s[i] = t[b][i - 1] /\ i - 1 \in 1 .. Len(t[b])
      BY <1>4, <2>3
    <3> QED
      BY <1>6, <3>1
  <2> QED
    BY <2>1, <2>2, <2>3
<1>10. \A i, j \in 1 .. Len(s) : s[i] = s[j] => i = j
  <2> SUFFICES ASSUME NEW i \in 1 .. Len(s), NEW j \in 1 .. Len(s), s[i] = s[j] PROVE i = j
    OBVIOUS
  <2>1. \A l \in 1 .. Len(t[b]) : t[b][l] # k
    BY <1>1 DEF Inside
  <2>2. i \in Int /\ j \in Int /\ (i = 1 \/ i \in 2 .. Len(s)) /\ (j = 1 \/ j \in 2 .. Len(s))
    BY <1>4, <1>5
  <2>3. CASE i = 1 \/ j = 1
    BY <1>4, <2>1, <2>2, <2>3
  <2>4. CASE i \in 2 .. Len(s) /\ j \in 2 .. Len(s)
    <3>1. i - 1 = j - 1
      BY <1>4, <1>6, <2>4
    <3> QED
      BY <2>2, <3>1
  <2> QED
    BY <2>2, <2>3, <2>4
<1>11. Inside(s) = Inside(t[b]) \cup {k}
  <2>1. \A i \in 1 .. Len(t[b]) : i + 1 \in 2 .. Len(s) /\ (i + 1) - 1 = i /\ i + 1 \in 1 .. Len(s)
    BY <1>4, <1>5
  <2>2. \A i \in 1 .. Len(s) : i = 1 \/ i \in 2 .. Len(s)
    BY <1>4, <1>5
  <2>3. 1 \in 1 .. Len(s)
    BY <1>4, <1>5
  <2>4. Inside(s) \subseteq Inside(t[b]) \cup {k}
    BY <1>4, <2>2 DEF Inside
  <2>5. \A i \in 1 .. Len(t[b]) : s[i + 1] = t[b][i]
    BY <1>4, <2>1
  <2>6. \A i \in 1 .. Len(t[b]) : \E l \in 1 .. Len(s) : s[l] = t[b][i]
    BY <2>1, <2>5
  <2>7. Inside(t[b]) \cup {k} \subseteq Inside(s)
    <3>1. Inside(t[b]) \subseteq Inside(s)
      BY <2>6 DEF Inside
    <3>2. s[1] = k
      BY <1>4
    <3>3. k \in Inside(s)
      BY <2>3, <3>2 DEF Inside
    <3> QED
      BY <3>1, <3>3
  <2> QED
    BY <2>4, <2>7
<1>12. Inside(t[b]) \subseteq Kept(t, n)
  BY <1>1, <1>2 DEF Inside, Kept
<1>13. Filed(h, u, n) /\ Kept(u, n) = (Kept(t, n) \ Inside(t[b])) \cup Inside(s)
  <2>1. Belongs(h, s, n, b)
    BY <1>4, <1>9, <1>10 DEF Belongs
  <2>2. b \in 0 .. n - 1
    BY <1>1
  <2>3. Filed(h, u, n)
    BY <2>2, <1>7, <2>1, Rechained
  <2>4. Kept(u, n) = (Kept(t, n) \ Inside(t[b])) \cup Inside(s)
    BY <2>2, <1>7, <2>1, Rechained
  <2> QED
    BY <2>3, <2>4
<1> QED
  BY <1>11, <1>12, <1>13

\* A sequence without the item at place j.
Cut(s, j) == [i \in 1 .. Len(s) - 1 |-> IF i < j THEN s[i] ELSE s[i + 1]]

\* It is what two pieces of the sequence give.
LEMMA CutIs ==
  ASSUME NEW S, NEW s \in Seq(S), NEW j \in 1 .. Len(s)
  PROVE  /\ Cut(s, j) \in Seq(S) /\ Len(Cut(s, j)) = Len(s) - 1
         /\ SubSeq(s, 1, j - 1) \o SubSeq(s, j + 1, Len(s)) = Cut(s, j)
         /\ j = 1 => SubSeq(s, j + 1, Len(s)) = Cut(s, j)
<1>1. Len(s) \in Nat /\ Len(s) - 1 \in Nat /\ s \in [1 .. Len(s) -> S]
  OBVIOUS
<1>2. Cut(s, j) \in [1 .. Len(s) - 1 -> S]
  BY <1>1 DEF Cut
<1>3. Cut(s, j) \in Seq(S) /\ Len(Cut(s, j)) = Len(s) - 1
  BY <1>1, <1>2, FunctionIsSeq
<1> DEFINE p == SubSeq(s, 1, j - 1)
           q == SubSeq(s, j + 1, Len(s))
<1>4. p \in Seq(S) /\ Len(p) = j - 1 /\ \A i \in 1 .. j - 1 : p[i] = s[i]
  BY <1>1
<1>5. q \in Seq(S) /\ Len(q) = Len(s) - j /\ \A i \in 1 .. Len(s) - j : q[i] = s[j + i]
  <2>1. j + 1 \in 1 .. Len(s) + 1 /\ Len(s) \in (j + 1) - 1 .. Len(s)
    BY <1>1
  <2>2. /\ q \in Seq(S) /\ Len(q) = (Len(s) - (j + 1)) + 1
        /\ \A i \in 1 .. (Len(s) - (j + 1)) + 1 : q[i] = s[((j + 1) + i) - 1]
    BY <2>1, SubSeqProperties
  <2>3. (Len(s) - (j + 1)) + 1 = Len(s) - j /\ \A i \in 1 .. Len(s) - j : ((j + 1) + i) - 1 = j + i
    BY <1>1
  <2> HIDE DEF q
  <2> QED
    BY <2>2, <2>3
<1> HIDE DEF p, q
<1>6. /\ p \o q \in Seq(S) /\ Len(p \o q) = Len(p) + Len(q)
      /\ \A i \in 1 .. Len(p) + Len(q) : (p \o q)[i] = IF i <= Len(p) THEN p[i] ELSE q[i - Len(p)]
  BY <1>4, <1>5, ConcatProperties
<1>7. Len(p \o q) = Len(s) - 1
  BY <1>1, <1>4, <1>5, <1>6
<1>8. ASSUME NEW i \in 1 .. Len(s) - 1 PROVE (p \o q)[i] = Cut(s, j)[i]
  <2>1. Cut(s, j)[i] = IF i < j THEN s[i] ELSE s[i + 1]
    BY DEF Cut
  <2>2. CASE i < j
    BY <1>1, <1>4, <1>5, <1>6, <2>1, <2>2
  <2>3. CASE ~(i < j)
    <3>1. (p \o q)[i] = q[i - (j - 1)] /\ i - (j - 1) \in 1 .. Len(s) - j
      BY <1>1, <1>4, <1>5, <1>6, <2>3
    <3>2. q[i - (j - 1)] = s[j + (i - (j - 1))]
      BY <1>5, <3>1
    <3>3. j + (i - (j - 1)) = i + 1
      OBVIOUS
    <3> QED
      BY <2>1, <2>3, <3>1, <3>2, <3>3
  <2> QED
    BY <2>2, <2>3
<1>9. p \o q = Cut(s, j)
  BY <1>3, <1>6, <1>7, <1>8, SeqEqual
<1>10. ASSUME j = 1 PROVE q = Cut(s, j)
  <2>1. \A i \in 1 .. Len(s) - 1 : q[i] = Cut(s, j)[i]
    BY <1>1, <1>5, <1>10 DEF Cut
  <2> QED
    BY <1>1, <1>3, <1>5, <1>10, <2>1, SeqEqual
<1> QED
  BY <1>3, <1>9, <1>10 DEF p, q

\* What a chain of a sound table is like.
LEMMA ChainBelongs ==
  ASSUME NEW h, NEW t, NEW n, Filed(h, t, n), NEW b \in 0 .. n - 1
  PROVE  /\ Belongs(h, t[b], n, b) /\ t[b] \in Seq(HashKeys) /\ Len(t[b]) \in Nat
         /\ Inside(t[b]) \subseteq Kept(t, n)
         /\ \A i \in 1 .. Len(t[b]) : t[b][i] \in Kept(t, n) /\ h[t[b][i]] % n = b
         /\ \A i, j \in 1 .. Len(t[b]) : t[b][i] = t[b][j] => i = j
<1>1. t[b] \in Seq(HashKeys)
  BY DEF Filed
<1>2. \A i \in 1 .. Len(t[b]) : h[t[b][i]] % n = b
  BY DEF Filed
<1>3. \A i, j \in 1 .. Len(t[b]) : t[b][i] = t[b][j] => i = j
  BY DEF Filed
<1>4. \A i \in 1 .. Len(t[b]) : t[b][i] \in HashKeys
  BY <1>1
<1>5. \A i \in 1 .. Len(t[b]) : t[b][i] \in Kept(t, n)
  BY <1>4 DEF Kept
<1>6. Len(t[b]) \in Nat
  BY <1>1
<1> QED
  BY <1>1, <1>2, <1>3, <1>5, <1>6 DEF Belongs, Inside

\* A chain without the entry at place j.
LEMMA Unchained ==
  ASSUME NEW h, NEW t, NEW n, Filed(h, t, n), NEW b \in 0 .. n - 1, NEW j \in 1 .. Len(t[b]),
         NEW u, Rechains(t, b, Cut(t[b], j), u)
  PROVE  Filed(h, u, n) /\ Kept(u, n) = Kept(t, n) \ {t[b][j]}
<1>0. /\ t[b] \in Seq(HashKeys) /\ Len(t[b]) \in Nat
      /\ \A i \in 1 .. Len(t[b]) : h[t[b][i]] % n = b
      /\ \A i, l \in 1 .. Len(t[b]) : t[b][i] = t[b][l] => i = l
  BY ChainBelongs
<1>1. PICK s : s = Cut(t[b], j)
  OBVIOUS
<1>2. s \in Seq(HashKeys) /\ Len(s) = Len(t[b]) - 1
  BY <1>0, <1>1, CutIs
<1>3. \A i \in 1 .. Len(s) : s[i] = t[b][IF i < j THEN i ELSE i + 1]
  BY <1>1, <1>2 DEF Cut
<1>4. \A i \in 1 .. Len(s) : (IF i < j THEN i ELSE i + 1) \in 1 .. Len(t[b])
  BY <1>0, <1>2
<1>5. \A i \in 1 .. Len(s) : h[s[i]] % n = b
  BY <1>0, <1>3, <1>4
<1>6. \A i, l \in 1 .. Len(s) : s[i] = s[l] => i = l
  <2> SUFFICES ASSUME NEW i \in 1 .. Len(s), NEW l \in 1 .. Len(s), s[i] = s[l] PROVE i = l
    OBVIOUS
  <2>1. (IF i < j THEN i ELSE i + 1) = (IF l < j THEN l ELSE l + 1)
    BY <1>0, <1>3, <1>4
  <2> QED
    BY <1>2, <2>1
<1>7. Belongs(h, s, n, b)
  BY <1>2, <1>5, <1>6 DEF Belongs
<1>8. Rechains(t, b, s, u)
  BY <1>1
<1>9. Filed(h, u, n)
  BY <1>7, <1>8, Rechained
<1>10. Kept(u, n) = (Kept(t, n) \ Inside(t[b])) \cup Inside(s)
  BY <1>7, <1>8, Rechained
<1>11. Inside(s) = Inside(t[b]) \ {t[b][j]}
  <2>1. ASSUME NEW k \in Inside(s) PROVE k \in Inside(t[b]) \ {t[b][j]}
    <3>1. PICK i \in 1 .. Len(s) : k = s[i]
      BY DEF Inside
    <3>2. PICK l \in 1 .. Len(t[b]) : l = IF i < j THEN i ELSE i + 1
      BY <1>4
    <3>3. l # j
      BY <1>2, <3>2
    <3>4. k = t[b][l]
      BY <1>3, <3>1, <3>2
    <3> QED
      BY <1>0, <3>3, <3>4 DEF Inside
  <2>2. ASSUME NEW l \in 1 .. Len(t[b]), l # j PROVE t[b][l] \in Inside(s)
    <3>1. PICK i \in 1 .. Len(s) : l = IF i < j THEN i ELSE i + 1
      <4>1. CASE l < j
        <5>1. l \in 1 .. Len(s)
          BY <1>0, <1>2, <4>1
        <5> QED
          BY <4>1, <5>1
      <4>2. CASE l > j
        <5>1. l - 1 \in 1 .. Len(s) /\ ~(l - 1 < j) /\ l = (l - 1) + 1
          BY <1>0, <1>2, <4>2
        <5> QED
          BY <5>1
      <4> QED
        BY <2>2, <4>1, <4>2
    <3>2. s[i] = t[b][l]
      BY <1>3, <3>1
    <3> QED
      BY <3>2 DEF Inside
  <2>3. \A k \in Inside(t[b]) : k # t[b][j] => k \in Inside(s)
    BY <2>2 DEF Inside
  <2> QED
    BY <2>1, <2>3
<1>12. t[b][j] \in Inside(t[b]) /\ Inside(t[b]) \subseteq Kept(t, n)
  BY ChainBelongs DEF Inside
<1> QED
  BY <1>9, <1>10, <1>11, <1>12

\* The place of an entry is found.
LEMMA AtIs ==
  ASSUME NEW s \in Seq(HashKeys), \A i, l \in 1 .. Len(s) : s[i] = s[l] => i = l, NEW j \in 1 .. Len(s)
  PROVE  H!At(s, s[j]) = j
<1>1. DOMAIN s = 1 .. Len(s)
  OBVIOUS
<1>2. \A i \in 1 .. Len(s) : s[i] = s[j] <=> i = j
  OBVIOUS
<1>3. H!At(s, s[j]) = CHOOSE i \in 1 .. Len(s) : s[i] = s[j]
  BY <1>1 DEF H!At
<1> QED
  BY <1>2, <1>3

\* All entries of a table.
AllOf(t) == UNION {H!ToSet(t[b]) : b \in DOMAIN t}

\* They are the entries of the model.
LEMMA EntriesMean == H!Entries = AllOf(table)
BY DEF H!Entries, AllOf

\* A chain's entries as a set.
LEMMA InsideIs ==
  ASSUME NEW s \in Seq(HashKeys)
  PROVE  H!ToSet(s) = Inside(s)
BY DEF H!ToSet, Inside

\* All entries of a table are those kept in its chains.
LEMMA AllOfIs ==
  ASSUME NEW n \in Nat, NEW t \in [0 .. n - 1 -> Seq(HashKeys)]
  PROVE  AllOf(t) = Kept(t, n)
<1>1. \A b \in 0 .. n - 1 : H!ToSet(t[b]) = Inside(t[b])
  BY InsideIs
<1>2. ASSUME NEW k \in AllOf(t) PROVE k \in Kept(t, n)
  <2>1. PICK b \in 0 .. n - 1 : k \in H!ToSet(t[b])
    BY DEF AllOf
  <2>2. k \in Inside(t[b]) /\ t[b] \in Seq(HashKeys)
    BY <1>1, <2>1
  <2>3. PICK i \in 1 .. Len(t[b]) : k = t[b][i]
    BY <2>2 DEF Inside
  <2>4. k \in HashKeys
    BY <2>2, <2>3
  <2> QED
    BY <2>3, <2>4 DEF Kept
<1>3. ASSUME NEW k \in Kept(t, n) PROVE k \in AllOf(t)
  <2>1. PICK b \in 0 .. n - 1 : \E i \in 1 .. Len(t[b]) : t[b][i] = k
    BY <1>3 DEF Kept
  <2>2. k \in Inside(t[b])
    BY <2>1 DEF Inside
  <2>3. k \in H!ToSet(t[b])
    BY <1>1, <2>2
  <2> QED
    BY <2>3 DEF AllOf
<1> QED
  BY <1>2, <1>3

\* Induction up to a bound.
LEMMA UpTo ==
  ASSUME NEW n \in Nat, NEW A, 0 \in A, \A i \in 1 .. n : i - 1 \in A => i \in A
  PROVE  0 .. n \subseteq A
<1> DEFINE B == {i \in 0 .. n : i \notin A}
<1> SUFFICES ASSUME B # {} PROVE FALSE
  OBVIOUS
<1>1. B \subseteq Nat
  OBVIOUS
<1>2. PICK i \in B : \A j \in B : i <= j
  <2> HIDE DEF B
  <2> QED
    BY <1>1, LeastOfNat
<1>3. i \in 1 .. n /\ i \notin A
  BY <1>2
<1>4. i - 1 \notin B /\ i - 1 \in 0 .. n
  <2>1. i - 1 \in 0 .. n /\ ~(i <= i - 1)
    BY <1>3
  <2> HIDE DEF B
  <2> QED
    BY <1>2, <2>1
<1> QED
  BY <1>3, <1>4

\* A recursion whose steps stay in a set has a solution: its beginnings can be
\* made longer by one, so that no length is the least without one.
Solves(f, n, S, start, step) ==
  f \in [0 .. n -> S] /\ f[0] = start /\ \A i \in 1 .. n : f[i] = step[i][f[i - 1]]

\* There is always one.
LEMMA Solvable ==
  ASSUME NEW n \in Nat, NEW S, NEW start \in S, NEW step, \A i \in 1 .. n : step[i] \in [S -> S]
  PROVE  \E f : Solves(f, n, S, start, step)
<1> DEFINE A == {m \in 0 .. n : \E f : Solves(f, m, S, start, step)}
<1>1. 0 \in A
  <2>1. Solves([i \in 0 .. 0 |-> start], 0, S, start, step)
    BY DEF Solves
  <2> QED
    BY <2>1
<1>2. ASSUME NEW m \in 1 .. n, m - 1 \in A PROVE m \in A
  <2>1. PICK f : Solves(f, m - 1, S, start, step)
    BY <1>2
  <2>2. f \in [0 .. m - 1 -> S] /\ f[0] = start /\ \A i \in 1 .. m - 1 : f[i] = step[i][f[i - 1]]
    BY <2>1 DEF Solves
  <2>3. f[m - 1] \in S /\ step[m] \in [S -> S]
    BY <2>2
  <2>4. PICK x \in S : x = step[m][f[m - 1]]
    BY <2>3
  <2> DEFINE g == [i \in 0 .. m |-> IF i = m THEN x ELSE f[i]]
  <2>5. g \in [0 .. m -> S]
    BY <2>2
  <2>6. g[m] = x /\ \A i \in 0 .. m - 1 : g[i] = f[i]
    OBVIOUS
  <2> HIDE DEF g
  <2>7. g[0] = start
    BY <2>2, <2>6
  <2>8. ASSUME NEW i \in 1 .. m PROVE g[i] = step[i][g[i - 1]]
    <3>1. i - 1 \in 0 .. m - 1 /\ g[i - 1] = f[i - 1]
      BY <2>6
    <3>2. CASE i = m
      BY <2>4, <2>6, <3>1, <3>2
    <3>3. CASE i # m
      <4>1. i \in 1 .. m - 1 /\ i \in 0 .. m - 1
        BY <3>3
      <4> QED
        BY <2>2, <2>6, <3>1, <4>1
    <3> QED
      BY <3>2, <3>3
  <2>9. Solves(g, m, S, start, step)
    BY <2>5, <2>7, <2>8 DEF Solves
  <2> QED
    BY <2>9
<1> HIDE DEF A
<1>3. 0 .. n \subseteq A
  BY <1>1, <1>2, UpTo
<1>4. n \in A
  BY <1>3
<1> QED
  BY <1>4 DEF A

-----------------------------------------------------------------------------
(* The table grows                                                         *)

\* Adding what is in another sequence, without repetition.
LEMMA ConcatIs ==
  ASSUME NEW s \in Seq(HashKeys), NEW t \in Seq(HashKeys),
         \A i, j \in 1 .. Len(s) : s[i] = s[j] => i = j,
         \A i, j \in 1 .. Len(t) : t[i] = t[j] => i = j,
         Inside(s) \cap Inside(t) = {}
  PROVE  /\ s \o t \in Seq(HashKeys) /\ Inside(s \o t) = Inside(s) \cup Inside(t)
         /\ \A i, j \in 1 .. Len(s \o t) : (s \o t)[i] = (s \o t)[j] => i = j
<1> DEFINE u == s \o t
<1>1. /\ u \in Seq(HashKeys) /\ Len(u) = Len(s) + Len(t)
      /\ \A i \in 1 .. Len(s) + Len(t) : u[i] = IF i <= Len(s) THEN s[i] ELSE t[i - Len(s)]
  BY ConcatProperties
<1>2. Len(s) \in Nat /\ Len(t) \in Nat
  OBVIOUS
<1> HIDE DEF u
<1>3. \A i \in 1 .. Len(s) : i \in 1 .. Len(u) /\ u[i] = s[i]
  BY <1>1, <1>2
<1>4. \A i \in 1 .. Len(t) : Len(s) + i \in 1 .. Len(u) /\ u[Len(s) + i] = t[i]
  <2> SUFFICES ASSUME NEW i \in 1 .. Len(t) PROVE Len(s) + i \in 1 .. Len(u) /\ u[Len(s) + i] = t[i]
    OBVIOUS
  <2>1. PICK l : l = Len(s) + i
    OBVIOUS
  <2>2. l \in 1 .. Len(s) + Len(t) /\ ~(l <= Len(s)) /\ l - Len(s) = i
    BY <1>2, <2>1
  <2>3. u[l] = IF l <= Len(s) THEN s[l] ELSE t[l - Len(s)]
    BY <1>1, <2>2
  <2> QED
    BY <1>1, <2>1, <2>2, <2>3
<1>5. \A i \in 1 .. Len(u) : \/ i \in 1 .. Len(s) /\ u[i] = s[i]
                             \/ i - Len(s) \in 1 .. Len(t) /\ u[i] = t[i - Len(s)]
  <2> SUFFICES ASSUME NEW i \in 1 .. Len(u)
               PROVE  \/ i \in 1 .. Len(s) /\ u[i] = s[i]
                      \/ i - Len(s) \in 1 .. Len(t) /\ u[i] = t[i - Len(s)]
    OBVIOUS
  <2>1. i \in 1 .. Len(s) + Len(t)
    BY <1>1
  <2>2. u[i] = IF i <= Len(s) THEN s[i] ELSE t[i - Len(s)]
    BY <1>1, <2>1
  <2>3. CASE i <= Len(s)
    <3>1. i \in 1 .. Len(s)
      BY <1>2, <2>1, <2>3
    <3> QED
      BY <2>2, <2>3, <3>1
  <2>4. CASE ~(i <= Len(s))
    <3>1. i - Len(s) \in 1 .. Len(t)
      BY <1>2, <2>1, <2>4
    <3> QED
      BY <2>2, <2>4, <3>1
  <2> QED
    BY <2>3, <2>4
<1>6. Inside(u) \subseteq Inside(s) \cup Inside(t)
  BY <1>5 DEF Inside
<1>7. Inside(s) \subseteq Inside(u)
  BY <1>3 DEF Inside
<1>8. Inside(t) \subseteq Inside(u)
  <2> SUFFICES ASSUME NEW i \in 1 .. Len(t) PROVE t[i] \in Inside(u)
    BY DEF Inside
  <2>1. Len(s) + i \in 1 .. Len(u) /\ u[Len(s) + i] = t[i]
    BY <1>4
  <2> QED
    BY <2>1 DEF Inside
<1>9. ASSUME NEW i \in 1 .. Len(u), NEW j \in 1 .. Len(u), u[i] = u[j] PROVE i = j
  <2>1. ASSUME NEW k \in 1 .. Len(s), NEW l \in 1 .. Len(t) PROVE s[k] # t[l]
    <3>1. s[k] \in Inside(s) /\ t[l] \in Inside(t)
      BY DEF Inside
    <3> QED
      BY <3>1
  <2>2. CASE i \in 1 .. Len(s) /\ j \in 1 .. Len(s)
    BY <1>3, <1>9, <2>2
  <2>3. CASE i - Len(s) \in 1 .. Len(t) /\ j - Len(s) \in 1 .. Len(t)
    <3>1. i = Len(s) + (i - Len(s)) /\ j = Len(s) + (j - Len(s))
      BY <1>2
    <3>2. u[i] = t[i - Len(s)] /\ u[j] = t[j - Len(s)]
      BY <1>4, <2>3, <3>1
    <3>3. i - Len(s) = j - Len(s)
      BY <1>9, <2>3, <3>2
    <3> QED
      BY <1>2, <3>3
  <2>4. \/ i \in 1 .. Len(s) /\ u[i] = s[i]
        \/ i - Len(s) \in 1 .. Len(t) /\ u[i] = t[i - Len(s)]
    BY <1>5
  <2>5. \/ j \in 1 .. Len(s) /\ u[j] = s[j]
        \/ j - Len(s) \in 1 .. Len(t) /\ u[j] = t[j - Len(s)]
    BY <1>5
  <2> QED
    BY <1>9, <2>1, <2>2, <2>3, <2>4, <2>5
<1>10. \A i, j \in 1 .. Len(u) : u[i] = u[j] => i = j
  BY <1>9
<1> QED
  BY <1>1, <1>6, <1>7, <1>8, <1>10 DEF u

\* The chains of the first buckets, one after the other, are those.
LEMMA GatheredAre ==
  ASSUME NEW n, n = H!Size, Filed(calc, table, n)
  PROVE  H!Gathered[0] = <<>> /\ \A i \in 1 .. n : H!Gathered[i] = H!Gathered[i - 1] \o table[i - 1]
<1> DEFINE Gathers(f) == f = [i \in 0 .. n |-> IF i = 0 THEN <<>> ELSE f[i - 1] \o table[i - 1]]
           step == [i \in 1 .. n |-> [x \in Seq(HashKeys) |-> x \o table[i - 1]]]
<1>1. n \in Nat /\ table \in [0 .. n - 1 -> Seq(HashKeys)]
  BY DEF Filed
<1>2. \A i \in 1 .. n : step[i] \in [Seq(HashKeys) -> Seq(HashKeys)]
  <2> SUFFICES ASSUME NEW i \in 1 .. n PROVE step[i] \in [Seq(HashKeys) -> Seq(HashKeys)]
    OBVIOUS
  <2>1. i - 1 \in 0 .. n - 1
    BY <1>1
  <2>2. table[i - 1] \in Seq(HashKeys)
    BY <1>1, <2>1
  <2>3. \A x \in Seq(HashKeys) : x \o table[i - 1] \in Seq(HashKeys)
    BY <2>2
  <2> QED
    BY <2>3
<1>3. \A i \in 1 .. n, x \in Seq(HashKeys) : step[i][x] = x \o table[i - 1]
  OBVIOUS
<1>4. <<>> \in Seq(HashKeys)
  OBVIOUS
<1> HIDE DEF step
<1>5. PICK f : Solves(f, n, Seq(HashKeys), <<>>, step)
  BY <1>1, <1>2, <1>4, Solvable
<1>6. Gathers(f)
  <2>1. f \in [0 .. n -> Seq(HashKeys)] /\ f[0] = <<>> /\ \A i \in 1 .. n : f[i] = step[i][f[i - 1]]
    BY <1>5 DEF Solves
  <2>2. ASSUME NEW i \in 0 .. n PROVE f[i] = IF i = 0 THEN <<>> ELSE f[i - 1] \o table[i - 1]
    <3>1. CASE i = 0
      BY <2>1, <3>1
    <3>2. CASE i # 0
      <4>1. i \in 1 .. n /\ i - 1 \in 0 .. n
        BY <1>1, <3>2
      <4>2. f[i - 1] \in Seq(HashKeys)
        BY <2>1, <4>1
      <4>3. f[i] = step[i][f[i - 1]]
        BY <2>1, <4>1
      <4>4. f[i] = f[i - 1] \o table[i - 1]
        BY <1>3, <4>1, <4>2, <4>3, Zenon
      <4> QED
        BY <3>2, <4>4
    <3> QED
      BY <3>1, <3>2
  <2>3. f = [i \in 0 .. n |-> f[i]]
    BY <2>1
  <2> QED
    BY <2>2, <2>3, Zenon
<1>7. H!Gathered = CHOOSE g : Gathers(g)
  BY DEF H!Gathered
<1>8. Gathers(H!Gathered)
  <2> HIDE DEF Gathers
  <2> QED
    BY <1>6, <1>7, Zenon
<1> DEFINE g == H!Gathered
<1>9. g = [i \in 0 .. n |-> IF i = 0 THEN <<>> ELSE g[i - 1] \o table[i - 1]]
  BY <1>8
<1> HIDE DEF g
<1>10. \A i \in 0 .. n : g[i] = IF i = 0 THEN <<>> ELSE g[i - 1] \o table[i - 1]
  BY <1>9, Zenon
<1>11. 0 \in 0 .. n /\ \A i \in 1 .. n : i \in 0 .. n /\ i # 0
  BY <1>1
<1>12. g[0] = <<>>
  BY <1>10, <1>11, Zenon
<1>13. \A i \in 1 .. n : g[i] = g[i - 1] \o table[i - 1]
  BY <1>10, <1>11, Zenon
<1> QED
  BY <1>12, <1>13 DEF g

\* A sequence of the entries of the first i chains of t, each once.
Orders(s, t, i) ==
  /\ s \in Seq(HashKeys) /\ Inside(s) = Kept(t, i)
  /\ \A j, l \in 1 .. Len(s) : s[j] = s[l] => j = l

\* The function of the model is a solution of its recursion.
LEMMA GatheredIs ==
  ASSUME NEW n, n = H!Size, Filed(calc, table, n)
  PROVE  Orders(H!Gathered[n], table, n)
<1> DEFINE g == H!Gathered
           A == {i \in 0 .. n : Orders(g[i], table, i)}
<1>1. n \in Nat /\ table \in [0 .. n - 1 -> Seq(HashKeys)]
  BY DEF Filed
<1>2. g[0] = <<>> /\ \A i \in 1 .. n : g[i] = g[i - 1] \o table[i - 1]
  BY GatheredAre
<1> HIDE DEF g
<1>3. 0 \in A
  <2>1. Kept(table, 0) = {}
    BY DEF Kept
  <2>2. Inside(<<>>) = {} /\ <<>> \in Seq(HashKeys) /\ Len(<<>>) = 0
    BY DEF Inside
  <2>3. \A j, l \in 1 .. Len(<<>>) : <<>>[j] = <<>>[l] => j = l
    OBVIOUS
  <2>4. Orders(<<>>, table, 0)
    BY <2>1, <2>2, <2>3 DEF Orders
  <2>5. 0 \in 0 .. n
    BY <1>1
  <2> QED
    BY <1>2, <2>4, <2>5
<1>4. ASSUME NEW i \in 1 .. n, i - 1 \in A PROVE i \in A
  <2>1. g[i - 1] \in Seq(HashKeys) /\ Inside(g[i - 1]) = Kept(table, i - 1)
    BY <1>4 DEF Orders
  <2>2. \A j, l \in 1 .. Len(g[i - 1]) : g[i - 1][j] = g[i - 1][l] => j = l
    BY <1>4 DEF Orders
  <2>3. i - 1 \in 0 .. n - 1
    BY <1>1
  <2>4. table[i - 1] \in Seq(HashKeys)
    BY <1>1, <2>3
  <2>5. /\ \A j \in 1 .. Len(table[i - 1]) : calc[table[i - 1][j]] % n = i - 1
        /\ \A j, l \in 1 .. Len(table[i - 1]) : table[i - 1][j] = table[i - 1][l] => j = l
    BY <2>3, ChainBelongs
  <2>6. Inside(g[i - 1]) \cap Inside(table[i - 1]) = {}
    <3> SUFFICES ASSUME NEW k \in Kept(table, i - 1), NEW j \in 1 .. Len(table[i - 1]),
                        k = table[i - 1][j]
                 PROVE  FALSE
      BY <2>1 DEF Inside
    <3>1. PICK b \in 0 .. (i - 1) - 1 : \E l \in 1 .. Len(table[b]) : table[b][l] = k
      BY DEF Kept
    <3>2. b \in 0 .. n - 1 /\ b # i - 1
      BY <1>1
    <3>3. calc[k] % n = b
      BY <3>1, <3>2, ChainBelongs
    <3>4. calc[k] % n = i - 1
      BY <2>5
    <3> QED
      BY <3>2, <3>3, <3>4
  <2>7. g[i] = g[i - 1] \o table[i - 1]
    BY <1>2
  <2>8. /\ g[i] \in Seq(HashKeys) /\ Inside(g[i]) = Inside(g[i - 1]) \cup Inside(table[i - 1])
        /\ \A j, l \in 1 .. Len(g[i]) : g[i][j] = g[i][l] => j = l
    BY <2>1, <2>2, <2>4, <2>5, <2>6, <2>7, ConcatIs
  <2>9. Kept(table, i) = Kept(table, i - 1) \cup Inside(table[i - 1])
    <3>1. 0 .. i - 1 = 0 .. (i - 1) - 1 \cup {i - 1}
      OBVIOUS
    <3>2. \A k \in Inside(table[i - 1]) : k \in HashKeys
      BY <2>4 DEF Inside
    <3> QED
      BY <3>1, <3>2 DEF Kept, Inside
  <2>10. Orders(g[i], table, i)
    BY <2>1, <2>8, <2>9 DEF Orders
  <2> QED
    BY <1>1, <2>10
<1> HIDE DEF A
<1>5. 0 .. n \subseteq A
  BY <1>1, <1>3, <1>4, UpTo
<1>6. n \in A
  BY <1>1, <1>5
<1> QED
  BY <1>6 DEF A, g

\* Each entry goes to the head of its new chain.
LEMMA MovesAre ==
  ASSUME NEW n \in Nat \ {0}, NEW s \in Seq(HashKeys), calc \in [HashKeys -> Nat]
  PROVE  /\ H!Moves(n, s)[0] = H!Empty(n)
         /\ \A i \in 1 .. Len(s) : H!Moves(n, s)[i] = H!Linked(H!Moves(n, s)[i - 1], n, s[i])
<1> DEFINE S == [0 .. n - 1 -> Seq(HashKeys)]
           m == Len(s)
           Moving(f) == f = [i \in 0 .. m |-> IF i = 0 THEN H!Empty(n) ELSE H!Linked(f[i - 1], n, s[i])]
           step == [i \in 1 .. m |-> [t \in S |-> H!Linked(t, n, s[i])]]
<1>1. m \in Nat
  OBVIOUS
<1>2. \A i \in 1 .. m : step[i] \in [S -> S]
  <2> SUFFICES ASSUME NEW i \in 1 .. m, NEW t \in S PROVE H!Linked(t, n, s[i]) \in S
    OBVIOUS
  <2>1. s[i] \in HashKeys
    OBVIOUS
  <2>2. calc[s[i]] \in Nat
    BY <2>1
  <2>3. PICK b \in 0 .. n - 1 : b = calc[s[i]] % n
    BY <2>2
  <2>4. <<s[i]>> \o t[b] \in Seq(HashKeys)
    BY <2>1, <2>3
  <2>5. H!Linked(t, n, s[i]) = [t EXCEPT ![b] = <<s[i]>> \o t[b]]
    BY <2>3 DEF H!Linked, H!IndexFor
  <2> QED
    BY <2>3, <2>4, <2>5
<1>3. \A i \in 1 .. m, t \in S : step[i][t] = H!Linked(t, n, s[i])
  OBVIOUS
<1>4. H!Empty(n) \in S
  BY DEF H!Empty
<1> HIDE DEF step, S, m
<1>5. PICK f : Solves(f, m, S, H!Empty(n), step)
  BY <1>1, <1>2, <1>4, Solvable
<1>6. Moving(f)
  <2>1. f \in [0 .. m -> S] /\ f[0] = H!Empty(n) /\ \A i \in 1 .. m : f[i] = step[i][f[i - 1]]
    BY <1>5 DEF Solves
  <2>2. ASSUME NEW i \in 0 .. m PROVE f[i] = IF i = 0 THEN H!Empty(n) ELSE H!Linked(f[i - 1], n, s[i])
    <3>1. CASE i = 0
      BY <2>1, <3>1
    <3>2. CASE i # 0
      <4>1. i \in 1 .. m /\ i - 1 \in 0 .. m
        BY <1>1, <3>2
      <4>2. f[i - 1] \in S
        BY <2>1, <4>1
      <4>3. f[i] = step[i][f[i - 1]]
        BY <2>1, <4>1
      <4>4. f[i] = H!Linked(f[i - 1], n, s[i])
        BY <1>3, <4>1, <4>2, <4>3, Zenon
      <4> QED
        BY <3>2, <4>4
    <3> QED
      BY <3>1, <3>2
  <2>3. f = [i \in 0 .. m |-> f[i]]
    BY <2>1
  <2> QED
    BY <2>2, <2>3, Zenon
<1>7. H!Moves(n, s) = CHOOSE g : Moving(g)
  BY DEF H!Moves, m
<1>8. Moving(H!Moves(n, s))
  <2> HIDE DEF Moving
  <2> QED
    BY <1>6, <1>7, Zenon
<1> DEFINE g == H!Moves(n, s)
<1>9. g = [i \in 0 .. m |-> IF i = 0 THEN H!Empty(n) ELSE H!Linked(g[i - 1], n, s[i])]
  BY <1>8
<1> HIDE DEF g
<1>10. \A i \in 0 .. m : g[i] = IF i = 0 THEN H!Empty(n) ELSE H!Linked(g[i - 1], n, s[i])
  BY <1>9, Zenon
<1>11. 0 \in 0 .. m /\ \A i \in 1 .. m : i \in 0 .. m /\ i # 0
  BY <1>1
<1>12. g[0] = H!Empty(n)
  BY <1>10, <1>11, Zenon
<1>13. \A i \in 1 .. m : g[i] = H!Linked(g[i - 1], n, s[i])
  BY <1>10, <1>11, Zenon
<1> QED
  BY <1>12, <1>13 DEF g, m

\* t is a table of n chains with the entries in K.
Holds(h, t, n, K) == Filed(h, t, n) /\ Kept(t, n) = K

\* The new table has the same entries.
LEMMA MovedIs ==
  ASSUME Filed(calc, table, H!Size), NEW n \in Nat \ {0}
  PROVE  Holds(calc, H!Moved(n), n, Kept(table, H!Size))
<1> DEFINE s == H!Gathered[H!Size]
           g == H!Moves(n, s)
           A == {i \in 0 .. Len(s) : Holds(calc, g[i], n, {s[j] : j \in 1 .. i})}
<1>1. Orders(s, table, H!Size)
  BY GatheredIs
<1>2. H!Moved(n) = g[Len(s)]
  BY DEF H!Moved
<1> HIDE DEF s
<1>3. /\ s \in Seq(HashKeys) /\ Len(s) \in Nat /\ Inside(s) = Kept(table, H!Size)
      /\ \A j, l \in 1 .. Len(s) : s[j] = s[l] => j = l
  BY <1>1 DEF Orders
<1>4. calc \in [HashKeys -> Nat]
  BY DEF Filed
<1>5. g[0] = H!Empty(n) /\ \A i \in 1 .. Len(s) : g[i] = H!Linked(g[i - 1], n, s[i])
  BY <1>3, <1>4, MovesAre
<1> HIDE DEF g
<1>6. 0 \in A
  <2>1. Filed(calc, H!Empty(n), n) /\ Kept(H!Empty(n), n) = {}
    BY <1>4, NoneFiled
  <2>2. {s[j] : j \in 1 .. 0} = {}
    OBVIOUS
  <2> QED
    BY <1>3, <1>5, <2>1, <2>2 DEF Holds
<1>7. ASSUME NEW i \in 1 .. Len(s), i - 1 \in A PROVE i \in A
  <2>1. Filed(calc, g[i - 1], n) /\ Kept(g[i - 1], n) = {s[j] : j \in 1 .. i - 1}
    BY <1>7 DEF Holds
  <2>2. s[i] \in HashKeys
    BY <1>3
  <2>3. s[i] \notin Kept(g[i - 1], n)
    <3> SUFFICES ASSUME NEW j \in 1 .. i - 1, s[i] = s[j] PROVE FALSE
      BY <2>1
    <3>1. j \in 1 .. Len(s) /\ j # i
      BY <1>3
    <3> QED
      BY <1>3, <3>1
  <2>4. PICK t : t = g[i - 1]
    OBVIOUS
  <2>5. PICK u : u = g[i]
    OBVIOUS
  <2>6. Links(calc, t, n, s[i], u)
    BY <1>5, <2>4, <2>5 DEF H!Linked, H!IndexFor, Links
  <2>11. Filed(calc, t, n) /\ s[i] \notin Kept(t, n)
    BY <2>1, <2>3, <2>4
  <2>7. Filed(calc, u, n)
    BY <2>11, <2>2, <2>3, <2>4, <2>6, LinkedIs
  <2>8. Kept(u, n) = Kept(t, n) \cup {s[i]}
    BY <2>11, <2>2, <2>3, <2>4, <2>6, LinkedIs
  <2>9. {s[j] : j \in 1 .. i} = {s[j] : j \in 1 .. i - 1} \cup {s[i]}
    OBVIOUS
  <2>10. Holds(calc, g[i], n, {s[j] : j \in 1 .. i})
    BY <2>1, <2>4, <2>5, <2>7, <2>8, <2>9 DEF Holds
  <2> QED
    BY <1>3, <2>10
<1> HIDE DEF A
<1>8. 0 .. Len(s) \subseteq A
  BY <1>3, <1>6, <1>7, UpTo
<1>9. Len(s) \in A
  BY <1>3, <1>8
<1>10. Holds(calc, g[Len(s)], n, Inside(s))
  BY <1>9 DEF A, Inside
<1> QED
  BY <1>2, <1>3, <1>10

-----------------------------------------------------------------------------
(* The table's promise, in terms of what it keeps                          *)

\* No entry was changed, and none was asked for.
LEMMA ReadMeans ==
  ASSUME hashRet' = H!NoAnswer, AllOf(table') = AllOf(table)
  PROVE  H!Abstract!Next
BY EntriesMean DEF H!Abstract!Next, H!Abstract!Read, H!Abstract!Answer, H!NoAnswer, H!Answer, H!Entries, AllOf

\* A new key was added.
LEMMA AddMeans ==
  ASSUME NEW k \in HashKeys, hashRet' = H!Answer("add", k, TRUE), k \notin AllOf(table),
         AllOf(table') = AllOf(table) \cup {k}
  PROVE  H!Abstract!Next
<1>1. H!Abstract!Add(k)
  BY DEF H!Abstract!Add, H!Abstract!Answer, H!Answer, H!Entries, AllOf
<1> QED
  BY <1>1 DEF H!Abstract!Next

\* A key was deleted, or was not there.
LEMMA DeleteMeans ==
  ASSUME NEW k \in HashKeys, NEW yes \in BOOLEAN, hashRet' = H!Answer("delete", k, yes),
         yes <=> k \in AllOf(table), AllOf(table') = AllOf(table) \ {k}
  PROVE  H!Abstract!Next
<1>1. H!Abstract!Delete(k)
  BY DEF H!Abstract!Delete, H!Abstract!Answer, H!Answer, H!Entries, AllOf
<1> QED
  BY <1>1 DEF H!Abstract!Next

\* All keys were deleted.
LEMMA ClearMeans ==
  ASSUME hashRet' = H!Answer("clear", NoKey, TRUE), AllOf(table') = {}
  PROVE  H!Abstract!Next
BY DEF H!Abstract!Next, H!Abstract!Clear, H!Abstract!Answer, H!Answer, H!Entries, AllOf

\* The instance counts as the library does.
LEMMA SameCardinality == ASSUME NEW S PROVE H!Cardinality(S) = Cardinality(S)
BY DEF H!Cardinality, Cardinality

-----------------------------------------------------------------------------
(* The invariant of the table and its iterator                             *)

\* The count is that of the entries.
Counted(h, t, n, c) == Filed(h, t, n) /\ IsFiniteSet(Kept(t, n)) /\ c = Cardinality(Kept(t, n))

Iterators ==
  [on : {TRUE}, last : HashKeys \cup {NoKey}, curr : HashKeys \cup {NoKey}, next : HashKeys \cup {NoKey},
   lastIndex : Nat, currIndex : Nat, nextIndex : Nat, index : Nat, style : {"one", "all"},
   seen : Seq(HashKeys), removed : SUBSET HashKeys, start : SUBSET HashKeys]

\* The next entry is in its chain, and the chains from index on come after it.
NextFits(t, n, i) ==
  /\ i.index \in 0 .. n
  /\ i.next # NoKey => /\ i.nextIndex \in 0 .. n - 1 /\ i.index = i.nextIndex + 1
                       /\ i.next \in Inside(t[i.nextIndex])
  /\ i.next = NoKey => i.index = n

\* What is in the chains from index on.
Later(t, n, i) == {k \in HashKeys : \E b \in i.index .. n - 1 : \E j \in 1 .. Len(t[b]) : t[b][j] = k}

\* The next entry and what follows in its chain.
Ahead(t, i) ==
  {k \in HashKeys : \E p, q \in 1 .. Len(t[i.nextIndex]) :
                      p <= q /\ t[i.nextIndex][p] = i.next /\ t[i.nextIndex][q] = k}

\* The entries still to come.
Rest(t, n, i) == Later(t, n, i) \cup IF i.next = NoKey THEN {} ELSE Ahead(t, i)

\* k comes after p, which is in chain c, in chain b or heads that.
Follows(t, n, p, c, k, b) ==
  /\ b \in 0 .. n - 1
  /\ IF p # NoKey /\ c = b THEN \E j \in 1 .. Len(t[b]) - 1 : t[b][j] = p /\ t[b][j + 1] = k
     ELSE Len(t[b]) >= 1 /\ t[b][1] = k

\* The three entries are neighbours, as long as the client may remove.
Neighbours(t, n, i) ==
  /\ i.curr # NoKey => Follows(t, n, i.last, i.lastIndex, i.curr, i.currIndex)
  /\ i.next # NoKey => Follows(t, n, i.curr, i.currIndex, i.next, i.nextIndex)
  /\ i.style = "all" => i.last = NoKey

\* What was given and what is to come are the entries there were, each once.
GivesEach(s, rest, start) ==
  /\ Inside(s) \cap rest = {} /\ Inside(s) \cup rest = start
  /\ \A j, l \in 1 .. Len(s) : s[j] = s[l] => j = l

IterSound(t, n, i) ==
  /\ i \in Iterators
  /\ NextFits(t, n, i)
  /\ GivesEach(i.seen, Rest(t, n, i), i.start)
  /\ Kept(t, n) = i.start \ i.removed /\ i.removed \subseteq Inside(i.seen)
  /\ i.curr # NoKey => i.curr \in Inside(i.seen)
  /\ i.style = "all" \/ i.removed = {} => Neighbours(t, n, i)

TableInv ==
  /\ calc \in [HashKeys -> Hashes] /\ primeIndex \in 1 .. Len(Primes) /\ fault \in BOOLEAN
  /\ ~fault => Counted(calc, table, H!Size, entryCount)
  /\ hashIt # H!NoIterator => ~fault /\ IterSound(table, H!Size, hashIt)

\* What has to be shown of a step.
GoodTableStep == TableInv' /\ (~fault' => H!Abstract!Next)

\* The table's size is one of the primes, and a hash is a natural number.
LEMMA SizesAre ==
  ASSUME calc \in [HashKeys -> Hashes], primeIndex \in 1 .. Len(Primes)
  PROVE  H!Size \in Nat \ {0} /\ calc \in [HashKeys -> Nat] /\ H!Size = Primes[primeIndex]
<1>1. Primes \in Seq(Nat \ {0})
  BY TableAssumption
<1>2. Primes[primeIndex] \in Nat \ {0}
  BY <1>1
<1>3. Hashes \subseteq Nat
  BY TableAssumption
<1> QED
  BY <1>2, <1>3 DEF H!Size

\* Two steps: one counted entry more, and one less.
LEMMA CountedMore ==
  ASSUME NEW h, NEW t, NEW n, NEW c, Counted(h, t, n, c), NEW k, k \notin Kept(t, n),
         NEW m, NEW u, Filed(h, u, m), Kept(u, m) = Kept(t, n) \cup {k}
  PROVE  Counted(h, u, m, c + 1)
BY FS_AddElement DEF Counted

\* And one less.
LEMMA CountedLess ==
  ASSUME NEW h, NEW t, NEW n, NEW c, Counted(h, t, n, c), NEW k, k \in Kept(t, n),
         NEW u, Filed(h, u, n), Kept(u, n) = Kept(t, n) \ {k}
  PROVE  Counted(h, u, n, c - 1)
BY FS_RemoveElement DEF Counted

\* And as many in another table.
LEMMA CountedSame ==
  ASSUME NEW h, NEW t, NEW n, NEW c, Counted(h, t, n, c), NEW m, NEW u, Filed(h, u, m), Kept(u, m) = Kept(t, n)
  PROVE  Counted(h, u, m, c)
BY DEF Counted

\* A table's entries, before and after a step.
LEMMA KeptIs == ASSUME NEW h, NEW t, NEW n, Filed(h, t, n) PROVE AllOf(t) = Kept(t, n)
<1>1. n \in Nat /\ t \in [0 .. n - 1 -> Seq(HashKeys)]
  BY DEF Filed
<1> QED
  BY <1>1, AllOfIs

\* An iterator is on.
LEMMA OffMeans == hashIt \in Iterators => hashIt.on = TRUE
BY DEF Iterators

\* No iterator.
LEMMA NotOn == ASSUME TableInv, ~hashIt.on PROVE hashIt = H!NoIterator
<1>1. CASE hashIt # H!NoIterator
  <2>1. hashIt \in Iterators
    BY <1>1 DEF TableInv, IterSound
  <2> QED
    BY <2>1, OffMeans
<1> QED
  BY <1>1

\* An iterator in use.
LEMMA On == ASSUME TableInv, hashIt.on PROVE hashIt # H!NoIterator
BY DEF H!NoIterator

-----------------------------------------------------------------------------
(* Insert, remove and clear                                                *)

\* cfl_hash_insert, whatever memory is given: the entry is added, or the table has at most grown.
LEMMA InsertIsGood ==
  ASSUME TableInv, ~fault, NEW k \in HashKeys, NEW outcome \in {"moved", "reallocated", "full"}, NEW given \in BOOLEAN,
         H!Insert(k, outcome, given)
  PROVE  GoodTableStep
<1>1. hashIt = H!NoIterator /\ hashIt' = hashIt /\ calc' = calc
  BY NotOn DEF H!Insert
<1>2. Counted(calc, table, H!Size, entryCount) /\ Filed(calc, table, H!Size)
  BY DEF TableInv, Counted
<1>3. k \notin AllOf(table) /\ AllOf(table) = Kept(table, H!Size)
  BY <1>2, EntriesMean, KeptIs DEF H!Insert
<1>4. primeIndex' \in 1 .. Len(Primes) /\ fault' \in BOOLEAN
      /\ (outcome # "moved" /\ ~fault' => primeIndex' = primeIndex)
      /\ (outcome = "moved" => ~fault')
  <2>1. H!Expand(outcome) \/ (outcome = "full" /\ UNCHANGED <<primeIndex, fault>>)
    BY DEF H!Insert
  <2>2. primeIndex \in 1 .. Len(Primes) /\ fault = FALSE
    BY DEF TableInv
  <2>3. Len(Primes) \in Nat
    BY TableAssumption
  <2>4. CASE outcome = "full"
    BY <2>1, <2>2, <2>4 DEF H!Expand
  <2>5. CASE outcome # "full"
    <3>1. primeIndex < Len(Primes) /\ primeIndex' = primeIndex + 1 /\ fault' = (outcome = "reallocated")
      BY <2>1, <2>5 DEF H!Expand
    <3>2. primeIndex' \in 1 .. Len(Primes)
      BY <2>2, <2>3, <3>1
    <3>3. (fault' = TRUE /\ outcome = "reallocated") \/ (fault' = FALSE /\ outcome = "moved")
      BY <2>5, <3>1
    <3> QED
      BY <3>2, <3>3
  <2> QED
    BY <2>4, <2>5
<1>5. PICK n : n = H!Size'
  OBVIOUS
<1>6. n \in Nat \ {0} /\ n = Primes[primeIndex'] /\ calc \in [HashKeys -> Nat]
  BY <1>4, <1>5, SizesAre, TableAssumption DEF TableInv, H!Size
<1>7. PICK grown : grown = IF outcome = "moved" THEN H!Moved(n) ELSE table
  OBVIOUS
<1>8. /\ table' = IF given /\ ~fault' THEN H!Linked(grown, n, k) ELSE grown
      /\ entryCount' = IF given THEN entryCount + 1 ELSE entryCount
      /\ hashRet' = IF given THEN H!Answer("add", k, TRUE) ELSE H!NoAnswer
  BY <1>6, <1>7 DEF H!Insert
<1>9. CASE fault'
  BY <1>1, <1>4, <1>9 DEF GoodTableStep, TableInv
<1>10. CASE ~fault'
  <2>1. Filed(calc, grown, n) /\ Kept(grown, n) = Kept(table, H!Size)
    <3>1. CASE outcome = "moved"
      BY <1>2, <1>6, <1>7, <3>1, MovedIs DEF Holds
    <3>2. CASE outcome # "moved"
      <4>1. n = H!Size
        BY <1>4, <1>5, <1>10, <3>2 DEF H!Size
      <4> QED
        BY <1>2, <1>7, <3>2, <4>1
    <3> QED
      BY <3>1, <3>2
  <2>2. PICK u : u = table'
    OBVIOUS
  <2>3. CASE given
    <3>1. Links(calc, grown, n, k, u)
      BY <1>8, <1>10, <2>2, <2>3 DEF Links, H!Linked, H!IndexFor
    <3>2. k \notin Kept(grown, n)
      BY <1>3, <2>1
    <3>3. Filed(calc, u, n)
      BY <2>1, <3>1, <3>2, LinkedIs
    <3>4. Kept(u, n) = Kept(grown, n) \cup {k}
      BY <2>1, <3>1, <3>2, LinkedIs
    <3>5. Counted(calc, u, n, entryCount + 1)
      BY <1>2, <1>3, <2>1, <3>3, <3>4, CountedMore
    <3>6. AllOf(u) = AllOf(table) \cup {k}
      BY <1>3, <2>1, <3>3, <3>4, KeptIs
    <3>7. TableInv'
      BY <1>1, <1>4, <1>5, <1>8, <2>2, <2>3, <3>5 DEF TableInv
    <3>8. H!Abstract!Next
      BY <1>3, <1>8, <2>2, <2>3, <3>6, AddMeans
    <3> QED
      BY <3>7, <3>8 DEF GoodTableStep
  <2>4. CASE ~given
    <3>1. u = grown
      BY <1>8, <2>2, <2>4
    <3>2. Counted(calc, u, n, entryCount)
      BY <1>2, <2>1, <3>1, CountedSame
    <3>3. AllOf(u) = AllOf(table)
      BY <1>3, <2>1, <3>1, KeptIs
    <3>4. TableInv'
      BY <1>1, <1>4, <1>5, <1>8, <2>2, <2>4, <3>2 DEF TableInv
    <3>5. H!Abstract!Next
      BY <1>8, <2>2, <2>4, <3>3, ReadMeans
    <3> QED
      BY <3>4, <3>5 DEF GoodTableStep
  <2> QED
    BY <2>3, <2>4
<1> QED
  BY <1>9, <1>10

\* A search finds the entries there are.
LEMMA SearchIs ==
  ASSUME Filed(calc, table, H!Size), NEW k \in HashKeys
  PROVE  /\ k \in Kept(table, H!Size) => H!Search(k) = TRUE
         /\ k \notin Kept(table, H!Size) => H!Search(k) = FALSE
<1>1. PICK b \in 0 .. H!Size - 1 : b = calc[k] % H!Size
  BY HomeOf
<1>2. table[b] \in Seq(HashKeys)
  BY ChainBelongs
<1>3. k \in Kept(table, H!Size) <=> k \in Inside(table[b])
  BY <1>1, HomeOf
<1>4. H!Search(k) <=> \E i \in DOMAIN table[b] : table[b][i] = k
  BY <1>1 DEF H!Search, H!IndexFor
<1>5. H!Search(k) <=> k \in Inside(table[b])
  BY <1>2, <1>4 DEF Inside
<1>6. H!Search(k) \in BOOLEAN
  BY DEF H!Search
<1>7. ASSUME k \in Kept(table, H!Size) PROVE H!Search(k) = TRUE
  BY <1>3, <1>5, <1>6, <1>7
<1>8. ASSUME k \notin Kept(table, H!Size) PROVE H!Search(k) = FALSE
  BY <1>3, <1>5, <1>6, <1>8
<1> QED
  BY <1>7, <1>8

\* Taking place j out of a chain is taking out its entry.
LEMMA RemovesAt ==
  ASSUME NEW h, NEW t, NEW n, Filed(h, t, n), NEW b \in 0 .. n - 1, NEW j \in 1 .. Len(t[b])
  PROVE  H!At(t[b], t[b][j]) = j /\ H!RemoveAt(t[b], j) = Cut(t[b], j)
<1>1. t[b] \in Seq(HashKeys)
  BY ChainBelongs
<1>2. \A i, l \in 1 .. Len(t[b]) : t[b][i] = t[b][l] => i = l
  BY ChainBelongs
<1>3. H!At(t[b], t[b][j]) = j
  BY <1>1, <1>2, AtIs
<1>4. SubSeq(t[b], 1, j - 1) \o SubSeq(t[b], j + 1, Len(t[b])) = Cut(t[b], j)
  BY <1>1, CutIs
<1> QED
  BY <1>3, <1>4 DEF H!RemoveAt

\* cfl_hash_remove: the entry found leaves its chain; without one nothing changes.
LEMMA RemoveIsGood ==
  ASSUME TableInv, ~fault, NEW k \in HashKeys, H!RemoveKey(k)
  PROVE  GoodTableStep
<1>1. /\ hashIt = H!NoIterator /\ hashIt' = hashIt /\ calc' = calc /\ primeIndex' = primeIndex
      /\ fault' = fault
  BY NotOn DEF H!RemoveKey
<1>2. Counted(calc, table, H!Size, entryCount) /\ Filed(calc, table, H!Size)
  BY DEF TableInv, Counted
<1>3. PICK n : n = H!Size
  OBVIOUS
<1>4. H!Size' = n
  BY <1>1, <1>3 DEF H!Size
<1>5. AllOf(table) = Kept(table, n)
  BY <1>2, <1>3, KeptIs
<1>7. PICK u : u = table'
  OBVIOUS
<1>8. CASE k \in Kept(table, n)
  <2>0. H!Search(k) = TRUE
    BY <1>2, <1>3, <1>8, SearchIs
  <2>1. PICK b \in 0 .. n - 1 : b = calc[k] % n
    BY <1>2, <1>3, HomeOf
  <2>2. k \in Inside(table[b])
    BY <1>2, <1>3, <1>8, <2>1, HomeOf
  <2>3. PICK j \in 1 .. Len(table[b]) : table[b][j] = k
    BY <2>2 DEF Inside
  <2>4. H!At(table[b], k) = j /\ H!RemoveAt(table[b], j) = Cut(table[b], j)
    BY <1>2, <1>3, <2>3, RemovesAt
  <2>5. /\ u = [table EXCEPT ![b] = H!RemoveAt(@, H!At(@, k))]
        /\ entryCount' = entryCount - 1 /\ hashRet' = H!Answer("delete", k, TRUE)
    BY <1>3, <1>7, <2>0, <2>1 DEF H!RemoveKey, H!IndexFor
  <2>6. table \in [0 .. n - 1 -> Seq(HashKeys)]
    BY <1>2, <1>3 DEF Filed
  <2>7. Rechains(table, b, Cut(table[b], j), u)
    BY <2>4, <2>5, <2>6 DEF Rechains
  <2>8. Filed(calc, u, n)
    BY <1>2, <1>3, <2>7, Unchained
  <2>9. Kept(u, n) = Kept(table, n) \ {k}
    BY <1>2, <1>3, <2>3, <2>7, Unchained
  <2>10. Counted(calc, u, n, entryCount - 1)
    BY <1>2, <1>3, <1>8, <2>8, <2>9, CountedLess
  <2>11. AllOf(u) = AllOf(table) \ {k}
    BY <1>5, <2>8, <2>9, KeptIs
  <2>12. TableInv'
    BY <1>1, <1>4, <1>7, <2>5, <2>10 DEF TableInv
  <2>13. H!Abstract!Next
    BY <1>5, <1>7, <1>8, <2>5, <2>11, DeleteMeans
  <2> QED
    BY <2>12, <2>13 DEF GoodTableStep
<1>9. CASE k \notin Kept(table, n)
  <2>0. H!Search(k) = FALSE
    BY <1>2, <1>3, <1>9, SearchIs
  <2>1. u = table /\ entryCount' = entryCount /\ hashRet' = H!Answer("delete", k, FALSE)
    BY <1>7, <2>0 DEF H!RemoveKey
  <2>2. AllOf(u) = AllOf(table) \ {k}
    BY <1>5, <1>9, <2>1
  <2>3. TableInv'
    BY <1>1, <1>2, <1>3, <1>4, <1>7, <2>1 DEF TableInv
  <2>4. H!Abstract!Next
    BY <1>5, <1>7, <1>9, <2>1, <2>2, DeleteMeans
  <2> QED
    BY <2>3, <2>4 DEF GoodTableStep
<1> QED
  BY <1>8, <1>9

\* An empty table is counted right.
LEMMA NoneCounted ==
  ASSUME NEW h \in [HashKeys -> Nat], NEW n \in Nat \ {0}
  PROVE  Counted(h, H!Empty(n), n, 0) /\ AllOf(H!Empty(n)) = {}
<1>1. Filed(h, H!Empty(n), n) /\ Kept(H!Empty(n), n) = {}
  BY NoneFiled
<1>2. AllOf(H!Empty(n)) = {}
  BY <1>1, KeptIs
<1> QED
  BY <1>1, <1>2, FS_EmptySet DEF Counted

\* cfl_hash_clear.
LEMMA ClearIsGood ==
  ASSUME TableInv, ~fault, H!Clear
  PROVE  GoodTableStep
<1>1. /\ hashIt = H!NoIterator /\ hashIt' = hashIt /\ calc' = calc /\ primeIndex' = primeIndex
      /\ fault' = fault /\ table' = H!Empty(H!Size) /\ entryCount' = 0
      /\ hashRet' = H!Answer("clear", NoKey, TRUE)
  BY NotOn DEF H!Clear
<1>2. PICK n : n = H!Size
  OBVIOUS
<1>3. H!Size' = n
  BY <1>1, <1>2 DEF H!Size
<1>4. n \in Nat \ {0} /\ calc \in [HashKeys -> Nat]
  BY <1>2, SizesAre DEF TableInv
<1>5. Counted(calc, H!Empty(n), n, 0) /\ AllOf(H!Empty(n)) = {}
  BY <1>4, NoneCounted
<1>6. TableInv'
  BY <1>1, <1>2, <1>3, <1>5 DEF TableInv
<1>7. H!Abstract!Next
  BY <1>1, <1>2, <1>5, ClearMeans
<1> QED
  BY <1>6, <1>7 DEF GoodTableStep

\* The iterator is freed.
LEMMA FreeIsGood ==
  ASSUME TableInv, ~fault, H!IteratorFree
  PROVE  GoodTableStep
<1>1. /\ hashIt' = H!NoIterator /\ calc' = calc /\ primeIndex' = primeIndex
      /\ fault' = fault /\ table' = table /\ entryCount' = entryCount /\ hashRet' = H!NoAnswer
  BY DEF H!IteratorFree
<1>2. H!Size' = H!Size
  BY <1>1 DEF H!Size
<1>3. H!NoIterator' = H!NoIterator
  BY DEF H!NoIterator
<1>4. TableInv'
  BY <1>1, <1>2, <1>3 DEF TableInv
<1>5. H!Abstract!Next
  BY <1>1, ReadMeans
<1> QED
  BY <1>4, <1>5 DEF GoodTableStep

\* A new table.
LEMMA TableInit == H!Init => TableInv
<1> SUFFICES ASSUME H!Init PROVE TableInv
  OBVIOUS
<1>1. /\ calc \in [HashKeys -> Hashes] /\ primeIndex = 1 /\ fault = FALSE /\ hashIt = H!NoIterator
      /\ table = H!Empty(Primes[1]) /\ entryCount = 0
  BY DEF H!Init
<1>2. 1 \in 1 .. Len(Primes)
  BY TableAssumption
<1>3. H!Size \in Nat \ {0} /\ calc \in [HashKeys -> Nat] /\ H!Size = Primes[1]
  BY <1>1, <1>2, SizesAre
<1>4. Counted(calc, H!Empty(H!Size), H!Size, 0)
  BY <1>3, NoneCounted
<1> QED
  BY <1>1, <1>2, <1>3, <1>4 DEF TableInv

-----------------------------------------------------------------------------
(* The iterator of the table                                               *)

\* What follows the entry at place p of a chain.
LEMMA SuccessorIs ==
  ASSUME NEW n, Filed(calc, table, n), NEW b \in 0 .. n - 1, NEW p \in 1 .. Len(table[b])
  PROVE  H!Successor(table[b][p]) = IF p < Len(table[b]) THEN table[b][p + 1] ELSE NoKey
<1>1. DOMAIN table = 0 .. n - 1
  BY DEF Filed
<1>2. PICK e : e = table[b][p]
  OBVIOUS
<1>3. \A c \in 0 .. n - 1 : H!ToSet(table[c]) = Inside(table[c])
  BY ChainBelongs, InsideIs
<1>4. \A c \in 0 .. n - 1 : e \in Inside(table[c]) => c = b
  <2>1. calc[e] % n = b
    BY <1>2, ChainBelongs
  <2> SUFFICES ASSUME NEW c \in 0 .. n - 1, e \in Inside(table[c]) PROVE c = b
    OBVIOUS
  <2>2. PICK l \in 1 .. Len(table[c]) : table[c][l] = e
    BY DEF Inside
  <2>3. calc[e] % n = c
    BY <2>2, ChainBelongs
  <2> QED
    BY <2>1, <2>3
<1>5. e \in Inside(table[b])
  BY <1>2 DEF Inside
<1>6. \A c \in DOMAIN table : e \in H!ToSet(table[c]) <=> c = b
  BY <1>1, <1>3, <1>4, <1>5
<1> DEFINE home == CHOOSE c \in DOMAIN table : e \in H!ToSet(table[c])
<1>7. home = b
  BY <1>1, <1>6
<1>8. H!At(table[b], e) = p
  BY <1>2, RemovesAt
<1>9. H!Successor(e) = IF H!At(table[home], e) < Len(table[home])
                       THEN table[home][H!At(table[home], e) + 1] ELSE NoKey
  BY Zenon DEF H!Successor
<1> HIDE DEF home
<1>10. H!Successor(e) = IF p < Len(table[b]) THEN table[b][p + 1] ELSE NoKey
  BY <1>7, <1>8, <1>9
<1> QED
  BY <1>2, <1>10

\* The next entry, if there is one, is in its chain.
HalfFits(t, n, i) ==
  /\ i.index \in 0 .. n
  /\ i.next # NoKey => /\ i.nextIndex \in 0 .. n - 1 /\ i.index = i.nextIndex + 1
                       /\ i.next \in Inside(t[i.nextIndex])

\* The next entry ends its chain.
Ends(t, i) == i.next # NoKey => Len(t[i.nextIndex]) >= 1 /\ t[i.nextIndex][Len(t[i.nextIndex])] = i.next

\* x, in chain d, is what comes after the next entry.
InChain(t, n, i, x, d, m) ==
  /\ i.next # NoKey /\ d = i.nextIndex /\ m = i.index
  /\ \E p \in 1 .. Len(t[d]) - 1 : t[d][p] = i.next /\ t[d][p + 1] = x

InLaterChain(t, n, i, x, d, m) ==
  /\ Ends(t, i)
  /\ d \in i.index .. n - 1 /\ m = d + 1 /\ Len(t[d]) >= 1 /\ t[d][1] = x
  /\ \A c \in i.index .. d - 1 : Len(t[c]) = 0

Nowhere(t, n, i, x, d, m) ==
  /\ Ends(t, i)
  /\ x = NoKey /\ d \in Nat /\ m = n /\ \A c \in i.index .. n - 1 : Len(t[c]) = 0

Arrives(t, n, i, x, d, m) ==
  InChain(t, n, i, x, d, m) \/ InLaterChain(t, n, i, x, d, m) \/ Nowhere(t, n, i, x, d, m)

\* The three entries move up by one.
Advances(i, x, d, m, g) ==
  /\ g \in Iterators
  /\ g.on = i.on /\ g.last = i.curr /\ g.lastIndex = i.currIndex /\ g.curr = i.next /\ g.currIndex = i.nextIndex
  /\ g.next = x /\ g.nextIndex = d /\ g.index = m
  /\ g.style = i.style /\ g.seen = i.seen /\ g.removed = i.removed /\ g.start = i.start

\* findNextEntry makes one of the three moves.
LEMMA FindNextIs ==
  ASSUME NEW n, n = H!Size, Filed(calc, table, n), NEW i \in Iterators, HalfFits(table, n, i)
  PROVE  \E x, d, m : Arrives(table, n, i, x, d, m) /\ Advances(i, x, d, m, H!FindNextEntry(i))
<1> DEFINE follows == IF i.next = NoKey THEN NoKey ELSE H!Successor(i.next)
           filled == {b \in i.index .. n - 1 : table[b] # <<>>}
           b == CHOOSE c \in filled : \A d \in filled : c <= d
           moved == [i EXCEPT !.last = i.curr, !.lastIndex = i.currIndex,
                              !.curr = i.next, !.currIndex = i.nextIndex]
<1>1. H!FindNextEntry(i) =
         IF follows # NoKey THEN [moved EXCEPT !.next = follows]
         ELSE IF filled # {} THEN [moved EXCEPT !.next = table[b][1], !.nextIndex = b, !.index = b + 1]
         ELSE [moved EXCEPT !.next = NoKey, !.index = n,
                            !.nextIndex = IF i.index < n THEN n - 1 ELSE @]
  BY DEF H!FindNextEntry
<1>2. /\ moved \in Iterators /\ moved.on = i.on
      /\ moved.last = i.curr /\ moved.lastIndex = i.currIndex /\ moved.curr = i.next /\ moved.currIndex = i.nextIndex
      /\ moved.next = i.next /\ moved.nextIndex = i.nextIndex /\ moved.index = i.index
      /\ moved.style = i.style /\ moved.seen = i.seen /\ moved.removed = i.removed /\ moved.start = i.start
  BY DEF Iterators
<1>3. n \in Nat \ {0} /\ i.index \in 0 .. n /\ i.nextIndex \in Nat
  BY DEF Filed, HalfFits, Iterators
<1>4. NoKey \notin HashKeys
  BY TableAssumption
<1>5. \A c \in 0 .. n - 1 : table[c] \in Seq(HashKeys) /\ Len(table[c]) \in Nat
  BY ChainBelongs
<1> HIDE DEF moved
<1>6. CASE follows # NoKey
  <2>1. i.next # NoKey
    BY <1>6
  <2>2. i.nextIndex \in 0 .. n - 1 /\ i.next \in Inside(table[i.nextIndex])
    BY <2>1 DEF HalfFits
  <2>3. PICK p \in 1 .. Len(table[i.nextIndex]) : table[i.nextIndex][p] = i.next
    BY <2>2 DEF Inside
  <2>4. H!Successor(i.next) = IF p < Len(table[i.nextIndex]) THEN table[i.nextIndex][p + 1] ELSE NoKey
    BY <2>2, <2>3, SuccessorIs
  <2>5. p < Len(table[i.nextIndex]) /\ follows = table[i.nextIndex][p + 1]
    BY <1>6, <2>1, <2>4
  <2>6. p \in 1 .. Len(table[i.nextIndex]) - 1
    BY <1>5, <2>2, <2>5
  <2>7. follows \in HashKeys
    BY <1>5, <2>2, <2>5, <2>6
  <2>8. InChain(table, n, i, follows, i.nextIndex, i.index)
    BY <2>1, <2>3, <2>5, <2>6 DEF InChain
  <2>9. H!FindNextEntry(i) = [moved EXCEPT !.next = follows]
    BY <1>1, <1>6
  <2> HIDE DEF follows
  <2>10. Advances(i, follows, i.nextIndex, i.index, [moved EXCEPT !.next = follows])
    BY <1>2, <2>7 DEF Advances, Iterators
  <2> QED
    BY <2>8, <2>9, <2>10 DEF Arrives
<1>7. CASE follows = NoKey
  <2>1. Ends(table, i)
    <3> SUFFICES ASSUME i.next # NoKey
                 PROVE  Len(table[i.nextIndex]) >= 1 /\ table[i.nextIndex][Len(table[i.nextIndex])] = i.next
      BY DEF Ends
    <3>2. i.nextIndex \in 0 .. n - 1 /\ i.next \in Inside(table[i.nextIndex])
      BY DEF HalfFits
    <3>3. PICK p \in 1 .. Len(table[i.nextIndex]) : table[i.nextIndex][p] = i.next
      BY <3>2 DEF Inside
    <3>4. H!Successor(i.next) = IF p < Len(table[i.nextIndex]) THEN table[i.nextIndex][p + 1] ELSE NoKey
      BY <3>2, <3>3, SuccessorIs
    <3>5. H!Successor(i.next) = NoKey
      BY <1>7
    <3>6. p = Len(table[i.nextIndex])
      <4>1. CASE p < Len(table[i.nextIndex])
        <5>1. table[i.nextIndex][p + 1] \in HashKeys
          BY <1>5, <3>2, <4>1
        <5> QED
          BY <1>4, <3>4, <3>5, <4>1, <5>1
      <4> QED
        BY <1>5, <3>2, <4>1
    <3> QED
      BY <3>3, <3>6
  <2> HIDE DEF follows
  <2>2. CASE filled # {}
    <3>0. filled \subseteq Nat
      BY <1>3
    <3>1. \E c \in filled : \A d \in filled : c <= d
      <4> HIDE DEF filled
      <4> QED
        BY <2>2, <3>0, LeastOfNat
    <3>2. b \in filled /\ \A d \in filled : b <= d
      <4> HIDE DEF filled
      <4> QED
        BY <3>1
    <3> HIDE DEF b
    <3>3. b \in i.index .. n - 1 /\ b \in 0 .. n - 1 /\ table[b] # <<>> /\ b \in Nat /\ b + 1 \in Nat
      BY <1>3, <3>2
    <3>4. \A c \in i.index .. b - 1 : Len(table[c]) = 0
      <4> SUFFICES ASSUME NEW c \in i.index .. b - 1 PROVE Len(table[c]) = 0
        OBVIOUS
      <4>1. c \in i.index .. n - 1 /\ c \in 0 .. n - 1 /\ ~(b <= c)
        BY <1>3, <3>3
      <4>2. table[c] = <<>>
        BY <3>2, <4>1
      <4> QED
        BY <4>2
    <3>5. Len(table[b]) >= 1 /\ table[b][1] \in HashKeys
      BY <1>5, <3>3
    <3>6. InLaterChain(table, n, i, table[b][1], b, b + 1)
      BY <2>1, <3>3, <3>4, <3>5 DEF InLaterChain
    <3>7. H!FindNextEntry(i) = [moved EXCEPT !.next = table[b][1], !.nextIndex = b, !.index = b + 1]
      BY <1>1, <1>7, <2>2
    <3>8. Advances(i, table[b][1], b, b + 1,
                   [moved EXCEPT !.next = table[b][1], !.nextIndex = b, !.index = b + 1])
      BY <1>2, <3>3, <3>5 DEF Advances, Iterators
    <3> QED
      BY <3>6, <3>7, <3>8 DEF Arrives
  <2>3. CASE filled = {}
    <3>1. \A c \in i.index .. n - 1 : Len(table[c]) = 0
      <4> SUFFICES ASSUME NEW c \in i.index .. n - 1 PROVE Len(table[c]) = 0
        OBVIOUS
      <4>1. table[c] = <<>>
        BY <2>3
      <4> QED
        BY <4>1
    <3>2. PICK d : d = IF i.index < n THEN n - 1 ELSE i.nextIndex
      OBVIOUS
    <3>3. d \in Nat
      BY <1>3, <3>2
    <3>4. Nowhere(table, n, i, NoKey, d, n)
      BY <2>1, <3>1, <3>3 DEF Nowhere
    <3>5. H!FindNextEntry(i) = [moved EXCEPT !.next = NoKey, !.index = n, !.nextIndex = d]
      BY <1>1, <1>2, <1>7, <2>3, <3>2
    <3>6. Advances(i, NoKey, d, n, [moved EXCEPT !.next = NoKey, !.index = n, !.nextIndex = d])
      BY <1>2, <1>3, <3>3 DEF Advances, Iterators
    <3> QED
      BY <3>4, <3>5, <3>6 DEF Arrives
  <2> QED
    BY <2>2, <2>3
<1> QED
  BY <1>6, <1>7

\* What is ahead of an entry at place p is its chain from there on.
LEMMA AheadIs ==
  ASSUME NEW h, NEW t, NEW n, Filed(h, t, n), NEW i, i.nextIndex \in 0 .. n - 1,
         NEW p \in 1 .. Len(t[i.nextIndex]), t[i.nextIndex][p] = i.next
  PROVE  Ahead(t, i) = {t[i.nextIndex][q] : q \in p .. Len(t[i.nextIndex])}
<1>1. PICK s : s = t[i.nextIndex]
  OBVIOUS
<1>2. s \in Seq(HashKeys) /\ Len(s) \in Nat /\ \A j, l \in 1 .. Len(s) : s[j] = s[l] => j = l
  BY <1>1, ChainBelongs
<1>3. ASSUME NEW k \in Ahead(t, i) PROVE k \in {s[q] : q \in p .. Len(s)}
  <2>1. PICK r, q \in 1 .. Len(s) : r <= q /\ s[r] = i.next /\ s[q] = k
    BY <1>1 DEF Ahead
  <2>2. r = p
    BY <1>1, <1>2, <2>1
  <2> QED
    BY <1>2, <2>1, <2>2
<1>4. ASSUME NEW q \in p .. Len(s) PROVE s[q] \in Ahead(t, i)
  <2>1. q \in 1 .. Len(s) /\ p <= q /\ p \in 1 .. Len(s)
    BY <1>1, <1>2
  <2>2. s[q] \in HashKeys
    BY <1>2, <2>1
  <2> QED
    BY <1>1, <2>1, <2>2 DEF Ahead
<1> QED
  BY <1>1, <1>3, <1>4

\* The chains from index on, and those after chain d.
From(t, n, a) == {k \in HashKeys : \E b \in a .. n - 1 : \E j \in 1 .. Len(t[b]) : t[b][j] = k}

\* The chains from the iterator's index on.
LEMMA LaterIs == ASSUME NEW t, NEW n, NEW i PROVE Later(t, n, i) = From(t, n, i.index)
BY DEF Later, From

\* The chains from a to d - 1 are empty.
Blank(t, a, d) == \A c \in a .. d - 1 : Len(t[c]) = 0

\* Empty chains are skipped; the first that is not comes first.
LEMMA FromIs ==
  ASSUME NEW h, NEW t, NEW n, Filed(h, t, n), NEW a \in 0 .. n, NEW d \in a .. n - 1, Blank(t, a, d)
  PROVE  From(t, n, a) = Inside(t[d]) \cup From(t, n, d + 1)
<1>1. n \in Nat /\ d \in 0 .. n - 1 /\ t[d] \in Seq(HashKeys)
  BY ChainBelongs DEF Filed
<1>2. ASSUME NEW k \in From(t, n, a) PROVE k \in Inside(t[d]) \cup From(t, n, d + 1)
  <2>1. PICK b \in a .. n - 1 : \E j \in 1 .. Len(t[b]) : t[b][j] = k
    BY DEF From
  <2>2. k \in HashKeys
    BY DEF From
  <2>3. b \notin a .. d - 1
    BY <2>1 DEF Blank
  <2>4. b = d \/ b \in d + 1 .. n - 1
    BY <1>1, <2>3
  <2> QED
    BY <2>1, <2>2, <2>4 DEF From, Inside
<1>3. ASSUME NEW k \in Inside(t[d]) PROVE k \in From(t, n, a)
  <2>1. PICK j \in 1 .. Len(t[d]) : t[d][j] = k
    BY DEF Inside
  <2>2. k \in HashKeys
    BY <1>1, <2>1
  <2> QED
    BY <2>1, <2>2 DEF From
<1>4. ASSUME NEW k \in From(t, n, d + 1) PROVE k \in From(t, n, a)
  <2>1. PICK b \in d + 1 .. n - 1 : \E j \in 1 .. Len(t[b]) : t[b][j] = k
    BY DEF From
  <2>2. b \in a .. n - 1
    BY <1>1
  <2> QED
    BY <2>1, <2>2 DEF From
<1> QED
  BY <1>2, <1>3, <1>4

\* Empty chains have no entries.
LEMMA NothingFrom ==
  ASSUME NEW t, NEW n \in Nat, NEW a \in Nat, Blank(t, a, n)
  PROVE  From(t, n, a) = {}
BY DEF From, Blank

\* A chain shares no entry with later ones.
LEMMA FromSkips ==
  ASSUME NEW h, NEW t, NEW n, Filed(h, t, n), NEW b \in 0 .. n - 1, NEW a \in b + 1 .. n
  PROVE  Inside(t[b]) \cap From(t, n, a) = {}
<1> SUFFICES ASSUME NEW k \in Inside(t[b]), k \in From(t, n, a) PROVE FALSE
  OBVIOUS
<1>1. PICK j \in 1 .. Len(t[b]) : t[b][j] = k
  BY DEF Inside
<1>2. PICK c \in a .. n - 1 : \E l \in 1 .. Len(t[c]) : t[c][l] = k
  BY DEF From
<1>3. n \in Nat
  BY DEF Filed
<1>4. c \in 0 .. n - 1 /\ c # b
  BY <1>3
<1>5. h[k] % n = b /\ h[k] % n = c
  BY <1>1, <1>2, <1>4, ChainBelongs
<1> QED
  BY <1>4, <1>5

\* The next entry, as a set.
Given(i) == IF i.next = NoKey THEN {} ELSE {i.next}

\* Only the last entry is ahead at the end of a chain.
LEMMA EndsMeans ==
  ASSUME NEW h, NEW t, NEW n, Filed(h, t, n), NEW i, HalfFits(t, n, i), Ends(t, i), i.next # NoKey
  PROVE  Ahead(t, i) = {i.next}
<1>1. i.nextIndex \in 0 .. n - 1
  BY DEF HalfFits
<1>2. Len(t[i.nextIndex]) \in Nat
  BY <1>1, ChainBelongs
<1>3. Len(t[i.nextIndex]) \in 1 .. Len(t[i.nextIndex]) /\ t[i.nextIndex][Len(t[i.nextIndex])] = i.next
  BY <1>2 DEF Ends
<1>4. Ahead(t, i) = {t[i.nextIndex][q] : q \in Len(t[i.nextIndex]) .. Len(t[i.nextIndex])}
  BY <1>1, <1>3, AheadIs
<1>5. Len(t[i.nextIndex]) .. Len(t[i.nextIndex]) = {Len(t[i.nextIndex])}
  BY <1>2
<1> QED
  BY <1>3, <1>4, <1>5

\* What an iterator finds next.
Found(t, n, i, g) ==
  /\ NextFits(t, n, g)
  /\ Rest(t, n, i) = Rest(t, n, g) \cup Given(i) /\ Rest(t, n, g) \cap Given(i) = {}
  /\ g.next # NoKey => Follows(t, n, i.next, i.nextIndex, g.next, g.nextIndex)

\* The next entry of the chain is found.
LEMMA InChainIsFound ==
  ASSUME NEW h, NEW t, NEW n, Filed(h, t, n), NEW i \in Iterators, HalfFits(t, n, i), NEW x, NEW d, NEW m,
         InChain(t, n, i, x, d, m), NEW g, Advances(i, x, d, m, g)
  PROVE  Found(t, n, i, g)
<1>1. /\ i.next # NoKey /\ d = i.nextIndex /\ m = i.index
      /\ g.next = x /\ g.nextIndex = d /\ g.index = m
  BY DEF InChain, Advances
<1>2. PICK p \in 1 .. Len(t[d]) - 1 : t[d][p] = i.next /\ t[d][p + 1] = x
  BY DEF InChain
<1>3. d \in 0 .. n - 1 /\ i.index = d + 1 /\ i.index \in 0 .. n
  BY <1>1 DEF HalfFits
<1>4. /\ t[d] \in Seq(HashKeys) /\ Len(t[d]) \in Nat
      /\ \A j, l \in 1 .. Len(t[d]) : t[d][j] = t[d][l] => j = l
  BY <1>3, ChainBelongs
<1>5. p \in 1 .. Len(t[d]) /\ p + 1 \in 1 .. Len(t[d])
  BY <1>4
<1>6. Ahead(t, i) = {t[d][q] : q \in p .. Len(t[d])}
  BY <1>1, <1>2, <1>3, <1>5, AheadIs
<1>7. Ahead(t, g) = {t[d][q] : q \in p + 1 .. Len(t[d])}
  <2>1. PICK r \in 1 .. Len(t[g.nextIndex]) : r = p + 1
    BY <1>1, <1>5
  <2>2. t[g.nextIndex][r] = g.next /\ g.nextIndex \in 0 .. n - 1
    BY <1>1, <1>2, <1>3, <2>1
  <2>3. Ahead(t, g) = {t[g.nextIndex][q] : q \in r .. Len(t[g.nextIndex])}
    BY <2>2, AheadIs
  <2> QED
    BY <1>1, <2>1, <2>3
<1>8. Later(t, n, g) = Later(t, n, i)
  BY <1>1 DEF Later
<1>9. x \in HashKeys /\ x # NoKey /\ x \in Inside(t[d]) /\ i.next \in Inside(t[d])
  <2>1. x \in HashKeys
    BY <1>2, <1>4, <1>5
  <2> QED
    BY <1>2, <1>5, <2>1, TableAssumption DEF Inside
<1>10. NextFits(t, n, g)
  BY <1>1, <1>3, <1>9 DEF NextFits
<1>11. Ahead(t, i) = Ahead(t, g) \cup {i.next}
  <2>1. \A q : q \in p .. Len(t[d]) <=> q = p \/ q \in p + 1 .. Len(t[d])
    BY <1>4, <1>5
  <2> QED
    BY <1>2, <1>6, <1>7, <2>1
<1>12. i.next \notin Ahead(t, g)
  <2>1. \A q \in p + 1 .. Len(t[d]) : q \in 1 .. Len(t[d]) /\ q # p
    BY <1>4, <1>5
  <2> QED
    BY <1>2, <1>4, <1>5, <1>7, <2>1
<1>13. i.next \notin Later(t, n, g)
  <2>1. Later(t, n, g) = From(t, n, d + 1)
    BY <1>1, <1>3, LaterIs
  <2>2. n \in Nat /\ d + 1 \in d + 1 .. n
    BY <1>3 DEF Filed
  <2>3. Inside(t[d]) \cap From(t, n, d + 1) = {}
    BY <1>3, <2>2, FromSkips
  <2> QED
    BY <1>9, <2>1, <2>3
<1>14. Follows(t, n, i.next, i.nextIndex, g.next, g.nextIndex)
  BY <1>1, <1>2, <1>3 DEF Follows
<1>15. Rest(t, n, i) = Later(t, n, i) \cup Ahead(t, i) /\ Rest(t, n, g) = Later(t, n, g) \cup Ahead(t, g)
  BY <1>1, <1>9 DEF Rest
<1>16. Given(i) = {i.next}
  BY <1>1 DEF Given
<1>17. Rest(t, n, i) = Rest(t, n, g) \cup Given(i) /\ Rest(t, n, g) \cap Given(i) = {}
  BY <1>8, <1>11, <1>12, <1>13, <1>15, <1>16
<1> QED
  BY <1>10, <1>14, <1>17 DEF Found

\* The head of the first later chain is found.
LEMMA InLaterChainIsFound ==
  ASSUME NEW h, NEW t, NEW n, Filed(h, t, n), NEW i \in Iterators, HalfFits(t, n, i), NEW x, NEW d, NEW m,
         InLaterChain(t, n, i, x, d, m), NEW g, Advances(i, x, d, m, g)
  PROVE  Found(t, n, i, g)
<1>1. g.next = x /\ g.nextIndex = d /\ g.index = m
  BY DEF Advances
<1>2. /\ Ends(t, i)
      /\ d \in i.index .. n - 1 /\ m = d + 1 /\ Len(t[d]) >= 1 /\ t[d][1] = x
      /\ \A c \in i.index .. d - 1 : Len(t[c]) = 0
  BY DEF InLaterChain
<1>3. n \in Nat \ {0} /\ i.index \in 0 .. n /\ d \in 0 .. n - 1 /\ d \in i.index .. n - 1 /\ m \in 0 .. n
  BY <1>2 DEF HalfFits, Filed
<1>4. t[d] \in Seq(HashKeys) /\ Len(t[d]) \in Nat /\ 1 \in 1 .. Len(t[d])
  BY <1>2, <1>3, ChainBelongs
<1>5. x \in HashKeys /\ x # NoKey /\ x \in Inside(t[d])
  BY <1>2, <1>4, TableAssumption DEF Inside
<1>6. NextFits(t, n, g)
  BY <1>1, <1>2, <1>3, <1>5 DEF NextFits
<1>7. Ahead(t, g) = Inside(t[d])
  BY <1>1, <1>2, <1>3, <1>4, AheadIs DEF Inside
<1>8. Rest(t, n, g) = From(t, n, d + 1) \cup Inside(t[d])
  BY <1>1, <1>2, <1>5, <1>7, LaterIs DEF Rest
<1>9. Later(t, n, i) = Rest(t, n, g)
  <2>1. Later(t, n, i) = From(t, n, i.index)
    BY LaterIs
  <2>3. Blank(t, i.index, d)
    BY <1>2 DEF Blank
  <2>2. From(t, n, i.index) = Inside(t[d]) \cup From(t, n, d + 1)
    BY <1>3, <2>3, FromIs
  <2> QED
    BY <1>8, <2>1, <2>2
<1>10. CASE i.next = NoKey
  <2>1. Follows(t, n, i.next, i.nextIndex, g.next, g.nextIndex)
    BY <1>1, <1>2, <1>3, <1>10 DEF Follows
  <2>2. Rest(t, n, i) = Rest(t, n, g) /\ Given(i) = {}
    BY <1>9, <1>10 DEF Rest, Given
  <2> QED
    BY <1>6, <2>1, <2>2 DEF Found
<1>11. CASE i.next # NoKey
  <2>1. i.nextIndex \in 0 .. n - 1 /\ i.index = i.nextIndex + 1 /\ i.next \in Inside(t[i.nextIndex])
    BY <1>11 DEF HalfFits
  <2>2. i.nextIndex # d
    BY <1>3, <2>1
  <2>3. Follows(t, n, i.next, i.nextIndex, g.next, g.nextIndex)
    BY <1>1, <1>2, <1>3, <2>2 DEF Follows
  <2>4. Ahead(t, i) = {i.next} /\ Given(i) = {i.next}
    BY <1>2, <1>11, EndsMeans DEF Given
  <2>5. Rest(t, n, i) = Rest(t, n, g) \cup Given(i)
    BY <1>9, <1>11, <2>4 DEF Rest
  <2>6. i.next \notin Rest(t, n, g)
    <3>1. Later(t, n, i) = From(t, n, i.index)
      BY LaterIs
    <3>2. i.index \in i.nextIndex + 1 .. n
      BY <1>3, <2>1
    <3>3. Inside(t[i.nextIndex]) \cap From(t, n, i.index) = {}
      BY <2>1, <3>2, FromSkips
    <3> QED
      BY <1>9, <2>1, <3>1, <3>3
  <2>7. Rest(t, n, g) \cap Given(i) = {}
    BY <2>4, <2>6
  <2> QED
    BY <1>6, <2>3, <2>5, <2>7 DEF Found
<1> QED
  BY <1>10, <1>11

\* Nothing more is found when all later chains are empty.
LEMMA NowhereIsFound ==
  ASSUME NEW h, NEW t, NEW n, Filed(h, t, n), NEW i \in Iterators, HalfFits(t, n, i), NEW x, NEW d, NEW m,
         Nowhere(t, n, i, x, d, m), NEW g, Advances(i, x, d, m, g)
  PROVE  Found(t, n, i, g)
<1>1. g.next = NoKey /\ g.index = n
  BY DEF Advances, Nowhere
<1>2. Ends(t, i) /\ \A c \in i.index .. n - 1 : Len(t[c]) = 0
  BY DEF Nowhere
<1>3. n \in Nat \ {0} /\ i.index \in 0 .. n /\ i.index \in Nat
  BY DEF HalfFits, Filed
<1>4. NextFits(t, n, g)
  BY <1>1, <1>3 DEF NextFits
<1>5. Later(t, n, i) = {}
  <2>2. Blank(t, i.index, n)
    BY <1>2 DEF Blank
  <2>1. From(t, n, i.index) = {}
    BY <1>3, <2>2, NothingFrom
  <2> QED
    BY <2>1, LaterIs
<1>6. Rest(t, n, g) = {}
  <2>1. Blank(t, n, n)
    BY <1>3 DEF Blank
  <2>2. From(t, n, n) = {}
    BY <1>3, <2>1, NothingFrom
  <2>3. Later(t, n, g) = {}
    BY <1>1, <2>2, LaterIs
  <2> QED
    BY <1>1, <2>3 DEF Rest
<1>7. Rest(t, n, i) = Given(i)
  <2>1. CASE i.next = NoKey
    BY <1>5, <2>1 DEF Rest, Given
  <2>2. CASE i.next # NoKey
    BY <1>2, <1>5, <2>2, EndsMeans DEF Rest, Given
  <2> QED
    BY <2>1, <2>2
<1> QED
  BY <1>1, <1>4, <1>6, <1>7 DEF Found

\* findNextEntry, in all cases.
LEMMA FindNextIsGood ==
  ASSUME NEW n, n = H!Size, Filed(calc, table, n), NEW i \in Iterators, HalfFits(table, n, i)
  PROVE  Found(table, n, i, H!FindNextEntry(i)) /\ \E x, d, m : Advances(i, x, d, m, H!FindNextEntry(i))
<1>1. PICK x, d, m : Arrives(table, n, i, x, d, m) /\ Advances(i, x, d, m, H!FindNextEntry(i))
  BY FindNextIs
<1>2. PICK g : g = H!FindNextEntry(i)
  OBVIOUS
<1>3. Advances(i, x, d, m, g)
  BY <1>1, <1>2
<1>4. Found(table, n, i, g)
  <2>1. CASE InChain(table, n, i, x, d, m)
    BY <1>3, <2>1, InChainIsFound
  <2>2. CASE InLaterChain(table, n, i, x, d, m)
    BY <1>3, <2>2, InLaterChainIsFound
  <2>3. CASE Nowhere(table, n, i, x, d, m)
    BY <1>3, <2>3, NowhereIsFound
  <2> QED
    BY <1>1, <2>1, <2>2, <2>3 DEF Arrives
<1> QED
  BY <1>2, <1>3, <1>4

\* A step of the iterator that only reads.
LEMMA ReadIsGood ==
  ASSUME TableInv, ~fault, UNCHANGED <<calc, primeIndex, table, entryCount, fault>>,
         hashRet' = H!NoAnswer, NEW f, hashIt' = f, IterSound(table, H!Size, f)
  PROVE  GoodTableStep
<1>1. PICK n : n = H!Size
  OBVIOUS
<1>2. H!Size' = n
  BY <1>1 DEF H!Size
<1>3. TableInv'
  BY <1>1, <1>2 DEF TableInv
<1>4. H!Abstract!Next
  BY ReadMeans
<1> QED
  BY <1>3, <1>4 DEF GoodTableStep

\* The parts of it.
LEMMA FoundMeans ==
  ASSUME NEW t, NEW n, NEW i, NEW g, Found(t, n, i, g)
  PROVE  /\ NextFits(t, n, g)
         /\ Rest(t, n, i) = Rest(t, n, g) \cup Given(i) /\ Rest(t, n, g) \cap Given(i) = {}
         /\ g.next # NoKey => Follows(t, n, i.next, i.nextIndex, g.next, g.nextIndex)
BY DEF Found

\* The iterator is set to the first entry, and all entries are still to come.
LEMMA FirstIsGood ==
  ASSUME TableInv, ~fault, NEW style \in {"one", "all"}, H!IteratorFirst(style)
  PROVE  GoodTableStep
<1>1. PICK n : n = H!Size
  OBVIOUS
<1>2. Filed(calc, table, n) /\ n \in Nat \ {0}
  BY <1>1 DEF TableInv, Counted, Filed
<1>3. H!Entries = Kept(table, n)
  BY <1>2, EntriesMean, KeptIs
<1>4. PICK i : i = [on |-> TRUE, last |-> NoKey, curr |-> NoKey, next |-> NoKey,
                    lastIndex |-> 0, currIndex |-> 0, nextIndex |-> 0, index |-> 0,
                    style |-> style, seen |-> <<>>, removed |-> {}, start |-> H!Entries]
  OBVIOUS
<1>5. PICK g : g = H!FindNextEntry(i)
  OBVIOUS
<1>6. hashIt' = g /\ hashRet' = H!NoAnswer /\ UNCHANGED <<calc, primeIndex, table, entryCount, fault>>
  BY <1>4, <1>5 DEF H!IteratorFirst
<1>7. /\ i.last = NoKey /\ i.curr = NoKey /\ i.next = NoKey /\ i.nextIndex = 0 /\ i.index = 0
      /\ i.seen = <<>> /\ i.removed = {} /\ i.start = Kept(table, n)
  BY <1>3, <1>4
<1>8. Kept(table, n) \subseteq HashKeys
  BY DEF Kept
<1>9. i \in Iterators
  BY <1>3, <1>4, <1>8 DEF Iterators
<1>10. HalfFits(table, n, i)
  BY <1>2, <1>7 DEF HalfFits
<1>11. Found(table, n, i, g)
  BY <1>1, <1>2, <1>5, <1>9, <1>10, FindNextIsGood
<1>12. \E x, d, m : Advances(i, x, d, m, g)
  BY <1>1, <1>2, <1>5, <1>9, <1>10, FindNextIsGood
<1>13. /\ g \in Iterators /\ g.last = NoKey /\ g.curr = NoKey /\ g.currIndex = 0
       /\ g.seen = <<>> /\ g.removed = {} /\ g.start = Kept(table, n)
  BY <1>7, <1>12 DEF Advances
<1>14. NextFits(table, n, g)
  BY <1>11, FoundMeans
<1>15. Rest(table, n, g) = Kept(table, n)
  <2>1. Rest(table, n, i) = From(table, n, 0) /\ Given(i) = {}
    BY <1>7, LaterIs DEF Rest, Given
  <2>2. From(table, n, 0) = Kept(table, n)
    BY DEF From, Kept
  <2> QED
    BY <1>11, <2>1, <2>2, FoundMeans
<1>16. GivesEach(g.seen, Rest(table, n, g), g.start)
  <2>1. Inside(<<>>) = {} /\ 1 .. Len(<<>>) = {}
    BY DEF Inside
  <2> QED
    BY <1>13, <1>15, <2>1 DEF GivesEach
<1>17. Neighbours(table, n, g)
  <2>1. g.next # NoKey => Follows(table, n, g.curr, g.currIndex, g.next, g.nextIndex)
    <3>1. g.next # NoKey => Follows(table, n, i.next, i.nextIndex, g.next, g.nextIndex)
      BY <1>11, FoundMeans
    <3> QED
      BY <1>7, <1>13, <3>1
  <2> QED
    BY <1>13, <2>1 DEF Neighbours
<1>18. IterSound(table, n, g)
  BY <1>13, <1>14, <1>16, <1>17 DEF IterSound
<1> QED
  BY <1>1, <1>6, <1>18, ReadIsGood

\* Iterators that are at the same place.
LEMMA SamePlace ==
  ASSUME NEW t, NEW n, NEW g, NEW f, f.next = g.next, f.nextIndex = g.nextIndex, f.index = g.index
  PROVE  Rest(t, n, f) = Rest(t, n, g) /\ (NextFits(t, n, g) => NextFits(t, n, f))
BY DEF Rest, Later, Ahead, NextFits

\* A sequence that gets one more item.
LEMMA InsideAppend ==
  ASSUME NEW s \in Seq(HashKeys), NEW k \in HashKeys, NEW r, r = Append(s, k)
  PROVE  r \in Seq(HashKeys) /\ Inside(r) = Inside(s) \cup {k}
         /\ (k \notin Inside(s) /\ (\A j, l \in 1 .. Len(s) : s[j] = s[l] => j = l)
             => \A j, l \in 1 .. Len(r) : r[j] = r[l] => j = l)
<1>1. /\ r \in Seq(HashKeys) /\ Len(r) = Len(s) + 1 /\ Len(s) \in Nat
      /\ r[Len(s) + 1] = k /\ \A j \in 1 .. Len(s) : r[j] = s[j]
  OBVIOUS
<1>2. \A j : j \in 1 .. Len(r) <=> j = Len(s) + 1 \/ j \in 1 .. Len(s)
  BY <1>1
<1>3. Inside(r) = Inside(s) \cup {k}
  BY <1>1, <1>2 DEF Inside
<1>4. ASSUME k \notin Inside(s), \A j, l \in 1 .. Len(s) : s[j] = s[l] => j = l,
             NEW j \in 1 .. Len(r), NEW l \in 1 .. Len(r), r[j] = r[l]
      PROVE  j = l
  <2>1. \A p \in 1 .. Len(s) : s[p] # k
    BY <1>4 DEF Inside
  <2> QED
    BY <1>1, <1>2, <1>4, <2>1
<1> QED
  BY <1>1, <1>3, <1>4

\* The next entry is given.
LEMMA GivesOne ==
  ASSUME NEW s \in Seq(HashKeys), NEW rest, NEW start, GivesEach(s, rest, start),
         NEW k \in HashKeys, NEW less, rest = less \cup {k}, less \cap {k} = {},
         NEW r, r = Append(s, k)
  PROVE  GivesEach(r, less, start)
<1>1. /\ Inside(s) \cap rest = {} /\ Inside(s) \cup rest = start
      /\ \A j, l \in 1 .. Len(s) : s[j] = s[l] => j = l
  BY DEF GivesEach
<1>2. Inside(r) = Inside(s) \cup {k}
  BY InsideAppend
<1>3. k \notin Inside(s)
  BY <1>1
<1>4. \A j, l \in 1 .. Len(r) : r[j] = r[l] => j = l
  BY <1>1, <1>3, InsideAppend
<1>5. Inside(r) \cap less = {} /\ Inside(r) \cup less = start
  BY <1>1, <1>2
<1> QED
  BY <1>4, <1>5 DEF GivesEach

\* An entry that follows is in the table.
LEMMA FollowsKept ==
  ASSUME NEW h, NEW t, NEW n, Filed(h, t, n), NEW p, NEW c, NEW k, NEW b, Follows(t, n, p, c, k, b)
  PROVE  b \in 0 .. n - 1 /\ k \in Inside(t[b]) /\ k \in Kept(t, n)
<1>1. b \in 0 .. n - 1
  BY DEF Follows
<1>2. Len(t[b]) \in Nat /\ Inside(t[b]) \subseteq Kept(t, n)
  BY <1>1, ChainBelongs
<1>3. k \in Inside(t[b])
  <2>1. CASE p # NoKey /\ c = b
    <3>1. PICK j \in 1 .. Len(t[b]) - 1 : t[b][j + 1] = k
      BY <2>1 DEF Follows
    <3>2. j + 1 \in 1 .. Len(t[b])
      BY <1>2
    <3> QED
      BY <3>1, <3>2 DEF Inside
  <2>2. CASE ~(p # NoKey /\ c = b)
    <3>1. Len(t[b]) >= 1 /\ t[b][1] = k
      BY <2>2 DEF Follows
    <3>2. 1 \in 1 .. Len(t[b])
      BY <1>2, <3>1
    <3> QED
      BY <3>1, <3>2 DEF Inside
  <2> QED
    BY <2>1, <2>2
<1> QED
  BY <1>1, <1>2, <1>3

\* The iterator's next: the entry it gives is the one ahead.
LEMMA NextIsGood ==
  ASSUME TableInv, ~fault, H!MayGoOn, H!IteratorNext
  PROVE  GoodTableStep
<1>1. PICK n : n = H!Size
  OBVIOUS
<1>2. Filed(calc, table, n)
  BY <1>1 DEF TableInv, Counted
<1>3. PICK i : i = hashIt
  OBVIOUS
<1>4. i.on /\ i.next # NoKey /\ (i.style = "all" => H!ToSet(i.seen) = i.removed)
  BY <1>3 DEF H!IteratorNext, H!MayGoOn
<1>5. IterSound(table, n, i)
  BY <1>1, <1>3, <1>4, On DEF TableInv
<1>6. /\ i \in Iterators
      /\ NextFits(table, n, i)
      /\ GivesEach(i.seen, Rest(table, n, i), i.start)
      /\ Kept(table, n) = i.start \ i.removed /\ i.removed \subseteq Inside(i.seen)
      /\ i.curr # NoKey => i.curr \in Inside(i.seen)
      /\ i.style = "all" \/ i.removed = {} => Neighbours(table, n, i)
  BY <1>5 DEF IterSound
<1>7. PICK g : g = H!FindNextEntry(i)
  OBVIOUS
<1>8. HalfFits(table, n, i)
  BY <1>6 DEF NextFits, HalfFits
<1>9. Found(table, n, i, g)
  BY <1>1, <1>2, <1>6, <1>7, <1>8, FindNextIsGood
<1>10. \E x, d, m : Advances(i, x, d, m, g)
  BY <1>1, <1>2, <1>6, <1>7, <1>8, FindNextIsGood
<1>11. /\ g \in Iterators
       /\ g.last = i.curr /\ g.lastIndex = i.currIndex /\ g.curr = i.next /\ g.currIndex = i.nextIndex
       /\ g.style = i.style /\ g.seen = i.seen /\ g.removed = i.removed /\ g.start = i.start
  BY <1>10 DEF Advances
<1>12. PICK f : f = [g EXCEPT !.seen = Append(@, g.curr)]
  OBVIOUS
<1>13. hashIt' = f /\ hashRet' = H!NoAnswer /\ UNCHANGED <<calc, primeIndex, table, entryCount, fault>>
  BY <1>3, <1>7, <1>12 DEF H!IteratorNext
<1>14. i.next \in HashKeys /\ i.seen \in Seq(HashKeys)
  BY <1>4, <1>6 DEF Iterators
<1>15. Append(i.seen, i.next) \in Seq(HashKeys)
  BY <1>14
<1>16. /\ f \in Iterators
       /\ f.last = g.last /\ f.lastIndex = g.lastIndex /\ f.curr = g.curr /\ f.currIndex = g.currIndex
       /\ f.next = g.next /\ f.nextIndex = g.nextIndex /\ f.index = g.index
       /\ f.style = g.style /\ f.removed = g.removed /\ f.start = g.start
       /\ f.seen = Append(i.seen, i.next)
  BY <1>11, <1>12, <1>15 DEF Iterators
<1>17. NextFits(table, n, f) /\ Rest(table, n, f) = Rest(table, n, g)
  BY <1>9, <1>16, SamePlace, FoundMeans
<1>18. Rest(table, n, i) = Rest(table, n, f) \cup {i.next} /\ Rest(table, n, f) \cap {i.next} = {}
  <2>1. Given(i) = {i.next}
    BY <1>4 DEF Given
  <2> QED
    BY <1>9, <1>17, <2>1, FoundMeans
<1>19. GivesEach(f.seen, Rest(table, n, f), f.start)
  BY <1>6, <1>11, <1>14, <1>16, <1>18, GivesOne
<1>20. Inside(f.seen) = Inside(i.seen) \cup {i.next}
  <2>1. PICK s \in Seq(HashKeys) : s = i.seen
    BY <1>14
  <2>2. PICK k \in HashKeys : k = i.next
    BY <1>14
  <2>3. PICK r : r = f.seen
    OBVIOUS
  <2>4. r = Append(s, k)
    BY <1>16, <2>1, <2>2, <2>3
  <2>5. Inside(r) = Inside(s) \cup {k}
    BY <2>4, InsideAppend
  <2> QED
    BY <2>1, <2>2, <2>3, <2>5
<1>21. Kept(table, n) = f.start \ f.removed /\ f.removed \subseteq Inside(f.seen)
       /\ (f.curr # NoKey => f.curr \in Inside(f.seen))
  BY <1>6, <1>11, <1>16, <1>20
<1>22. ASSUME f.style = "all" \/ f.removed = {} PROVE Neighbours(table, n, f)
  <2>1. Neighbours(table, n, i)
    BY <1>6, <1>11, <1>16, <1>22
  <2>2. Follows(table, n, f.last, f.lastIndex, f.curr, f.currIndex)
    BY <1>4, <1>11, <1>16, <2>1 DEF Neighbours
  <2>3. f.next # NoKey => Follows(table, n, f.curr, f.currIndex, f.next, f.nextIndex)
    <3>1. g.next # NoKey => Follows(table, n, i.next, i.nextIndex, g.next, g.nextIndex)
      BY <1>9, FoundMeans
    <3> QED
      BY <1>11, <1>16, <3>1
  <2>4. ASSUME f.style = "all" PROVE f.last = NoKey
    <3>1. f.last = i.curr /\ i.style = "all"
      BY <1>11, <1>16, <2>4
    <3>2. CASE i.curr # NoKey
      <4>1. Follows(table, n, i.last, i.lastIndex, i.curr, i.currIndex)
        BY <2>1, <3>2 DEF Neighbours
      <4>2. i.curr \in Kept(table, n)
        BY <1>2, <4>1, FollowsKept
      <4>3. H!ToSet(i.seen) = Inside(i.seen)
        BY <1>14, InsideIs
      <4>4. i.curr \in i.removed
        BY <1>4, <1>6, <3>1, <3>2, <4>3
      <4> QED
        BY <1>6, <4>2, <4>4
    <3> QED
      BY <3>1, <3>2
  <2> QED
    BY <2>2, <2>3, <2>4 DEF Neighbours
<1>23. IterSound(table, n, f)
  BY <1>16, <1>17, <1>19, <1>21, <1>22 DEF IterSound
<1> QED
  BY <1>1, <1>13, <1>23, ReadIsGood

\* Whichever way the entry is unlinked, it alone leaves its chain.
LEMMA UnlinkedIs ==
  ASSUME NEW n, Filed(calc, table, n), NEW b, b = hashIt.currIndex,
         Follows(table, n, hashIt.last, hashIt.lastIndex, hashIt.curr, b)
  PROVE  \E j \in 1 .. Len(table[b]) : table[b][j] = hashIt.curr /\ Rechains(table, b, Cut(table[b], j), H!Unlinked)
<1>1. b \in 0 .. n - 1
  BY DEF Follows
<1>2. /\ table[b] \in Seq(HashKeys) /\ Len(table[b]) \in Nat
      /\ \A i, l \in 1 .. Len(table[b]) : table[b][i] = table[b][l] => i = l
  BY <1>1, ChainBelongs
<1>3. PICK s : s = table[b]
  OBVIOUS
<1>4. table \in [0 .. n - 1 -> Seq(HashKeys)]
  BY DEF Filed
<1> DEFINE rest == SubSeq(s, H!At(s, hashIt.curr) + 1, Len(s))
           left == IF hashIt.lastIndex = hashIt.currIndex /\ hashIt.last # NoKey
                   THEN SubSeq(s, 1, H!At(s, hashIt.last)) \o rest ELSE rest
<1>5. Rechains(table, b, left, H!Unlinked)
  BY <1>1, <1>3, <1>4 DEF Rechains, H!Unlinked
<1>6. CASE hashIt.last # NoKey /\ hashIt.lastIndex = b
  <2>1. PICK l \in 1 .. Len(s) - 1 : s[l] = hashIt.last /\ s[l + 1] = hashIt.curr
    BY <1>3, <1>6 DEF Follows
  <2>2. PICK j : j = l + 1
    OBVIOUS
  <2>3. j \in 1 .. Len(s) /\ j - 1 = l /\ l \in 1 .. Len(s) /\ s[j] = hashIt.curr
    BY <1>2, <1>3, <2>1, <2>2
  <2>4. H!At(s, hashIt.last) = j - 1
    BY <1>2, <1>3, <2>1, <2>3, AtIs
  <2>5. H!At(s, hashIt.curr) = j
    BY <1>2, <1>3, <2>3, AtIs
  <2>6. left = SubSeq(s, 1, j - 1) \o SubSeq(s, j + 1, Len(s))
    BY <1>6, <2>4, <2>5
  <2> HIDE DEF left
  <2>7. left = Cut(s, j)
    BY <1>2, <1>3, <2>3, <2>6, CutIs
  <2> QED
    BY <1>3, <1>5, <2>3, <2>7
<1>7. CASE ~(hashIt.last # NoKey /\ hashIt.lastIndex = b)
  <2>1. s[1] = hashIt.curr /\ 1 \in 1 .. Len(s)
    BY <1>2, <1>3, <1>7 DEF Follows
  <2>2. H!At(s, hashIt.curr) = 1
    BY <1>2, <1>3, <2>1, AtIs
  <2>3. PICK j \in 1 .. Len(s) : j = 1 /\ s[j] = hashIt.curr
    BY <2>1
  <2>4. left = SubSeq(s, j + 1, Len(s))
    BY <1>7, <2>2, <2>3
  <2> HIDE DEF left
  <2>6. s \in Seq(HashKeys)
    BY <1>2, <1>3
  <2>7. j = 1 => SubSeq(s, j + 1, Len(s)) = Cut(s, j)
    BY <2>6, CutIs
  <2>5. left = Cut(s, j)
    BY <2>3, <2>4, <2>7
  <2> QED
    BY <1>3, <1>5, <2>3, <2>5
<1> QED
  BY <1>6, <1>7

\* The table without the entry at place j of chain b.
Without(h, t, n, b, j, u) ==
  /\ Filed(h, t, n) /\ b \in 0 .. n - 1 /\ j \in 1 .. Len(t[b]) /\ Rechains(t, b, Cut(t[b], j), u)

\* Every chain keeps its other entries.
LEMMA WithoutIs ==
  ASSUME NEW h, NEW t, NEW n, NEW b, NEW j, NEW u, Without(h, t, n, b, j, u)
  PROVE  /\ Filed(h, u, n) /\ Kept(u, n) = Kept(t, n) \ {t[b][j]}
         /\ u[b] = Cut(t[b], j) /\ Len(u[b]) = Len(t[b]) - 1
         /\ \A c \in 0 .. n - 1 : c # b => u[c] = t[c]
         /\ \A c \in 0 .. n - 1 : Inside(u[c]) = Inside(t[c]) \ {t[b][j]}
<1>1. b \in 0 .. n - 1 /\ j \in 1 .. Len(t[b]) /\ Filed(h, t, n) /\ Rechains(t, b, Cut(t[b], j), u)
  BY DEF Without
<1>2. Filed(h, u, n)
  BY <1>1, Unchained
<1>3. Kept(u, n) = Kept(t, n) \ {t[b][j]}
  BY <1>1, Unchained
<1>4. u[b] = Cut(t[b], j) /\ \A c \in 0 .. n - 1 : c # b => u[c] = t[c]
  BY <1>1 DEF Rechains, Filed
<1>5. Len(u[b]) = Len(t[b]) - 1
  <2>1. t[b] \in Seq(HashKeys)
    BY <1>1, ChainBelongs
  <2> QED
    BY <1>1, <1>4, <2>1, CutIs
<1>6. ASSUME NEW c \in 0 .. n - 1 PROVE Inside(u[c]) = Inside(t[c]) \ {t[b][j]}
  <2>1. ASSUME NEW e \in HashKeys, h[e] % n = c PROVE e \in Inside(u[c]) <=> e \in Inside(t[c]) /\ e # t[b][j]
    <3>1. e \in Kept(u, n) <=> e \in Inside(u[c])
      BY <1>2, <2>1, HomeOf
    <3>2. e \in Kept(t, n) <=> e \in Inside(t[c])
      BY <1>1, <2>1, HomeOf
    <3> QED
      BY <1>3, <3>1, <3>2
  <2>2. \A e \in Inside(u[c]) : e \in HashKeys /\ h[e] % n = c
    <3>1. u[c] \in Seq(HashKeys) /\ \A i \in 1 .. Len(u[c]) : h[u[c][i]] % n = c
      BY <1>2, ChainBelongs
    <3> QED
      BY <3>1 DEF Inside
  <2>3. \A e \in Inside(t[c]) : e \in HashKeys /\ h[e] % n = c
    <3>1. t[c] \in Seq(HashKeys) /\ \A i \in 1 .. Len(t[c]) : h[t[c][i]] % n = c
      BY <1>1, ChainBelongs
    <3> QED
      BY <3>1 DEF Inside
  <2> QED
    BY <2>1, <2>2, <2>3
<1> QED
  BY <1>2, <1>3, <1>4, <1>5, <1>6

\* The chains from index on lose that entry, if they had it.
LEMMA WithoutLater ==
  ASSUME NEW h, NEW t, NEW n, NEW b, NEW j, NEW u, Without(h, t, n, b, j, u), NEW a \in Nat
  PROVE  From(u, n, a) = From(t, n, a) \ {t[b][j]}
<1>1. n \in Nat
  BY DEF Without, Filed
<1>2. ASSUME NEW v, NEW e PROVE e \in From(v, n, a) <=> e \in HashKeys /\ \E c \in a .. n - 1 : e \in Inside(v[c])
  BY DEF From, Inside
<1>3. \A c \in a .. n - 1 : Inside(u[c]) = Inside(t[c]) \ {t[b][j]}
  <2>1. \A c \in a .. n - 1 : c \in 0 .. n - 1
    BY <1>1
  <2>2. \A c \in 0 .. n - 1 : Inside(u[c]) = Inside(t[c]) \ {t[b][j]}
    BY WithoutIs
  <2> QED
    BY <2>1, <2>2
<1>4. ASSUME NEW e PROVE e \in From(u, n, a) <=> e \in From(t, n, a) /\ e # t[b][j]
  BY <1>2, <1>3
<1> QED
  BY <1>4

\* What comes after the entry in its chain stays ahead.
LEMMA WithoutAhead ==
  ASSUME NEW h, NEW t, NEW n, NEW b, NEW j, NEW u, Without(h, t, n, b, j, u), j + 1 \in 1 .. Len(t[b]),
         NEW i, i.nextIndex = b, i.next = t[b][j + 1], NEW f, f.nextIndex = b, f.next = i.next
  PROVE  Ahead(u, f) = Ahead(t, i) /\ u[b][j] = i.next
<1>1. b \in 0 .. n - 1 /\ j \in 1 .. Len(t[b]) /\ Filed(h, t, n)
  BY DEF Without
<1>2. t[b] \in Seq(HashKeys) /\ Len(t[b]) \in Nat
  BY <1>1, ChainBelongs
<1>3. u[b] = Cut(t[b], j) /\ Len(u[b]) = Len(t[b]) - 1
  BY WithoutIs
<1>4. Filed(h, u, n)
  BY WithoutIs
<1>5. ASSUME NEW q \in j .. Len(t[b]) - 1 PROVE u[b][q] = t[b][q + 1]
  <2>1. q \in 1 .. Len(t[b]) - 1 /\ ~(q < j)
    BY <1>1, <1>2
  <2> QED
    BY <1>3, <2>1 DEF Cut
<1>6. j \in 1 .. Len(u[b]) /\ u[b][j] = i.next
  BY <1>1, <1>2, <1>3, <1>5
<1>7. PICK p \in 1 .. Len(t[b]) : p = j + 1
  OBVIOUS
<1>8. Ahead(t, i) = {t[b][q] : q \in p .. Len(t[b])}
  <2>1. i.nextIndex \in 0 .. n - 1 /\ p \in 1 .. Len(t[i.nextIndex]) /\ t[i.nextIndex][p] = i.next
    BY <1>1, <1>7
  <2>2. Ahead(t, i) = {t[i.nextIndex][q] : q \in p .. Len(t[i.nextIndex])}
    BY <1>1, <2>1, AheadIs
  <2> QED
    BY <2>2
<1>9. Ahead(u, f) = {u[b][q] : q \in j .. Len(u[b])}
  <2>1. f.nextIndex \in 0 .. n - 1 /\ j \in 1 .. Len(u[f.nextIndex]) /\ u[f.nextIndex][j] = f.next
    BY <1>1, <1>6
  <2>2. Ahead(u, f) = {u[f.nextIndex][q] : q \in j .. Len(u[f.nextIndex])}
    BY <1>4, <2>1, AheadIs
  <2> QED
    BY <2>2
<1>10. ASSUME NEW q \in j .. Len(u[b]) PROVE q + 1 \in p .. Len(t[b]) /\ u[b][q] = t[b][q + 1]
  BY <1>1, <1>2, <1>3, <1>5, <1>7
<1>11. ASSUME NEW q \in p .. Len(t[b]) PROVE q - 1 \in j .. Len(u[b]) /\ u[b][q - 1] = t[b][q]
  <2>1. q - 1 \in j .. Len(t[b]) - 1 /\ (q - 1) + 1 = q
    BY <1>1, <1>2, <1>7
  <2>2. u[b][q - 1] = t[b][(q - 1) + 1]
    BY <1>5, <2>1
  <2> QED
    BY <1>3, <2>1, <2>2
<1>12. Ahead(u, f) \subseteq Ahead(t, i)
  BY <1>8, <1>9, <1>10
<1>13. Ahead(t, i) \subseteq Ahead(u, f)
  BY <1>8, <1>9, <1>11
<1> QED
  BY <1>6, <1>12, <1>13

\* Where the iterator is when the entry it gave is removed.
Removes(t, n, i, b, j, u) ==
  /\ IterSound(t, n, i) /\ Neighbours(t, n, i) /\ i.curr # NoKey
  /\ b = i.currIndex /\ t[b][j] = i.curr

\* The iterator afterwards.
Dropped(i, f) == f = [i EXCEPT !.curr = NoKey, !.currIndex = 0, !.removed = @ \cup {i.curr}]

\* Its fields.
LEMMA DroppedIs ==
  ASSUME NEW i \in Iterators, i.curr # NoKey, NEW f, Dropped(i, f)
  PROVE  /\ f \in Iterators /\ f.curr = NoKey /\ f.currIndex = 0 /\ f.removed = i.removed \cup {i.curr}
         /\ f.last = i.last /\ f.next = i.next /\ f.nextIndex = i.nextIndex /\ f.index = i.index
         /\ f.style = i.style /\ f.seen = i.seen /\ f.start = i.start
BY DEF Iterators, Dropped

\* The next entry is another one, and moves up if it is in that chain.
LEMMA NextMoves ==
  ASSUME NEW h, NEW t, NEW n, NEW b, NEW j, NEW u, Without(h, t, n, b, j, u),
         NEW i, Removes(t, n, i, b, j, u), NEW f, Dropped(i, f), i.next # NoKey
  PROVE  /\ f.nextIndex \in 0 .. n - 1 /\ f.next \in Inside(u[f.nextIndex])
         /\ Ahead(u, f) = Ahead(t, i)
         /\ i.style = "all" => Follows(u, n, NoKey, 0, f.next, f.nextIndex)
<1>1. IterSound(t, n, i) /\ Neighbours(t, n, i) /\ i.curr # NoKey /\ b = i.currIndex /\ t[b][j] = i.curr
  BY DEF Removes
<1>2. Filed(h, t, n) /\ b \in 0 .. n - 1 /\ j \in 1 .. Len(t[b])
  BY DEF Without
<1>3. i \in Iterators
  BY <1>1 DEF IterSound
<1>4. f.next = i.next /\ f.nextIndex = i.nextIndex
  BY <1>1, <1>3, DroppedIs
<1>5. Follows(t, n, i.curr, b, i.next, i.nextIndex)
  BY <1>1 DEF Neighbours
<1>6. i.nextIndex \in 0 .. n - 1 /\ i.next \in Inside(t[i.nextIndex])
  BY <1>2, <1>5, FollowsKept
<1>7. Len(t[b]) \in Nat /\ \A l, m \in 1 .. Len(t[b]) : t[b][l] = t[b][m] => l = m
  BY <1>2, ChainBelongs
<1>8. CASE i.nextIndex = b
  <2>1. PICK l \in 1 .. Len(t[b]) - 1 : t[b][l] = i.curr /\ t[b][l + 1] = i.next
    BY <1>1, <1>5, <1>8 DEF Follows
  <2>2. l = j
    BY <1>1, <1>2, <1>7, <2>1
  <2>3. j + 1 \in 1 .. Len(t[b]) /\ i.next = t[b][j + 1]
    BY <1>2, <1>7, <2>1, <2>2
  <2>4. f.nextIndex = b
    BY <1>4, <1>8
  <2>5. Ahead(u, f) = Ahead(t, i)
    BY <1>4, <1>8, <2>3, <2>4, WithoutAhead
  <2>6. u[b][j] = i.next
    BY <1>4, <1>8, <2>3, <2>4, WithoutAhead
  <2>7. Len(u[b]) = Len(t[b]) - 1
    BY WithoutIs
  <2>8. j \in 1 .. Len(u[b])
    BY <1>2, <1>7, <2>3, <2>7
  <2>9. f.next \in Inside(u[f.nextIndex])
    BY <1>4, <2>4, <2>6, <2>8 DEF Inside
  <2>10. ASSUME i.style = "all" PROVE Follows(u, n, NoKey, 0, f.next, f.nextIndex)
    <3>1. i.last = NoKey /\ Follows(t, n, i.last, i.lastIndex, i.curr, b)
      BY <1>1, <2>10 DEF Neighbours
    <3>2. t[b][1] = i.curr
      BY <3>1 DEF Follows
    <3>3. 1 \in 1 .. Len(t[b])
      BY <1>2, <1>7
    <3>4. j = 1
      BY <1>1, <1>2, <1>7, <3>2, <3>3
    <3>5. Len(u[b]) >= 1 /\ u[b][1] = f.next
      BY <1>4, <2>6, <2>8, <3>4
    <3> QED
      BY <1>2, <2>4, <3>5 DEF Follows
  <2> QED
    BY <1>2, <2>4, <2>5, <2>9, <2>10
<1>9. CASE i.nextIndex # b
  <2>1. u[i.nextIndex] = t[i.nextIndex]
    BY <1>6, <1>9, WithoutIs
  <2>2. Ahead(u, f) = Ahead(t, i)
    BY <1>4, <2>1 DEF Ahead
  <2>3. Follows(u, n, NoKey, 0, f.next, f.nextIndex)
    <3>1. Len(t[i.nextIndex]) >= 1 /\ t[i.nextIndex][1] = i.next
      BY <1>5, <1>9 DEF Follows
    <3> QED
      BY <1>4, <1>6, <2>1, <3>1 DEF Follows
  <2> QED
    BY <1>4, <1>6, <2>1, <2>2, <2>3
<1> QED
  BY <1>8, <1>9

\* The iterator is sound after a removal: nothing still to come is lost.
LEMMA DroppedIsSound ==
  ASSUME NEW h, NEW t, NEW n, NEW b, NEW j, NEW u, Without(h, t, n, b, j, u),
         NEW i, Removes(t, n, i, b, j, u), NEW f, Dropped(i, f), i.style = "one" => i.removed = {}
  PROVE  IterSound(u, n, f)
<1>1. IterSound(t, n, i) /\ Neighbours(t, n, i) /\ i.curr # NoKey /\ t[b][j] = i.curr
  BY DEF Removes
<1>2. /\ i \in Iterators
      /\ NextFits(t, n, i)
      /\ GivesEach(i.seen, Rest(t, n, i), i.start)
      /\ Kept(t, n) = i.start \ i.removed /\ i.removed \subseteq Inside(i.seen)
      /\ i.curr \in Inside(i.seen)
  BY <1>1 DEF IterSound
<1>3. /\ f \in Iterators /\ f.curr = NoKey /\ f.currIndex = 0 /\ f.removed = i.removed \cup {i.curr}
      /\ f.last = i.last /\ f.next = i.next /\ f.nextIndex = i.nextIndex /\ f.index = i.index
      /\ f.style = i.style /\ f.seen = i.seen /\ f.start = i.start
  BY <1>1, <1>2, DroppedIs
<1>4. NextFits(u, n, f)
  <2>1. i.next # NoKey => f.next \in Inside(u[f.nextIndex])
    BY NextMoves
  <2> QED
    BY <1>2, <1>3, <2>1 DEF NextFits
<1>5. i.curr \notin Rest(t, n, i)
  BY <1>2 DEF GivesEach
<1>6. Later(u, n, f) = Later(t, n, i)
  <2>1. i.index \in Nat
    BY <1>2 DEF Iterators
  <2>2. From(u, n, i.index) = From(t, n, i.index) \ {t[b][j]}
    BY <2>1, WithoutLater
  <2>3. Later(u, n, f) = From(u, n, i.index) /\ Later(t, n, i) = From(t, n, i.index)
    BY <1>3, LaterIs
  <2>4. i.curr \notin Later(t, n, i)
    BY <1>5 DEF Rest
  <2> QED
    BY <1>1, <2>2, <2>3, <2>4
<1>7. Rest(u, n, f) = Rest(t, n, i)
  <2>1. i.next # NoKey => Ahead(u, f) = Ahead(t, i)
    BY NextMoves
  <2> QED
    BY <1>3, <1>6, <2>1 DEF Rest
<1>8. GivesEach(f.seen, Rest(u, n, f), f.start)
  BY <1>2, <1>3, <1>7
<1>9. Kept(u, n) = f.start \ f.removed /\ f.removed \subseteq Inside(f.seen)
  <2>1. Kept(u, n) = Kept(t, n) \ {t[b][j]}
    BY WithoutIs
  <2> QED
    BY <1>1, <1>2, <1>3, <2>1
<1>10. ASSUME f.style = "all" \/ f.removed = {} PROVE Neighbours(u, n, f)
  <2>1. i.style = "all"
    BY <1>3, <1>10
  <2>2. f.last = NoKey
    BY <1>1, <1>3, <2>1 DEF Neighbours
  <2>3. f.next # NoKey => Follows(u, n, f.curr, f.currIndex, f.next, f.nextIndex)
    <3>1. i.next # NoKey => Follows(u, n, NoKey, 0, f.next, f.nextIndex)
      BY <2>1, NextMoves
    <3> QED
      BY <1>3, <3>1
  <2> QED
    BY <1>3, <2>2, <2>3 DEF Neighbours
<1> QED
  BY <1>3, <1>4, <1>8, <1>9, <1>10 DEF IterSound

\* The iterator's remove.
LEMMA DropIsGood ==
  ASSUME TableInv, ~fault, H!MayRemove, H!IteratorRemove
  PROVE  GoodTableStep
<1>1. PICK n : n = H!Size
  OBVIOUS
<1>2. Counted(calc, table, n, entryCount) /\ Filed(calc, table, n)
  BY <1>1 DEF TableInv, Counted
<1>3. PICK i : i = hashIt
  OBVIOUS
<1>4. /\ i.on /\ i.curr # NoKey /\ (i.style = "one" => i.removed = {})
      /\ table' = H!Unlinked /\ entryCount' = entryCount - 1
      /\ hashRet' = H!Answer("delete", i.curr, TRUE)
      /\ calc' = calc /\ primeIndex' = primeIndex /\ fault' = fault
  BY <1>3 DEF H!IteratorRemove, H!MayRemove
<1>5. IterSound(table, n, i)
  BY <1>1, <1>3, <1>4, On DEF TableInv
<1>6. i \in Iterators /\ Neighbours(table, n, i)
  <2>1. i \in Iterators
    BY <1>5 DEF IterSound
  <2>2. i.style = "all" \/ i.removed = {}
    BY <1>4, <2>1 DEF Iterators
  <2> QED
    BY <1>5, <2>1, <2>2 DEF IterSound
<1>7. PICK b : b = i.currIndex
  OBVIOUS
<1>8. Follows(table, n, i.last, i.lastIndex, i.curr, b)
  BY <1>4, <1>6, <1>7 DEF Neighbours
<1>9. PICK u : u = table'
  OBVIOUS
<1>10. PICK j \in 1 .. Len(table[b]) : table[b][j] = i.curr /\ Rechains(table, b, Cut(table[b], j), u)
  BY <1>2, <1>3, <1>4, <1>7, <1>8, <1>9, UnlinkedIs
<1>11. b \in 0 .. n - 1 /\ i.curr \in Kept(table, n)
  BY <1>2, <1>8, FollowsKept
<1>12. Without(calc, table, n, b, j, u)
  BY <1>2, <1>10, <1>11 DEF Without
<1>13. Removes(table, n, i, b, j, u)
  BY <1>4, <1>5, <1>6, <1>7, <1>10 DEF Removes
<1>14. PICK f : f = hashIt'
  OBVIOUS
<1>15. Dropped(i, f)
  BY <1>3, <1>14 DEF Dropped, H!IteratorRemove
<1>16. IterSound(u, n, f)
  BY <1>4, <1>12, <1>13, <1>15, DroppedIsSound
<1>17. Filed(calc, u, n) /\ Kept(u, n) = Kept(table, n) \ {i.curr}
  <2>1. Filed(calc, u, n)
    BY <1>12, WithoutIs
  <2>2. Kept(u, n) = Kept(table, n) \ {table[b][j]}
    BY <1>12, WithoutIs
  <2> QED
    BY <1>10, <2>1, <2>2
<1>18. Counted(calc, u, n, entryCount - 1)
  BY <1>2, <1>11, <1>17, CountedLess
<1>19. H!Size' = n
  BY <1>1, <1>4 DEF H!Size
<1>20. TableInv'
  BY <1>4, <1>9, <1>14, <1>16, <1>18, <1>19 DEF TableInv
<1>21. H!Abstract!Next
  <2>1. AllOf(table) = Kept(table, n) /\ AllOf(u) = Kept(u, n)
    BY <1>2, <1>17, KeptIs
  <2>2. i.curr \in HashKeys
    BY <1>4, <1>6 DEF Iterators
  <2> QED
    BY <1>4, <1>9, <1>11, <1>17, <2>1, <2>2, DeleteMeans
<1> QED
  BY <1>20, <1>21 DEF GoodTableStep

-----------------------------------------------------------------------------
(* The table as a whole                                                    *)

\* A step of the list leaves the table sound.
LEMMA TableUnchanged == ASSUME TableInv, UNCHANGED H!vars PROVE TableInv'
<1>1. /\ calc' = calc /\ primeIndex' = primeIndex /\ table' = table /\ entryCount' = entryCount
      /\ hashIt' = hashIt /\ fault' = fault
  BY DEF H!vars
<1>2. H!Size' = H!Size
  BY <1>1 DEF H!Size
<1>3. H!NoIterator' = H!NoIterator
  BY DEF H!NoIterator
<1> QED
  BY <1>1, <1>2, <1>3 DEF TableInv

\* Every step of the table.
LEMMA TableStep == ASSUME TableInv, H!Next PROVE GoodTableStep
<1>1. ~fault
  BY DEF H!Next
<1>2. CASE \E k \in HashKeys, outcome \in {"moved", "reallocated", "full"}, given \in BOOLEAN :
             H!Insert(k, outcome, given)
  BY <1>1, <1>2, InsertIsGood
<1>3. CASE \E k \in HashKeys : H!RemoveKey(k)
  BY <1>1, <1>3, RemoveIsGood
<1>4. CASE H!Clear
  BY <1>1, <1>4, ClearIsGood
<1>5. CASE \E style \in {"one", "all"} : H!IteratorFirst(style)
  BY <1>1, <1>5, FirstIsGood
<1>6. CASE H!MayGoOn /\ H!IteratorNext
  BY <1>1, <1>6, NextIsGood
<1>7. CASE H!MayRemove /\ H!IteratorRemove
  BY <1>1, <1>7, DropIsGood
<1>8. CASE H!IteratorFree
  BY <1>1, <1>8, FreeIsGood
<1> QED
  BY <1>2, <1>3, <1>4, <1>5, <1>6, <1>7, <1>8 DEF H!Next

\* The invariant says what the runs check.
LEMMA TableInvIsEnough == ASSUME TableInv PROVE TableSound
<1>1. PICK n : n = H!Size
  OBVIOUS
<1>2. ASSUME ~fault
      PROVE  /\ \A b \in DOMAIN table : /\ H!IsInjective(table[b])
                                        /\ \A k \in H!ToSet(table[b]) : H!IndexFor(H!Size, k) = b
             /\ entryCount = H!Cardinality(H!Entries)
  <2>1. Counted(calc, table, n, entryCount) /\ Filed(calc, table, n)
    BY <1>1, <1>2 DEF TableInv, Counted
  <2>2. DOMAIN table = 0 .. n - 1
    BY <2>1 DEF Filed
  <2>3. ASSUME NEW b \in 0 .. n - 1
        PROVE  /\ H!IsInjective(table[b])
               /\ \A k \in H!ToSet(table[b]) : H!IndexFor(H!Size, k) = b
    <3>1. table[b] \in Seq(HashKeys)
      BY <2>1, ChainBelongs
    <3>2. /\ \A i, j \in 1 .. Len(table[b]) : table[b][i] = table[b][j] => i = j
          /\ \A i \in 1 .. Len(table[b]) : calc[table[b][i]] % n = b
      BY <2>1, ChainBelongs
    <3>3. H!IsInjective(table[b])
      BY <3>1, <3>2 DEF H!IsInjective
    <3>4. ASSUME NEW k \in H!ToSet(table[b]) PROVE H!IndexFor(H!Size, k) = b
      <4>1. k \in Inside(table[b])
        BY <3>1, InsideIs
      <4>2. calc[k] % n = b
        BY <3>2, <4>1 DEF Inside
      <4> QED
        BY <1>1, <4>2 DEF H!IndexFor
    <3> QED
      BY <3>3, <3>4
  <2>4. entryCount = H!Cardinality(H!Entries)
    <3>1. H!Entries = Kept(table, n)
      BY <2>1, EntriesMean, KeptIs
    <3>2. entryCount = Cardinality(Kept(table, n))
      BY <2>1 DEF Counted
    <3> QED
      BY <3>1, <3>2, SameCardinality
  <2> QED
    BY <2>2, <2>3, <2>4
<1>3. H!SoundTable
  BY <1>2 DEF H!SoundTable
<1>4. ASSUME hashIt.on
      PROVE  /\ H!IsInjective(hashIt.seen)
             /\ H!ToSet(hashIt.seen) \subseteq hashIt.start
             /\ hashIt.next = NoKey => H!ToSet(hashIt.seen) = hashIt.start
  <2>1. IterSound(table, n, hashIt) /\ ~fault
    BY <1>1, <1>4, On DEF TableInv
  <2>2. /\ hashIt \in Iterators /\ NextFits(table, n, hashIt)
        /\ GivesEach(hashIt.seen, Rest(table, n, hashIt), hashIt.start)
    BY <2>1 DEF IterSound
  <2>3. hashIt.seen \in Seq(HashKeys)
    BY <2>2 DEF Iterators
  <2>4. H!ToSet(hashIt.seen) = Inside(hashIt.seen)
    BY <2>3, InsideIs
  <2>5. H!IsInjective(hashIt.seen)
    <3>1. \A j, l \in 1 .. Len(hashIt.seen) : hashIt.seen[j] = hashIt.seen[l] => j = l
      BY <2>2 DEF GivesEach
    <3> QED
      BY <2>3, <3>1 DEF H!IsInjective
  <2>6. Inside(hashIt.seen) \cup Rest(table, n, hashIt) = hashIt.start
    BY <2>2 DEF GivesEach
  <2>7. ASSUME hashIt.next = NoKey PROVE Rest(table, n, hashIt) = {}
    <3>1. hashIt.index = n /\ n \in Nat
      BY <1>1, <2>1, <2>2, <2>7 DEF NextFits, TableInv, Counted, Filed
    <3>2. Blank(table, n, n)
      BY <3>1 DEF Blank
    <3>3. Later(table, n, hashIt) = {}
      <4>1. From(table, n, n) = {}
        BY <3>1, <3>2, NothingFrom
      <4> QED
        BY <3>1, <4>1, LaterIs
    <3> QED
      BY <2>7, <3>3 DEF Rest
  <2> QED
    BY <2>4, <2>5, <2>6, <2>7
<1>5. H!IteratorVisitsAll
  BY <1>4 DEF H!IteratorVisitsAll
<1> QED
  BY <1>3, <1>5 DEF TableSound

\* A step of the client is one of the table, or none.
LEMMA OneStepIsTableStep == [OneNext]_allVars => [H!Next]_H!vars
BY DEF OneNext, allVars, tableVars, H!vars

\* cfl_hash.c, for any keys, hash function and table sizes, and whatever memory
\* is not given: every entry is in the chain of its bucket, once, and counted,
\* and an iterator gives each entry there was once, also while it removes.
THEOREM TableStaysSound == OneSpec => []TableSound
<1>1. OneInit => TableInv
  BY TableInit DEF OneInit
<1>2. TableInv /\ [OneNext]_allVars => TableInv'
  BY TableStep, TableUnchanged, OneStepIsTableStep DEF GoodTableStep
<1>3. TableInv => TableSound
  BY TableInvIsEnough
<1> QED
  BY <1>1, <1>2, <1>3, PTL DEF OneSpec

\* The table is a set of keys: growing it loses no entry and gains none, and so
\* does an insertion that fails.
THEOREM TableIsASetOfKeys == OneSpec => TableIsKeySet
<1>1. OneInit => TableInv
  BY TableInit DEF OneInit
<1>2. TableInv /\ [OneNext]_allVars => TableInv'
  BY TableStep, TableUnchanged, OneStepIsTableStep DEF GoodTableStep
<1>3. TableInv /\ [OneNext]_allVars => [~fault' => H!Abstract!Next]_H!vars
  BY TableStep, OneStepIsTableStep DEF GoodTableStep
<1> QED
  BY <1>1, <1>2, <1>3, PTL DEF OneSpec, TableIsKeySet, H!ImplementsKeySet
=============================================================================
