------------------------------ MODULE LogProofs ------------------------------
(***************************************************************************)
(* The tree of loggers, for any threads, paths and loggers: writers count  *)
(* their nodes exactly, and what is set at a path holds below it.          *)
(*                                                                         *)
(* First paths and their prefixes, then each function on the tree, as a    *)
(* function on the four variables together: it leaves a sound tree, counts *)
(* its writers and changes what holds at the paths as Settings says.  Last *)
(* the threads, of which only the holder of the spin lock runs one of      *)
(* these functions.                                                        *)
(***************************************************************************)
EXTENDS Log, SequenceTheorems, FiniteSetTheorems, WellFoundedInduction, TLAPS

-----------------------------------------------------------------------------
(* Prefixes                                                                *)

LEMMA PrefixIs ==
  ASSUME NEW S, NEW p \in Seq(S), NEW q \in Seq(S)
  PROVE  IsPrefix(q, p) <=> Len(q) <= Len(p) /\ \A i \in 1 .. Len(q) : q[i] = p[i]
<1>1. Len(q) \in Nat /\ Len(p) \in Nat /\ q = SubSeq(q, 1, Len(q))
  BY SubSeqFull
<1>2. ASSUME Len(q) <= Len(p)
      PROVE  /\ SubSeq(p, 1, Len(q)) \in Seq(S)
             /\ Len(SubSeq(p, 1, Len(q))) = Len(q)
             /\ \A i \in 1 .. Len(q) : SubSeq(p, 1, Len(q))[i] = p[i]
  <2>1. \A i \in 1 .. Len(q) : p[i] \in S
    BY <1>1, <1>2
  <2> DEFINE t == SubSeq(p, 1, Len(q))
  <2>2. /\ t \in Seq(S) /\ Len(t) = IF 1 <= Len(q) THEN Len(q) - 1 + 1 ELSE 0
        /\ \A i \in 1 .. Len(q) - 1 + 1 : t[i] = p[1 + i - 1]
    BY <1>1, <2>1, SubSeqProperties
  <2> HIDE DEF t
  <2>3. t \in Seq(S) /\ Len(t) = Len(q) /\ \A i \in 1 .. Len(q) : t[i] = p[i]
    BY <1>1, <2>2
  <2> QED
    BY <2>3 DEF t
<1>3. ASSUME Len(q) <= Len(p), \A i \in 1 .. Len(q) : q[i] = p[i]
      PROVE  q = SubSeq(p, 1, Len(q))
  BY <1>1, <1>2, <1>3, SeqEqual
<1> QED
  BY <1>1, <1>2, <1>3 DEF IsPrefix

\* The prefixes of a path are in a line.
LEMMA PrefixesInLine ==
  ASSUME NEW S, NEW p \in Seq(S), NEW q \in Seq(S), NEW r \in Seq(S)
  PROVE  /\ IsPrefix(p, p)
         /\ IsPrefix(<<>>, p) /\ (IsPrefix(p, <<>>) => p = <<>>)
         /\ IsPrefix(q, p) => Len(q) <= Len(p)
         /\ IsPrefix(r, q) /\ IsPrefix(q, p) => IsPrefix(r, p)
         /\ IsPrefix(r, p) /\ IsPrefix(q, p) /\ Len(r) <= Len(q) => IsPrefix(r, q)
         /\ IsPrefix(q, p) /\ Len(q) = Len(p) => q = p
<1>1. Len(q) \in Nat /\ Len(p) \in Nat /\ Len(r) \in Nat /\ <<>> \in Seq(S) /\ Len(<<>>) = 0
  OBVIOUS
<1>2. \A x, y \in Seq(S) : IsPrefix(y, x) <=> Len(y) <= Len(x) /\ \A i \in 1 .. Len(y) : y[i] = x[i]
  BY PrefixIs
<1>3. IsPrefix(p, p) /\ IsPrefix(<<>>, p) /\ (IsPrefix(q, p) => Len(q) <= Len(p))
  <2>1. IsPrefix(p, p)
    BY <1>1, <1>2
  <2>2. Len(<<>>) <= Len(p) /\ \A i \in 1 .. Len(<<>>) : <<>>[i] = p[i]
    BY <1>1
  <2>3. IsPrefix(<<>>, p)
    BY <1>1, <1>2, <2>2
  <2>4. IsPrefix(q, p) => Len(q) <= Len(p)
    BY <1>1, <1>2
  <2> QED
    BY <2>1, <2>3, <2>4
<1>4. IsPrefix(p, <<>>) => p = <<>>
  <2>1. IsPrefix(p, <<>>) => Len(p) <= Len(<<>>)
    BY <1>1, <1>2
  <2> QED
    BY <1>1, <2>1
<1>5. ASSUME IsPrefix(r, q), IsPrefix(q, p) PROVE IsPrefix(r, p)
  <2>1. Len(r) <= Len(q) /\ Len(q) <= Len(p) /\ \A i \in 1 .. Len(r) : r[i] = q[i]
    BY <1>2, <1>5
  <2>2. \A i \in 1 .. Len(q) : q[i] = p[i]
    BY <1>2, <1>5
  <2>3. Len(r) <= Len(p) /\ \A i \in 1 .. Len(r) : r[i] = p[i]
    BY <1>1, <2>1, <2>2
  <2> QED
    BY <1>2, <2>3
<1>6. IsPrefix(r, p) /\ IsPrefix(q, p) /\ Len(r) <= Len(q) => IsPrefix(r, q)
  BY <1>1, <1>2
<1>7. IsPrefix(q, p) /\ Len(q) = Len(p) => q = p
  BY <1>1, <1>2, SeqEqual
<1> QED
  BY <1>3, <1>4, <1>5, <1>6, <1>7

LEMMA PrefixesAre ==
  ASSUME NEW S, NEW p \in Seq(S)
  PROVE  /\ Prefixes(p) = {q \in Seq(S) : IsPrefix(q, p)}
         /\ IsFiniteSet(Prefixes(p))
<1>1. Len(p) \in Nat
  OBVIOUS
<1>2. ASSUME NEW n \in 0 .. Len(p)
      PROVE  /\ SubSeq(p, 1, n) \in Seq(S) /\ Len(SubSeq(p, 1, n)) = n
             /\ \A i \in 1 .. n : SubSeq(p, 1, n)[i] = p[i]
  <2> DEFINE t == SubSeq(p, 1, n)
  <2>1. \A i \in 1 .. n : p[i] \in S
    BY <1>1
  <2>2. /\ t \in Seq(S) /\ Len(t) = IF 1 <= n THEN n - 1 + 1 ELSE 0
        /\ \A i \in 1 .. n - 1 + 1 : t[i] = p[1 + i - 1]
    BY <1>1, <2>1, SubSeqProperties
  <2> HIDE DEF t
  <2>3. t \in Seq(S) /\ Len(t) = n /\ \A i \in 1 .. n : t[i] = p[i]
    BY <1>1, <2>2
  <2> QED
    BY <2>3 DEF t
<1>3. ASSUME NEW n \in 0 .. Len(p) PROVE IsPrefix(SubSeq(p, 1, n), p)
  <2>1. \A q \in Seq(S) : IsPrefix(q, p) <=> Len(q) <= Len(p) /\ \A i \in 1 .. Len(q) : q[i] = p[i]
    BY PrefixIs
  <2> DEFINE t == SubSeq(p, 1, n)
  <2>2. t \in Seq(S) /\ Len(t) = n /\ \A i \in 1 .. n : t[i] = p[i]
    BY <1>2
  <2> HIDE DEF t
  <2>3. Len(t) <= Len(p) /\ \A i \in 1 .. Len(t) : t[i] = p[i]
    BY <1>1, <2>2
  <2>4. IsPrefix(t, p)
    BY <2>1, <2>2, <2>3
  <2> QED
    BY <2>4 DEF t
<1>4. ASSUME NEW q \in Seq(S), IsPrefix(q, p) PROVE Len(q) \in 0 .. Len(p) /\ q = SubSeq(p, 1, Len(q))
  <2>1. Len(q) \in Nat /\ q = SubSeq(q, 1, Len(q))
    BY SubSeqFull
  <2> QED
    BY <1>1, <1>4, <2>1 DEF IsPrefix
<1>5. Prefixes(p) = {q \in Seq(S) : IsPrefix(q, p)}
  BY <1>2, <1>3, <1>4 DEF Prefixes
<1> DEFINE f == [n \in 0 .. Len(p) |-> SubSeq(p, 1, n)]
<1>6. f \in Surjection(0 .. Len(p), Prefixes(p))
  BY DEF Surjection, Prefixes
<1>7. IsFiniteSet(0 .. Len(p))
  BY <1>1, FS_Interval
<1>8. IsFiniteSet(Prefixes(p))
  BY <1>6, <1>7, FS_Surjection
<1> QED
  BY <1>5, <1>8

LEMMA PathsAreSequences ==
  /\ Paths \subseteq Seq(Names) /\ <<>> \in Paths
  /\ \A p \in Paths : /\ \A q \in Seq(Names) : IsPrefix(q, p) => q \in Paths
                      /\ \A q \in Prefixes(p) : q \in Paths /\ IsPrefix(q, p)
<1>1. Paths \subseteq Seq(Names) /\ Root \in Loggers /\ GroupOf[Root] = <<>>
  BY PathsAssumption
<1>2. <<>> \in Paths
  BY <1>1, PathsAssumption
<1>3. ASSUME NEW p \in Paths
      PROVE  /\ \A q \in Seq(Names) : IsPrefix(q, p) => q \in Paths
             /\ \A q \in Prefixes(p) : q \in Paths /\ IsPrefix(q, p)
  <2>1. Prefixes(p) = {q \in Seq(Names) : IsPrefix(q, p)}
    BY <1>1, PrefixesAre
  <2>2. Prefixes(p) \subseteq Paths
    BY PathsAssumption
  <2> QED
    BY <2>1, <2>2
<1> QED
  BY <1>1, <1>2, <1>3

\* In a tree with its root, every path has one node that is nearest to it.
LEMMA NearestIs ==
  ASSUME NEW t, DOMAIN t \subseteq Seq(Names), <<>> \in DOMAIN t, NEW p \in Seq(Names)
  PROVE  /\ Nearest(t, p) \in DOMAIN t /\ IsPrefix(Nearest(t, p), p)
         /\ \A r \in DOMAIN t : IsPrefix(r, p) => Len(r) <= Len(Nearest(t, p))
         /\ \A q \in DOMAIN t :
              IsPrefix(q, p) /\ (\A r \in DOMAIN t : IsPrefix(r, p) => Len(r) <= Len(q))
                => q = Nearest(t, p)
<1> DEFINE Near(q) == IsPrefix(q, p) /\ \A r \in DOMAIN t : IsPrefix(r, p) => Len(r) <= Len(q)
           A == {n \in Nat : \E r \in DOMAIN t : IsPrefix(r, p) /\ n = Len(p) - Len(r)}
<1>1. /\ \A q \in Seq(Names) : Len(q) \in Nat
      /\ \A q \in DOMAIN t : IsPrefix(q, p) => Len(q) <= Len(p)
      /\ IsPrefix(<<>>, p)
  BY PrefixesInLine
<1>2. A \subseteq Nat /\ Len(p) - Len(<<>>) \in A
  BY <1>1
<1>3. PICK n \in A : \A m \in A : n <= m
  <2>1. IsWellFoundedOn(OpToRel(<, Nat), Nat)
    BY NatLessThanWellFounded
  <2>2. PICK n \in A : \A m \in A : ~(<<m, n>> \in OpToRel(<, Nat))
    BY <1>2, <2>1, WFMin
  <2>3. \A m \in A : ~(m < n)
    BY <2>2 DEF OpToRel
  <2> QED
    BY <1>2, <2>3
<1>4. PICK q \in DOMAIN t : IsPrefix(q, p) /\ n = Len(p) - Len(q)
  BY <1>3
<1>5. ASSUME NEW r \in DOMAIN t, IsPrefix(r, p) PROVE Len(r) <= Len(q)
  <2>1. Len(r) \in Nat /\ Len(p) \in Nat /\ Len(q) \in Nat /\ Len(r) <= Len(p)
    BY <1>1, <1>5
  <2>2. Len(p) - Len(r) \in Nat
    BY <2>1
  <2>3. Len(p) - Len(r) \in A
    BY <1>5, <2>2
  <2>4. Len(p) - Len(q) <= Len(p) - Len(r)
    BY <1>3, <1>4, <2>3
  <2> QED
    BY <2>1, <2>4
<1>6. \E x \in DOMAIN t : Near(x)
  BY <1>4, <1>5
<1>7. Nearest(t, p) \in DOMAIN t /\ Near(Nearest(t, p))
  BY <1>6 DEF Nearest
<1>8. ASSUME NEW x \in DOMAIN t, Near(x) PROVE x = Nearest(t, p)
  <2> DEFINE y == Nearest(t, p)
  <2>1. y \in DOMAIN t /\ IsPrefix(y, p) /\ Len(x) <= Len(y) /\ Len(y) <= Len(x) /\ IsPrefix(x, p)
    BY <1>7, <1>8
  <2> HIDE DEF y
  <2>2. Len(x) = Len(y) /\ x \in Seq(Names) /\ y \in Seq(Names)
    BY <1>1, <2>1
  <2>3. IsPrefix(x, y)
    BY <1>1, <2>1, <2>2, PrefixesInLine
  <2>4. x = y
    BY <2>2, <2>3, PrefixesInLine
  <2> QED
    BY <2>4 DEF y
<1> QED
  BY <1>7, <1>8

-----------------------------------------------------------------------------
(* The tree                                                                *)

\* The four variables together, and a node, are the records they seem.
IsState(s) == s = [tree |-> s.tree, level |-> s.level, node |-> s.node, refs |-> s.refs]
IsNode(n) == n = [logger |-> n.logger, writer |-> n.writer, format |-> n.format]

\* The path of the node that a logger or a placeholder is for.
Home(o) == IF o \in Loggers THEN GroupOf[o] \o IdOf[o] ELSE o

\* Nodes come with all nodes above them, and a logger is attached only to the
\* node of its path.
Sound(s) ==
  /\ IsState(s)
  /\ s.tree = [q \in DOMAIN s.tree |-> s.tree[q]]
  /\ s.level = [o \in Objects |-> s.level[o]] /\ s.node = [o \in Objects |-> s.node[o]]
  /\ s.refs \in Seq(Int)
  /\ DOMAIN s.tree \subseteq Paths /\ IsFiniteSet(DOMAIN s.tree)
  /\ \A q \in DOMAIN s.tree :
       /\ Prefixes(q) \subseteq DOMAIN s.tree
       /\ IsNode(s.tree[q])
       /\ s.tree[q].logger \in Objects /\ Home(s.tree[q].logger) = q
       /\ s.tree[q].writer \in 1 .. Len(s.refs)
  /\ \A o \in Objects : s.node[o] # NoNode => s.node[o] = Home(o)

Rooted(s) ==
  Sound(s) /\ <<>> \in DOMAIN s.tree /\ \A o \in Objects : s.node[o] # NoNode => Home(o) \in DOMAIN s.tree

Unused(s) ==
  /\ Sound(s) /\ DOMAIN s.tree = {} /\ s.level[Root] = Error /\ s.refs = <<>>
  /\ \A o \in Objects \ {Root} : s.node[o] = NoNode

Users(s, w) == {q \in DOMAIN s.tree : s.tree[q].writer = w}
Counted(s) ==
  \A w \in DOMAIN s.refs : s.refs[w] = Cardinality(Users(s, w)) + (IF w = 1 THEN 1 ELSE 0)

\* What holds at the paths.
Fields(s, n) == [level |-> s.level[n.logger], writer |-> n.writer, format |-> n.format]
At(s) == [p \in Paths |-> Fields(s, s.tree[Nearest(s.tree, p)])]

\* Fields of the record that are changed leave a record.
LEMMA StateExcept ==
  ASSUME NEW s, IsState(s), NEW x, NEW y
  PROVE  /\ [s EXCEPT !.tree = x, !.refs = y]
              = [tree |-> x, level |-> s.level, node |-> s.node, refs |-> y]
         /\ [s EXCEPT !.tree = x] = [tree |-> x, level |-> s.level, node |-> s.node, refs |-> s.refs]
         /\ [s EXCEPT !.level = x] = [tree |-> s.tree, level |-> x, node |-> s.node, refs |-> s.refs]
<1>1. [s EXCEPT !.level = x] = [tree |-> s.tree, level |-> x, node |-> s.node, refs |-> s.refs]
  BY DEF IsState
<1>2. [s EXCEPT !.tree = x] = [tree |-> x, level |-> s.level, node |-> s.node, refs |-> s.refs]
  BY DEF IsState
<1>3. [s EXCEPT !.tree = x, !.refs = y] = [[s EXCEPT !.tree = x] EXCEPT !.refs = y]
  OBVIOUS
<1>4. [[tree |-> x, level |-> s.level, node |-> s.node, refs |-> s.refs] EXCEPT !.refs = y]
        = [tree |-> x, level |-> s.level, node |-> s.node, refs |-> y]
  OBVIOUS
<1> QED
  BY <1>1, <1>2, <1>3, <1>4

\* A logger that is attached stays so, to this node or another.
Keeps(s, t) == \A o \in Objects : s.node[o] # NoNode => t.node[o] # NoNode

LEMMA HomesArePaths ==
  /\ \A o \in Objects : Home(o) \in Paths
  /\ Root \in Objects /\ Home(Root) = <<>>
  /\ \A q \in Paths \ {<<>>} : q \in Objects /\ Home(q) = q
<1>1. <<>> \o <<>> = <<>>
  OBVIOUS
<1> QED
  BY <1>1, PathsAssumption DEF Objects, Home

LEMMA NearestInTree ==
  ASSUME NEW s, Rooted(s), NEW p \in Paths
  PROVE  /\ Nearest(s.tree, p) \in DOMAIN s.tree /\ IsPrefix(Nearest(s.tree, p), p)
         /\ \A r \in DOMAIN s.tree : IsPrefix(r, p) => Len(r) <= Len(Nearest(s.tree, p))
         /\ \A q \in DOMAIN s.tree :
              IsPrefix(q, p) /\ (\A r \in DOMAIN s.tree : IsPrefix(r, p) => Len(r) <= Len(q))
                => q = Nearest(s.tree, p)
<1>1. DOMAIN s.tree \subseteq Seq(Names) /\ <<>> \in DOMAIN s.tree /\ p \in Seq(Names)
  BY PathsAreSequences DEF Rooted, Sound
<1> QED
  BY <1>1, NearestIs

\* A node is nearest to itself, and two loggers of nodes are two.
LEMMA NodesInTree ==
  ASSUME NEW s, Rooted(s), NEW p \in DOMAIN s.tree
  PROVE  /\ Nearest(s.tree, p) = p
         /\ \A q \in DOMAIN s.tree : s.tree[q].logger = s.tree[p].logger => q = p
<1>1. DOMAIN s.tree \subseteq Seq(Names) /\ p \in Paths
  BY PathsAreSequences DEF Rooted, Sound
<1>2. IsPrefix(p, p) /\ \A r \in DOMAIN s.tree : IsPrefix(r, p) => Len(r) <= Len(p)
  BY <1>1, PrefixesInLine
<1>3. Nearest(s.tree, p) = p
  BY <1>1, <1>2, NearestInTree
<1>4. \A q \in DOMAIN s.tree : s.tree[q].logger = s.tree[p].logger => q = p
  BY DEF Rooted, Sound
<1> QED
  BY <1>3, <1>4

LEMMA CountBoth ==
  ASSUME NEW A, NEW B, IsFiniteSet(A), IsFiniteSet(B), A \intersect B = {}
  PROVE  /\ IsFiniteSet(A \union B)
         /\ Cardinality(A) \in Nat /\ Cardinality(B) \in Nat
         /\ Cardinality(A \union B) = Cardinality(A) + Cardinality(B)
<1>1. Cardinality(A) \in Nat /\ Cardinality(B) \in Nat
  BY FS_CardinalityType
<1>2. IsFiniteSet(A \union B)
      /\ Cardinality(A \union B) = Cardinality(A) + Cardinality(B) - Cardinality(A \intersect B)
  BY FS_Union
<1>3. Cardinality(A \intersect B) = 0
  BY FS_EmptySet
<1> QED
  BY <1>1, <1>2, <1>3

LEMMA UsersAreFinite ==
  ASSUME NEW s, Sound(s), NEW w
  PROVE  IsFiniteSet(Users(s, w)) /\ Cardinality(Users(s, w)) \in Nat
<1>1. Users(s, w) \in SUBSET DOMAIN s.tree /\ IsFiniteSet(DOMAIN s.tree)
  BY DEF Users, Sound
<1>2. IsFiniteSet(Users(s, w))
  BY <1>1, FS_Subset
<1> QED
  BY <1>2, FS_CardinalityType

\* The first use makes the root; nothing holds that did not hold before.
LEMMA RootIsMade ==
  ASSUME Unused(Start)
  PROVE  /\ Rooted(WithRoot) /\ Counted(WithRoot) /\ WithRoot.node = node
         /\ At(WithRoot) = [p \in Paths |-> Initially]
<1> DEFINE s == WithRoot
           n == [logger |-> Root, writer |-> 1, format |-> DefaultFormat]
<1>1. DOMAIN tree = {} /\ level[Root] = Error
      /\ level = [o \in Objects |-> level[o]] /\ node = [o \in Objects |-> node[o]]
      /\ (\A o \in Objects \ {Root} : node[o] = NoNode)
      /\ \A o \in Objects : node[o] # NoNode => node[o] = Home(o)
  BY DEF Unused, Sound, Start
<1>2. s = [tree |-> [q \in {<<>>} |-> n], level |-> level, node |-> node, refs |-> <<2>>]
  BY <1>1 DEF WithRoot, Start
<1> HIDE DEF s
<1>3. /\ s.tree = [q \in {<<>>} |-> n] /\ DOMAIN s.tree = {<<>>} /\ s.tree[<<>>] = n
      /\ s.level = level /\ s.node = node /\ s.refs = <<2>> /\ IsState(s)
  BY <1>2 DEF IsState
<1>4. Prefixes(<<>>) = {<<>>}
  <2>1. <<>> \in Seq(Names) /\ Prefixes(<<>>) = {q \in Seq(Names) : IsPrefix(q, <<>>)}
    <3>1. <<>> \in Seq(Names)
      OBVIOUS
    <3> QED
      BY <3>1, PrefixesAre
  <2> QED
    BY <2>1, PrefixesInLine
<1>5. s.refs \in Seq(Int) /\ Len(s.refs) = 1 /\ DOMAIN s.refs = {1} /\ s.refs[1] = 2
  BY <1>3
<1>6. IsNode(n) /\ n.logger = Root /\ n.writer = 1 /\ n.format = DefaultFormat
  BY DEF IsNode
<1> HIDE DEF n
<1>7. IsFiniteSet(DOMAIN s.tree) /\ Cardinality({<<>>}) = 1
  BY <1>3, FS_Singleton
<1>8. Sound(s)
  <2>1. DOMAIN s.tree \subseteq Paths
    BY <1>3, PathsAreSequences
  <2>2. \A q \in DOMAIN s.tree :
         /\ Prefixes(q) \subseteq DOMAIN s.tree
         /\ IsNode(s.tree[q])
         /\ s.tree[q].logger \in Objects /\ Home(s.tree[q].logger) = q
         /\ s.tree[q].writer \in 1 .. Len(s.refs)
    BY <1>3, <1>4, <1>5, <1>6, HomesArePaths
  <2>3. s.tree = [q \in DOMAIN s.tree |-> s.tree[q]]
    BY <1>3
  <2> QED
    BY <1>1, <1>3, <1>5, <1>7, <2>1, <2>2, <2>3 DEF Sound
<1>9. Rooted(s)
  BY <1>1, <1>3, <1>8, HomesArePaths DEF Rooted
<1>10. Counted(s)
  <2>1. Users(s, 1) = {<<>>}
    BY <1>3, <1>6 DEF Users
  <2>2. ASSUME NEW w \in DOMAIN s.refs
        PROVE  s.refs[w] = Cardinality(Users(s, w)) + (IF w = 1 THEN 1 ELSE 0)
    <3>1. w = 1 /\ s.refs[w] = 2
      BY <1>5
    <3>2. Cardinality(Users(s, w)) = 1
      BY <1>7, <2>1, <3>1
    <3> QED
      BY <3>1, <3>2
  <2> QED
    BY <2>2 DEF Counted
<1>11. At(s) = [p \in Paths |-> Initially]
  <2>1. ASSUME NEW p \in Paths PROVE Fields(s, s.tree[Nearest(s.tree, p)]) = Initially
    <3>1. Nearest(s.tree, p) = <<>>
      BY <1>3, <1>9, NearestInTree
    <3> QED
      BY <1>1, <1>3, <1>6, <3>1 DEF Fields, Initially
  <2> QED
    BY <2>1 DEF At
<1> QED
  BY <1>3, <1>9, <1>10, <1>11 DEF s

\* Nodes that are added below their nearest one inherit what held there.
LEMMA NodesAdded ==
  ASSUME NEW s, Rooted(s), Counted(s), NEW parent \in DOMAIN s.tree,
         NEW logger, IsFiniteSet(DOMAIN logger), DOMAIN logger \subseteq Paths,
         \A q \in DOMAIN logger :
           /\ q \notin DOMAIN s.tree
           /\ logger[q] \in Objects /\ Home(logger[q]) = q
           /\ Prefixes(q) \subseteq DOMAIN s.tree \union DOMAIN logger
           /\ Nearest(s.tree, q) = parent
  PROVE  LET t == AddNodes(s, parent, logger)
         IN  /\ Rooted(t) /\ Counted(t) /\ At(t) = At(s) /\ Keeps(s, t)
             /\ DOMAIN t.tree = DOMAIN s.tree \union DOMAIN logger
<1> DEFINE above == s.tree[parent]
           w == above.writer
           Of(o) == {q \in DOMAIN logger : logger[q] = o}
           t == AddNodes(s, parent, logger)
<1>1. /\ t.tree = [q \in DOMAIN s.tree \union DOMAIN logger |->
                    IF q \in DOMAIN logger THEN [above EXCEPT !.logger = logger[q]] ELSE s.tree[q]]
      /\ t.level = [o \in Objects |-> IF Of(o) = {} THEN s.level[o] ELSE s.level[above.logger]]
      /\ t.node = [o \in Objects |-> IF Of(o) = {} THEN s.node[o] ELSE CHOOSE q \in Of(o) : TRUE]
      /\ t.refs = [s.refs EXCEPT ![w] = @ + Cardinality(DOMAIN logger)]
      /\ IsState(t)
  BY DEF AddNodes, Added, IsState
<1> HIDE DEF t
<1>2. /\ IsNode(above) /\ above.logger \in Objects /\ w \in 1 .. Len(s.refs)
      /\ Sound(s) /\ s.refs \in Seq(Int) /\ Len(s.refs) \in Nat
  BY DEF Rooted, Sound
<1>3. /\ DOMAIN t.tree = DOMAIN s.tree \union DOMAIN logger
      /\ t.tree = [q \in DOMAIN t.tree |-> t.tree[q]]
      /\ \A q \in DOMAIN s.tree : t.tree[q] = s.tree[q]
  BY <1>1
<1>4. ASSUME NEW q \in DOMAIN logger
      PROVE  t.tree[q] = [logger |-> logger[q], writer |-> above.writer, format |-> above.format]
  <2>1. t.tree[q] = [above EXCEPT !.logger = logger[q]]
    BY <1>1
  <2> HIDE DEF above
  <2> QED
    BY <1>2, <2>1 DEF IsNode
<1>5. ASSUME NEW q \in DOMAIN logger
      PROVE  t.level[logger[q]] = s.level[above.logger] /\ t.node[logger[q]] = q
  <2>1. Of(logger[q]) = {q}
    OBVIOUS
  <2> QED
    BY <1>1, <2>1
<1>6. ASSUME NEW o \in Objects, Home(o) \notin DOMAIN logger
      PROVE  t.level[o] = s.level[o] /\ t.node[o] = s.node[o]
  <2>1. Of(o) = {}
    BY <1>6
  <2> QED
    BY <1>1, <2>1
<1>7. ASSUME NEW o \in Objects
      PROVE  t.node[o] = Home(o) \/ t.node[o] = s.node[o]
  <2>1. CASE Of(o) = {}
    BY <1>1, <2>1
  <2>2. CASE Of(o) # {}
    <3>1. PICK q \in DOMAIN logger : logger[q] = o
      BY <2>2
    <3> QED
      BY <1>5, <3>1
  <2> QED
    BY <2>1, <2>2
<1>8. t.refs \in Seq(Int) /\ Len(t.refs) = Len(s.refs) /\ DOMAIN t.refs = DOMAIN s.refs
      /\ DOMAIN s.refs = 1 .. Len(s.refs) /\ Cardinality(DOMAIN logger) \in Nat
  <2>1. Cardinality(DOMAIN logger) \in Nat
    BY FS_CardinalityType
  <2> HIDE DEF w
  <2> QED
    BY <1>1, <1>2, <2>1
<1>9. Sound(t)
  <2>1. DOMAIN t.tree \subseteq Paths /\ IsFiniteSet(DOMAIN t.tree)
    <3>1. DOMAIN s.tree \subseteq Paths /\ IsFiniteSet(DOMAIN s.tree)
      BY <1>2 DEF Sound
    <3>2. IsFiniteSet(DOMAIN s.tree \union DOMAIN logger)
      BY <3>1, FS_Union
    <3> QED
      BY <1>3, <3>1, <3>2
  <2>2. ASSUME NEW q \in DOMAIN t.tree
        PROVE  /\ Prefixes(q) \subseteq DOMAIN t.tree
               /\ IsNode(t.tree[q])
               /\ t.tree[q].logger \in Objects /\ Home(t.tree[q].logger) = q
               /\ t.tree[q].writer \in 1 .. Len(t.refs)
    <3>1. CASE q \in DOMAIN s.tree
      BY <1>2, <1>3, <1>8, <3>1 DEF Sound
    <3>2. CASE q \in DOMAIN logger
      <4>1. t.tree[q] = [logger |-> logger[q], writer |-> w, format |-> above.format]
        BY <1>4, <3>2
      <4> HIDE DEF w, above
      <4> QED
        BY <1>2, <1>3, <1>8, <3>2, <4>1 DEF IsNode
    <3> QED
      BY <1>3, <3>1, <3>2
  <2>3. \A o \in Objects : t.node[o] # NoNode => t.node[o] = Home(o)
    BY <1>2, <1>7 DEF Sound
  <2>4. t.level = [o \in Objects |-> t.level[o]] /\ t.node = [o \in Objects |-> t.node[o]]
    BY <1>1
  <2> QED
    BY <1>1, <1>3, <1>8, <2>1, <2>2, <2>3, <2>4 DEF Sound
<1>10. Rooted(t)
  <2>1. ASSUME NEW o \in Objects, t.node[o] # NoNode PROVE Home(o) \in DOMAIN t.tree
    <3>1. CASE Home(o) \in DOMAIN logger
      BY <1>3, <3>1
    <3>2. CASE Home(o) \notin DOMAIN logger
      BY <1>3, <1>6, <2>1, <3>2 DEF Rooted
    <3> QED
      BY <3>1, <3>2
  <2> QED
    BY <1>3, <1>9, <2>1 DEF Rooted
<1>11. Counted(t)
  <2>0. /\ \A q \in DOMAIN s.tree : t.tree[q].writer = s.tree[q].writer
        /\ \A q \in DOMAIN logger : t.tree[q].writer = w
    <3>1. ASSUME NEW q \in DOMAIN logger PROVE t.tree[q].writer = w
      <4>1. t.tree[q] = [logger |-> logger[q], writer |-> w, format |-> above.format]
        BY <1>4
      <4> HIDE DEF w, above
      <4> QED
        BY <4>1
    <3> QED
      BY <1>3, <3>1
  <2>1. ASSUME NEW v \in DOMAIN t.refs
        PROVE  t.refs[v] = Cardinality(Users(t, v)) + (IF v = 1 THEN 1 ELSE 0)
    <3>1. /\ s.refs[v] = Cardinality(Users(s, v)) + (IF v = 1 THEN 1 ELSE 0)
          /\ IsFiniteSet(Users(s, v)) /\ Cardinality(Users(s, v)) \in Nat
      BY <1>2, <1>8, UsersAreFinite DEF Counted
    <3>2. CASE v = w
      <4>1. Users(t, v) = Users(s, v) \union DOMAIN logger
        BY <1>3, <2>0, <3>2 DEF Users
      <4>2. Users(s, v) \intersect DOMAIN logger = {}
        BY DEF Users
      <4>3. Cardinality(Users(t, v)) = Cardinality(Users(s, v)) + Cardinality(DOMAIN logger)
        BY <3>1, <4>1, <4>2, CountBoth
      <4>4. t.refs[v] = s.refs[v] + Cardinality(DOMAIN logger)
        BY <1>1, <1>2, <1>8, <3>2
      <4> QED
        BY <1>8, <3>1, <4>3, <4>4
    <3>3. CASE v # w
      <4>1. Users(t, v) = Users(s, v)
        BY <1>3, <2>0, <3>3 DEF Users
      <4>2. t.refs[v] = s.refs[v]
        BY <1>1, <1>2, <1>8, <3>3
      <4> QED
        BY <3>1, <4>1, <4>2
    <3> QED
      BY <3>2, <3>3
  <2> QED
    BY <2>1 DEF Counted
<1>12. ASSUME NEW p \in Paths
       PROVE  Fields(t, t.tree[Nearest(t.tree, p)]) = Fields(s, s.tree[Nearest(s.tree, p)])
  <2> DEFINE m == Nearest(t.tree, p)
             k == Nearest(s.tree, p)
  <2>1. /\ m \in DOMAIN t.tree /\ IsPrefix(m, p)
        /\ \A r \in DOMAIN t.tree : IsPrefix(r, p) => Len(r) <= Len(m)
    BY <1>10, NearestInTree
  <2>2. /\ k \in DOMAIN s.tree /\ IsPrefix(k, p)
        /\ \A r \in DOMAIN s.tree : IsPrefix(r, p) => Len(r) <= Len(k)
        /\ \A q \in DOMAIN s.tree :
              IsPrefix(q, p) /\ (\A r \in DOMAIN s.tree : IsPrefix(r, p) => Len(r) <= Len(q))
                => q = k
    BY NearestInTree
  <2> HIDE DEF m, k
  <2>3. CASE m \in DOMAIN s.tree
    <3>1. m = k
      BY <1>3, <2>1, <2>2, <2>3
    <3>2. t.tree[m] = s.tree[m] /\ s.tree[m].logger \in Objects /\ Home(s.tree[m].logger) = m
      BY <1>2, <1>3, <2>3 DEF Sound
    <3>3. t.level[s.tree[m].logger] = s.level[s.tree[m].logger]
      BY <1>6, <2>3, <3>2
    <3>4. Fields(t, t.tree[m]) = Fields(s, s.tree[k])
      BY <3>1, <3>2, <3>3 DEF Fields
    <3> QED
      BY <3>4 DEF m, k
  <2>4. CASE m \in DOMAIN logger
    <3>1. /\ Paths \subseteq Seq(Names) /\ DOMAIN s.tree \subseteq Paths /\ m \in Paths
          /\ k \in DOMAIN t.tree
      BY <1>2, <1>3, <2>2, <2>4, PathsAreSequences DEF Sound
    <3>2. m \in Seq(Names) /\ k \in Seq(Names) /\ p \in Seq(Names)
      BY <2>2, <3>1
    <3>3. Len(k) <= Len(m)
      BY <2>1, <2>2, <3>1
    <3>4. IsPrefix(k, m)
      BY <2>1, <2>2, <3>2, <3>3, PrefixesInLine
    <3>5. ASSUME NEW r \in DOMAIN s.tree, IsPrefix(r, m) PROVE Len(r) <= Len(k)
      <4>1. r \in Seq(Names)
        BY <3>1
      <4>2. IsPrefix(r, p)
        BY <2>1, <3>2, <3>5, <4>1, PrefixesInLine
      <4> QED
        BY <2>2, <4>2
    <3>6. k = Nearest(s.tree, m)
      BY <2>2, <3>1, <3>4, <3>5, NearestInTree
    <3>7. k = parent
      BY <2>4, <3>6
    <3>8. /\ t.tree[m] = [logger |-> logger[m], writer |-> above.writer, format |-> above.format]
          /\ t.level[logger[m]] = s.level[above.logger]
      BY <1>4, <1>5, <2>4
    <3>9. Fields(t, t.tree[m]) = Fields(s, above)
      BY <3>8 DEF Fields
    <3> QED
      BY <3>7, <3>9 DEF m, k
  <2> QED
    BY <1>3, <2>1, <2>3, <2>4
<1>13. At(t) = At(s)
  BY <1>12 DEF At
<1>14. Keeps(s, t)
  <2>1. \A o \in Objects : Home(o) # NoNode
    BY HomesArePaths, PathsAssumption
  <2> QED
    BY <1>7, <2>1 DEF Keeps
<1> QED
  BY <1>3, <1>10, <1>11, <1>13, <1>14 DEF t

LEMMA PathIsMade ==
  ASSUME NEW s, Rooted(s), Counted(s), NEW p \in Paths
  PROVE  LET t == WithPath(s, p)
         IN  Rooted(t) /\ Counted(t) /\ At(t) = At(s) /\ Keeps(s, t) /\ p \in DOMAIN t.tree
<1> DEFINE parent == Nearest(s.tree, p)
           logger == [q \in Prefixes(p) \ DOMAIN s.tree |-> q]
<1>1. /\ Paths \subseteq Seq(Names) /\ p \in Seq(Names) /\ Sound(s) /\ DOMAIN s.tree \subseteq Paths
      /\ \A q \in Prefixes(p) : q \in Paths /\ IsPrefix(q, p)
  BY PathsAreSequences DEF Rooted, Sound
<1>2. /\ parent \in DOMAIN s.tree /\ IsPrefix(parent, p)
      /\ \A r \in DOMAIN s.tree : IsPrefix(r, p) => Len(r) <= Len(parent)
  BY NearestInTree
<1> HIDE DEF parent
<1>3. IsFiniteSet(Prefixes(p)) /\ Prefixes(p) = {q \in Seq(Names) : IsPrefix(q, p)}
  BY <1>1, PrefixesAre
<1>4. IsFiniteSet(DOMAIN logger) /\ DOMAIN logger \subseteq Paths
  <2>1. DOMAIN logger \in SUBSET Prefixes(p)
    OBVIOUS
  <2> QED
    BY <1>1, <1>3, <2>1, FS_Subset
<1>5. ASSUME NEW q \in DOMAIN logger
      PROVE  /\ q \notin DOMAIN s.tree
             /\ logger[q] \in Objects /\ Home(logger[q]) = q
             /\ Prefixes(q) \subseteq DOMAIN s.tree \union DOMAIN logger
             /\ Nearest(s.tree, q) = parent
  <2>1. q \notin DOMAIN s.tree /\ q \in Prefixes(p) /\ q \in Paths /\ IsPrefix(q, p) /\ logger[q] = q
        /\ q \in Seq(Names)
    BY <1>1
  <2>2. q # <<>>
    BY <2>1 DEF Rooted
  <2>3. logger[q] \in Objects /\ Home(logger[q]) = q
    BY <2>1, <2>2, HomesArePaths
  <2>4. ASSUME NEW r \in Prefixes(q) PROVE r \in Prefixes(p)
    <3>1. r \in Seq(Names) /\ IsPrefix(r, q)
      BY <2>1, <1>1, PathsAreSequences
    <3>2. IsPrefix(r, p)
      BY <1>1, <2>1, <3>1, PrefixesInLine
    <3> QED
      BY <1>3, <3>1, <3>2
  <2>5. Prefixes(q) \subseteq DOMAIN s.tree \union DOMAIN logger
    BY <2>4
  <2>6. IsPrefix(parent, q)
    <3>1. parent \in Seq(Names) /\ Len(parent) \in Nat /\ Len(q) \in Nat
      BY <1>1, <1>2, <2>1
    <3>2. CASE Len(parent) <= Len(q)
      BY <1>1, <1>2, <2>1, <3>1, <3>2, PrefixesInLine
    <3>3. CASE Len(q) <= Len(parent)
      <4>1. IsPrefix(q, parent)
        BY <1>1, <1>2, <2>1, <3>1, <3>3, PrefixesInLine
      <4>2. Prefixes(parent) \subseteq DOMAIN s.tree
        BY <1>1, <1>2 DEF Sound
      <4>3. q \in Prefixes(parent)
        BY <2>1, <3>1, <4>1, PrefixesAre
      <4> QED
        BY <2>1, <4>2, <4>3
    <3> QED
      BY <3>1, <3>2, <3>3
  <2>7. ASSUME NEW r \in DOMAIN s.tree, IsPrefix(r, q) PROVE Len(r) <= Len(parent)
    <3>1. r \in Seq(Names)
      BY <1>1
    <3>2. IsPrefix(r, p)
      BY <1>1, <2>1, <2>7, <3>1, PrefixesInLine
    <3> QED
      BY <1>2, <3>2
  <2>8. Nearest(s.tree, q) = parent
    BY <1>2, <2>1, <2>6, <2>7, NearestInTree
  <2> QED
    BY <2>1, <2>3, <2>5, <2>8
<1> DEFINE t == AddNodes(s, parent, logger)
<1>6. p \in Prefixes(p)
  BY <1>1, <1>3, PrefixesInLine
<1>7. p \in DOMAIN s.tree \union DOMAIN logger
  BY <1>6
<1> HIDE DEF logger
<1>8. /\ Rooted(t) /\ Counted(t) /\ At(t) = At(s) /\ Keeps(s, t)
      /\ DOMAIN t.tree = DOMAIN s.tree \union DOMAIN logger
  BY <1>2, <1>4, <1>5, NodesAdded
<1>9. t = WithPath(s, p)
  BY DEF WithPath, parent, logger
<1> QED
  BY <1>7, <1>8, <1>9

\* A logger that takes the place of another takes over its level.
LEMMA LoggerIsAttached ==
  ASSUME NEW s, Rooted(s), Counted(s), NEW l \in Objects, Home(l) \in DOMAIN s.tree
  PROVE  LET t == Attached(s, l, Home(l))
         IN  Rooted(t) /\ Counted(t) /\ At(t) = At(s) /\ Keeps(s, t)
<1> DEFINE p == Home(l)
           t == Attached(s, l, p)
           old == s.tree[p]
<1>1. /\ Sound(s) /\ p \in DOMAIN s.tree
      /\ IsNode(old) /\ old.logger \in Objects /\ Home(old.logger) = p
      /\ IsState(s) /\ s.tree = [q \in DOMAIN s.tree |-> s.tree[q]]
      /\ s.level = [o \in Objects |-> s.level[o]] /\ s.node = [o \in Objects |-> s.node[o]]
  BY DEF Rooted, Sound
<1>2. t = [tree |-> [s.tree EXCEPT ![p] = [logger |-> l, writer |-> old.writer, format |-> old.format]],
           level |-> [s.level EXCEPT ![l] = s.level[old.logger]],
           node |-> [s.node EXCEPT ![l] = p], refs |-> s.refs]
  <2>1. [old EXCEPT !.logger = l] = [logger |-> l, writer |-> old.writer, format |-> old.format]
    <3> HIDE DEF old
    <3> QED
      BY <1>1 DEF IsNode
  <2>2. s.tree[p] = old
    OBVIOUS
  <2> HIDE DEF old, p
  <2> DEFINE lv == [s.level EXCEPT ![l] = s.level[old.logger]]
             nd == [s.node EXCEPT ![l] = p]
             tr == [s.tree EXCEPT ![p] = [s.tree[p] EXCEPT !.logger = l]]
  <2>3. Attached(s, l, p) = [[[s EXCEPT !.level = lv] EXCEPT !.node = nd] EXCEPT !.tree = tr]
    <3>1. Attached(s, l, p) = [s EXCEPT !.level = lv, !.node = nd, !.tree = tr]
      BY <1>1, <2>2 DEF Attached, IsState
    <3> HIDE DEF lv, nd, tr
    <3> QED
      BY <3>1
  <2> HIDE DEF lv, nd, tr
  <2>4. [s EXCEPT !.level = lv] = [tree |-> s.tree, level |-> lv, node |-> s.node, refs |-> s.refs]
    BY <1>1 DEF IsState
  <2>5. [[tree |-> s.tree, level |-> lv, node |-> s.node, refs |-> s.refs] EXCEPT !.node = nd]
          = [tree |-> s.tree, level |-> lv, node |-> nd, refs |-> s.refs]
    OBVIOUS
  <2>6. [[tree |-> s.tree, level |-> lv, node |-> nd, refs |-> s.refs] EXCEPT !.tree = tr]
          = [tree |-> tr, level |-> lv, node |-> nd, refs |-> s.refs]
    OBVIOUS
  <2>7. Attached(s, l, p) = [tree |-> tr, level |-> lv, node |-> nd, refs |-> s.refs]
    BY <2>3, <2>4, <2>5, <2>6
  <2> QED
    BY <2>1, <2>2, <2>7 DEF lv, nd, tr
<1> HIDE DEF t
<1>3. /\ DOMAIN t.tree = DOMAIN s.tree /\ t.tree = [q \in DOMAIN t.tree |-> t.tree[q]] /\ IsState(t)
      /\ t.tree[p] = [logger |-> l, writer |-> old.writer, format |-> old.format]
      /\ \A q \in DOMAIN s.tree : q # p => t.tree[q] = s.tree[q]
      /\ t.level = [o \in Objects |-> t.level[o]] /\ t.node = [o \in Objects |-> t.node[o]]
      /\ t.level[l] = s.level[old.logger] /\ t.node[l] = p /\ t.refs = s.refs
      /\ \A o \in Objects : o # l => t.level[o] = s.level[o] /\ t.node[o] = s.node[o]
  <2> HIDE DEF old, p
  <2> QED
    BY <1>1, <1>2 DEF IsState
<1>4. t.tree[p].logger = l /\ t.tree[p].writer = old.writer /\ t.tree[p].format = old.format
      /\ IsNode(t.tree[p])
  <2> HIDE DEF old, p
  <2> QED
    BY <1>3 DEF IsNode
<1>5. Sound(t)
  <2>1. ASSUME NEW q \in DOMAIN t.tree
        PROVE  /\ Prefixes(q) \subseteq DOMAIN t.tree
               /\ IsNode(t.tree[q])
               /\ t.tree[q].logger \in Objects /\ Home(t.tree[q].logger) = q
               /\ t.tree[q].writer \in 1 .. Len(t.refs)
    BY <1>1, <1>3, <1>4 DEF Sound
  <2>2. \A o \in Objects : t.node[o] # NoNode => t.node[o] = Home(o)
    BY <1>1, <1>3 DEF Sound
  <2> QED
    BY <1>1, <1>3, <2>1, <2>2 DEF Sound
<1>6. Rooted(t)
  BY <1>1, <1>3, <1>5 DEF Rooted
<1>7. Counted(t)
  <2>1. \A w : Users(t, w) = Users(s, w)
    BY <1>3, <1>4 DEF Users
  <2> QED
    BY <1>3, <2>1 DEF Counted
<1>8. ASSUME NEW r \in Paths
      PROVE  Fields(t, t.tree[Nearest(t.tree, r)]) = Fields(s, s.tree[Nearest(s.tree, r)])
  <2> DEFINE m == Nearest(s.tree, r)
  <2>1. m \in DOMAIN s.tree /\ Nearest(t.tree, r) = m
    BY <1>3, NearestInTree DEF Nearest
  <2> HIDE DEF m
  <2>2. CASE m = p
    BY <1>3, <1>4, <2>1, <2>2 DEF Fields, m
  <2>3. CASE m # p
    <3>1. t.tree[m] = s.tree[m] /\ s.tree[m].logger \in Objects /\ s.tree[m].logger # l
      BY <1>1, <1>3, <2>1, <2>3 DEF Sound
    <3>2. t.level[s.tree[m].logger] = s.level[s.tree[m].logger]
      BY <1>3, <3>1
    <3> QED
      BY <2>1, <3>1, <3>2 DEF Fields, m
  <2> QED
    BY <2>2, <2>3
<1>9. At(t) = At(s)
  BY <1>8 DEF At
<1>10. Keeps(s, t)
  <2>1. Home(l) # NoNode
    BY HomesArePaths, PathsAssumption
  <2> QED
    BY <1>3, <2>1 DEF Keeps
<1> QED
  BY <1>6, <1>7, <1>9, <1>10 DEF t

LEMMA LoggerIsRegistered ==
  ASSUME NEW s, Rooted(s), Counted(s), NEW l \in Loggers
  PROVE  LET t == Registered(s, l)
         IN  Rooted(t) /\ Counted(t) /\ At(t) = At(s) /\ Keeps(s, t)
<1> DEFINE p == Home(l)
           group == GroupOf[l]
           up == WithPath(s, group)
<1>1. l \in Objects /\ p \in Paths /\ group \in Paths /\ p = GroupOf[l] \o IdOf[l]
  BY PathsAssumption, HomesArePaths DEF Objects, Home
<1> HIDE DEF p, group
<1>2. Rooted(up) /\ Counted(up) /\ At(up) = At(s) /\ Keeps(s, up) /\ group \in DOMAIN up.tree
  BY <1>1, PathIsMade
<1>3. Registered(s, l) = IF p \in DOMAIN up.tree THEN Attached(up, l, p)
                         ELSE AddNodes(up, group, [q \in {p} |-> l])
  BY <1>1 DEF Registered, group
<1> HIDE DEF up
<1>4. CASE p \in DOMAIN up.tree
  <2> DEFINE t == Attached(up, l, p)
  <2>1. Rooted(t) /\ Counted(t) /\ At(t) = At(up) /\ Keeps(up, t)
    BY <1>1, <1>2, <1>4, LoggerIsAttached DEF p
  <2> HIDE DEF t
  <2> QED
    BY <1>2, <1>3, <1>4, <2>1 DEF t, Keeps
<1>5. CASE p \notin DOMAIN up.tree
  <2> DEFINE logger == [q \in {p} |-> l]
             t == AddNodes(up, group, logger)
  <2>1. /\ Paths \subseteq Seq(Names) /\ DOMAIN up.tree \subseteq Paths
        /\ group \in Seq(Names) /\ p \in Seq(Names)
    BY <1>1, <1>2, PathsAreSequences DEF Rooted, Sound
  <2>2. PICK c \in Names : p = group \o <<c>>
    <3>1. IdOf[l] = <<>> \/ \E c \in Names : IdOf[l] = <<c>>
      BY PathsAssumption
    <3>2. group \o <<>> = group
      BY <2>1
    <3> QED
      BY <1>1, <1>2, <1>5, <3>1, <3>2 DEF group
  <2>3. Len(group) \in Nat /\ Len(p) = Len(group) + 1 /\ \A i \in 1 .. Len(group) : p[i] = group[i]
    BY <2>1, <2>2
  <2>4. IsPrefix(group, p)
    <3>1. Len(group) <= Len(p)
      BY <2>3
    <3> QED
      BY <2>1, <2>3, <3>1, PrefixIs
  <2>5. ASSUME NEW q \in Seq(Names), IsPrefix(q, p), q # p PROVE IsPrefix(q, group)
    <3>1. Len(q) \in Nat /\ Len(q) <= Len(p) /\ Len(q) # Len(p)
      BY <2>1, <2>5, PrefixesInLine
    <3>2. Len(q) <= Len(group)
      BY <2>3, <3>1
    <3> QED
      BY <2>1, <2>4, <2>5, <3>2, PrefixesInLine
  <2>6. Prefixes(p) \subseteq DOMAIN up.tree \union {p}
    <3>1. ASSUME NEW q \in Prefixes(p), q # p PROVE q \in DOMAIN up.tree
      <4>1. q \in Seq(Names) /\ IsPrefix(q, p)
        BY <2>1, PrefixesAre
      <4>2. IsPrefix(q, group)
        BY <2>5, <3>1, <4>1
      <4>3. q \in Prefixes(group)
        BY <2>1, <4>1, <4>2, PrefixesAre
      <4> QED
        BY <1>2, <4>3 DEF Rooted, Sound
    <3> QED
      BY <3>1
  <2>7. Nearest(up.tree, p) = group
    <3>1. ASSUME NEW r \in DOMAIN up.tree, IsPrefix(r, p) PROVE Len(r) <= Len(group)
      <4>1. r \in Seq(Names) /\ IsPrefix(r, group)
        BY <1>5, <2>1, <2>5, <3>1
      <4> QED
        BY <2>1, <4>1, PrefixesInLine
    <3> QED
      BY <1>1, <1>2, <2>4, <3>1, NearestInTree
  <2>8. DOMAIN logger = {p} /\ logger[p] = l
    OBVIOUS
  <2> HIDE DEF logger
  <2>9. IsFiniteSet(DOMAIN logger) /\ DOMAIN logger \subseteq Paths
    BY <1>1, <2>8, FS_Singleton
  <2>10. \A q \in DOMAIN logger :
           /\ q \notin DOMAIN up.tree
           /\ logger[q] \in Objects /\ Home(logger[q]) = q
           /\ Prefixes(q) \subseteq DOMAIN up.tree \union DOMAIN logger
           /\ Nearest(up.tree, q) = group
    BY <1>1, <1>5, <2>6, <2>7, <2>8 DEF p
  <2>11. Rooted(t) /\ Counted(t) /\ At(t) = At(up) /\ Keeps(up, t)
    BY <1>2, <2>9, <2>10, NodesAdded
  <2>12. Registered(s, l) = t
    BY <1>3, <1>5 DEF logger
  <2> QED
    BY <1>2, <2>11, <2>12 DEF Keeps
<1> QED
  BY <1>4, <1>5

-----------------------------------------------------------------------------
(* Settings                                                                *)

WithField(fields, f, v) == [fields EXCEPT ![f] = v]

\* What is set at a node and below it holds at its path and below it, if
\* nothing else changes.
LEMMA SetBelow ==
  ASSUME NEW s, Rooted(s), NEW t, Rooted(t), DOMAIN t.tree = DOMAIN s.tree,
         NEW p \in DOMAIN s.tree, NEW f \in {"level", "format", "writer"}, NEW v,
         \A q \in DOMAIN s.tree :
           Fields(t, t.tree[q]) = IF IsPrefix(p, q) THEN WithField(Fields(s, s.tree[q]), f, v)
                                  ELSE Fields(s, s.tree[q])
  PROVE  At(t) = Promise!Set(At(s), p, f, v)
<1>1. Paths \subseteq Seq(Names) /\ DOMAIN s.tree \subseteq Paths
  BY PathsAreSequences DEF Rooted, Sound
<1>2. ASSUME NEW r \in Paths
      PROVE  At(t)[r] = IF IsPrefix(p, r) THEN WithField(At(s)[r], f, v) ELSE At(s)[r]
  <2> DEFINE m == Nearest(s.tree, r)
  <2>1. m \in DOMAIN s.tree /\ IsPrefix(m, r) /\ Nearest(t.tree, r) = m
        /\ \A q \in DOMAIN s.tree : IsPrefix(q, r) => Len(q) <= Len(m)
    <3>1. Nearest(t.tree, r) = m
      BY DEF Nearest
    <3> QED
      BY <3>1, NearestInTree
  <2>2. At(t)[r] = Fields(t, t.tree[m]) /\ At(s)[r] = Fields(s, s.tree[m])
    BY <2>1 DEF At
  <2> HIDE DEF m
  <2>3. IsPrefix(p, m) <=> IsPrefix(p, r)
    <3>1. r \in Seq(Names) /\ m \in Seq(Names) /\ p \in Seq(Names)
      BY <1>1, <2>1
    <3>2. IsPrefix(p, r) => Len(p) <= Len(m)
      BY <2>1
    <3> QED
      BY <2>1, <3>1, <3>2, PrefixesInLine
  <2> QED
    BY <2>1, <2>2, <2>3
<1>3. At(t) = [r \in Paths |-> At(t)[r]]
  BY DEF At
<1>4. \A r \in Paths : At(t)[r] = IF Promise!IsPrefix(p, r) THEN [At(s)[r] EXCEPT ![f] = v] ELSE At(s)[r]
  BY <1>2 DEF WithField, IsPrefix, Promise!IsPrefix
<1> QED
  BY <1>3, <1>4 DEF Promise!Set

LEMMA LevelIsSet ==
  ASSUME NEW s, Rooted(s), Counted(s), NEW p \in DOMAIN s.tree, NEW v
  PROVE  LET t == WithLevel(s, p, v)
         IN  /\ Rooted(t) /\ Counted(t) /\ Keeps(s, t)
             /\ At(t) = Promise!Set(At(s), p, "level", v)
<1> DEFINE t == WithLevel(s, p, v)
           Reached(o) == \E q \in Below(s.tree, p) : s.tree[q].logger = o
           lv == [o \in Objects |-> IF Reached(o) THEN v ELSE s.level[o]]
<1>1. Sound(s) /\ IsState(s)
  BY DEF Rooted, Sound
<1>2. t = [tree |-> s.tree, level |-> lv, node |-> s.node, refs |-> s.refs]
  <2>1. t = [s EXCEPT !.level = lv]
    BY DEF WithLevel
  <2> HIDE DEF t, lv
  <2> QED
    BY <1>1, <2>1, StateExcept
<1>3. t.tree = s.tree /\ t.level = lv /\ t.node = s.node /\ t.refs = s.refs /\ IsState(t)
  <2> HIDE DEF t, lv
  <2> QED
    BY <1>2 DEF IsState
<1>4. lv = [o \in Objects |-> lv[o]] /\ \A o \in Objects : lv[o] = IF Reached(o) THEN v ELSE s.level[o]
  OBVIOUS
<1> HIDE DEF t, lv
<1>5. Sound(t) /\ Rooted(t) /\ Counted(t)
  <2>1. Sound(t)
    BY <1>1, <1>3, <1>4 DEF Sound
  <2>2. Rooted(t)
    BY <1>3, <2>1 DEF Rooted
  <2>3. \A w : Users(t, w) = Users(s, w)
    BY <1>3 DEF Users
  <2>4. Counted(t)
    BY <1>3, <2>3 DEF Counted
  <2> QED
    BY <2>1, <2>2, <2>4
<1>6. ASSUME NEW q \in DOMAIN s.tree
      PROVE  Fields(t, t.tree[q]) = IF IsPrefix(p, q) THEN WithField(Fields(s, s.tree[q]), "level", v)
                                    ELSE Fields(s, s.tree[q])
  <2>1. s.tree[q].logger \in Objects
    BY <1>1 DEF Sound
  <2>2. Reached(s.tree[q].logger) <=> IsPrefix(p, q)
    BY NodesInTree DEF Below
  <2>3. t.level[s.tree[q].logger] = IF IsPrefix(p, q) THEN v ELSE s.level[s.tree[q].logger]
    BY <1>3, <1>4, <2>1, <2>2
  <2> QED
    BY <1>3, <2>3 DEF Fields, WithField
<1>7. At(t) = Promise!Set(At(s), p, "level", v)
  BY <1>3, <1>5, <1>6, SetBelow
<1> QED
  BY <1>3, <1>5, <1>7 DEF t, Keeps

LEMMA FormatIsSet ==
  ASSUME NEW s, Rooted(s), Counted(s), NEW p \in DOMAIN s.tree, NEW v
  PROVE  LET t == WithFormat(s, p, v)
         IN  /\ Rooted(t) /\ Counted(t) /\ Keeps(s, t)
             /\ At(t) = Promise!Set(At(s), p, "format", v)
<1> DEFINE t == WithFormat(s, p, v)
           tr == [q \in DOMAIN s.tree |->
                    IF IsPrefix(p, q) THEN [s.tree[q] EXCEPT !.format = v] ELSE s.tree[q]]
<1>1. Sound(s) /\ IsState(s)
  BY DEF Rooted, Sound
<1>2. t = [tree |-> tr, level |-> s.level, node |-> s.node, refs |-> s.refs]
  <2>1. t = [s EXCEPT !.tree = tr]
    BY DEF WithFormat
  <2> HIDE DEF t, tr
  <2> QED
    BY <1>1, <2>1, StateExcept
<1>3. t.tree = tr /\ t.level = s.level /\ t.node = s.node /\ t.refs = s.refs /\ IsState(t)
  <2> HIDE DEF t, tr
  <2> QED
    BY <1>2 DEF IsState
<1>4. /\ tr = [q \in DOMAIN tr |-> tr[q]] /\ DOMAIN tr = DOMAIN s.tree
      /\ \A q \in DOMAIN s.tree :
           tr[q] = IF IsPrefix(p, q) THEN [s.tree[q] EXCEPT !.format = v] ELSE s.tree[q]
  OBVIOUS
<1> HIDE DEF t, tr
<1>5. ASSUME NEW q \in DOMAIN s.tree
      PROVE  /\ IsNode(tr[q]) /\ tr[q].logger = s.tree[q].logger /\ tr[q].writer = s.tree[q].writer
             /\ tr[q].format = IF IsPrefix(p, q) THEN v ELSE s.tree[q].format
  <2> DEFINE n == s.tree[q]
  <2>1. IsNode(n) /\ tr[q] = IF IsPrefix(p, q) THEN [n EXCEPT !.format = v] ELSE n
    BY <1>1, <1>4 DEF Sound
  <2> HIDE DEF n
  <2>2. [n EXCEPT !.format = v] = [logger |-> n.logger, writer |-> n.writer, format |-> v]
    BY <2>1 DEF IsNode
  <2>3. IsNode(tr[q]) /\ tr[q].logger = n.logger /\ tr[q].writer = n.writer
        /\ tr[q].format = IF IsPrefix(p, q) THEN v ELSE n.format
    BY <2>1, <2>2 DEF IsNode
  <2> QED
    BY <2>3 DEF n
<1>6. Sound(t)
  BY <1>1, <1>3, <1>4, <1>5 DEF Sound
<1>7. Rooted(t)
  BY <1>3, <1>4, <1>6 DEF Rooted
<1>8. Counted(t)
  <2>1. \A w : Users(t, w) = Users(s, w)
    BY <1>3, <1>4, <1>5 DEF Users
  <2> QED
    BY <1>3, <2>1 DEF Counted
<1>9. ASSUME NEW q \in DOMAIN s.tree
      PROVE  Fields(t, t.tree[q]) = IF IsPrefix(p, q) THEN WithField(Fields(s, s.tree[q]), "format", v)
                                    ELSE Fields(s, s.tree[q])
  BY <1>3, <1>5 DEF Fields, WithField
<1>10. At(t) = Promise!Set(At(s), p, "format", v)
  <2>1. DOMAIN t.tree = DOMAIN s.tree
    BY <1>3, <1>4
  <2>2. \A q \in DOMAIN s.tree :
           Fields(t, t.tree[q]) = IF IsPrefix(p, q) THEN WithField(Fields(s, s.tree[q]), "format", v)
                                  ELSE Fields(s, s.tree[q])
    BY <1>9
  <2>3. "format" \in {"level", "format", "writer"}
    OBVIOUS
  <2> QED
    BY <1>7, <2>1, <2>2, <2>3, SetBelow
<1> QED
  BY <1>3, <1>7, <1>8, <1>10 DEF t, Keeps

\* Every node at p and below drops its writer for the new one.
LEMMA WriterIsSet ==
  ASSUME NEW s, Rooted(s), Counted(s), NEW p \in DOMAIN s.tree
  PROVE  LET t == WithWriter(s, p)
         IN  /\ Rooted(t) /\ Counted(t) /\ Keeps(s, t)
             /\ At(t) = Promise!Set(At(s), p, "writer", Len(s.refs) + 1)
<1> DEFINE t == WithWriter(s, p)
           w == Len(s.refs) + 1
           users(old) == {q \in Below(s.tree, p) : s.tree[q].writer = old}
           tr == [q \in DOMAIN s.tree |->
                    IF IsPrefix(p, q) THEN [s.tree[q] EXCEPT !.writer = w] ELSE s.tree[q]]
           rf == [old \in 1 .. w |-> IF old = w THEN Cardinality(Below(s.tree, p))
                                      ELSE s.refs[old] - Cardinality(users(old))]
<1>1. /\ Sound(s) /\ IsState(s) /\ s.refs \in Seq(Int) /\ Len(s.refs) \in Nat
      /\ IsFiniteSet(DOMAIN s.tree) /\ s.tree[<<>>].writer \in 1 .. Len(s.refs)
  BY DEF Rooted, Sound
<1>2. w \in Nat /\ 1 < w
  BY <1>1
<1>3. t = [tree |-> tr, level |-> s.level, node |-> s.node, refs |-> rf]
  <2>1. t = [s EXCEPT !.tree = tr, !.refs = rf]
    BY DEF WithWriter
  <2> HIDE DEF t, tr, rf
  <2> QED
    BY <1>1, <2>1, StateExcept
<1>4. t.tree = tr /\ t.level = s.level /\ t.node = s.node /\ t.refs = rf /\ IsState(t)
  <2> HIDE DEF t, tr, rf
  <2> QED
    BY <1>3 DEF IsState
<1>5. /\ tr = [q \in DOMAIN tr |-> tr[q]] /\ DOMAIN tr = DOMAIN s.tree
      /\ \A q \in DOMAIN s.tree :
           tr[q] = IF IsPrefix(p, q) THEN [s.tree[q] EXCEPT !.writer = w] ELSE s.tree[q]
  OBVIOUS
<1>6. ASSUME NEW old
      PROVE  IsFiniteSet(users(old)) /\ Cardinality(users(old)) \in Nat
  <2>1. users(old) \in SUBSET DOMAIN s.tree
    BY DEF Below
  <2>2. IsFiniteSet(users(old))
    BY <1>1, <2>1, FS_Subset
  <2> QED
    BY <2>2, FS_CardinalityType
<1>7. IsFiniteSet(Below(s.tree, p)) /\ Cardinality(Below(s.tree, p)) \in Nat
  <2>1. Below(s.tree, p) \in SUBSET DOMAIN s.tree
    BY DEF Below
  <2>2. IsFiniteSet(Below(s.tree, p))
    BY <1>1, <2>1, FS_Subset
  <2> QED
    BY <2>2, FS_CardinalityType
<1>8. rf \in Seq(Int) /\ Len(rf) = w /\ DOMAIN rf = 1 .. w
  <2>1. ASSUME NEW old \in 1 .. w PROVE rf[old] \in Int
    <3>1. Cardinality(users(old)) \in Nat /\ Cardinality(Below(s.tree, p)) \in Nat
      BY <1>6, <1>7
    <3>2. CASE old = w
      BY <3>1, <3>2
    <3>3. CASE old # w
      <4>1. s.refs[old] \in Int
        BY <1>1, <3>3
      <4>2. rf[old] = s.refs[old] - Cardinality(users(old))
        BY <3>3
      <4> QED
        BY <3>1, <4>1, <4>2
    <3> QED
      BY <3>2, <3>3
  <2>2. rf = [old \in 1 .. w |-> rf[old]]
    OBVIOUS
  <2> HIDE DEF rf, w
  <2> QED
    BY <1>2, <2>1, <2>2
<1>9. /\ rf[w] = Cardinality(Below(s.tree, p))
      /\ \A old \in 1 .. w : old # w => rf[old] = s.refs[old] - Cardinality(users(old))
  BY <1>2
<1> HIDE DEF t, tr, rf
<1>10. ASSUME NEW q \in DOMAIN s.tree
       PROVE  /\ IsNode(tr[q]) /\ tr[q].logger = s.tree[q].logger /\ tr[q].format = s.tree[q].format
              /\ tr[q].writer = IF IsPrefix(p, q) THEN w ELSE s.tree[q].writer
  <2> DEFINE n == s.tree[q]
  <2>1. IsNode(n) /\ tr[q] = IF IsPrefix(p, q) THEN [n EXCEPT !.writer = w] ELSE n
    BY <1>1, <1>5 DEF Sound
  <2> HIDE DEF n, w
  <2>2. [n EXCEPT !.writer = w] = [logger |-> n.logger, writer |-> w, format |-> n.format]
    BY <2>1 DEF IsNode
  <2>3. IsNode(tr[q]) /\ tr[q].logger = n.logger /\ tr[q].format = n.format
        /\ tr[q].writer = IF IsPrefix(p, q) THEN w ELSE n.writer
    BY <2>1, <2>2 DEF IsNode
  <2> QED
    BY <2>3 DEF n
<1>11. \A q \in DOMAIN s.tree : s.tree[q].writer \in 1 .. Len(s.refs) /\ s.tree[q].writer # w
  BY <1>1 DEF Sound
<1>12. Sound(t)
  <2>1. ASSUME NEW q \in DOMAIN s.tree PROVE tr[q].writer \in 1 .. Len(rf)
    <3>1. tr[q].writer = w \/ tr[q].writer \in 1 .. Len(s.refs)
      BY <1>10, <1>11
    <3> QED
      BY <1>1, <1>2, <1>8, <3>1
  <2> QED
    BY <1>1, <1>4, <1>5, <1>8, <1>10, <2>1 DEF Sound
<1>13. Rooted(t)
  BY <1>4, <1>5, <1>12 DEF Rooted
<1>14. Counted(t)
  <2>1. ASSUME NEW v \in DOMAIN rf
        PROVE  rf[v] = Cardinality(Users(t, v)) + (IF v = 1 THEN 1 ELSE 0)
    <3>1. CASE v = w
      <4>1. Users(t, v) = Below(s.tree, p)
        BY <1>4, <1>5, <1>10, <1>11, <3>1 DEF Users, Below
      <4> QED
        BY <1>2, <1>7, <1>9, <3>1, <4>1
    <3>2. CASE v # w
      <4>1. v \in DOMAIN s.refs
        BY <1>1, <1>8, <3>2
      <4>2. s.refs[v] = Cardinality(Users(s, v)) + (IF v = 1 THEN 1 ELSE 0)
        BY <4>1 DEF Counted
      <4>3. Users(t, v) = {q \in DOMAIN s.tree : s.tree[q].writer = v /\ ~IsPrefix(p, q)}
        BY <1>4, <1>5, <1>10, <3>2 DEF Users
      <4>4. Users(t, v) \intersect users(v) = {} /\ Users(t, v) \union users(v) = Users(s, v)
        BY <4>3 DEF Users, Below
      <4>5. IsFiniteSet(Users(t, v)) /\ Cardinality(Users(t, v)) \in Nat
        BY <1>12, UsersAreFinite
      <4> HIDE DEF users
      <4>6. Cardinality(Users(s, v)) = Cardinality(Users(t, v)) + Cardinality(users(v))
        BY <1>6, <4>4, <4>5, CountBoth
      <4>7. rf[v] = s.refs[v] - Cardinality(users(v))
        BY <1>8, <1>9, <3>2 DEF users
      <4> QED
        BY <1>6, <4>2, <4>5, <4>6, <4>7
    <3> QED
      BY <3>1, <3>2
  <2> QED
    BY <1>4, <2>1 DEF Counted
<1>15. At(t) = Promise!Set(At(s), p, "writer", w)
  <2>1. ASSUME NEW q \in DOMAIN s.tree
        PROVE  Fields(t, t.tree[q]) = IF IsPrefix(p, q) THEN WithField(Fields(s, s.tree[q]), "writer", w)
                                      ELSE Fields(s, s.tree[q])
    BY <1>4, <1>10, <2>1 DEF Fields, WithField
  <2>2. DOMAIN t.tree = DOMAIN s.tree
    BY <1>4, <1>5
  <2> HIDE DEF w
  <2> QED
    BY <1>13, <2>1, <2>2, SetBelow
<1> QED
  BY <1>4, <1>13, <1>14, <1>15 DEF t, Keeps

-----------------------------------------------------------------------------
(* Threads                                                                 *)

\* What a call that waits for the lock, or has it, was given.
Registering == [at : {"lock", "body"}, op : {"register", "root"}, on : Loggers]
Finding == [at : {"lock", "body"}, op : {"find"}, on : Objects, path : Paths]
Setting == [at : {"lock", "body"}, op : {"level", "format", "writer"}, on : Objects,
            to : Levels \union Formats \union BOOLEAN]

\* The object a call is on was attached when it began, so that there is a tree.
CallsFit ==
  /\ pc = [t \in Threads |-> pc[t]]
  /\ \A t \in Threads :
       \/ pc[t] = Idle \/ pc[t].at \in {"test", "write"} \/ pc[t] \in Registering
       \/ /\ pc[t] \in Finding \union Setting
          /\ DOMAIN tree # {} /\ node[pc[t].on] # NoNode
          /\ pc[t] \in Finding => Home(pc[t].on) \o pc[t].path \in Paths

LockFits == locked # Nobody => locked \in Threads /\ pc[locked].at = "body"

TreeInv(s) == (Unused(s) \/ Rooted(s)) /\ Counted(s)
IInv == TreeInv(Start) /\ CallsFit /\ LockFits

LEMMA NothingIsUsed == Init => IInv
<1> SUFFICES ASSUME Init PROVE IInv
  OBVIOUS
<1>1. /\ tree = << >> /\ refs = << >> /\ DOMAIN << >> = {} /\ Len(<< >>) = 0
      /\ Start.tree = tree /\ Start.level = level /\ Start.node = node /\ Start.refs = refs
      /\ IsState(Start)
  BY DEF Init, Start, IsState
<1>2. level = [o \in Objects |-> level[o]] /\ node = [o \in Objects |-> node[o]]
      /\ level[Root] = Error /\ node[Root] = <<>> /\ \A o \in Objects \ {Root} : node[o] = NoNode
  BY HomesArePaths DEF Init
<1>3. IsFiniteSet({})
  BY FS_EmptySet
<1>4. tree = [q \in DOMAIN tree |-> tree[q]]
  BY <1>1
<1>5. Sound(Start)
  <2>1. \A o \in Objects : node[o] # NoNode => node[o] = Home(o)
    BY <1>2, HomesArePaths
  <2>2. refs \in Seq(Int)
    BY <1>1
  <2>3. DOMAIN tree = {}
    BY <1>1
  <2> QED
    BY <1>1, <1>2, <1>3, <1>4, <2>1, <2>2, <2>3 DEF Sound
<1>6. Unused(Start)
  BY <1>1, <1>2, <1>5 DEF Unused
<1>7. Counted(Start)
  BY <1>1 DEF Counted
<1>8. CallsFit /\ LockFits
  BY DEF Init, CallsFit, LockFits
<1> QED
  BY <1>6, <1>7, <1>8 DEF IInv, TreeInv

\* The call that a thread enters, and the tree it leaves alone.
LEMMA EnterFits ==
  ASSUME IInv, NEW t \in Threads, NEW c, Enter(t, c),
         \/ c.at = "test" \/ c \in Registering
         \/ /\ c \in Finding \union Setting
            /\ DOMAIN tree # {} /\ node[c.on] # NoNode
            /\ c \in Finding => Home(c.on) \o c.path \in Paths
  PROVE  IInv'
<1>1. /\ pc[t] = Idle /\ pc' = [pc EXCEPT ![t] = c]
      /\ UNCHANGED <<tree, level, node, refs, locked>> /\ UNCHANGED Start
  BY DEF Enter, Start
<1>2. CallsFit /\ LockFits /\ TreeInv(Start)
  BY DEF IInv
<1>3. pc'[t] = c /\ pc' = [u \in Threads |-> pc'[u]] /\ \A u \in Threads : u # t => pc'[u] = pc[u]
  BY <1>1, <1>2 DEF CallsFit
<1>4. CallsFit'
  <2>1. ASSUME NEW u \in Threads, u # t
        PROVE  \/ pc'[u] = Idle \/ pc'[u].at \in {"test", "write"} \/ pc'[u] \in Registering
               \/ /\ pc'[u] \in Finding \union Setting
                  /\ DOMAIN tree # {} /\ node[pc'[u].on] # NoNode
                  /\ pc'[u] \in Finding => Home(pc'[u].on) \o pc'[u].path \in Paths
    BY <1>2, <1>3, <2>1 DEF CallsFit
  <2> QED
    BY <1>1, <1>3, <2>1 DEF CallsFit, Registering, Finding, Setting, Home, Objects, Idle
<1>5. LockFits'
  BY <1>1, <1>2, <1>3 DEF LockFits, Idle
<1> QED
  BY <1>1, <1>2, <1>4, <1>5 DEF IInv

\* A client holds loggers of the application and those attached to a node.
LEMMA KnownAre ==
  ASSUME IInv, NEW o \in Known, node[o] # NoNode
  PROVE  o \in Objects /\ DOMAIN tree # {} /\ node[o] = Home(o)
<1>1. Unused(Start) \/ Rooted(Start)
  BY DEF IInv, TreeInv
<1>2. Start.tree = tree /\ Start.node = node
  BY DEF Start
<1>3. Sound(Start)
  BY <1>1 DEF Unused, Rooted
<1>4. o \in Objects
  BY <1>2, <1>3, HomesArePaths DEF Known, Objects, Sound
<1>5. DOMAIN tree # {}
  BY <1>1, <1>2, <1>4 DEF Unused, Rooted, Known
<1> QED
  BY <1>2, <1>3, <1>4, <1>5 DEF Sound

LEMMA ClientCallFits ==
  ASSUME IInv, NEW t \in Threads,
         CallRegister(t) \/ CallRoot(t) \/ CallFind(t) \/ CallSet(t) \/ CallWrite(t)
  PROVE  IInv' /\ \E c : Enter(t, c)
<1>1. CASE CallRegister(t)
  <2>1. PICK l \in Loggers : Enter(t, [at |-> "lock", op |-> "register", on |-> l])
    BY <1>1 DEF CallRegister
  <2>2. [at |-> "lock", op |-> "register", on |-> l] \in Registering
    BY DEF Registering
  <2> QED
    BY <2>1, <2>2, EnterFits
<1>2. CASE CallRoot(t)
  <2>1. Enter(t, [at |-> "lock", op |-> "root", on |-> Root])
    BY <1>2 DEF CallRoot
  <2>2. [at |-> "lock", op |-> "root", on |-> Root] \in Registering
    BY PathsAssumption DEF Registering
  <2> QED
    BY <2>1, <2>2, EnterFits
<1>3. CASE CallFind(t)
  <2>1. PICK o \in Known, p \in Paths :
          /\ node[o] # NoNode /\ node[o] \o p \in Paths
          /\ Enter(t, [at |-> "lock", op |-> "find", on |-> o, path |-> p])
    BY <1>3 DEF CallFind
  <2> DEFINE c == [at |-> "lock", op |-> "find", on |-> o, path |-> p]
  <2>2. o \in Objects /\ DOMAIN tree # {} /\ node[o] = Home(o)
    BY <2>1, KnownAre
  <2>3. c \in Finding /\ c.on = o /\ c.path = p
    BY <2>2 DEF Finding
  <2>4. Enter(t, c) /\ node[c.on] # NoNode /\ Home(c.on) \o c.path \in Paths
    BY <2>1, <2>2, <2>3
  <2> HIDE DEF c
  <2> QED
    BY <2>2, <2>3, <2>4, EnterFits
<1>4. CASE CallSet(t)
  <2>1. PICK o \in Known, op \in {"level", "format", "writer"}, v \in Levels \union Formats \union BOOLEAN :
          node[o] # NoNode /\ Enter(t, [at |-> "lock", op |-> op, on |-> o, to |-> v])
    BY <1>4 DEF CallSet
  <2> DEFINE c == [at |-> "lock", op |-> op, on |-> o, to |-> v]
  <2>2. o \in Objects /\ DOMAIN tree # {}
    BY <2>1, KnownAre
  <2>3. c \in Setting /\ c.on = o /\ c.op # "find"
    BY <2>2 DEF Setting
  <2>4. Enter(t, c) /\ node[c.on] # NoNode /\ c \notin Finding
    BY <2>1, <2>3 DEF Finding
  <2> HIDE DEF c
  <2> QED
    BY <2>2, <2>3, <2>4, EnterFits
<1>5. CASE CallWrite(t)
  <2>1. PICK o \in Known, v \in Levels : Enter(t, [at |-> "test", on |-> o, level |-> v])
    BY <1>5 DEF CallWrite
  <2> DEFINE c == [at |-> "test", on |-> o, level |-> v]
  <2>2. Enter(t, c) /\ c.at = "test"
    BY <2>1
  <2> HIDE DEF c
  <2> QED
    BY <2>2, EnterFits
<1> QED
  BY <1>1, <1>2, <1>3, <1>4, <1>5

LEMMA LockIsTaken ==
  ASSUME IInv, NEW t \in Threads, Lock(t)
  PROVE  IInv'
<1>1. /\ pc[t].at = "lock" /\ locked' = t /\ pc' = [pc EXCEPT ![t] = [pc[t] EXCEPT !.at = "body"]]
      /\ UNCHANGED <<tree, level, node, refs>> /\ UNCHANGED Start
  BY DEF Lock, Start
<1>2. CallsFit /\ TreeInv(Start)
  BY DEF IInv
<1>3. /\ pc' = [u \in Threads |-> pc'[u]] /\ pc'[t] = [pc[t] EXCEPT !.at = "body"]
      /\ \A u \in Threads : u # t => pc'[u] = pc[u]
  BY <1>1, <1>2 DEF CallsFit
<1>4. \/ pc[t] \in Registering
      \/ /\ pc[t] \in Finding \union Setting
         /\ DOMAIN tree # {} /\ node[pc[t].on] # NoNode
         /\ pc[t] \in Finding => Home(pc[t].on) \o pc[t].path \in Paths
  BY <1>1, <1>2 DEF CallsFit, Idle
<1> DEFINE c == pc[t]
           d == [c EXCEPT !.at = "body"]
           Fits(e) == \/ e \in Registering
                      \/ /\ e \in Finding \union Setting
                         /\ DOMAIN tree # {} /\ node[e.on] # NoNode
                         /\ e \in Finding => Home(e.on) \o e.path \in Paths
<1>5. d.at = "body" /\ Fits(d)
  <2>1. CASE c \in Registering
    <3> HIDE DEF c
    <3>1. d \in Registering /\ d.at = "body"
      BY <2>1 DEF Registering
    <3> QED
      BY <3>1
  <2>2. CASE c \in Finding
    <3>1. DOMAIN tree # {} /\ node[c.on] # NoNode /\ Home(c.on) \o c.path \in Paths
      BY <1>4, <2>2 DEF Registering, Finding
    <3> HIDE DEF c
    <3>2. d \in Finding /\ d.at = "body" /\ d.on = c.on /\ d.path = c.path
      BY <2>2 DEF Finding
    <3> HIDE DEF d
    <3> QED
      BY <3>1, <3>2
  <2>3. CASE c \in Setting
    <3>1. DOMAIN tree # {} /\ node[c.on] # NoNode
      BY <1>4, <2>3 DEF Registering, Setting
    <3> HIDE DEF c
    <3>2. d \in Setting /\ d.at = "body" /\ d.on = c.on /\ d.op = c.op /\ c.op # "find"
      BY <2>3 DEF Setting
    <3> HIDE DEF d
    <3>3. d \notin Finding
      BY <3>2 DEF Finding
    <3> QED
      BY <3>1, <3>2, <3>3
  <2> QED
    BY <1>4, <2>1, <2>2, <2>3
<1>6. pc'[t] = d
  BY <1>3
<1> HIDE DEF d
<1>7. CallsFit'
  <2>1. ASSUME NEW u \in Threads
        PROVE  pc'[u] = Idle \/ pc'[u].at \in {"test", "write"} \/ Fits(pc'[u])
    BY <1>2, <1>3, <1>5, <1>6 DEF CallsFit
  <2> QED
    BY <1>1, <1>3, <2>1 DEF CallsFit, Registering, Finding, Setting, Home, Objects, Idle
<1>8. LockFits'
  BY <1>1, <1>5, <1>6 DEF LockFits
<1> QED
  BY <1>1, <1>2, <1>7, <1>8 DEF IInv

\* A call that has the lock works on a tree with its root.
LEMMA TreeIsMade ==
  ASSUME IInv
  PROVE  /\ Rooted(WithRoot) /\ Counted(WithRoot) /\ At(WithRoot) = Holds /\ Keeps(Start, WithRoot)
         /\ DOMAIN tree # {} => WithRoot = Start
<1>1. /\ Counted(Start) /\ (Unused(Start) \/ Rooted(Start))
      /\ Start.tree = tree /\ Start.level = level /\ Start.node = node
  BY DEF IInv, TreeInv, Start
<1>2. CASE Unused(Start)
  <2>1. DOMAIN tree = {}
    BY <1>1, <1>2 DEF Unused
  <2>2. Holds = [p \in Paths |-> Initially]
    BY <2>1 DEF Holds
  <2> QED
    BY <1>1, <1>2, <2>1, <2>2, RootIsMade DEF Keeps
<1>3. CASE Rooted(Start)
  <2>1. DOMAIN tree # {}
    BY <1>1, <1>3 DEF Rooted
  <2>2. WithRoot = Start
    BY <2>1 DEF WithRoot
  <2>3. Holds = At(Start)
    BY <1>1, <2>1 DEF Holds, At, Fields
  <2> QED
    BY <1>1, <1>3, <2>2, <2>3 DEF Keeps
<1> QED
  BY <1>1, <1>2, <1>3

\* What a call leaves when it gives the lock back.
LEMMA BodyLeaves ==
  ASSUME IInv, NEW t \in Threads, locked = t, NEW s, Rooted(s), Counted(s), Keeps(Start, s),
         Become(s), Unlock(pc[t]), pc' = [pc EXCEPT ![t] = Idle]
  PROVE  IInv' /\ Holds' = At(s) /\ Asked' = NoChange
<1>1. /\ IsState(s) /\ tree' = s.tree /\ level' = s.level /\ node' = s.node /\ refs' = s.refs
      /\ <<>> \in DOMAIN tree' /\ locked' = Nobody
  BY DEF Rooted, Sound, Become, Unlock
<1>2. Start' = s
  BY <1>1 DEF Start, IsState
<1>3. TreeInv(Start)'
  BY <1>2 DEF TreeInv
<1>4. CallsFit'
  <2>1. CallsFit
    BY DEF IInv
  <2>2. /\ pc' = [u \in Threads |-> pc'[u]] /\ pc'[t] = Idle
        /\ \A u \in Threads : u # t => pc'[u] = pc[u]
    BY <2>1 DEF CallsFit
  <2>3. \A o \in Objects : node[o] # NoNode => node'[o] # NoNode
    BY <1>1 DEF Keeps, Start
  <2>4. ASSUME NEW u \in Threads
        PROVE  \/ pc'[u] = Idle \/ pc'[u].at \in {"test", "write"} \/ pc'[u] \in Registering
               \/ /\ pc'[u] \in Finding \union Setting
                  /\ DOMAIN tree' # {} /\ node'[pc'[u].on] # NoNode
                  /\ pc'[u] \in Finding => Home(pc'[u].on) \o pc'[u].path \in Paths
    <3>1. \A e \in Finding \union Setting : e.on \in Objects
      BY DEF Finding, Setting
    <3>2. CASE u = t
      BY <2>2, <3>2
    <3>3. CASE u # t
      BY <1>1, <2>1, <2>2, <2>3, <3>1, <3>3 DEF CallsFit
    <3> QED
      BY <3>2, <3>3
  <2> QED
    BY <2>2, <2>4 DEF CallsFit, Registering, Finding, Setting, Home, Objects, Idle
<1>5. LockFits'
  BY <1>1 DEF LockFits
<1>6. Holds' = At(s)
  <2>1. DOMAIN tree' # {}
    BY <1>1
  <2> QED
    BY <1>1, <2>1 DEF Holds, At, Fields
<1>7. Asked' = NoChange
  BY <1>1 DEF Asked, NoChange
<1> QED
  BY <1>3, <1>4, <1>5, <1>6, <1>7 DEF IInv

\* What the holder of the lock is about to change.
LEMMA AskedIs ==
  ASSUME NEW t \in Threads, locked = t
  PROVE  /\ pc[t].op = "writer" /\ pc[t].to /\ Len(refs) < MaxWriters =>
              Asked = [path |-> node[pc[t].on], field |-> "writer", value |-> Len(refs) + 1]
         /\ pc[t].op \in {"level", "format"} =>
              Asked = [path |-> node[pc[t].on], field |-> pc[t].op, value |-> pc[t].to]
         /\ pc[t].op \notin {"level", "format"} /\ ~(pc[t].op = "writer" /\ pc[t].to /\ Len(refs) < MaxWriters) =>
              Asked = NoChange
<1>1. locked # Nobody
  BY ThreadsAssumption
<1> DEFINE c == pc[t]
           wr == c.op = "writer" /\ c.to /\ Len(refs) < MaxWriters
<1>2. Asked = CASE wr -> [path |-> node[c.on], field |-> c.op, value |-> Len(refs) + 1]
                [] c.op \in {"level", "format"} -> [path |-> node[c.on], field |-> c.op, value |-> c.to]
                [] OTHER -> NoChange
  BY <1>1 DEF Asked
<1>3. wr => c.op = "writer" /\ c.op \notin {"level", "format"}
  OBVIOUS
<1> HIDE DEF c, wr
<1>4. /\ wr => Asked = [path |-> node[c.on], field |-> c.op, value |-> Len(refs) + 1]
      /\ c.op \in {"level", "format"} => Asked = [path |-> node[c.on], field |-> c.op, value |-> c.to]
      /\ c.op \notin {"level", "format"} /\ ~wr => Asked = NoChange
  BY <1>2, <1>3
<1> QED
  BY <1>3, <1>4 DEF c, wr

Changes(before, after) ==
  \/ Asked = NoChange /\ after = before
  \/ Asked # NoChange /\ after = Promise!Set(before, Asked.path, Asked.field, Asked.value)

\* A call runs from the lock to the unlock; what it changes is what it asked for.
LEMMA BodyDoes ==
  ASSUME IInv, NEW t \in Threads, Body(t)
  PROVE  IInv' /\ Asked' = NoChange /\ Changes(Holds, Holds')
<1> DEFINE c == pc[t]
           s == WithRoot
<1>1. /\ locked = t /\ c.at = "body" /\ Unlock(pc[t]) /\ pc' = [pc EXCEPT ![t] = Idle]
      /\ \/ c.op = "root" /\ Become(s)
         \/ c.op = "register" /\ Become(Registered(s, c.on))
         \/ c.op = "find" /\ Become(WithPath(s, node[c.on] \o c.path))
         \/ c.op = "level" /\ Become(WithLevel(s, node[c.on], c.to))
         \/ c.op = "format" /\ Become(WithFormat(s, node[c.on], c.to))
         \/ c.op = "writer" /\ c.to /\ Len(refs) < MaxWriters /\ Become(WithWriter(s, node[c.on]))
         \/ c.op = "writer" /\ (~c.to \/ Len(refs) >= MaxWriters) /\ Become(Start)
  BY DEF Body
<1>2. Rooted(s) /\ Counted(s) /\ At(s) = Holds /\ Keeps(Start, s) /\ (DOMAIN tree # {} => s = Start)
  BY TreeIsMade
<1>3. \/ c \in Registering
      \/ /\ c \in Finding \union Setting
         /\ DOMAIN tree # {} /\ node[c.on] # NoNode
         /\ c \in Finding => Home(c.on) \o c.path \in Paths
  BY <1>1 DEF IInv, CallsFit, Idle
<1>4. /\ c \in Registering => c.op \in {"register", "root"} /\ c.on \in Loggers
      /\ c \in Finding => c.op = "find" /\ c.on \in Objects
      /\ c \in Setting => c.op \in {"level", "format", "writer"} /\ c.on \in Objects
  <2> HIDE DEF c
  <2> QED
    BY DEF Registering, Finding, Setting
<1>5. Start.node = node /\ Start.refs = refs
  BY DEF Start
<1>6. ASSUME c \notin Registering
      PROVE  s = Start /\ node[c.on] = Home(c.on) /\ Home(c.on) \in DOMAIN s.tree
  <2>1. s = Start /\ node[c.on] # NoNode /\ c.on \in Objects
    BY <1>2, <1>3, <1>4, <1>6
  <2> QED
    BY <1>2, <1>5, <2>1 DEF Rooted, Sound
<1>7. ASSUME NEW r, Rooted(r), Counted(r), At(r) = At(s), Keeps(s, r), Become(r), Asked = NoChange
      PROVE  IInv' /\ Asked' = NoChange /\ Changes(Holds, Holds')
  <2>1. Keeps(Start, r)
    BY <1>2, <1>7 DEF Keeps
  <2>2. IInv' /\ Holds' = At(r) /\ Asked' = NoChange
    BY <1>1, <1>7, <2>1, BodyLeaves
  <2> QED
    BY <1>2, <1>7, <2>2 DEF Changes
<1>8. ASSUME NEW r, Rooted(r), Counted(r), Keeps(s, r), Become(r),
             NEW f \in {"level", "format", "writer"}, NEW v,
             At(r) = Promise!Set(At(s), node[c.on], f, v),
             Asked = [path |-> node[c.on], field |-> f, value |-> v]
      PROVE  IInv' /\ Asked' = NoChange /\ Changes(Holds, Holds')
  <2>1. Keeps(Start, r)
    BY <1>2, <1>8 DEF Keeps
  <2>2. IInv' /\ Holds' = At(r) /\ Asked' = NoChange
    BY <1>1, <1>8, <2>1, BodyLeaves
  <2>3. Asked.path = node[c.on] /\ Asked.field = f /\ Asked.value = v
    BY <1>8
  <2>4. Asked # NoChange
    BY <2>3 DEF NoChange
  <2> QED
    BY <1>2, <1>8, <2>2, <2>3, <2>4 DEF Changes
<1>9. /\ c.op = "writer" /\ c.to /\ Len(refs) < MaxWriters =>
            Asked = [path |-> node[c.on], field |-> "writer", value |-> Len(refs) + 1]
      /\ c.op \in {"level", "format"} => Asked = [path |-> node[c.on], field |-> c.op, value |-> c.to]
      /\ c.op \notin {"level", "format"} /\ ~(c.op = "writer" /\ c.to /\ Len(refs) < MaxWriters) => Asked = NoChange
  BY <1>1, AskedIs
<1> HIDE DEF s, c
<1>10. CASE c.op = "root" /\ Become(s)
  <2>1. Keeps(s, s)
    BY DEF Keeps
  <2> QED
    BY <1>2, <1>7, <1>9, <1>10, <2>1
<1>11. CASE c.op = "register" /\ Become(Registered(s, c.on))
  <2>1. c.on \in Loggers
    BY <1>3, <1>4, <1>11
  <2> DEFINE r == Registered(s, c.on)
  <2>2. Rooted(r) /\ Counted(r) /\ At(r) = At(s) /\ Keeps(s, r)
    BY <1>2, <2>1, LoggerIsRegistered
  <2> HIDE DEF r
  <2>3. Become(r) /\ Asked = NoChange
    BY <1>9, <1>11 DEF r
  <2> QED
    BY <1>7, <2>2, <2>3
<1>12. CASE c.op = "find" /\ Become(WithPath(s, node[c.on] \o c.path))
  <2> DEFINE p == node[c.on] \o c.path
             r == WithPath(s, p)
  <2>1. c \in Finding /\ c \notin Registering
    BY <1>3, <1>4, <1>12
  <2>2. p \in Paths
    BY <1>3, <1>6, <2>1
  <2> HIDE DEF p
  <2>3. Rooted(r) /\ Counted(r) /\ At(r) = At(s) /\ Keeps(s, r)
    BY <1>2, <2>2, PathIsMade
  <2> HIDE DEF r
  <2>4. Become(r) /\ Asked = NoChange
    BY <1>9, <1>12 DEF p, r
  <2> QED
    BY <1>7, <2>3, <2>4
<1>13. CASE c.op = "level" /\ Become(WithLevel(s, node[c.on], c.to))
  <2> DEFINE p == node[c.on]
             v == c.to
             r == WithLevel(s, p, v)
  <2>1. p \in DOMAIN s.tree
    BY <1>4, <1>6, <1>13
  <2> HIDE DEF p, v
  <2>2. Rooted(r) /\ Counted(r) /\ Keeps(s, r) /\ At(r) = Promise!Set(At(s), p, "level", v)
    BY <1>2, <2>1, LevelIsSet
  <2> HIDE DEF r
  <2>3. Become(r) /\ Asked = [path |-> p, field |-> "level", value |-> v]
    BY <1>9, <1>13 DEF p, v, r
  <2> QED
    BY <1>8, <2>2, <2>3 DEF p
<1>14. CASE c.op = "format" /\ Become(WithFormat(s, node[c.on], c.to))
  <2> DEFINE p == node[c.on]
             v == c.to
             r == WithFormat(s, p, v)
  <2>1. p \in DOMAIN s.tree
    BY <1>4, <1>6, <1>14
  <2> HIDE DEF p, v
  <2>2. Rooted(r) /\ Counted(r) /\ Keeps(s, r) /\ At(r) = Promise!Set(At(s), p, "format", v)
    BY <1>2, <2>1, FormatIsSet
  <2> HIDE DEF r
  <2>3. Become(r) /\ Asked = [path |-> p, field |-> "format", value |-> v]
    BY <1>9, <1>14 DEF p, v, r
  <2> QED
    BY <1>8, <2>2, <2>3 DEF p
<1>15. CASE c.op = "writer" /\ c.to /\ Len(refs) < MaxWriters /\ Become(WithWriter(s, node[c.on]))
  <2> DEFINE p == node[c.on]
             r == WithWriter(s, p)
  <2>1. p \in DOMAIN s.tree /\ s.refs = refs
    BY <1>4, <1>5, <1>6, <1>15
  <2> HIDE DEF p
  <2>2. Rooted(r) /\ Counted(r) /\ Keeps(s, r) /\ At(r) = Promise!Set(At(s), p, "writer", Len(refs) + 1)
    BY <1>2, <2>1, WriterIsSet
  <2> HIDE DEF r
  <2>3. Become(r) /\ Asked = [path |-> p, field |-> "writer", value |-> Len(refs) + 1]
    BY <1>9, <1>15 DEF p, r
  <2> QED
    BY <1>8, <2>2, <2>3 DEF p
<1>16. CASE c.op = "writer" /\ (~c.to \/ Len(refs) >= MaxWriters) /\ Become(Start)
  <2>1. Keeps(s, s)
    BY DEF Keeps
  <2>2. s = Start
    BY <1>4, <1>6, <1>16
  <2>3. Asked = NoChange
    <3>1. Len(refs) \in Nat /\ MaxWriters \in Nat
      BY <1>2, <1>5, <2>2, ThreadsAssumption DEF Rooted, Sound
    <3> QED
      BY <1>9, <1>16, <3>1
  <2>4. Become(s)
    BY <1>16, <2>2
  <2> QED
    BY <1>2, <1>7, <2>1, <2>3, <2>4
<1> QED
  BY <1>1, <1>10, <1>11, <1>12, <1>13, <1>14, <1>15, <1>16 DEF c, s

\* A write reads and changes nothing.
LEMMA WriteFits ==
  ASSUME IInv, NEW t \in Threads, Test(t) \/ Write(t)
  PROVE  IInv'
<1>1. /\ pc[t].at \in {"test", "write"}
      /\ UNCHANGED <<tree, level, node, refs, locked>> /\ UNCHANGED Start
      /\ \E c : pc' = [pc EXCEPT ![t] = c] /\ (c = Idle \/ c.at = "write")
  BY DEF Test, Write, Start
<1>2. CallsFit /\ LockFits /\ TreeInv(Start)
  BY DEF IInv
<1>3. PICK c : pc' = [pc EXCEPT ![t] = c] /\ (c = Idle \/ c.at = "write")
  BY <1>1
<1>4. pc'[t] = c /\ pc' = [u \in Threads |-> pc'[u]] /\ \A u \in Threads : u # t => pc'[u] = pc[u]
  BY <1>2, <1>3 DEF CallsFit
<1>5. CallsFit'
  <2>1. ASSUME NEW u \in Threads
        PROVE  \/ pc'[u] = Idle \/ pc'[u].at \in {"test", "write"} \/ pc'[u] \in Registering
               \/ /\ pc'[u] \in Finding \union Setting
                  /\ DOMAIN tree # {} /\ node[pc'[u].on] # NoNode
                  /\ pc'[u] \in Finding => Home(pc'[u].on) \o pc'[u].path \in Paths
    BY <1>2, <1>3, <1>4 DEF CallsFit
  <2> QED
    BY <1>1, <1>4, <2>1 DEF CallsFit, Registering, Finding, Setting, Home, Objects, Idle
<1>6. LockFits'
  BY <1>1, <1>2, <1>4 DEF LockFits
<1> QED
  BY <1>1, <1>2, <1>5, <1>6 DEF IInv

LEMMA InvariantKept == IInv /\ [Next]_vars => IInv'
<1> SUFFICES ASSUME IInv, [Next]_vars PROVE IInv'
  OBVIOUS
<1>1. CASE UNCHANGED vars
  <2>1. UNCHANGED <<tree, level, node, refs, locked, pc>> /\ UNCHANGED Start
    BY <1>1 DEF vars, Start
  <2> QED
    BY <2>1 DEF IInv, TreeInv, CallsFit, LockFits, Registering, Finding, Setting, Home, Objects, Idle
<1>2. CASE Next
  <2>1. PICK t \in Threads : \/ CallRegister(t) \/ CallRoot(t) \/ CallFind(t) \/ CallSet(t) \/ CallWrite(t)
                             \/ Lock(t) \/ Body(t) \/ Test(t) \/ Write(t)
    BY <1>2 DEF Next, Step
  <2> QED
    BY <2>1, ClientCallFits, LockIsTaken, BodyDoes, WriteFits
<1> QED
  BY <1>1, <1>2

LEMMA InvariantHolds == Spec => []IInv
<1> QED
  BY NothingIsUsed, InvariantKept, PTL DEF Spec

\* However many threads register loggers and set writers, a writer's count is the
\* number of nodes that share it (set_log_writer, addNode), so that it is closed
\* with the last of them.
THEOREM WritersStayCounted == Spec => []WritersCounted
<1>1. IInv => WritersCounted
  <2> SUFFICES ASSUME IInv PROVE WritersCounted
    OBVIOUS
  <2>1. Counted(Start) /\ Start.tree = tree /\ Start.refs = refs
    BY DEF IInv, TreeInv, Start
  <2> QED
    BY <2>1 DEF Counted, Users, WritersCounted
<1> QED
  BY <1>1, InvariantHolds, PTL

-----------------------------------------------------------------------------
(* The tree of loggers implements Settings                                 *)

\* A step that leaves the tree and the holder of the lock alone shows nothing.
LEMMA QuietSteps ==
  ASSUME IInv, UNCHANGED <<tree, level, node, refs, locked>>,
         locked # Nobody => pc'[locked] = pc[locked]
  PROVE  Holds' = Holds /\ Asked' = Asked
<1>1. Holds' = Holds
  BY DEF Holds, Initially, Nearest
<1>2. Asked' = Asked
  <2>1. CASE locked = Nobody
    BY <2>1 DEF Asked, NoChange
  <2>2. CASE locked # Nobody
    <3>1. pc'[locked'] = pc[locked]
      BY <2>2
    <3> QED
      BY <2>2, <3>1 DEF Asked, NoChange
  <2> QED
    BY <2>1, <2>2
<1> QED
  BY <1>1, <1>2

LEMMA StepsAreSettings ==
  ASSUME IInv, [Next]_vars
  PROVE  [Promise!Next]_<<Holds, Asked>>
<1>1. CASE UNCHANGED vars
  BY <1>1, QuietSteps DEF vars
<1>2. ASSUME NEW t \in Threads, UNCHANGED <<tree, level, node, refs, locked>>, pc[t].at # "body",
             NEW c, pc' = [pc EXCEPT ![t] = c]
      PROVE  [Promise!Next]_<<Holds, Asked>>
  <2>1. locked # Nobody => locked \in Threads /\ locked # t
    BY <1>2 DEF IInv, LockFits
  <2>2. locked # Nobody => pc'[locked] = pc[locked]
    BY <1>2, <2>1 DEF IInv, CallsFit
  <2> QED
    BY <1>2, <2>2, QuietSteps
<1>3. ASSUME NEW t \in Threads, NEW c, Enter(t, c) PROVE [Promise!Next]_<<Holds, Asked>>
  <2>1. pc[t].at # "body" /\ pc' = [pc EXCEPT ![t] = c] /\ UNCHANGED <<tree, level, node, refs, locked>>
    BY <1>3 DEF Enter, Idle
  <2> QED
    BY <1>2, <2>1
<1>4. ASSUME NEW t \in Threads, Test(t) \/ Write(t) PROVE [Promise!Next]_<<Holds, Asked>>
  <2>1. PICK c : pc' = [pc EXCEPT ![t] = c]
    BY <1>4 DEF Test, Write
  <2>2. pc[t].at # "body" /\ UNCHANGED <<tree, level, node, refs, locked>>
    BY <1>4 DEF Test, Write
  <2> QED
    BY <1>2, <2>1, <2>2
<1>5. ASSUME NEW t \in Threads, Lock(t) PROVE [Promise!Next]_<<Holds, Asked>>
  <2>1. locked = Nobody /\ UNCHANGED <<tree, level>>
    BY <1>5 DEF Lock
  <2>2. Asked = NoChange
    BY <2>1 DEF Asked
  <2>3. Holds' = Holds
    BY <2>1 DEF Holds, Initially, Nearest
  <2> QED
    BY <2>2, <2>3 DEF Promise!Next, Promise!Ask
<1>6. ASSUME NEW t \in Threads, Body(t) PROVE [Promise!Next]_<<Holds, Asked>>
  <2>1. Asked' = NoChange /\ Changes(Holds, Holds')
    BY <1>6, BodyDoes
  <2> QED
    BY <2>1 DEF Changes, Promise!Next, Promise!Do
<1>7. CASE Next
  <2>1. PICK t \in Threads : \/ CallRegister(t) \/ CallRoot(t) \/ CallFind(t) \/ CallSet(t) \/ CallWrite(t)
                             \/ Lock(t) \/ Body(t) \/ Test(t) \/ Write(t)
    BY <1>7 DEF Next, Step
  <2>2. CallRegister(t) \/ CallRoot(t) \/ CallFind(t) \/ CallSet(t) \/ CallWrite(t) => \E c : Enter(t, c)
    BY ClientCallFits
  <2> QED
    BY <1>3, <1>4, <1>5, <1>6, <2>1, <2>2
<1> QED
  BY <1>1, <1>7

\* Whatever is registered, found or replaced by any thread in between, what is set
\* at a logger holds at its path and below (node_setLevel, node_setWriter,
\* node_setFormatter, addNode) until it is set again.
THEOREM TreeIsSettings == Spec => ImplementsSettings
<1>1. Init => Promise!Init
  <2> SUFFICES ASSUME Init PROVE Promise!Init
    OBVIOUS
  <2>1. DOMAIN tree = {} /\ locked = Nobody
    BY DEF Init
  <2>2. Holds = [p \in Paths |-> Initially]
    BY <2>1 DEF Holds
  <2>3. Asked = NoChange
    BY <2>1 DEF Asked
  <2> QED
    BY <2>2, <2>3 DEF Promise!Init
<1>2. IInv /\ [Next]_vars => [Promise!Next]_<<Holds, Asked>>
  BY StepsAreSettings
<1> QED
  BY <1>1, <1>2, InvariantHolds, PTL DEF Spec, ImplementsSettings, Promise!Spec
=============================================================================
