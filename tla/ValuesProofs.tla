---------------------------- MODULE ValuesProofs -----------------------------
(***************************************************************************)
(* The array and the list are sequences to their clients, for any items    *)
(* and capacities, and their items stay inside the block; a string is a    *)
(* text to its clients, for any texts they give.                           *)
(*                                                                         *)
(* The functions of the block (add, insert, delete, setLength) are looked  *)
(* at one by one: each leaves a block that is as large as its capacity     *)
(* says (Block), and the items in use (Used) are then those that the       *)
(* operation on sequences gives.                                           *)
(*                                                                         *)
(* For strings, first the functions that compare and search, on any two    *)
(* texts; then the string as a record (IsString), the few ways in which    *)
(* calls change one (Put, Change, InPlace), and each call by one of them.  *)
(*                                                                         *)
(* A map is a stack of values under every key, for any maps, keys and      *)
(* values: the values under a key are gathered along the array, so that a  *)
(* call is followed through what lies before the entry it finds, the entry *)
(* and what lies behind it.                                                *)
(***************************************************************************)
EXTENDS MCValues, SequenceTheorems, WellFoundedInduction, TLAPS

-----------------------------------------------------------------------------
(* The block of an array or a list                                         *)

IsBlock(v) ==
  /\ v = V!Vec(v.mem, v.capacity, v.length)
  /\ v.capacity \in Nat /\ v.length \in 0 .. v.capacity
  /\ v.mem = [i \in 0 .. v.capacity - 1 |-> v.mem[i]]

LEMMA FreshIsBlock ==
  ASSUME NEW c \in Nat, NEW e, NEW n \in 0 .. c
  PROVE  /\ IsBlock(V!Fresh(c, e, n))
         /\ V!Fresh(c, e, n).length = n
BY DEF IsBlock, V!Fresh, V!Vec

\* A block that grows keeps what it holds.
LEMMA GrownIsBlock ==
  ASSUME NEW v, IsBlock(v), NEW c \in Nat, v.capacity <= c
  PROVE  /\ IsBlock(V!Grown(v, c))
         /\ V!Grown(v, c).capacity = c /\ V!Grown(v, c).length = v.length
         /\ \A i \in 0 .. v.capacity - 1 : V!Grown(v, c).mem[i] = v.mem[i]
BY DEF IsBlock, V!Grown, V!Vec

LEMMA RoomForOne ==
  ASSUME NEW v, IsBlock(v)
  PROVE  /\ IsBlock(V!Room(v)) /\ v.length < V!Room(v).capacity /\ V!Room(v).length = v.length
         /\ \A i \in 0 .. v.length - 1 : V!Room(v).mem[i] = v.mem[i]
<1>0. v.capacity \in Nat /\ v.length \in Nat /\ v.length <= v.capacity
  BY DEF IsBlock
<1>1. CASE v.length < v.capacity
  BY <1>0, <1>1 DEF V!Room
<1>2. CASE ~(v.length < v.capacity)
  <2> DEFINE c == IF v.capacity > 0 THEN v.capacity \div 2 + 1 + v.length ELSE 12
  <2>1. v.length = v.capacity /\ V!Room(v) = V!Grown(v, c)
    BY <1>0, <1>2 DEF V!Room
  <2>2. v.capacity \div 2 \in Nat
    BY <1>0
  <2>3. c \in Nat /\ v.length < c
    BY <1>0, <2>1, <2>2
  <2> HIDE DEF c
  <2>4. v.capacity <= c
    BY <1>0, <2>1, <2>3
  <2>5. /\ IsBlock(V!Grown(v, c)) /\ V!Grown(v, c).capacity = c /\ V!Grown(v, c).length = v.length
        /\ \A i \in 0 .. v.capacity - 1 : V!Grown(v, c).mem[i] = v.mem[i]
    BY <2>3, <2>4, GrownIsBlock
  <2> QED
    BY <2>1, <2>3, <2>5
<1> QED
  BY <1>1, <1>2

\* A place that is written, with the length set so that it lies before its end.
LEMMA WrittenIsBlock ==
  ASSUME NEW v, IsBlock(v), NEW i \in 0 .. v.capacity - 1, NEW e, NEW n \in 0 .. v.capacity
  PROVE  /\ IsBlock(V!Written(v, i, e, n)) /\ V!Written(v, i, e, n).length = n
         /\ \A j \in 0 .. v.capacity - 1 :
              V!Written(v, i, e, n).mem[j] = IF j = i THEN e ELSE v.mem[j]
BY DEF IsBlock, V!Written, V!Vec

LEMMA AddedIs ==
  ASSUME NEW v, IsBlock(v), NEW e
  PROVE  /\ IsBlock(V!Added(v, e)) /\ V!Added(v, e).length = v.length + 1
         /\ \A j \in 0 .. v.length :
              V!Added(v, e).mem[j] = IF j = v.length THEN e ELSE v.mem[j]
<1> DEFINE r == V!Room(v)
<1>0. v.length \in Nat
  BY DEF IsBlock
<1>1. /\ IsBlock(r) /\ v.length < r.capacity
      /\ \A i \in 0 .. v.length - 1 : r.mem[i] = v.mem[i]
  BY RoomForOne
<1>2. V!Added(v, e) = V!Written(r, v.length, e, v.length + 1)
  BY DEF V!Added
<1> HIDE DEF r
<1>3. v.length \in 0 .. r.capacity - 1 /\ v.length + 1 \in 0 .. r.capacity /\ r.capacity \in Nat
  BY <1>0, <1>1 DEF IsBlock
<1>4. /\ IsBlock(V!Added(v, e)) /\ V!Added(v, e).length = v.length + 1
      /\ \A j \in 0 .. r.capacity - 1 : V!Added(v, e).mem[j] = IF j = v.length THEN e ELSE r.mem[j]
  BY <1>1, <1>2, <1>3, WrittenIsBlock
<1>5. \A j \in 0 .. v.length : j \in 0 .. r.capacity - 1 /\ (j # v.length => j \in 0 .. v.length - 1)
  BY <1>0, <1>3
<1> QED
  BY <1>1, <1>4, <1>5

LEMMA InsertedIs ==
  ASSUME NEW v, IsBlock(v), NEW i \in Nat, NEW e
  PROVE  LET n == V!Inserted(v, i, e)
         IN  /\ IsBlock(n) /\ n.length = (IF i < v.length THEN v.length ELSE i) + 1
             /\ \A j \in 0 .. n.length - 1 :
                  (j < v.length \/ i <= j) =>
                    n.mem[j] = IF j < i THEN v.mem[j] ELSE IF j = i THEN e ELSE v.mem[j - 1]
<1> DEFINE k == IF i < v.length THEN v.length ELSE i
           c == (IF v.capacity > 0 THEN v.capacity ELSE k) \div 2 + 1 + k
           r == IF k < v.capacity THEN v ELSE V!Grown(v, c)
           moved == [j \in DOMAIN r.mem |-> IF j \in i + 1 .. v.length THEN r.mem[j - 1] ELSE r.mem[j]]
           m == V!Vec(moved, r.capacity, 0)
<1>0. v.length \in Nat /\ v.capacity \in Nat /\ v.length <= v.capacity /\ k \in Nat
      /\ v.length <= k /\ i <= k /\ (k = i \/ k = v.length)
  BY DEF IsBlock
<1>1. V!Inserted(v, i, e) = V!Written(m, i, e, k + 1)
  BY DEF V!Inserted
<1>2. /\ IsBlock(r) /\ k < r.capacity
      /\ \A j \in 0 .. v.capacity - 1 : r.mem[j] = v.mem[j]
  <2>1. CASE k < v.capacity
    BY <2>1
  <2>2. CASE ~(k < v.capacity)
    <3> HIDE DEF k
    <3>1. (IF v.capacity > 0 THEN v.capacity ELSE k) \div 2 \in Nat
      BY <1>0
    <3>2. c \in Nat /\ k < c
      BY <1>0, <3>1
    <3>3. v.capacity <= c
      BY <1>0, <2>2, <3>2
    <3> HIDE DEF c
    <3>4. r = V!Grown(v, c)
      BY <2>2
    <3> QED
      BY <3>2, <3>3, <3>4, GrownIsBlock
  <2> QED
    BY <2>1, <2>2
<1> HIDE DEF r, k
<1>3. r.capacity \in Nat /\ DOMAIN r.mem = 0 .. r.capacity - 1
  BY <1>2 DEF IsBlock
<1>4. /\ IsBlock(m) /\ m.capacity = r.capacity
      /\ \A j \in 0 .. r.capacity - 1 :
           m.mem[j] = IF j \in i + 1 .. v.length THEN r.mem[j - 1] ELSE r.mem[j]
  BY <1>3 DEF IsBlock, V!Vec
<1> HIDE DEF m
<1>5. i \in 0 .. m.capacity - 1 /\ k + 1 \in 0 .. m.capacity
  BY <1>0, <1>2, <1>3, <1>4
<1> DEFINE n == V!Written(m, i, e, k + 1)
<1>6. /\ IsBlock(n) /\ n.length = k + 1
      /\ \A j \in 0 .. m.capacity - 1 : n.mem[j] = IF j = i THEN e ELSE m.mem[j]
  BY <1>4, <1>5, WrittenIsBlock
<1> HIDE DEF n
<1>7. ASSUME NEW j \in 0 .. k, j < v.length \/ i <= j
      PROVE  n.mem[j] = IF j < i THEN v.mem[j] ELSE IF j = i THEN e ELSE v.mem[j - 1]
  <2>0. j \in 0 .. r.capacity - 1
    BY <1>0, <1>2, <1>3
  <2>1. CASE j = i
    BY <1>4, <1>6, <2>0, <2>1
  <2>2. CASE j # i /\ j \in i + 1 .. v.length
    <3>1. j - 1 \in 0 .. v.capacity - 1 /\ ~(j < i)
      BY <1>0, <2>2
    <3> QED
      BY <1>2, <1>4, <1>6, <2>0, <2>2, <3>1
  <2>3. CASE j # i /\ j \notin i + 1 .. v.length
    <3>1. j < i /\ j \in 0 .. v.capacity - 1
      BY <1>0, <1>7, <2>3
    <3> QED
      BY <1>2, <1>4, <1>6, <2>0, <2>3, <3>1
  <2> QED
    BY <2>1, <2>2, <2>3
<1>8. n.length - 1 = k
  BY <1>0, <1>6
<1>9. V!Inserted(v, i, e) = n
  BY <1>1 DEF n
<1>10. n.length = (IF i < v.length THEN v.length ELSE i) + 1
  BY <1>6 DEF k
<1>11. \A j \in 0 .. n.length - 1 :
         (j < v.length \/ i <= j) =>
           n.mem[j] = IF j < i THEN v.mem[j] ELSE IF j = i THEN e ELSE v.mem[j - 1]
  BY <1>7, <1>8
<1> QED
  BY <1>6, <1>9, <1>10, <1>11, Zenon

LEMMA DeletedIs ==
  ASSUME NEW v, IsBlock(v), NEW i \in Nat, i < v.length
  PROVE  /\ IsBlock(V!Deleted(v, i)) /\ V!Deleted(v, i).length = v.length - 1
         /\ \A j \in 0 .. v.length - 2 :
              V!Deleted(v, i).mem[j] = IF j < i THEN v.mem[j] ELSE v.mem[j + 1]
<1>0. /\ v.length \in Nat /\ v.capacity \in Nat /\ v.length <= v.capacity
      /\ DOMAIN v.mem = 0 .. v.capacity - 1
  BY DEF IsBlock
<1> DEFINE mem == [j \in DOMAIN v.mem |->
                     IF j \in i .. v.length - 2 THEN v.mem[j + 1]
                     ELSE IF j = v.length - 1 /\ kind = "list" THEN Null ELSE v.mem[j]]
           n == V!Vec(mem, v.capacity, v.length - 1)
<1>1. V!Deleted(v, i) = n
  BY DEF V!Deleted
<1>2. ASSUME NEW j \in 0 .. v.length - 2 PROVE mem[j] = IF j < i THEN v.mem[j] ELSE v.mem[j + 1]
  <2>1. j \in DOMAIN v.mem /\ j # v.length - 1 /\ (j < i <=> j \notin i .. v.length - 2)
    BY <1>0
  <2> QED
    BY <2>1
<1>3. mem = [j \in 0 .. v.capacity - 1 |-> mem[j]]
  BY <1>0
<1> HIDE DEF mem
<1>4. IsBlock(n) /\ n.length = v.length - 1 /\ n.mem = mem
  BY <1>0, <1>3 DEF IsBlock, V!Vec
<1> QED
  BY <1>1, <1>2, <1>4

LEMMA LengthenedIs ==
  ASSUME NEW v, IsBlock(v), NEW n \in Nat, v.length < n
  PROVE  /\ IsBlock(V!Lengthened(v, n)) /\ V!Lengthened(v, n).length = n
         /\ \A j \in 0 .. n - 1 :
              V!Lengthened(v, n).mem[j] = IF j < v.length THEN v.mem[j] ELSE Null
<1> DEFINE c == n \div 2 + 1 + n
           r == IF n > v.capacity THEN V!Grown(v, c) ELSE v
           mem == [i \in DOMAIN r.mem |-> IF i \in v.length .. n - 1 THEN Null ELSE r.mem[i]]
           m == V!Vec(mem, r.capacity, n)
<1>0. v.length \in Nat /\ v.capacity \in Nat /\ v.length <= v.capacity /\ n \div 2 \in Nat
  BY DEF IsBlock
<1>1. V!Lengthened(v, n) = m
  BY DEF V!Lengthened
<1>2. c \in Nat /\ n <= c
  BY <1>0
<1> HIDE DEF c
<1>3. /\ IsBlock(r) /\ n <= r.capacity
      /\ \A j \in 0 .. v.capacity - 1 : r.mem[j] = v.mem[j]
  <2>1. CASE n > v.capacity
    <3>1. r = V!Grown(v, c) /\ v.capacity <= c
      BY <1>0, <1>2, <2>1
    <3> QED
      BY <1>2, <3>1, GrownIsBlock
  <2>2. CASE ~(n > v.capacity)
    BY <1>0, <2>2
  <2> QED
    BY <2>1, <2>2
<1> HIDE DEF r
<1>4. r.capacity \in Nat /\ DOMAIN r.mem = 0 .. r.capacity - 1
  BY <1>3 DEF IsBlock
<1>5. mem = [j \in 0 .. r.capacity - 1 |-> mem[j]]
  BY <1>4
<1>6. ASSUME NEW j \in 0 .. n - 1 PROVE mem[j] = IF j < v.length THEN v.mem[j] ELSE Null
  <2>1. j \in 0 .. r.capacity - 1
    BY <1>3, <1>4
  <2>2. CASE j < v.length
    <3>1. j \in 0 .. v.capacity - 1 /\ j \notin v.length .. n - 1
      BY <1>0, <2>2
    <3> QED
      BY <1>3, <1>4, <2>1, <2>2, <3>1
  <2>3. CASE ~(j < v.length)
    <3>1. j \in v.length .. n - 1
      BY <1>0, <2>3
    <3> QED
      BY <1>4, <2>1, <2>3, <3>1
  <2> QED
    BY <2>2, <2>3
<1> HIDE DEF mem
<1>7. IsBlock(m) /\ m.length = n /\ m.mem = mem
  BY <1>3, <1>4, <1>5 DEF IsBlock, V!Vec
<1> QED
  BY <1>1, <1>6, <1>7

LEMMA CutIs ==
  ASSUME NEW v, IsBlock(v), NEW n \in Nat, n <= v.length
  PROVE  /\ IsBlock(V!Vec(v.mem, v.capacity, n)) /\ V!Vec(v.mem, v.capacity, n).length = n
         /\ V!Vec(v.mem, v.capacity, n).mem = v.mem
BY DEF IsBlock, V!Vec

-----------------------------------------------------------------------------
(* Sequences, item by item                                                 *)

LEMMA InsertIs ==
  ASSUME NEW U, NEW s \in Seq(U), NEW t \in Seq(U), NEW i \in 1 .. Len(s), NEW e \in U,
         Len(t) = Len(s) + 1,
         \A j \in 1 .. Len(s) + 1 : t[j] = IF j < i THEN s[j] ELSE IF j = i THEN e ELSE s[j - 1]
  PROVE  t = V!Promise!InsertAt(s, i, e)
<1> DEFINE before == SubSeq(s, 1, i - 1)
           after == SubSeq(s, i, Len(s))
           mid == before \o <<e>>
           r == mid \o after
<1>0. Len(s) \in Nat /\ i - 1 \in Nat
  OBVIOUS
<1>1. /\ before \in Seq(U) /\ Len(before) = i - 1
      /\ \A j \in 1 .. i - 1 : before[j] = s[j]
  BY SubSeqProperties
<1>2. /\ after \in Seq(U) /\ Len(after) = Len(s) - i + 1
      /\ \A j \in 1 .. Len(s) - i + 1 : after[j] = s[i + j - 1]
  BY SubSeqProperties
<1>3. /\ <<e>> \in Seq(U) /\ Len(<<e>>) = 1 /\ <<e>>[1] = e
  OBVIOUS
<1> HIDE DEF before, after
<1>4. /\ mid \in Seq(U) /\ Len(mid) = i
      /\ \A j \in 1 .. i : mid[j] = IF j < i THEN s[j] ELSE e
  <2>1. /\ mid \in Seq(U) /\ Len(mid) = Len(before) + Len(<<e>>)
        /\ \A j \in 1 .. Len(before) + Len(<<e>>) :
             mid[j] = IF j <= Len(before) THEN before[j] ELSE <<e>>[j - Len(before)]
    BY <1>1, <1>3, ConcatProperties
  <2>2. Len(before) + Len(<<e>>) = i
    BY <1>0, <1>1, <1>3
  <2> HIDE DEF mid
  <2>3. ASSUME NEW j \in 1 .. i PROVE mid[j] = IF j < i THEN s[j] ELSE e
    <3>1. CASE j < i
      BY <1>1, <2>1, <2>2, <3>1
    <3>2. CASE ~(j < i)
      <4>1. ~(j <= Len(before)) /\ j - Len(before) = 1
        BY <1>0, <1>1, <3>2
      <4> QED
        BY <1>3, <2>1, <2>2, <3>2, <4>1
    <3> QED
      BY <3>1, <3>2
  <2> QED
    BY <2>1, <2>2, <2>3
<1> HIDE DEF mid
<1>5. /\ r \in Seq(U) /\ Len(r) = i + (Len(s) - i + 1)
      /\ \A j \in 1 .. i + (Len(s) - i + 1) :
           r[j] = IF j <= i THEN mid[j] ELSE after[j - i]
  <2>1. /\ r \in Seq(U) /\ Len(r) = Len(mid) + Len(after)
        /\ \A j \in 1 .. Len(mid) + Len(after) :
             r[j] = IF j <= Len(mid) THEN mid[j] ELSE after[j - Len(mid)]
    BY <1>2, <1>4, ConcatProperties
  <2> HIDE DEF r
  <2> QED
    BY <1>2, <1>4, <2>1
<1>6. i + (Len(s) - i + 1) = Len(s) + 1
  BY <1>0
<1> HIDE DEF r
<1>7. ASSUME NEW j \in 1 .. Len(s) + 1 PROVE t[j] = r[j]
  <2>1. CASE j < i
    BY <1>4, <1>5, <1>6, <2>1
  <2>2. CASE j = i
    BY <1>4, <1>5, <1>6, <2>2
  <2>3. CASE j > i
    <3>1. j - i \in 1 .. Len(s) - i + 1 /\ i + (j - i) - 1 = j - 1
      BY <1>0, <2>3
    <3>2. r[j] = after[j - i] /\ after[j - i] = s[j - 1]
      BY <1>2, <1>5, <1>6, <2>3, <3>1
    <3> QED
      BY <2>3, <3>2
  <2> QED
    BY <2>1, <2>2, <2>3
<1>8. t = r
  BY <1>5, <1>6, <1>7, SeqEqual
<1> QED
  BY <1>8 DEF r, mid, before, after, V!Promise!InsertAt

LEMMA RemoveIs ==
  ASSUME NEW U, NEW s \in Seq(U), NEW t \in Seq(U), NEW i \in 1 .. Len(s),
         Len(t) = Len(s) - 1,
         \A j \in 1 .. Len(s) - 1 : t[j] = IF j < i THEN s[j] ELSE s[j + 1]
  PROVE  t = V!Promise!RemoveAt(s, i)
<1> DEFINE before == SubSeq(s, 1, i - 1)
           after == SubSeq(s, i + 1, Len(s))
           r == before \o after
<1>0. Len(s) \in Nat /\ i - 1 \in Nat
  OBVIOUS
<1>1. /\ before \in Seq(U) /\ Len(before) = i - 1
      /\ \A j \in 1 .. i - 1 : before[j] = s[j]
  BY SubSeqProperties
<1>2. /\ after \in Seq(U) /\ Len(after) = Len(s) - i
      /\ \A j \in 1 .. Len(s) - i : after[j] = s[i + j]
  BY SubSeqProperties
<1> HIDE DEF before, after
<1>5. /\ r \in Seq(U) /\ Len(r) = (i - 1) + (Len(s) - i)
      /\ \A j \in 1 .. (i - 1) + (Len(s) - i) :
           r[j] = IF j <= i - 1 THEN before[j] ELSE after[j - (i - 1)]
  <2>1. /\ r \in Seq(U) /\ Len(r) = Len(before) + Len(after)
        /\ \A j \in 1 .. Len(before) + Len(after) :
             r[j] = IF j <= Len(before) THEN before[j] ELSE after[j - Len(before)]
    BY <1>1, <1>2, ConcatProperties
  <2> HIDE DEF r
  <2> QED
    BY <1>1, <1>2, <2>1
<1>6. (i - 1) + (Len(s) - i) = Len(s) - 1
  BY <1>0
<1> HIDE DEF r
<1>7. ASSUME NEW j \in 1 .. Len(s) - 1 PROVE t[j] = r[j]
  <2>1. CASE j < i
    BY <1>1, <1>5, <1>6, <2>1
  <2>2. CASE ~(j < i)
    <3>1. /\ j - (i - 1) \in 1 .. Len(s) - i /\ i + (j - (i - 1)) = j + 1
          /\ ~(j <= i - 1)
      BY <1>0, <2>2
    <3>2. r[j] = after[j - (i - 1)] /\ after[j - (i - 1)] = s[j + 1]
      BY <1>2, <1>5, <1>6, <3>1
    <3> QED
      BY <2>2, <3>2
  <2> QED
    BY <2>1, <2>2
<1>8. t = r
  BY <1>5, <1>6, <1>7, SeqEqual
<1> QED
  BY <1>8 DEF r, before, after, V!Promise!RemoveAt

LEMMA FirstIs ==
  ASSUME NEW U, NEW s \in Seq(U), NEW e
  PROVE  /\ ~(\E i \in 1 .. Len(s) : s[i] = e) => V!Promise!RemoveFirst(s, e) = s
         /\ \A i \in 1 .. Len(s) :
              s[i] = e /\ (\A j \in 1 .. i - 1 : s[j] # e) => V!Promise!RemoveFirst(s, e) = V!Promise!RemoveAt(s, i)
<1>1. ~(\E i \in 1 .. Len(s) : s[i] = e) => V!Promise!RemoveFirst(s, e) = s
  BY DEF V!Promise!RemoveFirst
<1>2. ASSUME NEW i \in 1 .. Len(s), s[i] = e, \A j \in 1 .. i - 1 : s[j] # e
      PROVE  V!Promise!RemoveFirst(s, e) = V!Promise!RemoveAt(s, i)
  <2> DEFINE I == {j \in 1 .. Len(s) : s[j] = e}
  <2>1. V!Promise!SelectInSeq(s, LAMBDA v : v = e) = IF I # {} THEN V!Promise!Min(I) ELSE 0
    BY DEF V!Promise!SelectInSeq
  <2>2. i \in I /\ \A j \in I : i <= j
    BY <1>2
  <2>3. V!Promise!Min(I) = i
    <3>1. \A k \in I : (\A j \in I : k <= j) => k = i
      BY <2>2
    <3> HIDE DEF I
    <3> QED
      BY <2>2, <3>1 DEF V!Promise!Min
  <2> QED
    BY <1>2, <2>1, <2>2, <2>3, Zenon DEF V!Promise!RemoveFirst
<1> QED
  BY <1>1, <1>2

-----------------------------------------------------------------------------
(* Arrays and lists                                                        *)

\* The items in use.
Used(v) == [i \in 1 .. v.length |-> v.mem[i - 1]]

\* The walk that is under way has met the items before its index.
WalkInv ==
  /\ index \in Nat /\ steady \in BOOLEAN
  /\ steady => index <= vec.length /\ seen = [i \in 1 .. index |-> vec.mem[i - 1]]

VectorInv == IsBlock(vec) /\ WalkInv

LEMMA ContentsAre == V!Contents = Used(vec) /\ V!Contents' = Used(vec')
BY DEF V!Contents, Used

LEMMA UsedIs ==
  ASSUME NEW v, IsBlock(v), NEW U, \A i \in 0 .. v.length - 1 : v.mem[i] \in U
  PROVE  /\ Used(v) \in Seq(U) /\ Len(Used(v)) = v.length
         /\ \A i \in 1 .. v.length : Used(v)[i] = v.mem[i - 1]
<1>1. v.length \in Nat
  BY DEF IsBlock
<1>2. \A i \in 1 .. v.length : i - 1 \in 0 .. v.length - 1
  BY <1>1
<1>3. \A i \in 1 .. v.length : v.mem[i - 1] \in U
  BY <1>2
<1> QED
  BY <1>1, <1>3 DEF Used

\* Two blocks with the same items in use are the same sequence.
LEMMA SameUsed ==
  ASSUME NEW v, NEW w, v.length \in Nat, w.length = v.length,
         \A i \in 0 .. v.length - 1 : w.mem[i] = v.mem[i]
  PROVE  Used(w) = Used(v)
<1>1. \A i \in 1 .. v.length : i - 1 \in 0 .. v.length - 1
  OBVIOUS
<1>2. \A i \in 1 .. v.length : w.mem[i - 1] = v.mem[i - 1]
  BY <1>1
<1> QED
  BY <1>2 DEF Used

\* All that the items of both blocks, an item and nothing are members of.
Both(v, w, e) == {v.mem[i] : i \in 0 .. v.length - 1} \cup {w.mem[i] : i \in 0 .. w.length - 1} \cup {e, Null}

LEMMA BothUsed ==
  ASSUME NEW v, NEW w, NEW e, IsBlock(v), IsBlock(w)
  PROVE  /\ Used(v) \in Seq(Both(v, w, e)) /\ Len(Used(v)) = v.length /\ v.length \in Nat
         /\ Used(w) \in Seq(Both(v, w, e)) /\ Len(Used(w)) = w.length /\ w.length \in Nat
         /\ \A i \in 1 .. v.length : Used(v)[i] = v.mem[i - 1]
         /\ \A i \in 1 .. w.length : Used(w)[i] = w.mem[i - 1]
         /\ e \in Both(v, w, e)
<1>1. /\ \A i \in 0 .. v.length - 1 : v.mem[i] \in Both(v, w, e)
      /\ \A i \in 0 .. w.length - 1 : w.mem[i] \in Both(v, w, e)
      /\ e \in Both(v, w, e)
  BY DEF Both
<1>2. v.length \in Nat /\ w.length \in Nat
  BY DEF IsBlock
<1> QED
  BY <1>1, <1>2, UsedIs

\* A set of numbers has a least one.
LEMMA LeastOfNat ==
  ASSUME NEW A, A \subseteq Nat, A # {}
  PROVE  \E i \in A : \A j \in A : i <= j
<1>1. IsWellFoundedOn(OpToRel(<, Nat), Nat)
  BY NatLessThanWellFounded
<1>2. PICK i \in A : \A j \in A : ~(<<j, i>> \in OpToRel(<, Nat))
  BY <1>1, WFMin
<1>3. \A j \in A : ~(j < i)
  BY <1>2 DEF OpToRel
<1> QED
  BY <1>3

LEMMA AddIsAdd ==
  ASSUME IsBlock(vec), NEW e, V!Add(e)
  PROVE  IsBlock(vec') /\ V!Promise!Add
<1>1. vec' = V!Added(vec, e) /\ vecRet' = V!Ret("add", 0, e, Null)
  BY DEF V!Add, V!Changed
<1>2. /\ IsBlock(vec') /\ vec'.length = vec.length + 1
      /\ \A j \in 0 .. vec.length : vec'.mem[j] = IF j = vec.length THEN e ELSE vec.mem[j]
  BY <1>1, AddedIs
<1> DEFINE U == Both(vec, vec', e)
<1>3. /\ Used(vec) \in Seq(U) /\ Len(Used(vec)) = vec.length /\ vec.length \in Nat
      /\ Used(vec') \in Seq(U) /\ Len(Used(vec')) = vec'.length
      /\ \A i \in 1 .. vec.length : Used(vec)[i] = vec.mem[i - 1]
      /\ \A i \in 1 .. vec'.length : Used(vec')[i] = vec'.mem[i - 1]
      /\ e \in U
  BY <1>2, BothUsed
<1> HIDE DEF U
<1>4. /\ Append(Used(vec), e) \in Seq(U) /\ Len(Append(Used(vec), e)) = vec.length + 1
      /\ \A i \in 1 .. vec.length + 1 :
           Append(Used(vec), e)[i] = IF i = vec.length + 1 THEN e ELSE Used(vec)[i]
  BY <1>3, AppendProperties
<1>5. ASSUME NEW i \in 1 .. vec.length + 1 PROVE Used(vec')[i] = Append(Used(vec), e)[i]
  <2>1. i - 1 \in 0 .. vec.length /\ (i - 1 = vec.length <=> i = vec.length + 1)
        /\ (i # vec.length + 1 => i \in 1 .. vec.length)
    BY <1>3
  <2> QED
    BY <1>2, <1>3, <1>4, <2>1
<1>6. Used(vec') = Append(Used(vec), e)
  <2>1. Len(Used(vec')) = vec.length + 1
    BY <1>2, <1>3
  <2> QED
    BY <1>3, <1>4, <1>5, <2>1, SeqEqual
<1>7. vecRet'.op = "add" /\ vecRet'.item = e
  BY <1>1 DEF V!Ret
<1> QED
  BY <1>2, <1>6, <1>7, ContentsAre DEF V!Promise!Add

LEMMA InsertIsInsert ==
  ASSUME IsBlock(vec), NEW i \in Nat, NEW e, V!Insert(i, e)
  PROVE  IsBlock(vec') /\ V!Promise!Insert
<1> DEFINE n == V!Inserted(vec, i, e)
<1>1. vec' = n /\ vecRet' = V!Ret("insert", i, e, Null)
  BY DEF V!Insert, V!Changed
<1>2. /\ IsBlock(n) /\ n.length = (IF i < vec.length THEN vec.length ELSE i) + 1
      /\ \A j \in 0 .. n.length - 1 :
           (j < vec.length \/ i <= j) =>
             n.mem[j] = IF j < i THEN vec.mem[j] ELSE IF j = i THEN e ELSE vec.mem[j - 1]
  BY InsertedIs
<1> DEFINE U == Both(vec, n, e)
<1>3. /\ Used(vec) \in Seq(U) /\ Len(Used(vec)) = vec.length /\ vec.length \in Nat
      /\ Used(n) \in Seq(U) /\ Len(Used(n)) = n.length
      /\ \A j \in 1 .. vec.length : Used(vec)[j] = vec.mem[j - 1]
      /\ \A j \in 1 .. n.length : Used(n)[j] = n.mem[j - 1]
      /\ e \in U
  BY <1>2, BothUsed
<1> HIDE DEF U, n
<1>4. vecRet'.op = "insert" /\ vecRet'.item = e /\ vecRet'.at = i
  BY <1>1 DEF V!Ret
<1>5. CASE i < vec.length
  <2>1. n.length = vec.length + 1 /\ i + 1 \in 1 .. Len(Used(vec))
    BY <1>2, <1>3, <1>5
  <2>2. ASSUME NEW j \in 1 .. vec.length + 1
        PROVE  Used(n)[j] = IF j < i + 1 THEN Used(vec)[j] ELSE IF j = i + 1 THEN e ELSE Used(vec)[j - 1]
    <3>1. /\ j - 1 \in 0 .. n.length - 1 /\ (j - 1 < vec.length \/ i <= j - 1)
          /\ (j < i + 1 <=> j - 1 < i) /\ (j = i + 1 <=> j - 1 = i)
          /\ (j < i + 1 => j \in 1 .. vec.length)
          /\ (~(j < i + 1) /\ j # i + 1 => j - 1 \in 1 .. vec.length)
      BY <1>3, <1>5, <2>1
    <3>2. Used(n)[j] = n.mem[j - 1]
      BY <1>3, <2>1
    <3>3. n.mem[j - 1] = IF j - 1 < i THEN vec.mem[j - 1] ELSE IF j - 1 = i THEN e ELSE vec.mem[j - 1 - 1]
      BY <1>2, <3>1
    <3> QED
      BY <1>3, <3>1, <3>2, <3>3
  <2>3. Used(n) = V!Promise!InsertAt(Used(vec), i + 1, e)
    BY <1>3, <2>1, <2>2, InsertIs
  <2> QED
    BY <1>1, <1>2, <1>3, <1>4, <1>5, <2>3, ContentsAre DEF V!Promise!Insert
<1>6. CASE ~(i < vec.length)
  <2>1. n.length = i + 1 /\ vec.length <= i
    BY <1>2, <1>3, <1>6
  <2>2. Used(n)[i + 1] = e
    <3>1. i + 1 \in 1 .. n.length /\ i \in 0 .. n.length - 1 /\ i + 1 - 1 = i
      BY <2>1
    <3> QED
      BY <1>2, <1>3, <3>1
  <2>3. SubSeq(Used(n), 1, vec.length) = Used(vec)
    <3> DEFINE s == SubSeq(Used(n), 1, vec.length)
    <3>1. /\ s \in Seq(U) /\ Len(s) = vec.length
          /\ \A j \in 1 .. vec.length : s[j] = Used(n)[j]
      BY <1>3, <2>1, SubSeqProperties
    <3>2. ASSUME NEW j \in 1 .. vec.length PROVE Used(n)[j] = Used(vec)[j]
      <4>1. j - 1 \in 0 .. n.length - 1 /\ j \in 1 .. n.length /\ j - 1 < vec.length /\ j - 1 < i
        BY <1>3, <2>1
      <4> QED
        BY <1>2, <1>3, <4>1
    <3> HIDE DEF s
    <3>3. s = Used(vec)
      BY <1>3, <3>1, <3>2, SeqEqual
    <3> QED
      BY <3>3 DEF s
  <2> QED
    BY <1>1, <1>2, <1>3, <1>4, <1>6, <2>1, <2>2, <2>3, ContentsAre DEF V!Promise!Insert, V!Promise!Last
<1> QED
  BY <1>5, <1>6

\* The items after one was taken out.
LEMMA UsedDeleted ==
  ASSUME IsBlock(vec), NEW i \in Nat, i < vec.length
  PROVE  /\ IsBlock(V!Deleted(vec, i))
         /\ Used(V!Deleted(vec, i)) = V!Promise!RemoveAt(Used(vec), i + 1)
<1> DEFINE n == V!Deleted(vec, i)
<1>2. /\ IsBlock(n) /\ n.length = vec.length - 1
      /\ \A j \in 0 .. vec.length - 2 : n.mem[j] = IF j < i THEN vec.mem[j] ELSE vec.mem[j + 1]
  BY DeletedIs
<1> DEFINE U == Both(vec, n, Null)
<1>3. /\ Used(vec) \in Seq(U) /\ Len(Used(vec)) = vec.length /\ vec.length \in Nat
      /\ Used(n) \in Seq(U) /\ Len(Used(n)) = n.length
      /\ \A j \in 1 .. vec.length : Used(vec)[j] = vec.mem[j - 1]
      /\ \A j \in 1 .. n.length : Used(n)[j] = n.mem[j - 1]
  BY <1>2, BothUsed
<1> HIDE DEF U, n
<1>4. i + 1 \in 1 .. vec.length
  BY <1>3
<1>5. ASSUME NEW j \in 1 .. vec.length - 1
      PROVE  Used(n)[j] = IF j < i + 1 THEN Used(vec)[j] ELSE Used(vec)[j + 1]
  <2>1. /\ j - 1 \in 0 .. vec.length - 2 /\ (j < i + 1 <=> j - 1 < i) /\ j - 1 + 1 = j /\ j + 1 - 1 = j
        /\ j \in 1 .. vec.length /\ j + 1 \in 1 .. vec.length
    BY <1>3
  <2> QED
    BY <1>2, <1>3, <2>1
<1>6. Used(n) = V!Promise!RemoveAt(Used(vec), i + 1)
  <2>1. Len(Used(n)) = Len(Used(vec)) - 1 /\ i + 1 \in 1 .. Len(Used(vec))
    BY <1>2, <1>3, <1>4
  <2>2. \A j \in 1 .. Len(Used(vec)) - 1 :
          Used(n)[j] = IF j < i + 1 THEN Used(vec)[j] ELSE Used(vec)[j + 1]
    BY <1>3, <1>5
  <2> QED
    BY <1>3, <2>1, <2>2, RemoveIs
<1> QED
  BY <1>2, <1>6 DEF n

LEMMA RemoveIsDelete ==
  ASSUME IsBlock(vec), NEW i \in Nat, V!Remove(i)
  PROVE  IsBlock(vec') /\ V!Promise!Delete
<1>1. /\ vec' = IF i < vec.length THEN V!Deleted(vec, i) ELSE vec
      /\ vecRet'.op = "delete" /\ vecRet'.at = i /\ vecRet'.answer = V!At(vec, i)
  BY DEF V!Remove, V!Changed, V!Ret
<1>2. vec.length \in Nat /\ Len(Used(vec)) = vec.length
      /\ \A j \in 1 .. vec.length : Used(vec)[j] = vec.mem[j - 1]
  BY BothUsed
<1>3. CASE i < vec.length
  <2>1. IsBlock(vec') /\ Used(vec') = V!Promise!RemoveAt(Used(vec), i + 1)
    BY <1>1, <1>3, UsedDeleted
  <2>2. i + 1 \in 1 .. vec.length /\ i + 1 - 1 = i /\ i \in 0 .. vec.length - 1
    BY <1>2, <1>3
  <2>3. vecRet'.answer = Used(vec)[i + 1]
    BY <1>1, <1>2, <2>2 DEF V!At
  <2> QED
    BY <1>1, <1>2, <1>3, <2>1, <2>3, ContentsAre DEF V!Promise!Delete
<1>4. CASE ~(i < vec.length)
  <2>1. vec' = vec /\ vecRet'.answer = Null
    BY <1>1, <1>2, <1>4 DEF V!At
  <2> QED
    BY <1>1, <1>2, <1>4, <2>1, ContentsAre DEF V!Promise!Delete
<1> QED
  BY <1>3, <1>4

LEMMA RemoveItemIs ==
  ASSUME IsBlock(vec), NEW e, V!RemoveItem(e)
  PROVE  IsBlock(vec') /\ V!Promise!DeleteItem
<1> DEFINE at1 == {i \in 0 .. vec.length - 1 : vec.mem[i] = e}
           k == CHOOSE i \in at1 : \A j \in at1 : i <= j
           U == Both(vec, vec, e)
<1>1. /\ vec' = IF at1 = {} THEN vec ELSE V!Deleted(vec, k)
      /\ vecRet'.op = "deleteItem" /\ vecRet'.item = e
  BY DEF V!RemoveItem, V!Changed, V!Ret
<1>2. /\ Used(vec) \in Seq(U) /\ Len(Used(vec)) = vec.length /\ vec.length \in Nat
      /\ \A i \in 1 .. vec.length : Used(vec)[i] = vec.mem[i - 1]
  BY BothUsed
<1> HIDE DEF U
<1>3. CASE at1 = {}
  <2>1. \A i \in 1 .. vec.length : i - 1 \in 0 .. vec.length - 1
    BY <1>2
  <2>2. ~(\E i \in 1 .. Len(Used(vec)) : Used(vec)[i] = e)
    BY <1>2, <1>3, <2>1
  <2>3. V!Promise!RemoveFirst(Used(vec), e) = Used(vec)
    BY <1>2, <2>2, FirstIs
  <2> QED
    BY <1>1, <1>3, <2>3, ContentsAre DEF V!Promise!DeleteItem
<1>4. CASE at1 # {}
  <2>1. k \in at1 /\ \A j \in at1 : k <= j
    <3>1. at1 \subseteq Nat
      BY <1>2
    <3>2. \E i \in at1 : \A j \in at1 : i <= j
      <4> HIDE DEF at1
      <4> QED
        BY <1>4, <3>1, LeastOfNat
    <3> HIDE DEF at1
    <3> QED
      BY <3>2
  <2> HIDE DEF k
  <2>2. k \in Nat /\ k < vec.length /\ vec.mem[k] = e /\ k + 1 \in 1 .. Len(Used(vec)) /\ k + 1 - 1 = k
    BY <1>2, <2>1
  <2>3. ASSUME NEW j \in 1 .. k + 1 - 1 PROVE Used(vec)[j] # e
    <3>1. j \in 1 .. vec.length /\ j - 1 \in 0 .. vec.length - 1 /\ ~(k <= j - 1)
      BY <1>2, <2>2
    <3> QED
      BY <1>2, <2>1, <3>1
  <2>4. Used(vec)[k + 1] = e
    BY <1>2, <2>2
  <2>5. V!Promise!RemoveFirst(Used(vec), e) = V!Promise!RemoveAt(Used(vec), k + 1)
    BY <1>2, <2>2, <2>3, <2>4, FirstIs
  <2>6. IsBlock(vec') /\ Used(vec') = V!Promise!RemoveAt(Used(vec), k + 1)
    BY <1>1, <1>4, <2>2, UsedDeleted
  <2> QED
    BY <1>1, <2>5, <2>6, ContentsAre DEF V!Promise!DeleteItem
<1> QED
  BY <1>3, <1>4

LEMMA SetIsSet ==
  ASSUME IsBlock(vec), NEW i \in Nat, NEW e, V!Set(i, e)
  PROVE  IsBlock(vec') /\ V!Promise!Set
<1>1. /\ vec' = IF i < vec.length THEN V!Written(vec, i, e, vec.length) ELSE vec
      /\ vecRet'.op = "set" /\ vecRet'.at = i /\ vecRet'.item = e
  BY DEF V!Set, V!Changed, V!Ret
<1>2. /\ vec.length \in Nat /\ vec.capacity \in Nat /\ vec.length <= vec.capacity
  BY DEF IsBlock
<1>3. /\ IsBlock(vec') /\ vec'.length = vec.length
      /\ \A j \in 0 .. vec.length - 1 : vec'.mem[j] = IF j = i THEN e ELSE vec.mem[j]
  <2>1. CASE i < vec.length
    <3>1. /\ i \in 0 .. vec.capacity - 1 /\ vec.length \in 0 .. vec.capacity
          /\ \A j \in 0 .. vec.length - 1 : j \in 0 .. vec.capacity - 1
      BY <1>2, <2>1
    <3>2. /\ IsBlock(vec') /\ vec'.length = vec.length
          /\ \A j \in 0 .. vec.capacity - 1 : vec'.mem[j] = IF j = i THEN e ELSE vec.mem[j]
      BY <1>1, <2>1, <3>1, WrittenIsBlock
    <3> QED
      BY <3>1, <3>2
  <2>2. CASE ~(i < vec.length)
    <3>1. vec' = vec /\ \A j \in 0 .. vec.length - 1 : j # i
      BY <1>1, <1>2, <2>2
    <3> QED
      BY <3>1
  <2> QED
    BY <2>1, <2>2
<1>4. ASSUME NEW j \in 1 .. vec.length
      PROVE  vec'.mem[j - 1] = IF j = i + 1 THEN e ELSE Used(vec)[j]
  <2>1. j - 1 \in 0 .. vec.length - 1 /\ (j - 1 = i <=> j = i + 1)
    BY <1>2
  <2> QED
    BY <1>3, <2>1 DEF Used
<1>5. Used(vec') = [j \in DOMAIN Used(vec) |-> IF j = i + 1 THEN e ELSE Used(vec)[j]]
  BY <1>3, <1>4 DEF Used
<1> QED
  BY <1>1, <1>3, <1>5, ContentsAre DEF V!Promise!Set

LEMMA GetIsGet ==
  ASSUME IsBlock(vec), NEW i \in Nat, V!Get(i)
  PROVE  IsBlock(vec') /\ V!Promise!Get
<1>1. vec' = vec /\ vecRet'.op = "get" /\ vecRet'.at = i /\ vecRet'.answer = V!At(vec, i)
  BY DEF V!Get, V!Ret
<1>2. vec.length \in Nat /\ Len(Used(vec)) = vec.length
      /\ \A j \in 1 .. vec.length : Used(vec)[j] = vec.mem[j - 1]
  BY BothUsed
<1>3. V!At(vec, i) = IF i < vec.length THEN Used(vec)[i + 1] ELSE Null
  <2>1. i < vec.length => i \in 0 .. vec.length - 1 /\ i + 1 \in 1 .. vec.length /\ i + 1 - 1 = i
    BY <1>2
  <2>2. ~(i < vec.length) => i \notin 0 .. vec.length - 1
    BY <1>2
  <2> QED
    BY <1>2, <2>1, <2>2 DEF V!At
<1> QED
  BY <1>1, <1>2, <1>3, ContentsAre DEF V!Promise!Get

\* A new length keeps the items that stay and adds nothing else.
LEMMA IsSetLength ==
  ASSUME IsBlock(vec), IsBlock(vec'), vecRet'.op = "length", vecRet'.at = vec'.length,
         \A j \in 0 .. vec'.length - 1 : vec'.mem[j] = IF j < vec.length THEN vec.mem[j] ELSE Null
  PROVE  V!Promise!SetLength
<1>1. /\ Len(Used(vec)) = vec.length /\ vec.length \in Nat
      /\ Len(Used(vec')) = vec'.length /\ vec'.length \in Nat
      /\ \A i \in 1 .. vec.length : Used(vec)[i] = vec.mem[i - 1]
      /\ \A i \in 1 .. vec'.length : Used(vec')[i] = vec'.mem[i - 1]
      /\ DOMAIN Used(vec') = 1 .. vec'.length
  BY BothUsed DEF Used
<1>2. ASSUME NEW i \in 1 .. vec'.length
      PROVE  Used(vec')[i] = IF i <= vec.length THEN Used(vec)[i] ELSE Null
  <2>1. i - 1 \in 0 .. vec'.length - 1 /\ (i <= vec.length <=> i - 1 < vec.length)
    BY <1>1
  <2> QED
    BY <1>1, <2>1
<1> QED
  BY <1>1, <1>2, ContentsAre DEF V!Promise!SetLength

LEMMA LengthIsLength ==
  ASSUME IsBlock(vec), V!Clear \/ \E n \in 0 .. MostItems : V!SetLength(n)
  PROVE  IsBlock(vec') /\ V!Promise!SetLength
<1>0. vec.length \in Nat /\ vec.capacity \in Nat /\ vec.length <= vec.capacity
  BY DEF IsBlock
<1>1. CASE V!Clear
  <2>1. vec' = V!Vec(vec.mem, vec.capacity, 0) /\ vecRet'.op = "length" /\ vecRet'.at = 0
    BY <1>1 DEF V!Clear, V!Changed, V!Ret
  <2>2. IsBlock(vec') /\ vec'.length = 0
    BY <1>0, <2>1, CutIs
  <2> QED
    BY <2>1, <2>2, IsSetLength
<1>2. ASSUME NEW n \in 0 .. MostItems, V!SetLength(n)
      PROVE  IsBlock(vec') /\ V!Promise!SetLength
  <2>0. n \in Nat
    BY ValuesAssumption
  <2>1. CASE kind = "array" /\ vec.capacity = 0
    <3> DEFINE c == n \div 2 + 1 + n
    <3>1. vec' = V!Fresh(c, Junk, vec.length) /\ vecRet'.op = "length"
      <4>1. vec' = V!Fresh(c, Junk, vec.length) /\ vecRet' = V!Ret("length", n, Null, Null)
        BY <1>2, <2>1, Zenon DEF V!SetLength, V!WithLength, V!Changed
      <4> QED
        BY <4>1 DEF V!Ret
    <3>2. vec.length = 0
      BY <1>0, <2>1
    <3>3. c \in Nat
      BY <2>0
    <3> HIDE DEF c
    <3>4. IsBlock(vec') /\ vec'.length = 0
      BY <3>1, <3>2, <3>3, FreshIsBlock
    <3>5. Used(vec') = Used(vec)
      BY <3>2, <3>4 DEF Used
    <3> QED
      BY <2>1, <3>1, <3>4, <3>5, ContentsAre DEF V!Promise!SetLength
  <2>2. CASE ~(kind = "array" /\ vec.capacity = 0)
    <3>1. /\ vec' = IF n > vec.length THEN V!Lengthened(vec, n) ELSE V!Vec(vec.mem, vec.capacity, n)
          /\ vecRet'.op = "length" /\ vecRet'.at = n
      <4>1. /\ vec' = IF n > vec.length THEN V!Lengthened(vec, n) ELSE V!Vec(vec.mem, vec.capacity, n)
            /\ vecRet' = V!Ret("length", n, Null, Null)
        BY <1>2, <2>2, Zenon DEF V!SetLength, V!WithLength, V!Changed
      <4> QED
        BY <4>1 DEF V!Ret
    <3>2. CASE n > vec.length
      <4>1. /\ IsBlock(vec') /\ vec'.length = n
            /\ \A j \in 0 .. n - 1 : vec'.mem[j] = IF j < vec.length THEN vec.mem[j] ELSE Null
        BY <1>0, <2>0, <3>1, <3>2, LengthenedIs
      <4> QED
        BY <3>1, <4>1, IsSetLength
    <3>3. CASE ~(n > vec.length)
      <4>1. IsBlock(vec') /\ vec'.length = n /\ vec'.mem = vec.mem
        BY <1>0, <2>0, <3>1, <3>3, CutIs
      <4>2. \A j \in 0 .. n - 1 : j < vec.length
        BY <1>0, <2>0, <3>3
      <4> QED
        BY <3>1, <4>1, <4>2, IsSetLength
    <3> QED
      BY <3>2, <3>3
  <2> QED
    BY <2>1, <2>2
<1> QED
  BY <1>1, <1>2

LEMMA CloneIsSame ==
  ASSUME IsBlock(vec), V!Clone
  PROVE  /\ IsBlock(vec') /\ V!Promise!Same /\ vec'.length = vec.length
         /\ \A i \in 0 .. vec.length - 1 : vec'.mem[i] = vec.mem[i]
<1>0. vec.length \in Nat
  BY DEF IsBlock
<1>1. /\ vec' = V!Vec([i \in 0 .. vec.length - 1 |-> vec.mem[i]], vec.length, vec.length)
      /\ vecRet'.op = "same"
  BY DEF V!Clone, V!Ret
<1>2. /\ IsBlock(vec') /\ vec'.length = vec.length
      /\ \A i \in 0 .. vec.length - 1 : vec'.mem[i] = vec.mem[i]
  BY <1>0, <1>1 DEF IsBlock, V!Vec
<1>3. Used(vec') = Used(vec)
  BY <1>0, <1>2, SameUsed
<1> QED
  BY <1>1, <1>2, <1>3, ContentsAre DEF V!Promise!Same

\* A step of the iterator leaves the array as it is.
LEMMA MoveIsSame ==
  ASSUME IsBlock(vec), NEW to, NEW answer, NEW met, NEW begins, V!Move(to, answer, met, begins)
  PROVE  /\ IsBlock(vec') /\ V!Promise!Same /\ vec' = vec /\ index' = to
         /\ steady' = (steady \/ begins) /\ seen' = IF steady' THEN met ELSE <<>>
<1>1. /\ vec' = vec /\ vecRet' = V!Ret("same", 0, Null, answer) /\ index' = to
      /\ steady' = (steady \/ begins) /\ seen' = IF steady' THEN met ELSE <<>>
  BY Zenon DEF V!Move
<1>2. vecRet'.op = "same"
  BY <1>1 DEF V!Ret
<1> QED
  BY <1>1, <1>2, ContentsAre DEF V!Promise!Same

Passed(n) == [i \in 1 .. n |-> vec.mem[i - 1]]

\* A walk that has met the items before the place it goes to.
LEMMA MoveKeepsWalk ==
  ASSUME IsBlock(vec), WalkInv, NEW to \in Nat, NEW answer, NEW met, NEW begins \in BOOLEAN,
         V!Move(to, answer, met, begins),
         steady \/ begins => to <= vec.length /\ met = Passed(to)
  PROVE  IsBlock(vec') /\ WalkInv' /\ V!Promise!Same
<1>1. /\ IsBlock(vec') /\ V!Promise!Same /\ vec' = vec /\ index' = to
      /\ steady' = (steady \/ begins) /\ seen' = IF steady' THEN met ELSE <<>>
  BY MoveIsSame
<1>2. steady' \in BOOLEAN
  BY <1>1 DEF WalkInv
<1> QED
  BY <1>1, <1>2 DEF WalkInv, Passed

LEMMA IteratorInv ==
  ASSUME VectorInv,
         \/ V!NewIterator \/ V!IteratorNext \/ V!IteratorPrevious \/ V!IteratorFirst \/ V!IteratorLast
  PROVE  VectorInv' /\ V!Promise!Same
<1>0. /\ IsBlock(vec) /\ WalkInv /\ index \in Nat /\ vec.length \in Nat
      /\ steady => index <= vec.length /\ seen = Passed(index)
  BY DEF VectorInv, WalkInv, IsBlock, Passed
<1>1. CASE V!NewIterator
  <2>1. <<>> = Passed(0) /\ 0 <= vec.length
    BY <1>0 DEF Passed
  <2>2. V!Move(0, Null, <<>>, TRUE)
    BY <1>1 DEF V!NewIterator
  <2> QED
    BY <1>0, <2>1, <2>2, MoveKeepsWalk DEF VectorInv
<1>2. CASE V!IteratorNext
  <2>1. CASE index < vec.length
    <3> DEFINE e == V!At(vec, index)
               met == Append(seen, e)
    <3>1. V!Move(index + 1, e, met, FALSE)
      BY <1>2, <2>1 DEF V!IteratorNext, V!Step
    <3>2. ASSUME steady PROVE met = Passed(index + 1)
      <4>1. seen = Passed(index) /\ e = vec.mem[index]
        BY <1>0, <2>1, <3>2 DEF V!At
      <4> HIDE DEF e
      <4>2. Append(Passed(index), vec.mem[index]) = Passed(index + 1)
        BY <1>0 DEF Passed
      <4> QED
        BY <4>1, <4>2
    <3> HIDE DEF met, e
    <3>3. index + 1 \in Nat /\ index + 1 <= vec.length
      BY <1>0, <2>1
    <3> QED
      BY <1>0, <3>1, <3>2, <3>3, MoveKeepsWalk DEF VectorInv
  <2>2. CASE ~(index < vec.length)
    <3>1. V!Move(index, Null, seen, FALSE)
      BY <1>2, <2>2 DEF V!IteratorNext, V!Step
    <3> QED
      BY <1>0, <3>1, MoveKeepsWalk DEF VectorInv
  <2> QED
    BY <2>1, <2>2
<1>3. CASE V!IteratorPrevious
  <2> DEFINE to == IF index > 0 THEN index - 1 ELSE 0
             met == SubSeq(seen, 1, Len(seen) - 1)
  <2>1. V!Move(to, V!At(vec, to - 1), met, FALSE)
    BY <1>3 DEF V!IteratorPrevious, V!Step
  <2>2. to \in Nat /\ (index <= vec.length => to <= vec.length)
    BY <1>0
  <2>3. ASSUME steady PROVE met = Passed(to)
    <3>1. seen = Passed(index) /\ Len(Passed(index)) = index
      BY <1>0, <2>3 DEF Passed
    <3>2. met = SubSeq(Passed(index), 1, index - 1)
      BY <3>1
    <3>3. CASE index > 0
      <4>1. \A i \in 1 .. index - 1 : Passed(index)[i] = vec.mem[i - 1]
        BY <1>0 DEF Passed
      <4>2. SubSeq(Passed(index), 1, index - 1) = [i \in 1 .. index - 1 |-> Passed(index)[i]]
        BY <1>0, <3>3 DEF Passed
      <4>3. to = index - 1
        BY <3>3
      <4> QED
        BY <3>2, <4>1, <4>2, <4>3 DEF Passed
    <3>4. CASE ~(index > 0)
      <4>1. index = 0 /\ to = 0
        BY <1>0, <3>4
      <4>2. SubSeq(Passed(0), 1, 0 - 1) = <<>> /\ Passed(0) = <<>>
        BY DEF Passed
      <4> QED
        BY <3>2, <4>1, <4>2
    <3> QED
      BY <3>3, <3>4
  <2> HIDE DEF to, met
  <2> QED
    BY <1>0, <2>1, <2>2, <2>3, MoveKeepsWalk DEF VectorInv
<1>4. CASE V!IteratorFirst
  <2>1. CASE vec.length > 0
    <3>1. V!Move(1, Null, <<vec.mem[0]>>, TRUE)
      BY <1>4, <2>1 DEF V!IteratorFirst
    <3>2. <<vec.mem[0]>> = Passed(1) /\ 1 <= vec.length
      BY <1>0, <2>1 DEF Passed
    <3> QED
      BY <1>0, <3>1, <3>2, MoveKeepsWalk DEF VectorInv
  <2>2. CASE ~(vec.length > 0)
    <3>1. V!Move(0, Null, <<>>, TRUE)
      BY <1>4, <2>2 DEF V!IteratorFirst
    <3>2. <<>> = Passed(0) /\ 0 <= vec.length
      BY <1>0 DEF Passed
    <3> QED
      BY <1>0, <3>1, <3>2, MoveKeepsWalk DEF VectorInv
  <2> QED
    BY <2>1, <2>2
<1>5. CASE V!IteratorLast
  <2> DEFINE to == vec.length
             met == Passed(to)
  <2>1. V!Move(to, Null, met, TRUE)
    BY <1>5, Zenon DEF V!IteratorLast, Passed
  <2>2. to \in Nat /\ to <= vec.length
    BY <1>0
  <2> HIDE DEF to
  <2>3. met = Passed(to)
    OBVIOUS
  <2> HIDE DEF met
  <2> QED
    BY <1>0, <2>1, <2>2, <2>3, MoveKeepsWalk DEF VectorInv
<1> QED
  BY <1>1, <1>2, <1>3, <1>4, <1>5

LEMMA VectorInit == V!Init => VectorInv /\ V!Promise!Init
<1> SUFFICES ASSUME V!Init PROVE VectorInv /\ V!Promise!Init
  OBVIOUS
<1>1. PICK c \in Capacities, length \in Capacities :
        /\ length \in {0, c}
        /\ vec = V!Fresh(c, IF kind = "list" /\ length > 0 THEN Null ELSE Junk, length)
  BY DEF V!Init
<1>2. c \in Nat /\ length \in 0 .. c
  BY <1>1, ValuesAssumption
<1>3. IsBlock(vec)
  BY <1>1, <1>2, FreshIsBlock
<1>4. vec.length \in Nat
  BY <1>3 DEF IsBlock
<1>5. index = 0 /\ steady = TRUE /\ seen = <<>> /\ vecRet.op = "new"
  BY DEF V!Init, V!Ret
<1> QED
  BY <1>3, <1>4, <1>5 DEF VectorInv, WalkInv, V!Promise!Init

\* After a change of the array the walk says nothing, and its index stays.
LEMMA ChangeEndsWalk ==
  ASSUME WalkInv, NEW v, NEW ret, V!Changed(v, ret)
  PROVE  WalkInv'
BY DEF WalkInv, V!Changed

\* One of the calls of the promise.
Promised ==
  \/ V!Promise!Add \/ V!Promise!Insert \/ V!Promise!Delete \/ V!Promise!DeleteItem
  \/ V!Promise!Set \/ V!Promise!Get \/ V!Promise!SetLength \/ V!Promise!Same

LEMMA VectorStepIs ==
  ASSUME VectorInv, V!Next
  PROVE  VectorInv' /\ Promised
<1>0. IsBlock(vec) /\ WalkInv /\ vec.length \in Nat /\ index \in Nat
  BY DEF VectorInv, WalkInv, IsBlock
<1>1. ASSUME NEW e, V!Add(e) PROVE VectorInv' /\ Promised
  <2>1. WalkInv'
    BY <1>0, <1>1, ChangeEndsWalk DEF V!Add
  <2> QED
    BY <1>0, <1>1, <2>1, AddIsAdd DEF VectorInv, Promised
<1>2. ASSUME NEW e, V!RemoveItem(e) PROVE VectorInv' /\ Promised
  <2>1. WalkInv'
    BY <1>0, <1>2, ChangeEndsWalk DEF V!RemoveItem
  <2> QED
    BY <1>0, <1>2, <2>1, RemoveItemIs DEF VectorInv, Promised
<1>3. ASSUME NEW i \in Nat, V!Remove(i) PROVE VectorInv' /\ Promised
  <2>1. WalkInv'
    BY <1>0, <1>3, ChangeEndsWalk DEF V!Remove
  <2> QED
    BY <1>0, <1>3, <2>1, RemoveIsDelete DEF VectorInv, Promised
<1>4. ASSUME NEW i \in Nat, V!Get(i) PROVE VectorInv' /\ Promised
  <2>1. WalkInv'
    BY <1>0, <1>4 DEF V!Get, WalkInv
  <2> QED
    BY <1>0, <1>4, <2>1, GetIsGet DEF VectorInv, Promised
<1>5. ASSUME NEW i \in Nat, NEW e, V!Insert(i, e) PROVE VectorInv' /\ Promised
  <2>1. WalkInv'
    BY <1>0, <1>5, ChangeEndsWalk DEF V!Insert
  <2> QED
    BY <1>0, <1>5, <2>1, InsertIsInsert DEF VectorInv, Promised
<1>6. ASSUME NEW i \in Nat, NEW e, V!Set(i, e) PROVE VectorInv' /\ Promised
  <2>1. WalkInv'
    BY <1>0, <1>6, ChangeEndsWalk DEF V!Set
  <2> QED
    BY <1>0, <1>6, <2>1, SetIsSet DEF VectorInv, Promised
<1>7. CASE V!Clear \/ \E n \in 0 .. MostItems : V!SetLength(n)
  <2>1. WalkInv'
    BY <1>0, <1>7, ChangeEndsWalk DEF V!Clear, V!SetLength
  <2> QED
    BY <1>0, <1>7, <2>1, LengthIsLength DEF VectorInv, Promised
<1>8. CASE V!RemoveLast
  <2>1. (V!Remove(vec.length - 1) /\ vec.length - 1 \in Nat) \/ V!Remove(MostItems)
    BY <1>0, <1>8 DEF V!RemoveLast
  <2> QED
    BY <1>3, <2>1, ValuesAssumption
<1>9. CASE V!Clone
  <2>1. /\ IsBlock(vec') /\ V!Promise!Same /\ vec'.length = vec.length
        /\ \A i \in 0 .. vec.length - 1 : vec'.mem[i] = vec.mem[i]
    BY <1>0, <1>9, CloneIsSame
  <2>2. UNCHANGED <<index, steady, seen>>
    BY <1>9 DEF V!Clone
  <2>3. ASSUME index <= vec.length
        PROVE  [i \in 1 .. index |-> vec'.mem[i - 1]] = [i \in 1 .. index |-> vec.mem[i - 1]]
    <3>1. \A i \in 1 .. index : i - 1 \in 0 .. vec.length - 1
      BY <1>0, <2>3
    <3> QED
      BY <2>1, <3>1
  <2>4. WalkInv'
    BY <1>0, <2>1, <2>2, <2>3 DEF WalkInv
  <2> QED
    BY <2>1, <2>4 DEF VectorInv, Promised
<1>10. CASE \/ V!NewIterator \/ V!IteratorNext \/ V!IteratorPrevious \/ V!IteratorFirst
            \/ V!IteratorLast
  BY <1>10, IteratorInv DEF Promised
<1>11. CASE V!IteratorRemove
  <2>1. V!Remove(index - 1) /\ index - 1 \in Nat
    BY <1>0, <1>11 DEF V!IteratorRemove
  <2> QED
    BY <1>3, <2>1
<1>12. 0 .. MostItems - 1 \subseteq Nat
  BY ValuesAssumption
<1> QED
  BY <1>1, <1>2, <1>3, <1>4, <1>5, <1>6, <1>7, <1>8, <1>9, <1>10, <1>11, <1>12 DEF V!Next

\* What has items has a block.
LEMMA VectorStep ==
  ASSUME VectorInv, V!Next
  PROVE  VectorInv' /\ V!Promise!Next
<1>1. VectorInv' /\ Promised
  BY VectorStepIs
<1>2. ASSUME vec'.capacity = 0 PROVE V!Contents' = <<>>
  <2>1. vec'.length = 0
    BY <1>1, <1>2 DEF VectorInv, IsBlock
  <2> QED
    BY <2>1 DEF V!Contents
<1> QED
  BY <1>1, <1>2 DEF Promised, V!Promise!Next

LEMMA VectorStutter == VectorInv /\ UNCHANGED vectorVars => VectorInv' /\ UNCHANGED V!Promise!vars
<1> SUFFICES ASSUME VectorInv, UNCHANGED vectorVars PROVE VectorInv' /\ UNCHANGED V!Promise!vars
  OBVIOUS
<1>1. vec' = vec /\ UNCHANGED <<kind, index, steady, seen, vecRet>>
  BY DEF vectorVars
<1> QED
  BY <1>1 DEF VectorInv, IsBlock, WalkInv, V!Promise!vars, V!Contents

LEMMA VectorInvariant == OneSpec => []VectorInv
<1>1. VectorInv /\ [OneNext]_allVars => VectorInv'
  BY VectorStep, VectorStutter DEF OneNext, allVars
<1> QED
  BY <1>1, VectorInit, PTL DEF OneSpec, OneInit

\* Whatever way the length of an array or a list was reached, its items lie in the block, and
\* a walk over an array that stays as it is meets its items in order, back and forth, for any
\* items, capacities and lengths (cfl_array_insert, setLength, clone, the iterator).
THEOREM VectorsStaySound == OneSpec => []VectorSound
<1>1. VectorInv => VectorSound
  <2> SUFFICES ASSUME VectorInv PROVE V!InsideBlock /\ V!WalkMeetsAll
    BY DEF VectorSound
  <2>0. IsBlock(vec) /\ WalkInv /\ vec.length \in Nat /\ vec.length <= vec.capacity
    BY DEF VectorInv, IsBlock
  <2>1. V!InsideBlock
    BY <2>0 DEF V!InsideBlock
  <2>2. ASSUME steady
        PROVE  seen = SubSeq(V!Contents, 1, index) /\ (V!HasNext <=> Len(seen) < vec.length)
    <3>1. index \in Nat /\ index <= vec.length /\ seen = Passed(index)
      BY <2>0, <2>2 DEF WalkInv, Passed
    <3>2. Len(Passed(index)) = index
      BY <3>1 DEF Passed
    <3>3. \A i \in 1 .. index : i \in 1 .. vec.length
      BY <2>0, <3>1
    <3>4. SubSeq(V!Contents, 1, index) = [i \in 1 .. index |-> V!Contents[i]]
      BY <2>0, <3>1 DEF V!Contents
    <3>5. \A i \in 1 .. index : V!Contents[i] = vec.mem[i - 1]
      BY <3>3 DEF V!Contents
    <3>6. SubSeq(V!Contents, 1, index) = Passed(index)
      BY <3>4, <3>5 DEF Passed
    <3>7. V!HasNext <=> index < vec.length
      BY <2>0, <3>1 DEF V!HasNext
    <3> QED
      BY <3>1, <3>2, <3>6, <3>7
  <2> QED
    BY <2>1, <2>2 DEF V!WalkMeetsAll
<1> QED
  BY <1>1, VectorInvariant, PTL

\* An array and a list are sequences: the shifts of insert, del and remove, the growth and the
\* zero fill of setLength give what the operations on sequences give, and the iterator changes
\* nothing, for any items, capacities and lengths.
THEOREM VectorIsASequence == OneSpec => VectorIsSequence
<1>1. VectorInv /\ [OneNext]_allVars => [V!Promise!Next]_(V!Promise!vars)
  BY VectorStep, VectorStutter DEF OneNext, allVars
<1> QED
  BY <1>1, VectorInit, VectorInvariant, PTL
     DEF OneSpec, OneInit, VectorIsSequence, V!ImplementsSequence, V!Promise!Spec

-----------------------------------------------------------------------------
(* Strings: numbers and letters                                            *)

\* A set of numbers up to a bound has a greatest one.
LEMMA GreatestOfNat ==
  ASSUME NEW n \in Nat, NEW A, A \subseteq 0 .. n, A # {}
  PROVE  \E i \in A : \A j \in A : i >= j
<1> DEFINE B == {n - i : i \in A}
<1>1. B \subseteq Nat /\ B # {}
  <2>1. \A i \in A : n - i \in Nat
    OBVIOUS
  <2> QED
    BY <2>1
<1> HIDE DEF B
<1>2. PICK b \in B : \A j \in B : b <= j
  BY <1>1, LeastOfNat
<1>3. PICK i \in A : b = n - i
  BY <1>2 DEF B
<1>4. ASSUME NEW j \in A PROVE i >= j
  <2>1. n - j \in B
    BY DEF B
  <2>2. n - i <= n - j
    BY <1>2, <1>3, <2>1
  <2> QED
    BY <2>2
<1> QED
  BY <1>4

-----------------------------------------------------------------------------
(* Texts: the functions that compare and search                            *)

Text == Seq(S!Characters)

\* Folds that keep the end of a text apart from its characters.
IsFold(fold) == fold[0] = 0 /\ \A c \in S!Characters : fold[c] \in Nat \ {0}

\* What a comparison sees at a place.
Seen(fold, t, i) == fold[S!CharAt(t, i)]

\* The letters of the model: a blank, one in upper and one in lower case.
LEMMA CharactersAre == /\ S!Characters = {1, 2, 3} /\ 0 \notin S!Characters
                       /\ S!Blank = 1 /\ S!UpperCase = {2} /\ S!LowerCase = {3}
BY DEF S!Characters, S!Blank, S!UpperCase, S!LowerCase

\* Case is folded to letters, never to the end of a text.
LEMMA FoldsAre ==
  /\ IsFold(S!Same) /\ IsFold(S!Upper)
  /\ \A c \in S!Characters : S!Same[c] = c /\ S!Upper[c] \in S!Characters /\ S!Lower[c] \in S!Characters
<1>1. \A c \in {0, 1, 2, 3} : c \in {0} \cup S!Characters
  BY CharactersAre
<1>2. \A c \in {0, 1, 2, 3} : /\ S!Same[c] = c
                              /\ S!Upper[c] = IF c = 3 THEN 2 ELSE c
                              /\ S!Lower[c] = IF c = 2 THEN 3 ELSE c
  BY <1>1, CharactersAre DEF S!Same, S!Upper, S!Lower
<1> QED
  BY <1>2, CharactersAre DEF IsFold

\* A comparison sees the end where the text ends, and nowhere else.
LEMMA SeenIs ==
  ASSUME NEW fold, IsFold(fold), NEW t \in Text, NEW i \in Nat \ {0}
  PROVE  /\ Seen(fold, t, i) \in Nat /\ (Seen(fold, t, i) = 0 <=> i > Len(t))
         /\ i <= Len(t) => Seen(fold, t, i) = fold[t[i]] /\ t[i] \in S!Characters
<1>1. Len(t) \in Nat /\ (i <= Len(t) => t[i] \in S!Characters)
  BY DEF Text
<1> QED
  BY <1>1 DEF Seen, S!CharAt, IsFold

\* The loop of a comparison stops at the first place where the texts differ or both end.
StopsAt(fold, s, t, i) ==
  /\ i \in 1 .. Len(s) + 1 /\ i <= Len(t) + 1
  /\ Seen(fold, s, i) # Seen(fold, t, i) \/ (i = Len(s) + 1 /\ i = Len(t) + 1)
  /\ \A j \in 1 .. i - 1 : Seen(fold, s, j) = Seen(fold, t, j)

\* What is answered then, when the match is to be exact and when it is not.
Exact(c, d) == IF c < d THEN -1 ELSE IF c > d THEN 1 ELSE 0
Inexact(c, d) == IF c < d /\ c # 0 THEN -1 ELSE IF c > d /\ d # 0 THEN 1 ELSE 0

\* Where the loop of the compare functions stops, and what they answer.
LEMMA CompareIs ==
  ASSUME NEW fold, IsFold(fold), NEW s \in Text, NEW t \in Text
  PROVE  \E i \in Nat \ {0} :
           /\ StopsAt(fold, s, t, i)
           /\ S!Compare(s, t, TRUE, fold) = Exact(Seen(fold, s, i), Seen(fold, t, i))
           /\ S!Compare(s, t, FALSE, fold) = Inexact(Seen(fold, s, i), Seen(fold, t, i))
<1> DEFINE Ends(i) == Seen(fold, s, i) # Seen(fold, t, i) \/ S!CharAt(s, i) = 0
           Stop(i) == /\ fold[S!CharAt(s, i)] # fold[S!CharAt(t, i)] \/ S!CharAt(s, i) = 0
                      /\ \A j \in 1 .. i - 1 : fold[s[j]] = fold[S!CharAt(t, j)]
           A == {i \in 1 .. Len(s) + 1 : Ends(i)}
           stop == CHOOSE i \in 1 .. Len(s) + 1 : Stop(i)
<1>0. Len(s) \in Nat /\ Len(t) \in Nat
  BY DEF Text
<1>1. A \subseteq Nat /\ A # {}
  <2>1. Len(s) + 1 \in A
    BY <1>0 DEF S!CharAt
  <2> QED
    BY <1>0, <2>1
<1> HIDE DEF A
<1>2. PICK i \in A : \A j \in A : i <= j
  BY <1>1, LeastOfNat
<1>3. Stop(i)
  <2>1. ASSUME NEW j \in 1 .. i - 1 PROVE fold[s[j]] = fold[S!CharAt(t, j)]
    <3>1. j \in 1 .. Len(s) /\ ~(i <= j)
      BY <1>0, <1>2 DEF A
    <3>2. ~Ends(j)
      BY <1>0, <1>2, <3>1 DEF A
    <3> QED
      BY <1>0, <3>1, <3>2 DEF Seen, S!CharAt
  <2> QED
    BY <1>2, <2>1 DEF Seen, A
<1>4. stop \in 1 .. Len(s) + 1 /\ Stop(stop)
  BY <1>2, <1>3 DEF A
<1>6. stop \in Nat \ {0} /\ stop <= Len(s) + 1
  BY <1>0, <1>4
<1>12. Seen(fold, s, stop) \in Nat /\ Seen(fold, t, stop) \in Nat
  BY <1>6, SeenIs
<1>5. /\ S!Compare(s, t, TRUE, fold) = Exact(Seen(fold, s, stop), Seen(fold, t, stop))
      /\ S!Compare(s, t, FALSE, fold) = Inexact(Seen(fold, s, stop), Seen(fold, t, stop))
  BY <1>12 DEF S!Compare, Exact, Inexact, Seen
<1> HIDE DEF stop
<1>7. \A j \in 1 .. stop - 1 : Seen(fold, s, j) = Seen(fold, t, j) /\ j <= Len(s) /\ j \in Nat \ {0}
  BY <1>0, <1>4, <1>6 DEF Seen, S!CharAt
<1>8. \A j \in 1 .. stop - 1 : j <= Len(t)
  <2> SUFFICES ASSUME NEW j \in 1 .. stop - 1 PROVE j <= Len(t)
    OBVIOUS
  <2>1. Seen(fold, s, j) # 0 /\ j \in Nat \ {0}
    BY <1>0, <1>7, SeenIs
  <2> QED
    BY <1>0, <1>7, <2>1, SeenIs
<1>9. stop <= Len(t) + 1
  <2>1. CASE stop = 1
    BY <1>0, <2>1
  <2>2. CASE stop # 1
    <3>1. stop - 1 \in 1 .. stop - 1
      BY <1>6, <2>2
    <3>2. stop - 1 <= Len(t)
      BY <1>8, <3>1
    <3> QED
      BY <1>0, <1>6, <3>2
  <2> QED
    BY <2>1, <2>2
<1>10. Seen(fold, s, stop) # Seen(fold, t, stop) \/ (stop = Len(s) + 1 /\ stop = Len(t) + 1)
  <2>1. CASE Seen(fold, s, stop) # Seen(fold, t, stop)
    BY <2>1
  <2>2. CASE Seen(fold, s, stop) = Seen(fold, t, stop)
    <3>1. S!CharAt(s, stop) = 0
      BY <1>4, <2>2 DEF Seen
    <3>2. Seen(fold, s, stop) = 0
      BY <3>1 DEF Seen, IsFold
    <3>3. stop > Len(s) /\ stop > Len(t)
      BY <1>6, <2>2, <3>2, SeenIs
    <3> QED
      BY <1>0, <1>6, <1>9, <3>3
  <2> QED
    BY <2>1, <2>2
<1>11. StopsAt(fold, s, t, stop)
  BY <1>4, <1>7, <1>9, <1>10 DEF StopsAt
<1> QED
  BY <1>5, <1>6, <1>11

\* The texts agree on the place, whichever comes first.
LEMMA StopsAtOnce ==
  ASSUME NEW fold, IsFold(fold), NEW s \in Text, NEW t \in Text, NEW i \in Nat \ {0}, NEW j \in Nat \ {0},
         StopsAt(fold, s, t, i), StopsAt(fold, t, s, j)
  PROVE  i = j
<1>0. Len(s) \in Nat /\ Len(t) \in Nat
  BY DEF Text
<1>1. ~(i < j)
  <2> SUFFICES ASSUME i < j PROVE FALSE
    OBVIOUS
  <2>1. i \in 1 .. j - 1
    OBVIOUS
  <2>2. Seen(fold, s, i) = Seen(fold, t, i) /\ i <= Len(s)
    BY <1>0, <2>1 DEF StopsAt
  <2> QED
    BY <1>0, <2>2 DEF StopsAt
<1>2. ~(j < i)
  <2> SUFFICES ASSUME j < i PROVE FALSE
    OBVIOUS
  <2>1. j \in 1 .. i - 1
    OBVIOUS
  <2>2. Seen(fold, s, j) = Seen(fold, t, j) /\ j <= Len(s)
    BY <1>0, <2>1 DEF StopsAt
  <2> QED
    BY <1>0, <2>2 DEF StopsAt
<1> QED
  BY <1>1, <1>2

\* equals says so of equal texts and of no others.
LEMMA EqualsIsEqual ==
  ASSUME NEW s \in Text, NEW t \in Text
  PROVE  S!Equals(s, t, S!Same) <=> s = t
<1>0. Len(s) \in Nat /\ Len(t) \in Nat /\ IsFold(S!Same)
  BY FoldsAre DEF Text
<1>1. PICK i \in Nat \ {0} :
        /\ StopsAt(S!Same, s, t, i)
        /\ S!Compare(s, t, TRUE, S!Same) = Exact(Seen(S!Same, s, i), Seen(S!Same, t, i))
  BY <1>0, CompareIs
<1>2. Seen(S!Same, s, i) \in Nat /\ Seen(S!Same, t, i) \in Nat
  BY <1>0, SeenIs
<1>3. S!Equals(s, t, S!Same) <=> Seen(S!Same, s, i) = Seen(S!Same, t, i)
  <2>1. S!Equals(s, t, S!Same) <=> Exact(Seen(S!Same, s, i), Seen(S!Same, t, i)) = 0
    BY <1>1, Zenon DEF S!Equals
  <2>2. \A c, d \in Nat : Exact(c, d) = 0 <=> c = d
    BY DEF Exact
  <2> QED
    BY <1>2, <2>1, <2>2, Zenon
<1>4. ASSUME s = t PROVE S!Equals(s, t, S!Same)
  BY <1>3, <1>4
<1>5. ASSUME Seen(S!Same, s, i) = Seen(S!Same, t, i) PROVE s = t
  <2>1. i = Len(s) + 1 /\ i = Len(t) + 1 /\ \A j \in 1 .. i - 1 : Seen(S!Same, s, j) = Seen(S!Same, t, j)
    BY <1>1, <1>5 DEF StopsAt
  <2>2. Len(s) = Len(t) /\ i - 1 = Len(s)
    BY <1>0, <2>1
  <2>3. ASSUME NEW j \in 1 .. Len(s) PROVE s[j] = t[j]
    <3>1. j \in Nat \ {0} /\ j <= Len(s) /\ j <= Len(t)
      BY <1>0, <2>2
    <3>2. /\ Seen(S!Same, s, j) = S!Same[s[j]] /\ s[j] \in S!Characters
          /\ Seen(S!Same, t, j) = S!Same[t[j]] /\ t[j] \in S!Characters
      BY <1>0, <3>1, SeenIs
    <3>3. Seen(S!Same, s, j) = Seen(S!Same, t, j)
      BY <2>1, <2>2
    <3> QED
      BY <3>2, <3>3, FoldsAre
  <2> QED
    BY <2>2, <2>3, SeqEqual DEF Text
<1> QED
  BY <1>3, <1>4, <1>5

\* compare answers the opposite when its texts are exchanged.
LEMMA CompareIsOdd ==
  ASSUME NEW s \in Text, NEW t \in Text
  PROVE  S!Compare(s, t, TRUE, S!Same) = -S!Compare(t, s, TRUE, S!Same)
<1>0. IsFold(S!Same)
  BY FoldsAre
<1>1. PICK i \in Nat \ {0} :
        /\ StopsAt(S!Same, s, t, i)
        /\ S!Compare(s, t, TRUE, S!Same) = Exact(Seen(S!Same, s, i), Seen(S!Same, t, i))
  BY <1>0, CompareIs
<1>2. PICK j \in Nat \ {0} :
        /\ StopsAt(S!Same, t, s, j)
        /\ S!Compare(t, s, TRUE, S!Same) = Exact(Seen(S!Same, t, j), Seen(S!Same, s, j))
  BY <1>0, CompareIs
<1>3. i = j
  BY <1>0, <1>1, <1>2, StopsAtOnce
<1>4. Seen(S!Same, s, i) \in Nat /\ Seen(S!Same, t, i) \in Nat
  BY <1>0, SeenIs
<1>5. \A c, d \in Nat : Exact(c, d) = -Exact(d, c)
  BY DEF Exact
<1> QED
  BY <1>1, <1>2, <1>3, <1>4, <1>5

\* startsWith: as long as the beginning and the same letters up to there.
LEMMA StartsWithIs ==
  ASSUME NEW fold, IsFold(fold), NEW s \in Text, NEW t \in Text
  PROVE  S!StartsWith(s, t, fold) <=> \A i \in 1 .. Len(t) : i <= Len(s) /\ Seen(fold, s, i) = Seen(fold, t, i)
<1>0. Len(s) \in Nat /\ Len(t) \in Nat
  BY DEF Text
<1>1. ASSUME NEW i \in 1 .. Len(t)
      PROVE  fold[S!CharAt(s, i)] = fold[t[i]] <=> i <= Len(s) /\ Seen(fold, s, i) = Seen(fold, t, i)
  <2>1. i \in Nat \ {0} /\ i <= Len(t)
    BY <1>0
  <2>2. Seen(fold, t, i) = fold[t[i]] /\ Seen(fold, t, i) # 0
    BY <1>0, <2>1, SeenIs
  <2>3. Seen(fold, s, i) # 0 => i <= Len(s)
    BY <1>0, <2>1, SeenIs
  <2> QED
    BY <2>2, <2>3 DEF Seen
<1> QED
  BY <1>1 DEF S!StartsWith

\* Without exactness, the comparisons call texts equal of which one begins the other.
LEMMA CompareFindsStart ==
  ASSUME NEW s \in Text, NEW t \in Text
  PROVE  S!Compare(s, t, FALSE, S!Upper) = 0 <=> S!StartsWith(s, t, S!Upper) \/ S!StartsWith(t, s, S!Upper)
<1>0. Len(s) \in Nat /\ Len(t) \in Nat /\ IsFold(S!Upper)
  BY FoldsAre DEF Text
<1>1. PICK i \in Nat \ {0} :
        /\ StopsAt(S!Upper, s, t, i)
        /\ S!Compare(s, t, FALSE, S!Upper) = Inexact(Seen(S!Upper, s, i), Seen(S!Upper, t, i))
  BY <1>0, CompareIs
<1>2. /\ Seen(S!Upper, s, i) \in Nat /\ (Seen(S!Upper, s, i) = 0 <=> i > Len(s))
      /\ Seen(S!Upper, t, i) \in Nat /\ (Seen(S!Upper, t, i) = 0 <=> i > Len(t))
  BY <1>0, SeenIs
<1>3. \A c, d \in Nat : Inexact(c, d) = 0 <=> c = d \/ c = 0 \/ d = 0
  BY DEF Inexact
<1>4. /\ i <= Len(s) + 1 /\ i <= Len(t) + 1
      /\ Seen(S!Upper, s, i) # Seen(S!Upper, t, i) \/ (i = Len(s) + 1 /\ i = Len(t) + 1)
      /\ \A j \in 1 .. i - 1 : Seen(S!Upper, s, j) = Seen(S!Upper, t, j)
  BY <1>0, <1>1 DEF StopsAt
<1>5. S!Compare(s, t, FALSE, S!Upper) = 0 <=> i = Len(s) + 1 \/ i = Len(t) + 1
  <2> DEFINE c == Seen(S!Upper, s, i)
             d == Seen(S!Upper, t, i)
  <2>1. S!Compare(s, t, FALSE, S!Upper) = 0 <=> c = d \/ c = 0 \/ d = 0
    BY <1>1, <1>2, <1>3, Zenon
  <2>2. (c = d \/ c = 0 \/ d = 0) <=> (i = Len(s) + 1 \/ i = Len(t) + 1)
    BY <1>0, <1>2, <1>4
  <2> QED
    BY <2>1, <2>2, Zenon
<1>6. S!StartsWith(s, t, S!Upper) <=> i = Len(t) + 1
  <2>1. ASSUME i = Len(t) + 1 PROVE S!StartsWith(s, t, S!Upper)
    <3>1. \A j \in 1 .. Len(t) : j \in 1 .. i - 1 /\ j <= Len(s)
      BY <1>0, <1>4, <2>1
    <3> QED
      BY <1>0, <1>4, <3>1, StartsWithIs
  <2>2. ASSUME S!StartsWith(s, t, S!Upper), i # Len(t) + 1 PROVE FALSE
    <3>1. i \in 1 .. Len(t)
      BY <1>0, <1>4, <2>2
    <3>2. i <= Len(s) /\ Seen(S!Upper, s, i) = Seen(S!Upper, t, i)
      BY <1>0, <2>2, <3>1, StartsWithIs
    <3> QED
      BY <1>0, <1>4, <2>2, <3>2
  <2> QED
    BY <2>1, <2>2
<1>7. S!StartsWith(t, s, S!Upper) <=> i = Len(s) + 1
  <2>1. ASSUME i = Len(s) + 1 PROVE S!StartsWith(t, s, S!Upper)
    <3>1. \A j \in 1 .. Len(s) : j \in 1 .. i - 1 /\ j <= Len(t)
      BY <1>0, <1>4, <2>1
    <3>2. \A j \in 1 .. Len(s) : j <= Len(t) /\ Seen(S!Upper, t, j) = Seen(S!Upper, s, j)
      BY <1>4, <3>1
    <3> QED
      BY <1>0, <3>2, StartsWithIs
  <2>2. ASSUME S!StartsWith(t, s, S!Upper), i # Len(s) + 1 PROVE FALSE
    <3>1. i \in 1 .. Len(s)
      BY <1>0, <1>4, <2>2
    <3>2. i <= Len(t) /\ Seen(S!Upper, t, i) = Seen(S!Upper, s, i)
      BY <1>0, <2>2, <3>1, StartsWithIs
    <3> QED
      BY <1>0, <1>4, <2>2, <3>2
  <2> QED
    BY <2>1, <2>2
<1> QED
  BY <1>5, <1>6, <1>7

\* t lies in s after the first j characters.
Here(s, t, j) == j + Len(t) <= Len(s) /\ SubSeq(s, j + 1, j + Len(t)) = t

\* The same, letter by letter.
LEMMA HereIs ==
  ASSUME NEW s \in Text, NEW t \in Text, NEW j \in Nat
  PROVE  Here(s, t, j) <=> j + Len(t) <= Len(s) /\ \A k \in 1 .. Len(t) : s[j + k] = t[k]
<1>0. Len(s) \in Nat /\ Len(t) \in Nat
  BY DEF Text
<1> SUFFICES ASSUME j + Len(t) <= Len(s)
             PROVE  SubSeq(s, j + 1, j + Len(t)) = t <=> \A k \in 1 .. Len(t) : s[j + k] = t[k]
  BY DEF Here
<1> DEFINE u == SubSeq(s, j + 1, j + Len(t))
<1>1. /\ u \in Text /\ Len(u) = Len(t)
      /\ \A k \in 1 .. Len(t) : u[k] = s[j + k]
  <2>1. /\ j + 1 \in 1 .. Len(s) + 1 /\ j + Len(t) \in j + 1 - 1 .. Len(s)
        /\ j + Len(t) - (j + 1) + 1 = Len(t)
    BY <1>0
  <2>2. /\ u \in Text /\ Len(u) = j + Len(t) - (j + 1) + 1
        /\ \A k \in 1 .. j + Len(t) - (j + 1) + 1 : u[k] = s[j + 1 + k - 1]
    BY <2>1, SubSeqProperties DEF Text
  <2>3. \A k \in 1 .. Len(t) : j + 1 + k - 1 = j + k
    BY <1>0
  <2> QED
    BY <2>1, <2>2, <2>3
<1> HIDE DEF u
<1>2. (\A k \in 1 .. Len(t) : s[j + k] = t[k]) => u = t
  BY <1>1, SeqEqual DEF Text
<1>3. u = t => \A k \in 1 .. Len(t) : s[j + k] = t[k]
  BY <1>1
<1> QED
  BY <1>2, <1>3 DEF u

\* The search for a text finds the first place that holds it, or none when none does.
LEMMA IndexOfTextIs ==
  ASSUME NEW s \in Text, NEW t \in Text, t # <<>>, NEW start \in 0 .. Len(s)
  PROVE  LET found == S!IndexOfText(s, t, start)
         IN  IF found = -1 THEN \A j \in start .. Len(s) : ~Here(s, t, j)
             ELSE found \in start .. Len(s) /\ Here(s, t, found) /\ \A j \in start .. found - 1 : ~Here(s, t, j)
<1> DEFINE Matches(i) == /\ s[i + 1] = t[1]
                         /\ \A j \in 2 .. Len(t) : s[i + j] = t[j]
           at == {i \in start .. Len(s) - Len(t) : Matches(i)}
           found == S!IndexOfText(s, t, start)
           least == CHOOSE i \in at : \A j \in at : i <= j
<1>0. Len(s) \in Nat /\ Len(t) \in Nat \ {0} /\ start \in Nat /\ start <= Len(s)
  BY EmptySeq DEF Text
<1>1. ASSUME NEW j \in start .. Len(s) PROVE Here(s, t, j) <=> j \in at
  <2>1. Matches(j) <=> \A k \in 1 .. Len(t) : s[j + k] = t[k]
    BY <1>0
  <2>2. j \in start .. Len(s) - Len(t) <=> j + Len(t) <= Len(s)
    BY <1>0
  <2>3. Here(s, t, j) <=> j + Len(t) <= Len(s) /\ \A k \in 1 .. Len(t) : s[j + k] = t[k]
    BY <1>0, HereIs
  <2> HIDE DEF Matches
  <2> QED
    BY <2>1, <2>2, <2>3
<1>2. at \subseteq start .. Len(s) /\ at \subseteq Nat
  BY <1>0
<1>3. Len(s) - start < Len(t) => at = {}
  BY <1>0
<1>4. found = IF at = {} THEN -1 ELSE least
  <2>1. found = IF t = <<>> THEN -1 ELSE IF start > Len(s) THEN S!Wild
                ELSE IF Len(s) - start < Len(t) \/ at = {} THEN -1 ELSE least
    BY DEF S!IndexOfText
  <2> HIDE DEF found, at, least
  <2>2. ~(start > Len(s))
    BY <1>0
  <2> QED
    BY <1>3, <2>1, <2>2
<1> HIDE DEF at, found
<1>5. CASE at = {}
  BY <1>1, <1>4, <1>5 DEF found
<1>6. CASE at # {}
  <2>1. \E i \in at : \A j \in at : i <= j
    BY <1>2, <1>6, LeastOfNat
  <2>2. least \in at /\ \A j \in at : least <= j
    BY <2>1
  <2> HIDE DEF least
  <2>3. found \in at /\ \A j \in at : found <= j
    BY <1>4, <1>6, <2>2
  <2>4. found \in start .. Len(s) /\ found # -1
    BY <1>0, <1>2, <2>3
  <2>5. ASSUME NEW j \in start .. found - 1 PROVE ~Here(s, t, j)
    <3>1. j \in start .. Len(s) /\ ~(found <= j)
      BY <1>0, <2>4
    <3> QED
      BY <1>1, <2>3, <3>1
  <2> QED
    BY <1>1, <2>3, <2>4, <2>5 DEF found
<1> QED
  BY <1>5, <1>6

\* Found at the beginning is what startsWith says.
LEMMA IndexFindsStart ==
  ASSUME NEW s \in Text, NEW t \in Text, t # <<>>
  PROVE  S!IndexOfText(s, t, 0) = 0 <=> S!StartsWith(s, t, S!Same)
<1> DEFINE found == S!IndexOfText(s, t, 0)
<1>0. Len(s) \in Nat /\ Len(t) \in Nat /\ 0 \in 0 .. Len(s) /\ IsFold(S!Same)
  BY FoldsAre DEF Text
<1>1. IF found = -1 THEN \A j \in 0 .. Len(s) : ~Here(s, t, j)
      ELSE found \in 0 .. Len(s) /\ Here(s, t, found) /\ \A j \in 0 .. found - 1 : ~Here(s, t, j)
  BY <1>0, IndexOfTextIs
<1> HIDE DEF found
<1>2. found = 0 <=> Here(s, t, 0)
  BY <1>0, <1>1
<1>3. ASSUME NEW i \in 1 .. Len(t), i <= Len(s)
      PROVE  Seen(S!Same, s, i) = s[i] /\ Seen(S!Same, t, i) = t[i]
  <2>1. i \in Nat \ {0} /\ i <= Len(t) /\ i <= Len(s)
    BY <1>0, <1>3
  <2> QED
    BY <1>0, <2>1, SeenIs, FoldsAre
<1>4. S!StartsWith(s, t, S!Same) <=> \A i \in 1 .. Len(t) : i <= Len(s) /\ s[i] = t[i]
  BY <1>0, <1>3, StartsWithIs
<1>5. Here(s, t, 0) <=> Len(t) <= Len(s) /\ \A i \in 1 .. Len(t) : s[0 + i] = t[i]
  BY <1>0, HereIs
<1>6. (\A i \in 1 .. Len(t) : i <= Len(s)) <=> Len(t) <= Len(s)
  <2>1. ASSUME \A i \in 1 .. Len(t) : i <= Len(s) PROVE Len(t) <= Len(s)
    <3>1. Len(t) = 0 \/ Len(t) \in 1 .. Len(t)
      BY <1>0
    <3> QED
      BY <1>0, <2>1, <3>1
  <2> QED
    BY <1>0, <2>1
<1>7. \A i \in 1 .. Len(t) : 0 + i = i
  BY <1>0
<1>8. Here(s, t, 0) <=> S!StartsWith(s, t, S!Same)
  BY <1>4, <1>5, <1>6, <1>7
<1> QED
  BY <1>2, <1>8 DEF found

\* The searches for a letter and for a text of one letter agree.
LEMMA IndexOfLetter ==
  ASSUME NEW s \in Text, NEW t \in Text, Len(t) = 1, NEW start \in 0 .. Len(s)
  PROVE  S!IndexOfText(s, t, start) = S!IndexOf(s, t[1], start)
<1> DEFINE Matches(i) == /\ s[i + 1] = t[1]
                         /\ \A j \in 2 .. Len(t) : s[i + j] = t[j]
           at1 == {i \in start .. Len(s) - Len(t) : Matches(i)}
           at == {i \in start .. Len(s) - 1 : s[i + 1] = t[1]}
<1>0. Len(s) \in Nat /\ t # <<>> /\ start \in Nat /\ ~(start > Len(s))
  <2>1. Len(s) \in Nat /\ start \in Nat /\ ~(start > Len(s))
    BY DEF Text
  <2>2. t = <<>> => Len(t) = 0
    BY EmptySeq
  <2> QED
    BY <2>1, <2>2
<1>1. at1 = at
  BY <1>0
<1>2. Len(s) - start < Len(t) => at1 = {}
  BY <1>0
<1>3. S!IndexOfText(s, t, start) = IF at1 = {} THEN -1 ELSE CHOOSE i \in at1 : \A j \in at1 : i <= j
  <2>1. S!IndexOfText(s, t, start) =
          IF t = <<>> THEN -1 ELSE IF start > Len(s) THEN S!Wild
          ELSE IF Len(s) - start < Len(t) \/ at1 = {} THEN -1 ELSE CHOOSE i \in at1 : \A j \in at1 : i <= j
    BY DEF S!IndexOfText
  <2> HIDE DEF at1
  <2> QED
    BY <1>0, <1>2, <2>1
<1>4. S!IndexOf(s, t[1], start) = IF at = {} THEN -1 ELSE CHOOSE i \in at : \A j \in at : i <= j
  BY Zenon DEF S!IndexOf
<1> QED
  BY <1>1, <1>3, <1>4, Zenon

\* So the searches agree on every two texts.
LEMMA SearchesAgreeOn ==
  ASSUME str[1].text \in Text, str[2].text \in Text
  PROVE  S!SearchesAgree
<1> DEFINE t == str[1].text
           u == str[2].text
<1>1. S!Equals(t, u, S!Same) <=> t = u
  BY EqualsIsEqual
<1>2. S!Compare(t, u, TRUE, S!Same) = -S!Compare(u, t, TRUE, S!Same)
  BY CompareIsOdd
<1>3. S!Compare(t, u, FALSE, S!Upper) = 0 <=> S!StartsWith(t, u, S!Upper) \/ S!StartsWith(u, t, S!Upper)
  BY CompareFindsStart
<1>4. u # <<>> => (S!IndexOfText(t, u, 0) = 0 <=> S!StartsWith(t, u, S!Same))
  BY IndexFindsStart
<1>5. ASSUME NEW i \in 0 .. Len(t), u # <<>>
      PROVE  LET found == S!IndexOfText(t, u, i)
             IN  /\ IF found = -1 THEN \A j \in i .. Len(t) : ~Here(t, u, j)
                    ELSE Here(t, u, found) /\ \A j \in i .. found - 1 : ~Here(t, u, j)
                 /\ Len(u) = 1 => found = S!IndexOf(t, u[1], i)
  <2>1. LET found == S!IndexOfText(t, u, i)
        IN  IF found = -1 THEN \A j \in i .. Len(t) : ~Here(t, u, j)
            ELSE found \in i .. Len(t) /\ Here(t, u, found) /\ \A j \in i .. found - 1 : ~Here(t, u, j)
    BY <1>5, IndexOfTextIs
  <2>2. Len(u) = 1 => S!IndexOfText(t, u, i) = S!IndexOf(t, u[1], i)
    BY IndexOfLetter
  <2> QED
    BY <2>1, <2>2, Zenon
<1> QED
  BY <1>1, <1>2, <1>3, <1>4, <1>5, Zenon DEF S!SearchesAgree, Here

\* trim keeps the text up to its last letter, if it begins with a letter.
LEMMA TrimmedIs ==
  ASSUME NEW s \in Text
  PROVE  /\ S!TrimmedLength(s) \in 0 .. Len(s)
         /\ (s # <<>> /\ s[1] # S!Blank) =>
              /\ S!TrimmedLength(s) # 0 /\ s[S!TrimmedLength(s)] # S!Blank
              /\ \A i \in S!TrimmedLength(s) + 1 .. Len(s) : s[i] = S!Blank
<1> DEFINE solid == {i \in DOMAIN s : s[i] # S!Blank}
           least == CHOOSE i \in solid : \A j \in solid : i <= j
           greatest == CHOOSE i \in solid : \A j \in solid : i >= j
<1>0. Len(s) \in Nat /\ DOMAIN s = 1 .. Len(s) /\ (s # <<>> => Len(s) # 0)
  <2>1. Len(s) \in Nat /\ DOMAIN s = 1 .. Len(s)
    BY DEF Text
  <2> QED
    BY <2>1, EmptySeq DEF Text
<1>1. S!TrimmedLength(s) = (IF solid = {} THEN Len(s) ELSE greatest) - (IF solid = {} THEN Len(s) ELSE least - 1)
  BY DEF S!TrimmedLength
<1>2. /\ solid \subseteq 1 .. Len(s) /\ solid \subseteq Nat /\ solid \subseteq 0 .. Len(s)
      /\ \A i \in 1 .. Len(s) : i \in solid <=> s[i] # S!Blank
  BY <1>0
<1> HIDE DEF solid
<1>3. CASE solid = {}
  <2>1. S!TrimmedLength(s) = 0
    BY <1>0, <1>1, <1>3
  <2>2. s # <<>> => s[1] = S!Blank
    BY <1>0, <1>2, <1>3
  <2> QED
    BY <1>0, <2>1, <2>2
<1>4. CASE solid # {}
  <2>1. \E i \in solid : \A j \in solid : i <= j
    BY <1>2, <1>4, LeastOfNat
  <2>2. \E i \in solid : \A j \in solid : i >= j
    BY <1>0, <1>2, <1>4, GreatestOfNat
  <2>3. least \in solid /\ \A j \in solid : least <= j
    BY <2>1
  <2>4. greatest \in solid /\ \A j \in solid : greatest >= j
    BY <2>2
  <2> HIDE DEF least, greatest
  <2>5. least \in 1 .. Len(s) /\ greatest \in 1 .. Len(s) /\ least <= greatest
    BY <1>2, <2>3, <2>4
  <2>6. S!TrimmedLength(s) = greatest - (least - 1)
    BY <1>1, <1>4
  <2>7. S!TrimmedLength(s) \in 0 .. Len(s)
    BY <1>0, <2>5, <2>6
  <2>8. ASSUME s # <<>>, s[1] # S!Blank
        PROVE  S!TrimmedLength(s) = greatest /\ s[greatest] # S!Blank /\ greatest # 0
               /\ \A i \in greatest + 1 .. Len(s) : s[i] = S!Blank
    <3>1. 1 \in solid
      BY <1>0, <1>2, <2>8
    <3>2. least = 1
      BY <2>3, <2>5, <3>1
    <3>3. S!TrimmedLength(s) = greatest
      BY <2>5, <2>6, <3>2
    <3>4. ASSUME NEW i \in greatest + 1 .. Len(s) PROVE s[i] = S!Blank
      <4>1. i \in 1 .. Len(s) /\ ~(greatest >= i)
        BY <1>0, <2>5
      <4> QED
        BY <1>2, <2>4, <4>1
    <3> QED
      BY <1>2, <2>4, <2>5, <3>3, <3>4
  <2> QED
    BY <2>7, <2>8
<1> QED
  BY <1>3, <1>4

-----------------------------------------------------------------------------
(* A string and its text                                                   *)

\* What is so of a string whatever it shows: the text and its zero are in its block.
IsString(o) ==
  /\ o = S!String(o.text, o.dataSize, o.isVarData, o.hash)
  /\ o.text \in Text /\ o.dataSize \in Nat
  /\ o.isVarData \in BOOLEAN /\ (o.isVarData => Len(o.text) < o.dataSize)

KeepsHash(o) == o.hash \in {Null, o.text}

StrInv ==
  /\ str = [s \in 1 .. 2 |-> str[s]] /\ stale \subseteq 1 .. 2 /\ lost \subseteq 1 .. 2
  /\ fault # "overrun"
  /\ \A s \in 1 .. 2 : IsString(str[s]) /\ (s \notin stale => KeepsHash(str[s]))

\* The texts of the promise: none of a string that has lost its own.
Said == [s \in 1 .. 2 |-> IF s \in lost THEN <<>> ELSE str[s].text]

LEMMA SaidIs ==
  ASSUME NEW s \in 1 .. 2
  PROVE  /\ s \notin lost => Said[s] = str[s].text
         /\ s \in lost => Said[s] = <<>>
         /\ S!Usable(s) => Said[s] = str[s].text
BY DEF Said, S!Usable

\* A constant, and a text in a block that has room for the zero.
LEMMA ConstIs ==
  ASSUME NEW t \in Text, NEW n \in Nat
  PROVE  IsString(S!Const(t, n)) /\ KeepsHash(S!Const(t, n)) /\ S!Const(t, n).text = t
BY DEF IsString, KeepsHash, S!Const, S!String

LEMMA OwnedIs ==
  ASSUME NEW t \in Text, NEW n \in Nat, Len(t) < n
  PROVE  IsString(S!Owned(t, n)) /\ KeepsHash(S!Owned(t, n)) /\ S!Owned(t, n).text = t
BY DEF IsString, KeepsHash, S!Owned, S!String

\* A string with another text, for which it has made room.
WithText(o, n, t) == [S!Ensured(o, n) EXCEPT !.text = t, !.hash = Null]

\* The block asked for has room for n characters and the zero, and for the text
\* there was; for that of a constant, when it is not to become shorter.
LEMMA RoomIs ==
  ASSUME NEW o, IsString(o), NEW n \in Nat
  PROVE  LET size == S!Ensured(o, n).dataSize
         IN  /\ size \in Nat /\ n < size
             /\ o.isVarData => Len(o.text) < size
             /\ S!Overruns(o, n) => S!Shortens(o, n)
<1> DEFINE size == S!Ensured(o, n).dataSize
<1>0. /\ o.dataSize \in Nat /\ o.isVarData \in BOOLEAN /\ Len(o.text) \in Nat
      /\ o.isVarData => Len(o.text) < o.dataSize
      /\ o = [text |-> o.text, dataSize |-> o.dataSize, isVarData |-> o.isVarData, hash |-> o.hash]
  BY DEF IsString, S!String, Text
<1>1. CASE ~o.isVarData
  <2>1. size = n \div 2 + 1 + n
    BY <1>0, <1>1 DEF S!Ensured
  <2>2. n \div 2 \in Nat
    OBVIOUS
  <2> HIDE DEF size
  <2>3. size \in Nat /\ n < size
    BY <2>1, <2>2
  <2>4. S!Overruns(o, n) <=> n >= size \/ Len(o.text) >= size
    BY <1>1 DEF S!Overruns, size
  <2>5. S!Shortens(o, n) <=> n < Len(o.text)
    BY <1>1 DEF S!Shortens
  <2>6. (n >= size \/ Len(o.text) >= size) => n < Len(o.text)
    BY <1>0, <2>3
  <2> QED
    BY <1>1, <2>3, <2>4, <2>5, <2>6 DEF size
<1>2. CASE o.isVarData
  <2>1. size = IF n >= o.dataSize THEN o.dataSize \div 2 + 1 + n ELSE o.dataSize
    <3>1. [o EXCEPT !.dataSize = o.dataSize \div 2 + 1 + n].dataSize = o.dataSize \div 2 + 1 + n
      BY <1>0
    <3> QED
      BY <1>2, <3>1 DEF S!Ensured
  <2>2. o.dataSize \div 2 \in Nat
    BY <1>0
  <2> HIDE DEF size
  <2>3. size \in Nat /\ n < size /\ o.dataSize <= size
    BY <1>0, <2>1, <2>2
  <2>4. Len(o.text) < size
    BY <1>0, <1>2, <2>3
  <2>5. S!Overruns(o, n) <=> n >= size
    BY <1>2 DEF S!Overruns, size
  <2>6. ~(n >= size)
    BY <2>3
  <2> QED
    BY <2>3, <2>4, <2>5, <2>6 DEF size
<1> QED
  BY <1>0, <1>1, <1>2

\* So the string with the new text in that block is sound.
LEMMA EnsuredIs ==
  ASSUME NEW o, IsString(o), NEW n \in Nat, NEW t \in Text, Len(t) = n
  PROVE  IsString(WithText(o, n, t)) /\ KeepsHash(WithText(o, n, t)) /\ WithText(o, n, t).text = t
<1>0. o.dataSize \in Nat /\ o.isVarData \in BOOLEAN /\ o = S!String(o.text, o.dataSize, o.isVarData, o.hash)
  BY DEF IsString
<1>1. PICK size \in Nat, var \in BOOLEAN :
        /\ S!Ensured(o, n) = S!String(o.text, size, var, o.hash)
        /\ var => n < size
  <2>1. n \div 2 + 1 + n \in Nat /\ n < n \div 2 + 1 + n
    <3>1. n \div 2 \in Nat
      OBVIOUS
    <3> QED
      BY <3>1
  <2>2. o.dataSize \div 2 + 1 + n \in Nat /\ n < o.dataSize \div 2 + 1 + n
    <3>1. o.dataSize \div 2 \in Nat
      BY <1>0
    <3> QED
      BY <3>1
  <2>3. CASE ~o.isVarData
    <3>1. S!Ensured(o, n) = S!String(o.text, n \div 2 + 1 + n, TRUE, o.hash)
      BY <1>0, <2>3 DEF S!Ensured, S!String
    <3> QED
      BY <2>1, <3>1
  <2>4. CASE o.isVarData /\ n >= o.dataSize
    <3>1. S!Ensured(o, n) = S!String(o.text, o.dataSize \div 2 + 1 + n, o.isVarData, o.hash)
      BY <1>0, <2>4 DEF S!Ensured, S!String
    <3> QED
      BY <1>0, <2>2, <3>1
  <2>5. CASE o.isVarData /\ ~(n >= o.dataSize)
    <3>1. S!Ensured(o, n) = S!String(o.text, o.dataSize, o.isVarData, o.hash)
      BY <1>0, <2>5 DEF S!Ensured
    <3>2. n < o.dataSize
      BY <1>0, <2>5
    <3> QED
      BY <1>0, <3>1, <3>2
  <2> QED
    BY <2>3, <2>4, <2>5
<1>2. [S!Ensured(o, n) EXCEPT !.text = t, !.hash = Null] = S!String(t, size, var, Null)
  <2> DEFINE e == S!Ensured(o, n)
  <2> HIDE DEF e
  <2>1. e = [text |-> o.text, dataSize |-> size, isVarData |-> var, hash |-> o.hash]
    BY <1>1 DEF S!String, e
  <2>2. [e EXCEPT !.text = t, !.hash = Null] =
          [text |-> t, dataSize |-> size, isVarData |-> var, hash |-> Null]
    <3>1. [e EXCEPT !.text = t] = [text |-> t, dataSize |-> size, isVarData |-> var, hash |-> o.hash]
      BY <2>1
    <3>2. [[text |-> t, dataSize |-> size, isVarData |-> var, hash |-> o.hash] EXCEPT !.hash = Null] =
            [text |-> t, dataSize |-> size, isVarData |-> var, hash |-> Null]
      OBVIOUS
    <3>3. [e EXCEPT !.text = t, !.hash = Null] = [[e EXCEPT !.text = t] EXCEPT !.hash = Null]
      OBVIOUS
    <3> QED
      BY <3>1, <3>2, <3>3, Zenon
  <2> QED
    BY <2>2 DEF S!String, e
<1>3. IsString(S!String(t, size, var, Null)) /\ KeepsHash(S!String(t, size, var, Null))
      /\ S!String(t, size, var, Null).text = t
  BY <1>1 DEF IsString, KeepsHash, S!String
<1> QED
  BY <1>2, <1>3 DEF WithText

\* There are two strings.
LEMMA OtherIs == ASSUME NEW s \in 1 .. 2 PROVE 3 - s \in 1 .. 2 /\ 3 - s # s /\ \A q \in 1 .. 2 : q = s \/ q = 3 - s
OBVIOUS

\* A call that changes one text as it says is one of the promise's.
LEMMA CallIs ==
  ASSUME fault = "none", NEW s \in 1 .. 2, call'.on = s, call'.op \notin {"trim", "take"}, fault' = fault,
         lost' = IF call'.op = "same" THEN lost ELSE lost \ {s},
         Said'[s] = S!Promise!After(call', Said[s], Said[3 - s]), Said'[3 - s] = Said[3 - s]
  PROVE  S!Promise!Next
<1> DEFINE meant == [Said EXCEPT ![s] = S!Promise!After(call', Said[s], Said[3 - s]),
                                 ![3 - s] = IF call'.op = "take" THEN <<>> ELSE Said[3 - s]]
<1>1. Said = [q \in 1 .. 2 |-> Said[q]] /\ Said' = [q \in 1 .. 2 |-> Said'[q]]
  BY DEF Said
<1>2. ASSUME NEW q \in 1 .. 2 PROVE Said'[q] = meant[q]
  <2> HIDE DEF Said
  <2> QED
    BY <1>1, OtherIs
<1>3. meant = [q \in 1 .. 2 |-> meant[q]]
  <2> HIDE DEF Said
  <2> QED
    BY <1>1
<1>4. Said' = meant
  BY <1>1, <1>2, <1>3
<1>5. S!Promise!Call
  BY <1>4 DEF S!Promise!Call, Said
<1> QED
  BY <1>5 DEF S!Promise!Next

\* What a call does to its text.
LEMMA SameFolds == S!Promise!Upper = S!Upper /\ S!Promise!Lower = S!Lower
BY DEF S!Promise!Upper, S!Upper, S!Promise!Lower, S!Lower, S!Promise!Characters, S!Characters,
       S!Promise!Blank, S!Blank, S!Promise!UpperCase, S!UpperCase, S!Promise!LowerCase, S!LowerCase

LEMMA AfterSet == ASSUME NEW c, c.op = "set", NEW s, NEW t PROVE S!Promise!After(c, s, t) = c.arg
BY DEF S!Promise!After

LEMMA AfterAppend ==
  ASSUME NEW c, c.op = "append", NEW s, NEW t
  PROVE  S!Promise!After(c, s, t) = s \o c.arg
BY DEF S!Promise!After

LEMMA AfterLength ==
  ASSUME NEW c, c.op = "length", NEW s, NEW t
  PROVE  S!Promise!After(c, s, t) = S!Promise!Padded(s, c.at)
BY DEF S!Promise!After

LEMMA AfterChar ==
  ASSUME NEW c, c.op = "char", NEW s, NEW t
  PROVE  S!Promise!After(c, s, t) = [S!Promise!Padded(s, S!Promise!Max({Len(s), c.at + 1})) EXCEPT ![c.at + 1] = c.arg[1]]
BY DEF S!Promise!After

LEMMA AfterUpper ==
  ASSUME NEW c, c.op = "upper", NEW s, NEW t
  PROVE  S!Promise!After(c, s, t) = [i \in DOMAIN s |-> S!Upper[s[i]]]
BY SameFolds DEF S!Promise!After

LEMMA AfterLower ==
  ASSUME NEW c, c.op = "lower", NEW s, NEW t
  PROVE  S!Promise!After(c, s, t) = [i \in DOMAIN s |-> S!Lower[s[i]]]
BY SameFolds DEF S!Promise!After

LEMMA AfterReplace ==
  ASSUME NEW c, c.op = "replace", NEW s, NEW t
  PROVE  S!Promise!After(c, s, t) = [i \in DOMAIN s |-> IF s[i] = c.arg[1] THEN c.arg[2] ELSE s[i]]
BY DEF S!Promise!After

LEMMA AfterRange ==
  ASSUME NEW c, c.op = "range", NEW s, NEW t
  PROVE  S!Promise!After(c, s, t) = SubSeq(t, c.at + 1, c.end)
BY DEF S!Promise!After

LEMMA AfterSame ==
  ASSUME NEW c, c.op = "same", NEW s, NEW t
  PROVE  S!Promise!After(c, s, t) = s
BY DEF S!Promise!After

\* One string becomes another one, and what is said of the other stays.
Becomes(s, o) ==
  /\ str' = [str EXCEPT ![s] = o]
  /\ stale' \subseteq 1 .. 2 /\ (3 - s \in stale' <=> 3 - s \in stale)
  /\ lost' \subseteq 1 .. 2 /\ (3 - s \in lost' <=> 3 - s \in lost)

LEMMA BecomesInv ==
  ASSUME StrInv, NEW s \in 1 .. 2, NEW o, IsString(o), Becomes(s, o), s \notin stale' => KeepsHash(o),
         fault' # "overrun"
  PROVE  /\ StrInv' /\ str'[s] = o /\ Said'[3 - s] = Said[3 - s]
         /\ Said'[s] = IF s \in lost' THEN <<>> ELSE o.text
<1>1. str'[s] = o /\ str'[3 - s] = str[3 - s] /\ str' = [q \in 1 .. 2 |-> str'[q]]
  BY OtherIs DEF StrInv, Becomes
<1>2. ASSUME NEW q \in 1 .. 2 PROVE IsString(str'[q]) /\ (q \notin stale' => KeepsHash(str'[q]))
  <2>1. CASE q = s
    BY <1>1, <2>1
  <2>2. CASE q = 3 - s
    BY <1>1, <2>2, OtherIs DEF StrInv, Becomes
  <2> QED
    BY <2>1, <2>2, OtherIs
<1>3. StrInv'
  BY <1>1, <1>2 DEF StrInv, Becomes, IsString, KeepsHash
<1>4. Said'[3 - s] = Said[3 - s]
  BY <1>1, OtherIs DEF Said, Becomes
<1>5. Said'[s] = IF s \in lost' THEN <<>> ELSE o.text
  BY <1>1 DEF Said
<1> QED
  BY <1>1, <1>3, <1>4, <1>5

\* A call that makes another string of one of the two.
LEMMA BecomesIs ==
  ASSUME StrInv, fault = "none", NEW s \in 1 .. 2, NEW o, IsString(o), Becomes(s, o), s \notin stale' => KeepsHash(o),
         fault' = fault, call'.on = s, call'.op \notin {"trim", "take"},
         lost' = lost \ {s}, call'.op = "same" => s \notin lost,
         o.text = S!Promise!After(call', Said[s], Said[3 - s])
  PROVE  StrInv' /\ S!Promise!Next
<1>1. /\ StrInv' /\ Said'[3 - s] = Said[3 - s]
      /\ Said'[s] = IF s \in lost' THEN <<>> ELSE o.text
  BY BecomesInv
<1>2. Said'[s] = S!Promise!After(call', Said[s], Said[3 - s])
  BY <1>1
<1>3. lost' = IF call'.op = "same" THEN lost ELSE lost \ {s}
  OBVIOUS
<1> QED
  BY <1>1, <1>2, <1>3, CallIs

\* A call that makes the string anew.
LEMMA PutIs ==
  ASSUME StrInv, fault = "none", NEW s \in 1 .. 2, NEW o, IsString(o), KeepsHash(o), NEW c, S!Put(s, o, c),
         c.on = s, c.op \notin {"trim", "take", "same"},
         o.text = S!Promise!After(c, Said[s], Said[3 - s])
  PROVE  StrInv' /\ S!Promise!Next
<1>1. /\ str' = [str EXCEPT ![s] = o] /\ call' = c
      /\ stale' = stale \ {s} /\ lost' = lost \ {s} /\ fault' = fault
  BY DEF S!Put
<1>2. Becomes(s, o)
  BY <1>1, OtherIs DEF StrInv, Becomes
<1> HIDE DEF Becomes
<1> QED
  BY <1>1, <1>2, BecomesIs

\* The reasons for which a call may fail.
Excused(c, why) ==
  \/ why = "lost" /\ lost # {}
  \/ why = "memory" /\ c.op \in {"char", "range"}
  \/ why = "constant" /\ c.op \in {"char", "replace", "upper", "lower", "trim"}
  \/ /\ why = "shortened" /\ c.op \in {"set", "length", "range"}
     /\ Len(S!Promise!After(c, Said[c.on], Said[3 - c.on])) < Len(Said[c.on])
  \/ why = "range" /\ c.op = "range" /\ c.end < c.at

LEMMA FailsIs ==
  ASSUME StrInv, fault = "none", NEW c, NEW why, S!Fails(c, why), Excused(c, why)
  PROVE  StrInv' /\ S!Promise!Next
<1>1. fault' = why /\ call' = c /\ str' = str /\ stale' = stale /\ lost' = lost
  BY DEF S!Fails
<1>2. StrInv'
  <2>1. fault' # "overrun"
    BY <1>1 DEF Excused
  <2> QED
    BY <1>1, <2>1 DEF StrInv, IsString, KeepsHash
<1>3. Said' = Said
  BY <1>1 DEF Said
<1>4. S!Promise!Fault
  BY <1>1, <1>3 DEF S!Promise!Fault, Excused, Said
<1> QED
  BY <1>2, <1>4 DEF S!Promise!Next

\* A string that finds no memory.
LEMMA LoseIs ==
  ASSUME StrInv, fault = "none", NEW s \in 1 .. 2, NEW o, IsString(o),
         KeepsHash(o) \/ (o.hash = str[s].hash /\ o.text = str[s].text), NEW c, S!Lose(s, o, c), c.on = s, c.op \in {"set", "append", "length"}
  PROVE  StrInv' /\ S!Promise!Next
<1>1. /\ str' = [str EXCEPT ![s] = o] /\ lost' = lost \cup {s}
      /\ call' = c /\ stale' = stale /\ fault' = fault
  BY DEF S!Lose
<1>2. Becomes(s, o)
  BY <1>1, OtherIs DEF StrInv, Becomes
<1>3. s \notin stale' => KeepsHash(o)
  BY <1>1 DEF StrInv, KeepsHash
<1>4. fault' # "overrun"
  BY <1>1
<1> HIDE DEF Becomes
<1>5. /\ StrInv' /\ Said'[3 - s] = Said[3 - s]
      /\ Said'[s] = IF s \in lost' THEN <<>> ELSE o.text
  BY <1>2, <1>3, <1>4, BecomesInv
<1>6. Said' = [Said EXCEPT ![s] = <<>>]
  <2>1. Said = [q \in 1 .. 2 |-> Said[q]] /\ Said' = [q \in 1 .. 2 |-> Said'[q]]
    BY DEF Said
  <2>2. ASSUME NEW q \in 1 .. 2 PROVE Said'[q] = [Said EXCEPT ![s] = <<>>][q]
    <3> HIDE DEF Said
    <3> QED
      BY <1>1, <1>5, <2>1, OtherIs
  <2> HIDE DEF Said
  <2> QED
    BY <2>1, <2>2
<1>7. S!Promise!NoMemory
  BY <1>1, <1>6 DEF S!Promise!NoMemory, Said
<1> QED
  BY <1>5, <1>7 DEF S!Promise!Next

\* A call that asks for room.
LEMMA ChangeIs ==
  ASSUME StrInv, fault = "none", NEW s \in 1 .. 2, NEW n \in Nat, NEW t \in Text, Len(t) = n, NEW c, S!Change(s, n, t, c),
         c.on = s, c.op \in {"set", "append", "length", "char", "range"},
         S!Shortens(str[s], n) => c.op \in {"set", "length", "range"},
         t = S!Promise!After(c, str[s].text, Said[3 - s])
  PROVE  StrInv' /\ S!Promise!Next
<1> DEFINE o == str[s]
           size == S!Ensured(o, n).dataSize
           without == [o EXCEPT !.dataSize = IF o.isVarData THEN size ELSE 0]
           e == WithText(o, n, t)
<1>0. IsString(o) /\ (s \notin stale => KeepsHash(o))
  BY DEF StrInv
<1>1. /\ Said[s] = o.text
      /\ t = S!Promise!After(c, Said[s], Said[3 - s])
  <2>1. S!Usable(s)
    BY DEF S!Change
  <2> QED
    BY <2>1, SaidIs
<1>2. /\ size \in Nat /\ (o.isVarData => Len(o.text) < size)
      /\ S!Overruns(o, n) => S!Shortens(o, n)
  BY <1>0, RoomIs
<1>3. \/ c.op \in {"range", "char"} /\ S!Fails(c, "memory")
      \/ c.op \notin {"range", "char"} /\ S!Lose(s, without, c)
      \/ S!Overruns(o, n) /\ S!Fails(c, IF S!Shortens(o, n) THEN "shortened" ELSE "overrun")
      \/ S!Put(s, e, c)
  BY DEF S!Change, WithText
<1>4. CASE c.op \in {"range", "char"} /\ S!Fails(c, "memory")
  <2>1. Excused(c, "memory")
    BY <1>4 DEF Excused
  <2> HIDE DEF Excused
  <2> QED
    BY <1>4, <2>1, FailsIs
<1>5. CASE c.op \notin {"range", "char"} /\ S!Lose(s, without, c)
  <2>1. IsString(without) /\ without.hash = o.hash /\ without.text = o.text
    <3> HIDE DEF o, size
    <3>1. /\ o = [text |-> o.text, dataSize |-> o.dataSize, isVarData |-> o.isVarData, hash |-> o.hash]
          /\ o.text \in Text /\ o.isVarData \in BOOLEAN
      BY <1>0 DEF IsString, S!String
    <3>2. PICK m \in Nat : m = (IF o.isVarData THEN size ELSE 0) /\ (o.isVarData => Len(o.text) < m)
      BY <1>2
    <3>3. without = [text |-> o.text, dataSize |-> m, isVarData |-> o.isVarData, hash |-> o.hash]
      BY <3>1, <3>2
    <3> HIDE DEF without
    <3> QED
      BY <3>1, <3>2, <3>3 DEF IsString, S!String
  <2> HIDE DEF without, o
  <2>2. c.op \in {"set", "append", "length"}
    BY <1>5
  <2> QED
    BY <1>5, <2>1, <2>2, LoseIs DEF o
<1>6. CASE S!Overruns(o, n) /\ S!Fails(c, IF S!Shortens(o, n) THEN "shortened" ELSE "overrun")
  <2>1. S!Shortens(o, n) /\ S!Fails(c, "shortened")
    BY <1>2, <1>6
  <2>2. n < Len(Said[s])
    BY <1>1, <2>1 DEF S!Shortens
  <2>3. Len(S!Promise!After(c, Said[c.on], Said[3 - c.on])) < Len(Said[c.on])
    <3>1. Len(S!Promise!After(c, Said[s], Said[3 - s])) = n
      BY <1>1
    <3> QED
      BY <2>2, <3>1
  <2>4. Excused(c, "shortened")
    BY <2>1, <2>3 DEF Excused
  <2> HIDE DEF Excused
  <2> QED
    BY <2>1, <2>4, FailsIs
<1>7. CASE S!Put(s, e, c)
  <2>1. IsString(e) /\ KeepsHash(e) /\ e.text = t
    BY <1>0, EnsuredIs
  <2> HIDE DEF e, o
  <2>2. e.text = S!Promise!After(c, Said[s], Said[3 - s]) /\ c.op \notin {"trim", "take", "same"}
    BY <1>1, <2>1
  <2> QED
    BY <1>7, <2>1, <2>2, PutIs
<1> QED
  BY <1>3, <1>4, <1>5, <1>6, <1>7

\* A character within the text is changed where it is.
LEMMA InPlaceIs ==
  ASSUME StrInv, NEW s \in 1 .. 2, NEW t \in Text, Len(t) <= Len(str[s].text), NEW c,
         NEW writes, NEW forgets \in BOOLEAN, S!InPlace(s, t, c, writes, forgets), fault = "none"
  PROVE  \/ S!Fails(c, "constant")
         \/ /\ StrInv' /\ call' = c /\ lost' = lost /\ fault' = fault /\ s \notin lost
            /\ Said[s] = str[s].text /\ Said'[s] = t /\ Said'[3 - s] = Said[3 - s]
<1> DEFINE o == str[s]
           changed == t # o.text
           forgotten == forgets /\ changed
           hash == IF forgotten THEN Null ELSE o.hash
           e == S!String(t, o.dataSize, o.isVarData, hash)
<1> SUFFICES ASSUME ~S!Fails(c, "constant")
             PROVE  /\ StrInv' /\ call' = c /\ lost' = lost /\ fault' = fault /\ s \notin lost
                    /\ Said[s] = o.text /\ Said'[s] = t /\ Said'[3 - s] = Said[3 - s]
  OBVIOUS
<1>1. /\ str' = [str EXCEPT ![s].text = t, ![s].hash = hash]
      /\ stale' = IF forgotten THEN stale \ {s} ELSE IF changed /\ ~forgets THEN stale \cup {s} ELSE stale
      /\ lost' = lost /\ fault' = fault /\ s \notin lost
      /\ call' = c
  BY DEF S!InPlace
<1>2. IsString(o) /\ (s \notin stale => KeepsHash(o)) /\ Len(o.text) \in Nat
  BY DEF StrInv, IsString, Text
<1> HIDE DEF hash
<1>3. str' = [str EXCEPT ![s] = e]
  <2>1. o = [text |-> o.text, dataSize |-> o.dataSize, isVarData |-> o.isVarData, hash |-> o.hash]
    BY <1>2 DEF IsString, S!String
  <2>2. [o EXCEPT !.text = t] = [text |-> t, dataSize |-> o.dataSize, isVarData |-> o.isVarData, hash |-> o.hash]
    BY <2>1
  <2>3. [[text |-> t, dataSize |-> o.dataSize, isVarData |-> o.isVarData, hash |-> o.hash] EXCEPT !.hash = hash]
          = e
    BY DEF S!String
  <2> DEFINE f == [str EXCEPT ![s].text = t]
  <2>4. f = [str EXCEPT ![s] = [text |-> t, dataSize |-> o.dataSize, isVarData |-> o.isVarData, hash |-> o.hash]]
    BY <2>2
  <2>5. str' = [f EXCEPT ![s].hash = hash]
    BY <1>1
  <2> HIDE DEF f, o
  <2>6. /\ f[s] = [text |-> t, dataSize |-> o.dataSize, isVarData |-> o.isVarData, hash |-> o.hash]
        /\ DOMAIN f = 1 .. 2 /\ f = [q \in 1 .. 2 |-> f[q]] /\ \A q \in 1 .. 2 : q # s => f[q] = str[q]
    BY <2>4 DEF StrInv
  <2>7. str' = [f EXCEPT ![s] = [f[s] EXCEPT !.hash = hash]]
    BY <2>5
  <2>8. str' = [f EXCEPT ![s] = e]
    BY <2>3, <2>6, <2>7
  <2> HIDE DEF e
  <2> QED
    BY <2>6, <2>8 DEF StrInv
<1>4. /\ IsString(e) /\ (s \notin stale' => KeepsHash(e)) /\ e.text = t
  <2>1. o.isVarData => Len(t) < o.dataSize
    BY <1>2 DEF IsString, Text
  <2>2. IsString(e) /\ e.text = t /\ e.hash = hash
    BY <1>2, <2>1 DEF IsString, S!String
  <2>3. ASSUME s \notin stale' PROVE hash \in {Null, t}
    <3>1. CASE forgotten
      BY <3>1 DEF hash
    <3>2. CASE ~forgotten
      <4>1. ~changed /\ s \notin stale
        BY <1>1, <2>3, <3>2
      <4> QED
        BY <1>2, <3>2, <4>1 DEF hash, KeepsHash
    <3> QED
      BY <3>1, <3>2
  <2> QED
    BY <2>2, <2>3 DEF KeepsHash
<1> HIDE DEF e
<1>5. Becomes(s, e)
  BY <1>1, <1>3, OtherIs DEF StrInv, Becomes
<1>6. fault' # "overrun"
  BY <1>1
<1> HIDE DEF Becomes
<1>7. /\ StrInv' /\ Said'[3 - s] = Said[3 - s]
      /\ Said'[s] = IF s \in lost' THEN <<>> ELSE e.text
  BY <1>4, <1>5, <1>6, BecomesInv
<1>8. Said[s] = o.text
  BY <1>1, SaidIs
<1> QED
  BY <1>1, <1>4, <1>7, <1>8

\* A call that changes letters where they are does to the text what it says.
LEMMA InPlaceIsCall ==
  ASSUME StrInv, fault = "none", NEW s \in 1 .. 2, NEW t \in Text, Len(t) <= Len(str[s].text), NEW c,
         NEW writes, NEW forgets \in BOOLEAN, S!InPlace(s, t, c, writes, forgets),
         c.on = s, c.op \in {"char", "replace", "upper", "lower"},
         t = S!Promise!After(c, str[s].text, Said[3 - s])
  PROVE  StrInv' /\ S!Promise!Next
<1>1. CASE S!Fails(c, "constant")
  <2>1. Excused(c, "constant")
    BY DEF Excused
  <2> HIDE DEF Excused
  <2> QED
    BY <1>1, <2>1, FailsIs
<1>2. CASE ~S!Fails(c, "constant")
  <2>1. /\ StrInv' /\ call' = c /\ lost' = lost /\ fault' = fault /\ s \notin lost
        /\ Said[s] = str[s].text /\ Said'[s] = t /\ Said'[3 - s] = Said[3 - s]
    BY <1>2, InPlaceIs
  <2>2. Said'[s] = S!Promise!After(call', Said[s], Said[3 - s])
    BY <2>1
  <2>3. lost' = IF call'.op = "same" THEN lost ELSE lost \ {s}
    BY <2>1
  <2>4. call'.on = s /\ call'.op \notin {"trim", "take"}
    BY <2>1
  <2> QED
    BY <2>1, <2>2, <2>3, <2>4, CallIs
<1> QED
  BY <1>1, <1>2

-----------------------------------------------------------------------------
(* The operations of strings                                               *)

LEMMA CallFields ==
  ASSUME NEW name, NEW s, NEW arg, NEW at, NEW end
  PROVE  LET c == S!Call(name, s, arg, at, end)
         IN  c.op = name /\ c.on = s /\ c.arg = arg /\ c.at = at /\ c.end = end
BY DEF S!Call

LEMMA TextsAre ==
  ASSUME StrInv, NEW s \in 1 .. 2
  PROVE  /\ IsString(str[s]) /\ str[s].text \in Text /\ Len(str[s].text) \in Nat
         /\ DOMAIN str[s].text = 1 .. Len(str[s].text) /\ <<>> \in Text /\ Len(<<>>) = 0
         /\ str[s].text = <<>> <=> Len(str[s].text) = 0
<1>1. IsString(str[s]) /\ str[s].text \in Text
  BY DEF StrInv, IsString
<1> QED
  BY <1>1, EmptySeq DEF Text

LEMMA SetIs ==
  ASSUME StrInv, fault = "none", NEW s \in 1 .. 2, NEW t \in Text, NEW o, IsString(o), KeepsHash(o), o.text = t,
         S!Put(s, o, S!Call("set", s, t, 0, 0))
  PROVE  StrInv' /\ S!Promise!Next
<1> DEFINE c == S!Call("set", s, t, 0, 0)
<1>1. c.op = "set" /\ c.on = s /\ c.arg = t
  BY CallFields
<1>2. S!Put(s, o, c)
  OBVIOUS
<1> HIDE DEF c
<1>3. o.text = S!Promise!After(c, Said[s], Said[3 - s]) /\ c.op \notin {"trim", "take", "same"}
  BY <1>1, AfterSet
<1> QED
  BY <1>1, <1>2, <1>3, PutIs

LEMMA MakeIs ==
  ASSUME StrInv, fault = "none", NEW s \in 1 .. 2, NEW t \in Text, NEW n \in Nat, n = Len(t) \/ t = <<>>, S!Make(s, t, n)
  PROVE  StrInv' /\ S!Promise!Next
<1>0. Len(t) \in Nat /\ (Len(t) = 0 <=> t = <<>>)
  BY EmptySeq DEF Text
<1>1. CASE n = 0
  <2>1. t = <<>> /\ S!Put(s, S!Const(t, 0), S!Call("set", s, t, 0, 0))
    BY <1>0, <1>1 DEF S!Make
  <2> QED
    BY <2>1, ConstIs, SetIs
<1>2. CASE n # 0
  <2>1. S!Put(s, S!Owned(t, n + 1), S!Call("set", s, t, 0, 0)) /\ Len(t) < n + 1 /\ n + 1 \in Nat
    BY <1>0, <1>2 DEF S!Make
  <2> QED
    BY <2>1, OwnedIs, SetIs
<1> QED
  BY <1>1, <1>2

\* initCapacity and initValue without memory.
LEMMA NoBlockIs ==
  ASSUME StrInv, fault = "none", NEW s \in 1 .. 2, NEW t \in Text, NEW n \in Nat, S!NoBlock(s, t, n)
  PROVE  StrInv' /\ S!Promise!Next
<1>1. CASE t = <<>>
  <2>1. S!Put(s, S!Const(<<>>, n + 1), S!Call("set", s, <<>>, 0, 0)) /\ n + 1 \in Nat /\ <<>> \in Text
    BY <1>1, TextsAre DEF S!NoBlock
  <2> QED
    BY <2>1, ConstIs, SetIs
<1>2. CASE t # <<>>
  <2> DEFINE c == S!Call("set", s, t, 0, 0)
             o == S!Const(t, 0)
  <2>1. S!Lose(s, o, c)
    BY <1>2 DEF S!NoBlock
  <2>2. c.op = "set" /\ c.on = s
    BY CallFields
  <2>3. IsString(o) /\ KeepsHash(o)
    BY ConstIs
  <2> HIDE DEF c, o
  <2> QED
    BY <2>1, <2>2, <2>3, LoseIs
<1> QED
  BY <1>1, <1>2

LEMMA MakeConstIs ==
  ASSUME StrInv, fault = "none", NEW s \in 1 .. 2, NEW t \in Text, S!MakeConst(s, t) \/ S!SetConst(s, t)
  PROVE  StrInv' /\ S!Promise!Next
<1>1. PICK n \in Nat : S!Put(s, S!Const(t, n), S!Call("set", s, t, 0, 0))
  <2>1. (IF t = <<>> THEN 0 ELSE Len(t) + 1) \in Nat
    BY DEF Text
  <2> QED
    BY <2>1 DEF S!MakeConst, S!SetConst
<1> QED
  BY <1>1, ConstIs, SetIs

LEMMA ClearIs ==
  ASSUME StrInv, fault = "none", NEW s \in 1 .. 2, S!Clear(s)
  PROVE  StrInv' /\ S!Promise!Next
<1>0. IsString(str[s]) /\ <<>> \in Text /\ Len(<<>>) = 0 /\ Len(str[s].text) \in Nat
  BY TextsAre
<1>1. CASE str[s].isVarData
  <2> DEFINE o == str[s]
             e == [o EXCEPT !.text = <<>>, !.hash = Null]
  <2>1. S!Put(s, e, S!Call("set", s, <<>>, 0, 0))
    BY <1>1 DEF S!Clear
  <2> HIDE DEF o
  <2>2. o = [text |-> o.text, dataSize |-> o.dataSize, isVarData |-> o.isVarData, hash |-> o.hash]
    BY <1>0 DEF IsString, S!String, o
  <2>3. [o EXCEPT !.text = <<>>] = [text |-> <<>>, dataSize |-> o.dataSize, isVarData |-> o.isVarData, hash |-> o.hash]
    BY <2>2
  <2>4. [[text |-> <<>>, dataSize |-> o.dataSize, isVarData |-> o.isVarData, hash |-> o.hash] EXCEPT !.hash = Null]
          = [text |-> <<>>, dataSize |-> o.dataSize, isVarData |-> o.isVarData, hash |-> Null]
    OBVIOUS
  <2>5. e = [[o EXCEPT !.text = <<>>] EXCEPT !.hash = Null]
    OBVIOUS
  <2>6. e = S!String(<<>>, o.dataSize, o.isVarData, Null)
    BY <2>3, <2>4, <2>5, Zenon DEF S!String
  <2> HIDE DEF e
  <2>7. o.dataSize \in Nat /\ o.isVarData \in BOOLEAN /\ 0 < o.dataSize
    BY <1>0, <1>1 DEF IsString, o
  <2>8. IsString(e) /\ KeepsHash(e) /\ e.text = <<>>
    BY <1>0, <2>6, <2>7 DEF IsString, KeepsHash, S!String
  <2> QED
    BY <1>0, <2>1, <2>8, SetIs
<1>2. CASE ~str[s].isVarData
  <2>1. S!Put(s, S!Const(<<>>, 0), S!Call("set", s, <<>>, 0, 0))
    BY <1>2 DEF S!Clear
  <2> QED
    BY <1>0, <2>1, ConstIs, SetIs
<1> QED
  BY <1>1, <1>2

LEMMA SetValueIs ==
  ASSUME StrInv, fault = "none", NEW s \in 1 .. 2, NEW t \in Text, S!SetValue(s, t) \/ S!SetFormat(s, t)
  PROVE  StrInv' /\ S!Promise!Next
<1> DEFINE c == S!Call("set", s, t, 0, 0)
<1>0. c.op = "set" /\ c.on = s /\ c.arg = t /\ Len(t) \in Nat
  BY CallFields DEF Text
<1>1. S!Clear(s) \/ S!SetConst(s, t) \/ S!Change(s, Len(t), t, c)
  BY DEF S!SetValue, S!SetFormat
<1> HIDE DEF c
<1>2. t = S!Promise!After(c, str[s].text, Said[3 - s])
  BY <1>0, AfterSet
<1>3. S!Change(s, Len(t), t, c) => StrInv' /\ S!Promise!Next
  BY <1>0, <1>2, ChangeIs
<1> QED
  BY <1>1, <1>3, ClearIs, MakeConstIs

LEMMA AppendIs ==
  ASSUME StrInv, fault = "none", NEW s \in 1 .. 2, NEW t \in Text, S!AppendText(s, t)
  PROVE  StrInv' /\ S!Promise!Next
<1> DEFINE c == S!Call("append", s, t, 0, 0)
           whole == str[s].text \o t
<1>0. c.op = "append" /\ c.on = s /\ c.arg = t
  BY CallFields
<1>1. S!Change(s, Len(whole), whole, c)
  BY DEF S!AppendText
<1>4. ~S!Shortens(str[s], Len(whole))
  <2>1. Len(whole) = Len(str[s].text) + Len(t) /\ Len(t) \in Nat /\ Len(str[s].text) \in Nat
    BY TextsAre, ConcatProperties DEF Text
  <2> QED
    BY <2>1 DEF S!Shortens
<1>2. whole \in Text /\ Len(whole) \in Nat
  <2>1. str[s].text \in Text
    BY TextsAre
  <2>2. whole \in Text
    BY <2>1, ConcatProperties DEF Text
  <2> QED
    BY <2>2 DEF Text
<1> HIDE DEF c
<1>3. whole = S!Promise!After(c, str[s].text, Said[3 - s])
  BY <1>0, AfterAppend
<1> HIDE DEF whole
<1> QED
  BY <1>0, <1>1, <1>2, <1>3, <1>4, ChangeIs

\* A row of letters is a text.
LEMMA TextOf ==
  ASSUME NEW n \in Nat, NEW u, u = [j \in 1 .. n |-> u[j]], \A j \in 1 .. n : u[j] \in S!Characters
  PROVE  u \in Text /\ Len(u) = n
<1>1. u \in [1 .. n -> S!Characters]
  OBVIOUS
<1> QED
  BY <1>1 DEF Text

\* A text cut or filled up with blanks.
LEMMA PaddedIs ==
  ASSUME NEW t \in Text, NEW n \in Nat
  PROVE  /\ S!Promise!Padded(t, n) = [i \in 1 .. n |-> IF i <= Len(t) THEN t[i] ELSE S!Blank]
         /\ S!Promise!Padded(t, n) \in Text /\ Len(S!Promise!Padded(t, n)) = n
<1>0. Len(t) \in Nat /\ \A i \in 1 .. Len(t) : t[i] \in S!Characters
  BY DEF Text
<1>1. S!Promise!Padded(t, n) = [i \in 1 .. n |-> IF i <= Len(t) THEN t[i] ELSE S!Blank]
  BY DEF S!Promise!Padded, S!Promise!Blank, S!Blank
<1>2. \A i \in 1 .. n : (IF i <= Len(t) THEN t[i] ELSE S!Blank) \in S!Characters
  BY <1>0, CharactersAre
<1> QED
  BY <1>1, <1>2 DEF Text

LEMMA SetLengthIs ==
  ASSUME StrInv, fault = "none", NEW s \in 1 .. 2, NEW n \in Nat,
         S!SetLength(s, n) \/ (n = 0 /\ S!Change(s, 0, <<>>, S!Call("length", s, <<>>, 0, 0)))
  PROVE  StrInv' /\ S!Promise!Next
<1> DEFINE c == S!Call("length", s, <<>>, n, 0)
           t == S!Promise!Padded(str[s].text, n)
<1>0. c.op = "length" /\ c.on = s /\ c.at = n
  BY CallFields
<1>1. t \in Text /\ Len(t) = n /\ t = [i \in 1 .. n |-> IF i <= Len(str[s].text) THEN str[s].text[i] ELSE S!Blank]
  BY TextsAre, PaddedIs
<1> HIDE DEF t
<1>2. S!Change(s, n, t, c)
  <2>1. n = 0 => t = <<>>
    BY <1>1, EmptySeq DEF Text
  <2> QED
    BY <1>1, <2>1 DEF S!SetLength
<1> HIDE DEF c
<1>3. t = S!Promise!After(c, str[s].text, Said[3 - s])
  BY <1>0, AfterLength DEF t
<1> QED
  BY <1>0, <1>1, <1>2, <1>3, ChangeIs

LEMMA MaxIs ==
  ASSUME NEW m \in Nat, NEW n \in Nat
  PROVE  S!Promise!Max({m, n}) = IF m < n THEN n ELSE m
BY DEF S!Promise!Max

LEMMA SetCharIs ==
  ASSUME StrInv, fault = "none", NEW s \in 1 .. 2, NEW i \in Nat, NEW char \in S!Characters, S!SetChar(s, i, char)
  PROVE  StrInv' /\ S!Promise!Next
<1> DEFINE c == S!Call("char", s, <<char>>, i, 0)
           t == str[s].text
           padded == S!Promise!Padded(t, S!Promise!Max({Len(t), i + 1}))
           u == [padded EXCEPT ![i + 1] = char]
<1>0. c.op = "char" /\ c.on = s /\ c.at = i /\ c.arg[1] = char
  BY CallFields
<1>1. t \in Text /\ Len(t) \in Nat /\ (\A j \in 1 .. Len(t) : t[j] \in S!Characters) /\ DOMAIN t = 1 .. Len(t)
      /\ t = [j \in 1 .. Len(t) |-> t[j]]
  BY TextsAre DEF Text
<1>2. u = S!Promise!After(c, t, Said[3 - s])
  <2> HIDE DEF c, t
  <2> QED
    BY <1>0, AfterChar
<1>3. CASE i >= Len(t)
  <2> DEFINE longer == [j \in 1 .. i + 1 |-> IF j = i + 1 THEN char ELSE IF j <= Len(t) THEN t[j] ELSE S!Blank]
  <2>1. S!Change(s, i + 1, longer, c)
    BY <1>3 DEF S!SetChar
  <2>2. S!Promise!Max({Len(t), i + 1}) = i + 1
    <3> HIDE DEF t
    <3>1. i + 1 \in Nat /\ Len(t) \in Nat /\ Len(t) < i + 1
      BY <1>1, <1>3
    <3> QED
      BY <3>1, MaxIs
  <2>3. padded = [j \in 1 .. i + 1 |-> IF j <= Len(t) THEN t[j] ELSE S!Blank]
    <3>1. padded = S!Promise!Padded(t, i + 1) /\ i + 1 \in Nat
      BY <2>2
    <3> HIDE DEF t, padded
    <3> QED
      BY <1>1, <3>1, PaddedIs
  <2>4. u = longer
    BY <1>1, <2>3
  <2>5. longer \in Text /\ Len(longer) = i + 1
    <3> HIDE DEF t
    <3>1. \A j \in 1 .. i + 1 : longer[j] \in S!Characters
      BY <1>1, CharactersAre
    <3>2. i + 1 \in Nat /\ longer = [j \in 1 .. i + 1 |-> longer[j]]
      OBVIOUS
    <3> QED
      BY <3>1, <3>2, TextOf
  <2>7. ~S!Shortens(str[s], i + 1)
    BY <1>1, <1>3 DEF S!Shortens
  <2> HIDE DEF c, longer, u
  <2>6. i + 1 \in Nat /\ longer = S!Promise!After(c, str[s].text, Said[3 - s])
    BY <1>2, <2>4
  <2> QED
    BY <1>0, <2>1, <2>5, <2>6, <2>7, ChangeIs
<1>4. CASE ~(i >= Len(t))
  <2> DEFINE new == [t EXCEPT ![i + 1] = char]
  <2>1. S!InPlace(s, new, c, TRUE, FALSE)
    BY <1>4 DEF S!SetChar
  <2>2. S!Promise!Max({Len(t), i + 1}) = Len(t)
    <3> HIDE DEF t
    <3>1. i + 1 \in Nat /\ Len(t) \in Nat /\ ~(Len(t) < i + 1)
      BY <1>1, <1>4
    <3> QED
      BY <3>1, MaxIs
  <2>3. padded = t
    <3>1. padded = S!Promise!Padded(t, Len(t))
      BY <2>2
    <3> HIDE DEF t, padded
    <3>2. padded = [j \in 1 .. Len(t) |-> IF j <= Len(t) THEN t[j] ELSE S!Blank]
      BY <1>1, <3>1, PaddedIs
    <3> QED
      BY <1>1, <3>2
  <2>4. u = new
    BY <2>3
  <2>5. new \in Text /\ Len(new) <= Len(t)
    <3> HIDE DEF t
    <3>1. new = [j \in 1 .. Len(t) |-> new[j]] /\ \A j \in 1 .. Len(t) : new[j] \in S!Characters
      BY <1>1
    <3> HIDE DEF new
    <3> QED
      BY <1>1, <3>1, TextOf
  <2> HIDE DEF c, new, u
  <2> QED
    BY <1>0, <1>2, <2>1, <2>4, <2>5, InPlaceIsCall
<1> QED
  BY <1>3, <1>4

LEMMA LettersAre ==
  ASSUME StrInv, fault = "none", NEW s \in 1 .. 2,
         \/ \E a \in S!Characters, b \in S!Characters : S!ReplaceChar(s, a, b)
         \/ S!ToUpper(s) \/ S!ToLower(s)
  PROVE  StrInv' /\ S!Promise!Next
<1> DEFINE t == str[s].text
<1>1. t \in Text /\ Len(t) \in Nat /\ (\A j \in 1 .. Len(t) : t[j] \in S!Characters) /\ DOMAIN t = 1 .. Len(t)
  BY TextsAre DEF Text
<1>2. ASSUME NEW u, u = [j \in 1 .. Len(t) |-> u[j]], \A j \in 1 .. Len(t) : u[j] \in S!Characters
      PROVE  u \in Text /\ Len(u) <= Len(t)
  BY <1>1, <1>2, TextOf
<1>3. CASE S!ToUpper(s)
  <2> DEFINE u == [j \in DOMAIN t |-> S!Upper[t[j]]]
             c == S!Call("upper", s, <<>>, 0, 0)
  <2>1. S!InPlace(s, u, c, u # t, TRUE)
    BY <1>3 DEF S!ToUpper, S!Recast
  <2>2. c.op = "upper" /\ c.on = s
    BY CallFields
  <2>3. u = [j \in 1 .. Len(t) |-> u[j]] /\ \A j \in 1 .. Len(t) : u[j] \in S!Characters
    BY <1>1, FoldsAre
  <2> HIDE DEF c
  <2>4. u = S!Promise!After(c, t, Said[3 - s])
    BY <2>2, AfterUpper
  <2> HIDE DEF u
  <2>5. u \in Text /\ Len(u) <= Len(t)
    BY <1>2, <2>3
  <2> QED
    BY <2>1, <2>2, <2>4, <2>5, InPlaceIsCall
<1>4. CASE S!ToLower(s)
  <2> DEFINE u == [j \in DOMAIN t |-> S!Lower[t[j]]]
             c == S!Call("lower", s, <<>>, 0, 0)
  <2>1. S!InPlace(s, u, c, u # t, TRUE)
    BY <1>4 DEF S!ToLower, S!Recast
  <2>2. c.op = "lower" /\ c.on = s
    BY CallFields
  <2>3. u = [j \in 1 .. Len(t) |-> u[j]] /\ \A j \in 1 .. Len(t) : u[j] \in S!Characters
    BY <1>1, FoldsAre
  <2> HIDE DEF c
  <2>4. u = S!Promise!After(c, t, Said[3 - s])
    BY <2>2, AfterLower
  <2> HIDE DEF u
  <2>5. u \in Text /\ Len(u) <= Len(t)
    BY <1>2, <2>3
  <2> QED
    BY <2>1, <2>2, <2>4, <2>5, InPlaceIsCall
<1>5. ASSUME NEW a \in S!Characters, NEW b \in S!Characters, S!ReplaceChar(s, a, b)
      PROVE  StrInv' /\ S!Promise!Next
  <2> DEFINE u == [j \in DOMAIN t |-> IF t[j] = a THEN b ELSE t[j]]
             c == S!Call("replace", s, <<a, b>>, 0, 0)
             found == \E j \in DOMAIN t : t[j] = a
  <2>1. S!InPlace(s, u, c, found, FALSE)
    BY <1>5 DEF S!ReplaceChar
  <2>2. c.op = "replace" /\ c.on = s /\ c.arg[1] = a /\ c.arg[2] = b
    BY CallFields
  <2>3. u = [j \in 1 .. Len(t) |-> u[j]] /\ \A j \in 1 .. Len(t) : u[j] \in S!Characters
    BY <1>1
  <2> HIDE DEF c
  <2>4. u = S!Promise!After(c, t, Said[3 - s])
    BY <2>2, AfterReplace
  <2> HIDE DEF u
  <2>5. u \in Text /\ Len(u) <= Len(t)
    BY <1>2, <2>3
  <2> QED
    BY <2>1, <2>2, <2>4, <2>5, InPlaceIsCall
<1> QED
  BY <1>3, <1>4, <1>5

LEMMA NewStrIs ==
  ASSUME StrInv, fault = "none", NEW s \in 1 .. 2, S!NewStr(s, 3 - s)
  PROVE  StrInv' /\ S!Promise!Next
<1> DEFINE o == str[3 - s]
           size == IF o.isVarData THEN Len(o.text) + 1 ELSE o.dataSize
           e == S!String(o.text, size, o.isVarData, o.hash)
           c == S!Call("set", s, o.text, 0, 0)
<1>0. 3 - s \in 1 .. 2 /\ IsString(o) /\ (3 - s \notin stale => KeepsHash(o)) /\ o.text \in Text
      /\ Len(o.text) \in Nat
  BY OtherIs, TextsAre DEF StrInv
<1>1. CASE o.text = <<>>
  BY <1>1, <1>0, MakeConstIs DEF S!NewStr
<1>2. CASE o.text # <<>>
  <2>1. /\ str' = [str EXCEPT ![s] = IF o.isVarData THEN [o EXCEPT !.dataSize = Len(o.text) + 1] ELSE o]
        /\ stale' = (stale \ {s}) \cup IF 3 - s \in stale THEN {s} ELSE {}
        /\ lost' = lost \ {s} /\ 3 - s \notin lost
        /\ call' = c /\ fault' = fault
    BY <1>2 DEF S!NewStr
  <2>2. (IF o.isVarData THEN [o EXCEPT !.dataSize = Len(o.text) + 1] ELSE o) = e
    <3> HIDE DEF o
    <3>1. o = [text |-> o.text, dataSize |-> o.dataSize, isVarData |-> o.isVarData, hash |-> o.hash]
          /\ o.isVarData \in BOOLEAN
      BY <1>0 DEF IsString, S!String
    <3>2. [o EXCEPT !.dataSize = Len(o.text) + 1]
            = [text |-> o.text, dataSize |-> Len(o.text) + 1, isVarData |-> o.isVarData, hash |-> o.hash]
      BY <3>1
    <3> QED
      BY <3>1, <3>2 DEF S!String
  <2>3. IsString(e) /\ e.text = o.text /\ e.hash = o.hash
    <3>1. size \in Nat /\ (o.isVarData => Len(o.text) < size)
      BY <1>0 DEF IsString
    <3> HIDE DEF o, size
    <3> QED
      BY <1>0, <3>1 DEF IsString, S!String
  <2>4. c.op = "set" /\ c.on = s /\ c.arg = o.text
    BY CallFields
  <2>5. stale' \subseteq 1 .. 2 /\ (3 - s \in stale' <=> 3 - s \in stale) /\ (s \notin stale' => 3 - s \notin stale)
    BY <2>1, OtherIs DEF StrInv
  <2> HIDE DEF c, e
  <2>6. s \notin stale' => KeepsHash(e)
    BY <1>0, <2>3, <2>5 DEF KeepsHash
  <2>7. e.text = S!Promise!After(call', Said[s], Said[3 - s])
    <3> HIDE DEF o
    <3> QED
      BY <2>1, <2>3, <2>4, AfterSet
  <2>8. Becomes(s, e)
    BY <2>1, <2>2, <2>5, OtherIs DEF Becomes, StrInv
  <2> HIDE DEF o, Becomes
  <2>9. call'.op \notin {"trim", "take", "same"} /\ call'.on = s
    BY <2>1, <2>4
  <2> QED
    BY <2>1, <2>3, <2>6, <2>7, <2>8, <2>9, BecomesIs
<1> QED
  BY <1>1, <1>2

LEMMA HashCodeIs ==
  ASSUME StrInv, fault = "none", NEW s \in 1 .. 2, S!HashCode(s)
  PROVE  StrInv' /\ S!Promise!Next
<1> DEFINE o == str[s]
           hash == IF o.hash = Null /\ o.text # <<>> THEN o.text ELSE o.hash
           e == S!String(o.text, o.dataSize, o.isVarData, hash)
           c == S!Call("same", s, <<>>, 0, 0)
<1>0. IsString(o) /\ (s \notin stale => KeepsHash(o))
  BY DEF StrInv
<1>1. str' = [str EXCEPT ![s] = [o EXCEPT !.hash = hash]] /\ call' = c /\ stale' = stale
      /\ s \notin lost /\ lost' = lost /\ fault' = fault
  BY DEF S!HashCode
<1>2. [o EXCEPT !.hash = hash] = e
  <2> HIDE DEF o, hash
  <2>1. o = [text |-> o.text, dataSize |-> o.dataSize, isVarData |-> o.isVarData, hash |-> o.hash]
    BY <1>0 DEF IsString, S!String
  <2> QED
    BY <2>1 DEF S!String
<1>3. IsString(e) /\ e.text = o.text /\ e.hash = hash
  <2> HIDE DEF o, hash
  <2> QED
    BY <1>0 DEF IsString, S!String
<1>4. s \notin stale' => KeepsHash(e)
  <2> HIDE DEF o, e
  <2> QED
    BY <1>0, <1>1, <1>3 DEF KeepsHash
<1>5. c.op = "same" /\ c.on = s
  BY CallFields
<1>6. stale' \subseteq 1 .. 2 /\ (3 - s \in stale' <=> 3 - s \in stale)
  BY <1>1 DEF StrInv
<1> HIDE DEF c, e, hash
<1>7. e.text = S!Promise!After(call', Said[s], Said[3 - s])
  <2>1. e.text = Said[s] /\ call' = c
    BY <1>1, <1>3, SaidIs
  <2> QED
    BY <1>5, <2>1, AfterSame
<1>8. Becomes(s, e)
  BY <1>1, <1>2, <1>6, OtherIs DEF Becomes, StrInv
<1>9. call'.op \notin {"trim", "take"} /\ call'.on = s /\ lost' = lost \ {s}
  BY <1>1, <1>5
<1> HIDE DEF Becomes
<1> QED
  BY <1>1, <1>3, <1>4, <1>7, <1>8, <1>9, BecomesIs

\* A range of a text is a text, of the length that the ends say.
LEMMA RangeIs ==
  ASSUME NEW t \in Text, NEW start \in Nat, NEW last \in Nat, start <= last, last <= Len(t)
  PROVE  SubSeq(t, start + 1, last) \in Text /\ Len(SubSeq(t, start + 1, last)) = last - start
<1>1. start + 1 \in 1 .. Len(t) + 1 /\ last \in start .. Len(t) /\ Len(t) \in Nat
  BY DEF Text
<1>2. \A j \in start + 1 .. last : t[j] \in S!Characters
  BY <1>1 DEF Text
<1>3. SubSeq(t, start + 1, last) = [j \in 1 .. last - start |-> t[start + j]]
  BY <1>1, SubSeqProperties DEF Text
<1> QED
  BY <1>1, <1>3, TextOf DEF Text

LEMMA CopyIs ==
  ASSUME StrInv, fault = "none", NEW s \in 1 .. 2, NEW start \in Nat, NEW end \in Nat, S!Copy(s, start, end)
  PROVE  StrInv' /\ S!Promise!Next
<1> DEFINE from == str[3 - s].text
           last == IF end < start \/ end > Len(from) THEN Len(from) ELSE end
           t == SubSeq(from, start + 1, last)
           c == S!Call("range", s, <<>>, start, last)
<1>0. from \in Text /\ Len(from) \in Nat
  BY OtherIs, TextsAre
<1>1. CASE start >= Len(from)
  <2>1. S!Change(s, 0, <<>>, S!Call("length", s, <<>>, 0, 0))
    BY <1>1 DEF S!Copy
  <2>2. 0 \in Nat
    OBVIOUS
  <2> QED
    BY <2>1, <2>2, SetLengthIs
<1>2. CASE ~(start >= Len(from))
  <2>1. S!Change(s, last - start, t, c) /\ 3 - s \notin lost
    BY <1>2 DEF S!Copy
  <2>2. c.op = "range" /\ c.on = s /\ c.at = start /\ c.end = last
    BY CallFields
  <2>6. Said[3 - s] = from
    BY <2>1, OtherIs, SaidIs
  <2> HIDE DEF from
  <2>3. last \in Nat /\ start <= last /\ last <= Len(from) /\ last - start \in Nat
    BY <1>0, <1>2
  <2> HIDE DEF last
  <2>4. t \in Text /\ Len(t) = last - start
    BY <1>0, <2>3, RangeIs
  <2> HIDE DEF c
  <2>5. t = S!Promise!After(c, str[s].text, Said[3 - s])
    BY <2>2, <2>6, AfterRange
  <2> HIDE DEF t
  <2> QED
    BY <2>1, <2>2, <2>3, <2>4, <2>5, ChangeIs
<1> QED
  BY <1>1, <1>2

LEMMA SubstrIs ==
  ASSUME StrInv, fault = "none", NEW s \in 1 .. 2, NEW start \in Nat, NEW end \in Nat, S!Substr(s, start, end)
  PROVE  StrInv' /\ S!Promise!Next
<1> DEFINE from == str[3 - s].text
           last == IF end > Len(from) THEN Len(from) ELSE end
           t == SubSeq(from, start + 1, last)
           c == S!Call("range", s, <<>>, start, last)
<1>0. from \in Text /\ Len(from) \in Nat
  BY OtherIs, TextsAre
<1>3. CASE start < Len(from) /\ end < start
  <2> DEFINE wild == S!Call("range", s, <<>>, start, end)
  <2>1. S!Fails(wild, "range")
    BY <1>3 DEF S!Substr
  <2>2. wild.op = "range" /\ wild.at = start /\ wild.end = end
    BY CallFields
  <2> HIDE DEF wild
  <2>3. Excused(wild, "range")
    BY <1>3, <2>2 DEF Excused
  <2> HIDE DEF Excused
  <2> QED
    BY <2>1, <2>3, FailsIs
<1> SUFFICES ASSUME ~(start < Len(from) /\ end < start) PROVE StrInv' /\ S!Promise!Next
  BY <1>3
<1>1. CASE start >= last
  <2>1. S!MakeConst(s, <<>>) /\ <<>> \in Text
    BY <1>1, TextsAre DEF S!Substr
  <2> QED
    BY <2>1, MakeConstIs
<1>2. CASE ~(start >= last)
  <2>1. S!Put(s, S!Owned(t, last - start + 1), c) /\ 3 - s \notin lost
    BY <1>2 DEF S!Substr
  <2>2. c.op = "range" /\ c.on = s /\ c.at = start /\ c.end = last
    BY CallFields
  <2>9. Said[3 - s] = from
    BY <2>1, OtherIs, SaidIs
  <2> HIDE DEF from
  <2>3. last \in Nat /\ start <= last /\ last <= Len(from)
    BY <1>0, <1>2
  <2> HIDE DEF last
  <2>4. t \in Text /\ Len(t) = last - start
    BY <1>0, <2>3, RangeIs
  <2>5. last - start + 1 \in Nat /\ last - start < last - start + 1
    BY <2>3
  <2> HIDE DEF c
  <2>6. t = S!Promise!After(c, Said[s], Said[3 - s]) /\ c.op \notin {"trim", "take", "same"}
    BY <2>2, <2>9, AfterRange
  <2> HIDE DEF t
  <2> DEFINE o == S!Owned(t, last - start + 1)
  <2>7. IsString(o) /\ KeepsHash(o) /\ o.text = t
    BY <2>4, <2>5, OwnedIs
  <2>8. S!Put(s, o, c)
    BY <2>1
  <2> HIDE DEF o
  <2> QED
    BY <2>2, <2>6, <2>7, <2>8, PutIs
<1> QED
  BY <1>1, <1>2

LEMMA TrimTextIs ==
  ASSUME StrInv, fault = "none", NEW s \in 1 .. 2, S!TrimText(s)
  PROVE  StrInv' /\ S!Promise!Next
<1> DEFINE t == str[s].text
           n == S!TrimmedLength(t)
           u == SubSeq(t, 1, n)
           c == S!Call("trim", s, <<>>, 0, 0)
<1>1. t \in Text /\ Len(t) \in Nat
  BY TextsAre
<1>2. /\ n \in 0 .. Len(t)
      /\ (t # <<>> /\ t[1] # S!Blank) => n # 0 /\ t[n] # S!Blank /\ \A i \in n + 1 .. Len(t) : t[i] = S!Blank
  <2> HIDE DEF t
  <2> QED
    BY <1>1, TrimmedIs
<1>3. S!InPlace(s, u, c, u # t, TRUE) /\ c.op = "trim" /\ c.on = s
  <2>1. S!InPlace(s, u, c, u # t, TRUE)
    BY DEF S!TrimText, S!Recast
  <2>2. c.op = "trim" /\ c.on = s
    BY CallFields
  <2> QED
    BY <2>1, <2>2
<1> HIDE DEF c, n
<1>4. u \in Text /\ Len(u) = n /\ (n # 0 => u[n] = t[n])
  <2> HIDE DEF t
  <2>1. u \in Text /\ Len(u) = n
    <3>1. 0 \in Nat /\ n \in Nat /\ 0 <= n /\ n <= Len(t) /\ u = SubSeq(t, 0 + 1, n) /\ n - 0 = n
      BY <1>1, <1>2
    <3> HIDE DEF u
    <3> QED
      BY <1>1, <3>1, RangeIs
  <2>2. n # 0 => u[n] = t[n]
    <3>1. n # 0 => n \in 1 .. n /\ 1 \in 1 .. Len(t) + 1 /\ n \in 1 - 1 .. Len(t)
      BY <1>1, <1>2
    <3> QED
      BY <1>1, <3>1, SubSeqProperties DEF Text
  <2> QED
    BY <2>1, <2>2
<1>5. CASE S!Fails(c, "constant")
  <2>1. Excused(c, "constant")
    BY <1>3 DEF Excused
  <2> HIDE DEF Excused
  <2> QED
    BY <1>5, <2>1, FailsIs
<1> SUFFICES ASSUME ~S!Fails(c, "constant") PROVE StrInv' /\ S!Promise!Next
  BY <1>5
<1>6. /\ StrInv' /\ call' = c /\ lost' = lost /\ fault' = fault
      /\ Said[s] = t /\ Said'[s] = u /\ Said'[3 - s] = Said[3 - s]
  <2>1. Len(u) <= Len(str[s].text)
    BY <1>1, <1>2, <1>4
  <2> DEFINE writes == u # t
  <2>2. S!InPlace(s, u, c, writes, TRUE) /\ u \in Text
    BY <1>3, <1>4
  <2> HIDE DEF u, writes
  <2> QED
    BY <2>1, <2>2, InPlaceIs
<1> HIDE DEF u
<1>7. Said' = [Said EXCEPT ![s] = u]
  <2>1. Said = [q \in 1 .. 2 |-> Said[q]] /\ Said' = [q \in 1 .. 2 |-> Said'[q]]
    BY DEF Said
  <2>2. ASSUME NEW q \in 1 .. 2 PROVE Said'[q] = [Said EXCEPT ![s] = u][q]
    <3> HIDE DEF Said
    <3> QED
      BY <1>6, <2>1, OtherIs
  <2> HIDE DEF Said
  <2> QED
    BY <2>1, <2>2
<1>8. ASSUME t # <<>>, t[1] # S!Promise!Blank
      PROVE  /\ Said'[s] # <<>> /\ S!Promise!Last(Said'[s]) # S!Promise!Blank
             /\ \A i \in n + 1 .. Len(t) : t[i] = S!Promise!Blank
  <2>1. S!Promise!Blank = S!Blank /\ S!Promise!Last(u) = u[Len(u)]
    BY DEF S!Promise!Blank, S!Blank, S!Promise!Last
  <2>2. u # <<>>
    BY <1>2, <1>4, <1>8, <2>1, EmptySeq
  <2> HIDE DEF t
  <2> QED
    BY <1>2, <1>4, <1>6, <1>8, <2>1, <2>2
<1>9. S!Promise!Trim
  <2>1. call'.op = "trim" /\ call'.on = s
    BY <1>3, <1>6
  <2>2. Said' = [Said EXCEPT ![s] = SubSeq(Said[s], 1, n)]
    <3>1. SubSeq(Said[s], 1, n) = u
      BY <1>6 DEF u
    <3> QED
      BY <1>7, <3>1
  <2>3. /\ n \in 0 .. Len(Said[call'.on]) /\ call'.on = s
        /\ Said[s] # <<>> /\ Said[s][1] # S!Promise!Blank =>
             /\ Said'[s] # <<>> /\ S!Promise!Last(Said'[s]) # S!Promise!Blank
             /\ \A i \in n + 1 .. Len(Said[s]) : Said[s][i] = S!Promise!Blank
    <3> HIDE DEF t
    <3> QED
      BY <1>2, <1>6, <1>8, <2>1
  <2> QED
    BY <1>6, <2>1, <2>2, <2>3 DEF S!Promise!Trim, Said
<1> QED
  BY <1>6, <1>9 DEF S!Promise!Next

\* The one call that changes both strings.
LEMMA MoveIs ==
  ASSUME StrInv, fault = "none", NEW s \in 1 .. 2, S!Move(s)
  PROVE  StrInv' /\ S!Promise!Next
<1> DEFINE empty == S!Const(<<>>, 0)
<1>1. IsString(empty) /\ KeepsHash(empty) /\ empty.text = <<>>
  BY TextsAre, ConstIs
<1> HIDE DEF empty
<1>2. /\ str' = [str EXCEPT ![s] = str[3 - s], ![3 - s] = empty]
      /\ stale' = IF 3 - s \in stale THEN {s} ELSE {}
      /\ lost' = IF 3 - s \in lost THEN {s} ELSE {}
      /\ call' = S!Call("take", s, <<>>, 0, 0) /\ fault' = fault
  BY DEF S!Move, empty
<1>3. call'.op = "take" /\ call'.on = s
  BY <1>2, CallFields
<1>4. str'[s] = str[3 - s] /\ str'[3 - s] = empty /\ str' = [q \in 1 .. 2 |-> str'[q]]
  BY <1>2, OtherIs DEF StrInv
<1>5. ASSUME NEW q \in 1 .. 2 PROVE IsString(str'[q]) /\ (q \notin stale' => KeepsHash(str'[q]))
  <2>1. CASE q = s
    <3>1. IsString(str[3 - s]) /\ (3 - s \notin stale => KeepsHash(str[3 - s]))
      BY OtherIs DEF StrInv
    <3> QED
      BY <1>2, <1>4, <2>1, <3>1
  <2>2. CASE q = 3 - s
    BY <1>1, <1>4, <2>2
  <2> QED
    BY <2>1, <2>2, OtherIs
<1>6. stale' \subseteq 1 .. 2 /\ lost' \subseteq 1 .. 2 /\ fault' # "overrun"
  BY <1>2
<1>7. StrInv'
  BY <1>2, <1>4, <1>5, <1>6 DEF StrInv, IsString, KeepsHash
<1>8. S!Promise!Next
  <2> DEFINE meant == [Said EXCEPT ![s] = S!Promise!After(call', Said[s], Said[3 - s]),
                                   ![3 - s] = IF call'.op = "take" THEN <<>> ELSE Said[3 - s]]
  <2>1. S!Promise!After(call', Said[s], Said[3 - s]) = Said[3 - s]
    BY <1>3 DEF S!Promise!After
  <2>2. Said'[s] = Said[3 - s]
    <3>1. s \in lost' <=> 3 - s \in lost
      BY <1>2
    <3> QED
      BY <1>4, <3>1, OtherIs DEF Said
  <2>3. Said'[3 - s] = <<>>
    <3>1. 3 - s \notin lost'
      BY <1>2, OtherIs
    <3> QED
      BY <1>1, <1>4, <3>1, OtherIs DEF Said
  <2>4. Said = [q \in 1 .. 2 |-> Said[q]] /\ Said' = [q \in 1 .. 2 |-> Said'[q]]
    BY DEF Said
  <2>5. ASSUME NEW q \in 1 .. 2 PROVE Said'[q] = meant[q]
    <3> HIDE DEF Said
    <3> QED
      BY <1>3, <2>1, <2>2, <2>3, <2>4, OtherIs
  <2>6. Said' = meant
    <3> HIDE DEF Said
    <3> QED
      BY <2>4, <2>5
  <2>7. S!Promise!Call
    BY <1>2, <1>3, <2>6 DEF S!Promise!Call, Said
  <2> QED
    BY <2>7 DEF S!Promise!Next
<1> QED
  BY <1>7, <1>8

\* A call on a string without its text.
LEMMA TouchLostIs ==
  ASSUME StrInv, fault = "none", NEW s \in 1 .. 2, S!TouchLost(s)
  PROVE  StrInv' /\ S!Promise!Next
<1> DEFINE c == S!Call("same", s, <<>>, 0, 0)
<1>1. S!Fails(c, "lost") /\ s \in lost
  BY DEF S!TouchLost
<1>2. Excused(c, "lost")
  BY <1>1 DEF Excused
<1> HIDE DEF c, Excused
<1> QED
  BY <1>1, <1>2, FailsIs

-----------------------------------------------------------------------------
(* The two strings: every call                                             *)

\* Two empty strings begin.
LEMMA StrInit == ASSUME S!Init PROVE StrInv /\ S!Promise!Init
<1> DEFINE empty == S!Const(<<>>, 0)
<1>1. IsString(empty) /\ KeepsHash(empty) /\ empty.text = <<>>
  <2>1. <<>> \in Text
    BY DEF Text
  <2> QED
    BY <2>1, ConstIs
<1> HIDE DEF empty
<1>2. str = [s \in 1 .. 2 |-> empty] /\ call = S!Call("new", 1, <<>>, 0, 0) /\ stale = {} /\ lost = {} /\ fault = "none"
  BY DEF S!Init, empty
<1>3. StrInv
  BY <1>1, <1>2 DEF StrInv
<1>4. Said = <<<<>>, <<>>>>
  BY <1>1, <1>2 DEF Said
<1>5. call.op = "new"
  BY <1>2, CallFields
<1> QED
  BY <1>2, <1>3, <1>4, <1>5 DEF S!Promise!Init, Said

\* A call a client makes keeps the strings in their blocks and does what it promises.
LEMMA StrStep ==
  ASSUME StrInv, S!Next
  PROVE  StrInv' /\ S!Promise!Next
<1>0. fault = "none" /\ Given \subseteq Text /\ MostCharacters \in Nat /\ 1 \in 1 .. 2
  BY ValuesAssumption DEF S!Next, Text
<1>1. ASSUME NEW s \in 1 .. 2, S!Common(s) PROVE StrInv' /\ S!Promise!Next
  <2>1. ASSUME NEW t \in Given, S!Make(s, t, Len(t)) \/ S!MakeConst(s, t) \/ S!NoBlock(s, t, Len(t))
        PROVE  StrInv' /\ S!Promise!Next
    <3>1. t \in Text /\ Len(t) \in Nat
      BY <1>0 DEF Text
    <3> QED
      BY <1>0, <2>1, <3>1, MakeIs, MakeConstIs, NoBlockIs
  <2> QED
    BY <1>0, <1>1, <2>1, NewStrIs, MoveIs, HashCodeIs, TouchLostIs DEF S!Common
<1>2. ASSUME NEW s \in 1 .. 2, S!Changed(s) PROVE StrInv' /\ S!Promise!Next
  <2>1. ASSUME NEW t \in Given, S!SetConst(s, t) \/ S!SetValue(s, t) \/ S!SetFormat(s, t) \/ S!AppendText(s, t)
        PROVE  StrInv' /\ S!Promise!Next
    BY <1>0, <2>1, MakeConstIs, SetValueIs, AppendIs
  <2>2. ASSUME NEW a \in S!UpperCase, NEW b \in S!Characters, S!ReplaceChar(s, a, b)
        PROVE  StrInv' /\ S!Promise!Next
    <3>1. a \in S!Characters
      BY CharactersAre
    <3> QED
      BY <1>0, <2>2, <3>1, LettersAre
  <2>3. ASSUME NEW i \in 0 .. MostCharacters - 1, NEW char \in S!LowerCase, S!SetChar(s, i, char)
        PROVE  StrInv' /\ S!Promise!Next
    <3>1. i \in Nat /\ char \in S!Characters
      BY <1>0, CharactersAre
    <3> QED
      BY <1>0, <2>3, <3>1, SetCharIs
  <2>4. ASSUME NEW n \in 0 .. MostCharacters, S!SetLength(s, n) PROVE StrInv' /\ S!Promise!Next
    BY <1>0, <2>4, SetLengthIs
  <2>5. ASSUME NEW n \in 0 .. MostCharacters, NEW end \in 0 .. MostCharacters, S!Copy(s, n, end) \/ S!Substr(s, n, end)
        PROVE  StrInv' /\ S!Promise!Next
    BY <1>0, <2>5, CopyIs, SubstrIs
  <2>6. ASSUME S!Make(s, <<>>, MostCharacters) \/ S!NoBlock(s, <<>>, MostCharacters) PROVE StrInv' /\ S!Promise!Next
    <3>1. <<>> \in Text
      BY DEF Text
    <3> QED
      BY <1>0, <2>6, <3>1, MakeIs, NoBlockIs
  <2> QED
    BY <1>0, <1>2, <2>1, <2>2, <2>3, <2>4, <2>5, <2>6, ClearIs, LettersAre, TrimTextIs DEF S!Changed
<1> QED
  BY <1>0, <1>1, <1>2 DEF S!Next

LEMMA StrStutter == ASSUME StrInv, UNCHANGED strVars PROVE StrInv'
BY DEF StrInv, strVars, IsString, KeepsHash

\* What is done to the number, the array and the maps leaves the strings alone.
LEMMA StringStep ==
  ASSUME StrInv, [OneNext]_allVars
  PROVE  StrInv' /\ [S!Promise!Next]_S!Promise!vars
<1>1. CASE UNCHANGED strVars
  <2>1. UNCHANGED S!Promise!vars
    BY <1>1 DEF S!Promise!vars, strVars, Said
  <2> QED
    BY <1>1, <2>1, StrStutter
<1>2. CASE S!Next
  BY <1>2, StrStep
<1> QED
  BY <1>1, <1>2 DEF OneNext, allVars

\* What the invariant says of the three properties.
LEMMA TextSoundIs == ASSUME StrInv PROVE TextSound
<1>1. S!TextInBlock
  BY DEF S!TextInBlock, StrInv, IsString
<1>2. S!HashOfText
  BY DEF S!HashOfText, StrInv, KeepsHash
<1>3. S!SearchesAgree
  BY SearchesAgreeOn, TextsAre
<1> QED
  BY <1>1, <1>2, <1>3 DEF TextSound

\* Whatever the clients give, however long it becomes and whichever allocation
\* fails, no call writes beyond the block, but for the constant that is to become
\* shorter in one (cfl_str.c:34-42); the text and its zero lie in the block; a
\* hash kept is that of the text, but after setChar and replaceChar, which do not
\* forget it; and equals, compare, startsWith and indexOf agree on every two
\* texts, from every start within the text.
THEOREM StringsStaySound == OneSpec => []TextSound
<1>1. OneInit => StrInv
  BY StrInit DEF OneInit
<1>2. StrInv /\ [OneNext]_allVars => StrInv'
  BY StringStep
<1>3. StrInv => TextSound
  BY TextSoundIs
<1> QED
  BY <1>1, <1>2, <1>3, PTL DEF OneSpec

\* Each call does to the text what it says and to the other string nothing,
\* whatever block or constant the string shows, and every failure is one of
\* those that Texts names: a text lost for want of memory, a use of a lost text,
\* a write without memory, into a constant, beyond the block of a constant made
\* shorter, and of a range that ends before it begins.  What trim leaves of a
\* text with blanks at its start is left open.
THEOREM StringIsAText == OneSpec => StringIsText
<1>1. OneInit => StrInv /\ S!Promise!Init
  BY StrInit DEF OneInit
<1>2. StrInv /\ [OneNext]_allVars => StrInv' /\ [S!Promise!Next]_S!Promise!vars
  BY StringStep
<1> QED
  BY <1>1, <1>2, PTL DEF OneSpec, StringIsText, S!ImplementsTexts, S!Promise!Spec

-----------------------------------------------------------------------------
(* Maps: the values under a key                                            *)

Pairs == [key : Keys, value : Values]

\* What an entry has under a key.
Has(e, k) == IF e.key = k THEN <<e.value>> ELSE <<>>

LEMMA HasIs == ASSUME NEW e \in Pairs, NEW k PROVE Has(e, k) \in Seq(Values)
<1>1. e.value \in Values
  BY DEF Pairs
<1> QED
  BY <1>1 DEF Has

\* There is the function that gathers entry after entry: its beginnings can be
\* made longer by one, so that no length is the least without one.
LEMMA GatheredIs ==
  ASSUME NEW s \in Seq(Pairs), NEW k
  PROVE  M!Gathered(s, k)
           = [i \in 0 .. Len(s) |-> IF i = 0 THEN <<>> ELSE M!Gathered(s, k)[i - 1] \o Has(s[i], k)]
<1> DEFINE Gathers(f, n) == f = [i \in 0 .. n |-> IF i = 0 THEN <<>> ELSE f[i - 1] \o Has(s[i], k)]
           without == {n \in Nat : ~\E f : Gathers(f, n)}
<1>1. ASSUME NEW n \in Nat, n \notin without PROVE n + 1 \notin without
  <2>1. PICK f : f = [i \in 0 .. n |-> IF i = 0 THEN <<>> ELSE f[i - 1] \o Has(s[i], k)]
    BY <1>1
  <2> DEFINE g == [i \in 0 .. n + 1 |-> IF i = n + 1 THEN f[n] \o Has(s[n + 1], k) ELSE f[i]]
  <2>2. ASSUME NEW i \in 0 .. n + 1 PROVE g[i] = IF i = 0 THEN <<>> ELSE g[i - 1] \o Has(s[i], k)
    <3>1. CASE i = 0
      BY <2>1, <3>1
    <3>2. CASE i = n + 1
      BY <3>2
    <3>3. CASE i \in 1 .. n
      <4>1. g[i] = f[i] /\ g[i - 1] = f[i - 1] /\ i \in 0 .. n /\ i # 0
        BY <3>3
      <4> HIDE DEF g
      <4> QED
        BY <2>1, <4>1
    <3> QED
      BY <3>1, <3>2, <3>3
  <2> DEFINE h == [i \in 0 .. n + 1 |-> IF i = 0 THEN <<>> ELSE g[i - 1] \o Has(s[i], k)]
  <2>3. g = h
    <3> HIDE DEF Has
    <3>1. \A i \in 0 .. n + 1 : g[i] = h[i]
      BY <2>2
    <3> QED
      BY <3>1
  <2> HIDE DEF g
  <2>4. Gathers(g, n + 1)
    BY <2>3
  <2> QED
    BY <2>4
<1>2. 0 \notin without
  <2> DEFINE f == [i \in 0 .. 0 |-> <<>>]
  <2>1. f = [i \in 0 .. 0 |-> IF i = 0 THEN <<>> ELSE f[i - 1] \o Has(s[i], k)]
    OBVIOUS
  <2> HIDE DEF f
  <2> QED
    BY <2>1
<1>3. without = {}
  <2> SUFFICES ASSUME without # {} PROVE FALSE
    OBVIOUS
  <2>1. PICK n \in without : \A m \in without : n <= m
    <3>1. without \subseteq Nat
      OBVIOUS
    <3> HIDE DEF without
    <3> QED
      BY <3>1, LeastOfNat
  <2>2. n \in Nat /\ n # 0
    BY <1>2, <2>1
  <2> HIDE DEF without
  <2>3. n - 1 \in Nat /\ ~(n <= n - 1)
    BY <2>2
  <2>4. n - 1 \notin without
    BY <2>1, <2>3
  <2>5. n - 1 + 1 = n
    BY <2>2
  <2> QED
    BY <1>1, <2>1, <2>3, <2>4, <2>5
<1>4. \E f : Gathers(f, Len(s))
  <2>1. Len(s) \in Nat
    OBVIOUS
  <2>2. Len(s) \notin without
    <3> HIDE DEF without
    <3> QED
      BY <1>3
  <2> QED
    BY <2>1, <2>2, Zenon
<1>5. M!Gathered(s, k) = CHOOSE f : Gathers(f, Len(s))
  BY DEF M!Gathered, Has
<1> QED
  BY <1>4, <1>5, Zenon

\* The recursion, in the terms of the lemmas.
LEMMA GatheredAre ==
  ASSUME NEW s \in Seq(Pairs), NEW k
  PROVE  /\ M!Gathered(s, k)[0] = <<>>
         /\ \A i \in 1 .. Len(s) : M!Gathered(s, k)[i] = M!Gathered(s, k)[i - 1] \o Has(s[i], k)
<1> DEFINE f == M!Gathered(s, k)
<1>1. f = [i \in 0 .. Len(s) |-> IF i = 0 THEN <<>> ELSE f[i - 1] \o Has(s[i], k)]
  BY GatheredIs
<1>2. Len(s) \in Nat
  OBVIOUS
<1> HIDE DEF f
<1> QED
  BY <1>1, <1>2 DEF f

\* Induction up to a bound, for the members of a set: if it holds 0 and with
\* each number below the bound the next, it holds all up to the bound.
LEMMA UpTo ==
  ASSUME NEW n \in Nat, NEW A, 0 \in A, \A i \in 1 .. n : i - 1 \in A => i \in A
  PROVE  0 .. n \subseteq A
<1> DEFINE B == {i \in 0 .. n : i \notin A}
<1> SUFFICES ASSUME B # {} PROVE FALSE
  OBVIOUS
<1>1. B \subseteq Nat
  OBVIOUS
<1>2. PICK i \in B : \A j \in B : i <= j
  <2> HIDE DEF B
  <2> QED
    BY <1>1, LeastOfNat
<1>3. i \in 1 .. n /\ i \notin A
  BY <1>2
<1>4. i - 1 \notin B /\ i - 1 \in 0 .. n
  <2>1. i - 1 \in 0 .. n /\ ~(i <= i - 1)
    BY <1>3
  <2> HIDE DEF B
  <2> QED
    BY <1>2, <2>1
<1> QED
  BY <1>3, <1>4

\* They are values.
LEMMA GatheredInSeq ==
  ASSUME NEW s \in Seq(Pairs), NEW k, NEW i \in 0 .. Len(s)
  PROVE  M!Gathered(s, k)[i] \in Seq(Values)
<1> DEFINE f == M!Gathered(s, k)
           A == {j \in 0 .. Len(s) : f[j] \in Seq(Values)}
<1>1. Len(s) \in Nat /\ <<>> \in Seq(Values) /\ 0 \in 0 .. Len(s)
  OBVIOUS
<1>2. f[0] = <<>> /\ \A j \in 1 .. Len(s) : f[j] = f[j - 1] \o Has(s[j], k)
  BY GatheredAre
<1> HIDE DEF f
<1>3. 0 \in A
  <2>1. f[0] \in Seq(Values)
    BY <1>1, <1>2, Zenon
  <2> QED
    BY <1>1, <2>1, Zenon
<1>4. ASSUME NEW j \in 1 .. Len(s), j - 1 \in A PROVE j \in A
  <2>1. f[j - 1] \in Seq(Values)
    BY <1>4, Zenon
  <2>2. Has(s[j], k) \in Seq(Values) /\ j \in 0 .. Len(s)
    BY <1>1, HasIs
  <2>3. f[j - 1] \o Has(s[j], k) \in Seq(Values)
    BY <2>1, <2>2, ConcatProperties, Zenon
  <2>4. f[j] \in Seq(Values)
    BY <1>2, <2>3, Zenon
  <2> QED
    BY <2>2, <2>4, Zenon
<1> HIDE DEF A
<1>5. 0 .. Len(s) \subseteq A
  BY <1>1, <1>3, <1>4, UpTo
<1> QED
  BY <1>5 DEF A, f

\* The values in an array behind another are those of the one and the other.
LEMMA UnderConcat ==
  ASSUME NEW s \in Seq(Pairs), NEW t \in Seq(Pairs), NEW k
  PROVE  M!Under(s \o t, k) = M!Under(s, k) \o M!Under(t, k)
<1> DEFINE u == s \o t
           f == M!Gathered(s, k)
           g == M!Gathered(t, k)
           h == M!Gathered(u, k)
           n == Len(s)
           A == {j \in 0 .. n : h[j] = f[j]}
           B == {j \in 0 .. Len(t) : h[n + j] = f[n] \o g[j]}
<1>1. n \in Nat /\ Len(t) \in Nat
  OBVIOUS
<1>2. u \in Seq(Pairs) /\ Len(u) = n + Len(t)
      /\ (\A j \in 1 .. n : u[j] = s[j]) /\ (\A j \in 1 .. Len(t) : u[n + j] = t[j])
  BY <1>1, ConcatProperties
<1> HIDE DEF u
<1>3. f[0] = <<>> /\ \A j \in 1 .. n : f[j] = f[j - 1] \o Has(s[j], k)
  BY GatheredAre
<1>4. g[0] = <<>> /\ \A j \in 1 .. Len(t) : g[j] = g[j - 1] \o Has(t[j], k)
  BY GatheredAre
<1>5. h[0] = <<>> /\ \A j \in 1 .. Len(u) : h[j] = h[j - 1] \o Has(u[j], k)
  BY <1>2, GatheredAre
<1>6. (\A j \in 0 .. n : f[j] \in Seq(Values)) /\ (\A j \in 0 .. Len(t) : g[j] \in Seq(Values))
  BY GatheredInSeq
<1> HIDE DEF f, g, h, n
<1>7. 0 .. n \subseteq A
  <2>1. 0 \in A
    BY <1>1, <1>3, <1>5
  <2>2. ASSUME NEW j \in 1 .. n, j - 1 \in A PROVE j \in A
    <3>1. j \in 1 .. Len(u) /\ h[j - 1] = f[j - 1] /\ u[j] = s[j] /\ j \in 0 .. n
      BY <1>1, <1>2, <2>2
    <3>2. h[j] = f[j]
      BY <1>3, <1>5, <3>1, Zenon
    <3> QED
      BY <3>1, <3>2
  <2> HIDE DEF A
  <2> QED
    BY <1>1, <2>1, <2>2, UpTo
<1>8. h[n] = f[n] /\ f[n] \in Seq(Values)
  BY <1>1, <1>6, <1>7
<1>9. 0 .. Len(t) \subseteq B
  <2>1. 0 \in B
    <3>1. f[n] \o <<>> = f[n]
      BY <1>8, ConcatEmptySeq, Zenon
    <3>2. n + 0 = n /\ 0 \in 0 .. Len(t)
      BY <1>1
    <3> QED
      BY <1>4, <1>8, <3>1, <3>2, Zenon
  <2>2. ASSUME NEW j \in 1 .. Len(t), j - 1 \in B PROVE j \in B
    <3>1. n + j \in 1 .. Len(u) /\ (n + j) - 1 = n + (j - 1) /\ j \in 0 .. Len(t) /\ j - 1 \in 0 .. Len(t)
      BY <1>1, <1>2
    <3>2. h[(n + j) - 1] = f[n] \o g[j - 1]
      BY <2>2, <3>1, Zenon
    <3>3. h[n + j] = (f[n] \o g[j - 1]) \o Has(t[j], k)
      <4>1. u[n + j] = t[j]
        BY <1>2
      <4>2. \A i \in 1 .. Len(u) : h[i] = h[i - 1] \o Has(u[i], k)
        BY <1>5
      <4>3. h[n + j] = h[(n + j) - 1] \o Has(u[n + j], k)
        BY <3>1, <4>2, Zenon
      <4> QED
        BY <3>2, <4>1, <4>3
    <3>4. g[j - 1] \in Seq(Values) /\ t[j] \in Pairs
      BY <1>6, <3>1
    <3>5. (f[n] \o g[j - 1]) \o Has(t[j], k) = f[n] \o (g[j - 1] \o Has(t[j], k))
      <4>1. Has(t[j], k) \in Seq(Values)
        BY <3>4, HasIs
      <4> DEFINE a == f[n]
                 b == g[j - 1]
                 c == Has(t[j], k)
      <4>2. a \in Seq(Values) /\ b \in Seq(Values) /\ c \in Seq(Values)
        BY <1>8, <3>4, <4>1
      <4> HIDE DEF a, b, c
      <4>3. (a \o b) \o c = a \o (b \o c)
        BY <4>2, ConcatAssociative
      <4> QED
        BY <4>3 DEF a, b, c
    <3>6. h[n + j] = f[n] \o g[j]
      BY <1>4, <3>3, <3>5, Zenon
    <3> QED
      BY <3>1, <3>6, Zenon
  <2> HIDE DEF B
  <2> QED
    BY <1>1, <2>1, <2>2, UpTo
<1>10. h[Len(u)] = f[n] \o g[Len(t)]
  <2>1. Len(t) \in B
    <3>1. Len(t) \in 0 .. Len(t)
      BY <1>1
    <3> HIDE DEF B
    <3> QED
      BY <1>9, <3>1
  <2> QED
    BY <1>2, <2>1, Zenon
<1> QED
  BY <1>10, Zenon DEF M!Under, f, g, h, u, n

\* A stack is a sequence of values.
LEMMA UnderInSeq ==
  ASSUME NEW s \in Seq(Pairs), NEW k
  PROVE  M!Under(s, k) \in Seq(Values)
<1>1. Len(s) \in 0 .. Len(s)
  OBVIOUS
<1> QED
  BY <1>1, GatheredInSeq DEF M!Under

\* Without the key there is an empty stack.
LEMMA UnderNone ==
  ASSUME NEW s \in Seq(Pairs), NEW k, \A i \in 1 .. Len(s) : s[i].key # k
  PROVE  M!Under(s, k) = <<>>
<1> DEFINE f == M!Gathered(s, k)
           A == {j \in 0 .. Len(s) : f[j] = <<>>}
<1>1. Len(s) \in Nat
  OBVIOUS
<1>2. f[0] = <<>> /\ \A j \in 1 .. Len(s) : f[j] = f[j - 1] \o Has(s[j], k)
  BY GatheredAre
<1> HIDE DEF f
<1>3. 0 \in A
  BY <1>1, <1>2
<1>4. ASSUME NEW j \in 1 .. Len(s), j - 1 \in A PROVE j \in A
  <2>1. Has(s[j], k) = <<>> /\ <<>> \o <<>> = <<>> /\ j \in 0 .. Len(s)
    BY <1>1 DEF Has
  <2>2. f[j] = <<>>
    BY <1>2, <1>4, <2>1, Zenon
  <2> QED
    BY <2>1, <2>2, Zenon
<1> HIDE DEF A
<1>5. 0 .. Len(s) \subseteq A
  BY <1>1, <1>3, <1>4, UpTo
<1> QED
  BY <1>1, <1>5 DEF A, f, M!Under

\* The stack of one entry.
LEMMA UnderOne ==
  ASSUME NEW e \in Pairs, NEW k
  PROVE  M!Under(<<e>>, k) = Has(e, k)
<1> DEFINE s == <<e>>
           f == M!Gathered(s, k)
<1>1. s \in Seq(Pairs) /\ Len(s) = 1 /\ s[1] = e /\ 1 \in 1 .. Len(s) /\ 1 - 1 = 0
  OBVIOUS
<1> HIDE DEF s
<1>2. f[0] = <<>> /\ \A j \in 1 .. Len(s) : f[j] = f[j - 1] \o Has(s[j], k)
  BY <1>1, GatheredAre
<1> HIDE DEF f
<1>3. f[1] = <<>> \o Has(e, k)
  BY <1>1, <1>2, Zenon
<1>4. <<>> \o Has(e, k) = Has(e, k)
  BY HasIs, ConcatEmptySeq, Zenon
<1> QED
  BY <1>1, <1>3, <1>4, Zenon DEF M!Under, f, s

-----------------------------------------------------------------------------
(* Maps: the entry that the search finds                                   *)

\* A search ends at the first entry with the key.
LEMMA PositionIs ==
  ASSUME NEW s \in Seq(Pairs), NEW k
  PROVE  /\ M!Position(s, k) \in 0 .. Len(s)
         /\ M!Position(s, k) = 0 => \A j \in 1 .. Len(s) : s[j].key # k
         /\ M!Position(s, k) # 0 => /\ s[M!Position(s, k)].key = k
                                    /\ \A j \in 1 .. M!Position(s, k) - 1 : s[j].key # k
<1> DEFINE I == {j \in 1 .. Len(s) : s[j].key = k}
           least == CHOOSE i \in I : \A j \in I : i <= j
<1>1. M!Position(s, k) = IF I # {} THEN least ELSE 0
  BY DEF M!Position, M!SelectInSeq, M!Min
<1>2. I \subseteq Nat /\ Len(s) \in Nat /\ \A j \in 1 .. Len(s) : j \in I <=> s[j].key = k
  OBVIOUS
<1>3. CASE I = {}
  <2>1. M!Position(s, k) = 0
    BY <1>1, <1>3
  <2> HIDE DEF I
  <2> QED
    BY <1>2, <1>3, <2>1
<1>4. CASE I # {}
  <2>1. M!Position(s, k) = least
    BY <1>1, <1>4
  <2>2. I \subseteq 1 .. Len(s) /\ \A j \in I : s[j].key = k
    OBVIOUS
  <2> HIDE DEF I
  <2>3. \E i \in I : \A j \in I : i <= j
    BY <1>2, <1>4, LeastOfNat
  <2>4. least \in I /\ \A j \in I : least <= j
    BY <2>3
  <2> HIDE DEF least
  <2>5. least \in 1 .. Len(s) /\ s[least].key = k
    BY <2>2, <2>4
  <2>6. ASSUME NEW j \in 1 .. least - 1 PROVE s[j].key # k
    <3>1. j \in 1 .. Len(s) /\ ~(least <= j)
      BY <1>2, <2>5
    <3> QED
      BY <1>2, <2>4, <3>1
  <2> QED
    BY <1>2, <2>1, <2>5, <2>6
<1> QED
  BY <1>3, <1>4

\* What lies before and behind an entry.
Before(s, i) == SubSeq(s, 1, i - 1)
Behind(s, i) == SubSeq(s, i + 1, Len(s))

\* An array is what lies before an entry, the entry, and what lies behind.
LEMMA PartsAre ==
  ASSUME NEW s \in Seq(Pairs), NEW i \in 1 .. Len(s)
  PROVE  /\ Before(s, i) \in Seq(Pairs) /\ Len(Before(s, i)) = i - 1
         /\ \A j \in 1 .. i - 1 : Before(s, i)[j] = s[j]
         /\ Behind(s, i) \in Seq(Pairs) /\ Len(Behind(s, i)) = Len(s) - i
         /\ \A j \in 1 .. Len(s) - i : Behind(s, i)[j] = s[i + j]
         /\ s[i] \in Pairs
<1>1. Len(s) \in Nat /\ i - 1 \in Int /\ i + 1 \in Int /\ 1 \in Int /\ (\A j \in 1 .. i - 1 : s[j] \in Pairs)
      /\ \A j \in i + 1 .. Len(s) : s[j] \in Pairs
  OBVIOUS
<1>2. /\ Before(s, i) \in Seq(Pairs)
      /\ Len(Before(s, i)) = IF 1 <= i - 1 THEN (i - 1) - 1 + 1 ELSE 0
      /\ \A j \in 1 .. (i - 1) - 1 + 1 : Before(s, i)[j] = s[1 + j - 1]
  BY <1>1, SubSeqProperties DEF Before
<1>3. /\ Behind(s, i) \in Seq(Pairs)
      /\ Len(Behind(s, i)) = IF i + 1 <= Len(s) THEN Len(s) - (i + 1) + 1 ELSE 0
      /\ \A j \in 1 .. Len(s) - (i + 1) + 1 : Behind(s, i)[j] = s[(i + 1) + j - 1]
  BY <1>1, SubSeqProperties DEF Behind
<1>4. Len(Before(s, i)) = i - 1 /\ Len(Behind(s, i)) = Len(s) - i
  <2>1. (i - 1) - 1 + 1 = i - 1 /\ Len(s) - (i + 1) + 1 = Len(s) - i
    BY <1>1
  <2>2. (1 <= i - 1 \/ i - 1 = 0) /\ (i + 1 <= Len(s) \/ Len(s) - i = 0)
    BY <1>1
  <2> QED
    BY <1>2, <1>3, <2>1, <2>2
<1>5. ASSUME NEW j \in 1 .. i - 1 PROVE Before(s, i)[j] = s[j]
  <2>1. j \in 1 .. (i - 1) - 1 + 1 /\ 1 + j - 1 = j
    OBVIOUS
  <2> QED
    BY <1>2, <2>1
<1>6. ASSUME NEW j \in 1 .. Len(s) - i PROVE Behind(s, i)[j] = s[i + j]
  <2>1. j \in 1 .. Len(s) - (i + 1) + 1 /\ (i + 1) + j - 1 = i + j
    BY <1>1
  <2> QED
    BY <1>3, <2>1
<1>7. s[i] \in Pairs
  OBVIOUS
<1> QED
  BY <1>2, <1>3, <1>4, <1>5, <1>6, <1>7

\* An array with another entry at a place; with its own it is what it was.
LEMMA WithIs ==
  ASSUME NEW s \in Seq(Pairs), NEW i \in 1 .. Len(s), NEW e \in Pairs
  PROVE  [s EXCEPT ![i] = e] = (Before(s, i) \o <<e>>) \o Behind(s, i)
<1> DEFINE a == Before(s, i)
           b == Behind(s, i)
           n == Len(s)
           t == [s EXCEPT ![i] = e]
           one == <<e>>
           u == (a \o one) \o b
<1>1. /\ a \in Seq(Pairs) /\ Len(a) = i - 1 /\ \A j \in 1 .. i - 1 : a[j] = s[j]
      /\ b \in Seq(Pairs) /\ Len(b) = n - i /\ \A j \in 1 .. n - i : b[j] = s[i + j]
  BY PartsAre
<1>2. one \in Seq(Pairs) /\ Len(one) = 1 /\ one[1] = e /\ n \in Nat
  OBVIOUS
<1>3. t \in Seq(Pairs) /\ Len(t) = n /\ \A j \in 1 .. n : t[j] = IF j = i THEN e ELSE s[j]
  BY ExceptSeq
<1> HIDE DEF a, b, n, t, one
<1>4. a \o one \in Seq(Pairs) /\ Len(a \o one) = i
      /\ \A j \in 1 .. i : (a \o one)[j] = IF j = i THEN e ELSE s[j]
  <2>1. /\ a \o one \in Seq(Pairs) /\ Len(a \o one) = Len(a) + Len(one)
        /\ \A j \in 1 .. Len(a) + Len(one) : (a \o one)[j] = IF j <= Len(a) THEN a[j] ELSE one[j - Len(a)]
    BY <1>1, <1>2, ConcatProperties
  <2> QED
    BY <1>1, <1>2, <2>1
<1> DEFINE w == a \o one
<1> HIDE DEF w
<1>5. /\ u \in Seq(Pairs) /\ Len(u) = n
      /\ \A j \in 1 .. n : u[j] = IF j <= i THEN w[j] ELSE b[j - i]
  <2>1. w \in Seq(Pairs) /\ Len(w) = i /\ u = w \o b
    BY <1>4 DEF w
  <2>2. /\ u \in Seq(Pairs) /\ Len(u) = Len(w) + Len(b)
        /\ \A j \in 1 .. Len(w) + Len(b) : u[j] = IF j <= Len(w) THEN w[j] ELSE b[j - Len(w)]
    BY <1>1, <2>1, ConcatProperties
  <2> HIDE DEF u
  <2> QED
    BY <1>1, <1>2, <2>1, <2>2
<1> HIDE DEF u
<1>6. ASSUME NEW j \in 1 .. n PROVE t[j] = u[j]
  <2>1. CASE j <= i
    <3>1. j \in 1 .. i
      BY <2>1
    <3>2. w[j] = IF j = i THEN e ELSE s[j]
      BY <1>4, <3>1 DEF w
    <3> QED
      BY <1>3, <1>5, <2>1, <3>2
  <2>2. CASE ~(j <= i)
    <3>1. j - i \in 1 .. n - i /\ i + (j - i) = j /\ j # i
      BY <1>2, <2>2
    <3> QED
      BY <1>1, <1>3, <1>5, <2>2, <3>1
  <2> QED
    BY <2>1, <2>2
<1> QED
  BY <1>3, <1>5, <1>6, SeqEqual DEF a, b, t, u, one

\* What the entries hold under a key when one of them is changed.
LEMMA UnderWith ==
  ASSUME NEW s \in Seq(Pairs), NEW i \in 1 .. Len(s), NEW e \in Pairs, NEW k
  PROVE  /\ [s EXCEPT ![i] = e] \in Seq(Pairs)
         /\ M!Under([s EXCEPT ![i] = e], k) = (M!Under(Before(s, i), k) \o Has(e, k)) \o M!Under(Behind(s, i), k)
<1>1. Before(s, i) \in Seq(Pairs) /\ Behind(s, i) \in Seq(Pairs) /\ <<e>> \in Seq(Pairs)
  BY PartsAre
<1> DEFINE a == Before(s, i)
           b == Behind(s, i)
           one == <<e>>
<1>2. M!Under(one, k) = Has(e, k)
  BY UnderOne
<1>3. [s EXCEPT ![i] = e] = (a \o one) \o b
  BY WithIs
<1> HIDE DEF a, b, one
<1>4. a \in Seq(Pairs) /\ b \in Seq(Pairs) /\ one \in Seq(Pairs)
  BY <1>1 DEF a, b, one
<1>5. a \o one \in Seq(Pairs) /\ M!Under(a \o one, k) = M!Under(a, k) \o M!Under(one, k)
  BY <1>4, ConcatProperties, UnderConcat
<1> DEFINE w == a \o one
<1> HIDE DEF w
<1>6. w \in Seq(Pairs)
  BY <1>5 DEF w
<1>7. w \o b \in Seq(Pairs) /\ M!Under(w \o b, k) = M!Under(w, k) \o M!Under(b, k)
  BY <1>4, <1>6, ConcatProperties, UnderConcat
<1> QED
  BY <1>2, <1>3, <1>5, <1>7, Zenon DEF a, b, w

\* The first entry with the key holds the first of the values, and the others
\* are in the entries behind.
LEMMA FirstHasKey ==
  ASSUME NEW s \in Seq(Pairs), NEW k, M!Position(s, k) # 0
  PROVE  LET i == M!Position(s, k)
         IN  /\ i \in 1 .. Len(s) /\ s[i].key = k
             /\ M!Under(Before(s, i), k) = <<>>
             /\ M!Under(s, k) = <<s[i].value>> \o M!Under(Behind(s, i), k)
<1> DEFINE i == M!Position(s, k)
<1>1. i \in 1 .. Len(s) /\ s[i].key = k /\ \A j \in 1 .. i - 1 : s[j].key # k
  BY PositionIs
<1> HIDE DEF i
<1>2. M!Under(Before(s, i), k) = <<>>
  <2>1. Before(s, i) \in Seq(Pairs) /\ \A j \in 1 .. Len(Before(s, i)) : Before(s, i)[j].key # k
    BY <1>1, PartsAre
  <2> QED
    BY <2>1, UnderNone
<1>3. [s EXCEPT ![i] = s[i]] = s
  BY <1>1
<1>4. M!Under(s, k) = (M!Under(Before(s, i), k) \o Has(s[i], k)) \o M!Under(Behind(s, i), k)
  <2>1. s[i] \in Pairs
    BY <1>1
  <2>2. M!Under([s EXCEPT ![i] = s[i]], k) = (M!Under(Before(s, i), k) \o Has(s[i], k)) \o M!Under(Behind(s, i), k)
    BY <1>1, <2>1, UnderWith
  <2> QED
    BY <1>3, <2>2
<1>5. Has(s[i], k) = <<s[i].value>> /\ <<>> \o <<s[i].value>> = <<s[i].value>>
  BY <1>1 DEF Has
<1>6. M!Under(s, k) = <<s[i].value>> \o M!Under(Behind(s, i), k)
  BY <1>2, <1>4, <1>5, Zenon
<1> QED
  BY <1>1, <1>2, <1>6 DEF i

\* Sequences of values with one in front of the others.
LEMMA FrontIs ==
  ASSUME NEW v, NEW t \in Seq(Values), v \in Values
  PROVE  <<v>> \o t # <<>> /\ Head(<<v>> \o t) = v /\ Tail(<<v>> \o t) = t
<1> DEFINE one == <<v>>
           u == one \o t
<1>1. one \in Seq(Values) /\ Len(one) = 1 /\ one[1] = v /\ Len(t) \in Nat
  OBVIOUS
<1> HIDE DEF one
<1>2. u \in Seq(Values) /\ Len(u) = 1 + Len(t) /\ u[1] = v /\ \A j \in 1 .. Len(t) : u[j + 1] = t[j]
  <2>1. /\ u \in Seq(Values) /\ Len(u) = Len(one) + Len(t)
        /\ \A j \in 1 .. Len(one) + Len(t) : u[j] = IF j <= Len(one) THEN one[j] ELSE t[j - Len(one)]
    BY <1>1, ConcatProperties
  <2> HIDE DEF u
  <2>2. ASSUME NEW j \in 1 .. Len(t) PROVE u[j + 1] = t[j]
    <3>1. j + 1 \in 1 .. Len(one) + Len(t) /\ ~(j + 1 <= Len(one)) /\ (j + 1) - Len(one) = j
      BY <1>1
    <3> QED
      BY <2>1, <3>1
  <2> QED
    BY <1>1, <2>1, <2>2
<1> HIDE DEF u
<1>3. u # <<>> /\ Head(u) = v
  BY <1>1, <1>2
<1>4. Tail(u) = t
  <2>1. Tail(u) \in Seq(Values) /\ Len(Tail(u)) = Len(t)
    BY <1>1, <1>2
  <2>2. \A j \in 1 .. Len(t) : Tail(u)[j] = t[j]
    BY <1>1, <1>2
  <2> QED
    BY <2>1, <2>2, SeqEqual
<1> QED
  BY <1>3, <1>4 DEF u, one

\* A stack without its top.
Below(t) == IF t = <<>> THEN <<>> ELSE Tail(t)

\* What a key that is found holds, what it holds without the entry, and that
\* the other keys hold the same without it.
LEMMA FoundUnder ==
  ASSUME NEW s \in Seq(Pairs), NEW k, M!Position(s, k) # 0
  PROVE  LET i == M!Position(s, k)
         IN  /\ i \in 1 .. Len(s) /\ s[i].key = k
             /\ M!Under(s, k) # <<>> /\ Head(M!Under(s, k)) = s[i].value
             /\ M!Under(Before(s, i), k) = <<>>
             /\ Below(M!Under(s, k)) = M!Under(Behind(s, i), k)
             /\ \A q : q # k => M!Under(s, q) = M!Under(Before(s, i), q) \o M!Under(Behind(s, i), q)
<1> DEFINE i == M!Position(s, k)
           b == Behind(s, i)
           rest == M!Under(b, k)
           top == s[i].value
<1>1. /\ i \in 1 .. Len(s) /\ s[i].key = k
      /\ M!Under(Before(s, i), k) = <<>>
      /\ M!Under(s, k) = <<top>> \o rest
  BY FirstHasKey
<1> HIDE DEF i
<1>2. s[i] \in Pairs /\ Before(s, i) \in Seq(Pairs) /\ Behind(s, i) \in Seq(Pairs)
  BY <1>1, PartsAre
<1>3. top \in Values /\ rest \in Seq(Values)
  BY <1>2, UnderInSeq DEF Pairs
<1> HIDE DEF rest, top
<1>4. <<top>> \o rest # <<>> /\ Head(<<top>> \o rest) = top /\ Tail(<<top>> \o rest) = rest
  BY <1>3, FrontIs
<1>5. M!Under(s, k) # <<>> /\ Head(M!Under(s, k)) = top /\ Below(M!Under(s, k)) = rest
  BY <1>1, <1>4, Zenon DEF Below
<1>6. ASSUME NEW q, q # k PROVE M!Under(s, q) = M!Under(Before(s, i), q) \o M!Under(Behind(s, i), q)
  <2>1. M!Under([s EXCEPT ![i] = s[i]], q)
          = (M!Under(Before(s, i), q) \o Has(s[i], q)) \o M!Under(Behind(s, i), q)
    BY <1>1, <1>2, UnderWith
  <2>2. [s EXCEPT ![i] = s[i]] = s
    BY <1>1
  <2>3. Has(s[i], q) = <<>>
    BY <1>1, <1>6 DEF Has
  <2>4. M!Under(Before(s, i), q) \in Seq(Values)
    BY <1>2, UnderInSeq
  <2>5. M!Under(Before(s, i), q) \o <<>> = M!Under(Before(s, i), q)
    BY <2>4, ConcatEmptySeq
  <2> QED
    BY <2>1, <2>2, <2>3, <2>5, Zenon
<1> QED
  BY <1>1, <1>5, <1>6 DEF i, rest, top

LEMMA NotFoundUnder ==
  ASSUME NEW s \in Seq(Pairs), NEW k, M!Position(s, k) = 0
  PROVE  M!Under(s, k) = <<>>
BY PositionIs, UnderNone

-----------------------------------------------------------------------------
(* Maps: what each operation does to the values under the keys             *)

\* Setting a key changes its top value, or gives it its first one.
LEMMA PutUnder ==
  ASSUME NEW s \in Seq(Pairs), NEW k \in Keys, NEW v \in Values
  PROVE  /\ M!Put(s, k, v) \in Seq(Pairs)
         /\ M!Under(M!Put(s, k, v), k) = <<v>> \o Below(M!Under(s, k))
         /\ \A q : q # k => M!Under(M!Put(s, k, v), q) = M!Under(s, q)
<1> DEFINE e == M!Entry(k, v)
           i == M!Position(s, k)
<1>1. e \in Pairs /\ e.key = k /\ e.value = v
  BY DEF M!Entry, Pairs
<1> HIDE DEF e
<1>2. Has(e, k) = <<v>> /\ \A q : q # k => Has(e, q) = <<>>
  BY <1>1 DEF Has
<1>3. CASE i # 0
  <2>1. /\ i \in 1 .. Len(s) /\ M!Under(Before(s, i), k) = <<>>
        /\ Below(M!Under(s, k)) = M!Under(Behind(s, i), k)
        /\ \A q : q # k => M!Under(s, q) = M!Under(Before(s, i), q) \o M!Under(Behind(s, i), q)
    BY <1>3, FoundUnder
  <2>2. M!Put(s, k, v) = [s EXCEPT ![i] = e]
    BY <2>1 DEF M!Put, e
  <2> HIDE DEF i
  <2>3. /\ [s EXCEPT ![i] = e] \in Seq(Pairs)
        /\ \A q : M!Under([s EXCEPT ![i] = e], q)
                    = (M!Under(Before(s, i), q) \o Has(e, q)) \o M!Under(Behind(s, i), q)
    BY <1>1, <2>1, UnderWith
  <2>4. M!Under(M!Put(s, k, v), k) = <<v>> \o Below(M!Under(s, k))
    <3>1. <<>> \o <<v>> = <<v>>
      OBVIOUS
    <3> QED
      BY <1>2, <2>1, <2>2, <2>3, <3>1, Zenon
  <2>5. ASSUME NEW q, q # k PROVE M!Under(M!Put(s, k, v), q) = M!Under(s, q)
    <3>1. M!Under(Before(s, i), q) \in Seq(Values)
      BY <2>1, PartsAre, UnderInSeq
    <3>2. M!Under(Before(s, i), q) \o <<>> = M!Under(Before(s, i), q)
      BY <3>1, ConcatEmptySeq
    <3> QED
      BY <1>2, <2>1, <2>2, <2>3, <2>5, <3>2, Zenon
  <2> QED
    BY <2>2, <2>3, <2>4, <2>5
<1>4. CASE i = 0
  <2>1. M!Under(s, k) = <<>>
    BY <1>4, NotFoundUnder
  <2>2. M!Put(s, k, v) = Append(s, e)
    BY <1>4 DEF M!Put, e
  <2> DEFINE one == <<e>>
  <2>3. one \in Seq(Pairs)
    BY <1>1
  <2>4. Append(s, e) = s \o one
    OBVIOUS
  <2>5. \A q : M!Under(one, q) = Has(e, q)
    BY <1>1, UnderOne
  <2> HIDE DEF one
  <2>6. s \o one \in Seq(Pairs) /\ \A q : M!Under(s \o one, q) = M!Under(s, q) \o M!Under(one, q)
    BY <2>3, ConcatProperties, UnderConcat
  <2>7. M!Under(M!Put(s, k, v), k) = <<v>> \o Below(M!Under(s, k))
    <3>1. <<>> \o <<v>> = <<v>> /\ <<v>> \o <<>> = <<v>>
      OBVIOUS
    <3>2. Below(M!Under(s, k)) = <<>>
      BY <2>1 DEF Below
    <3> QED
      BY <1>2, <2>1, <2>2, <2>4, <2>5, <2>6, <3>1, <3>2, Zenon
  <2>8. ASSUME NEW q, q # k PROVE M!Under(M!Put(s, k, v), q) = M!Under(s, q)
    <3>1. M!Under(s, q) \o <<>> = M!Under(s, q)
      BY UnderInSeq, ConcatEmptySeq
    <3> QED
      BY <1>2, <2>2, <2>4, <2>5, <2>6, <2>8, <3>1, Zenon
  <2> QED
    BY <2>2, <2>4, <2>6, <2>7, <2>8
<1> QED
  BY <1>3, <1>4

\* Deleting a key takes its top value away.
LEMMA WithoutUnder ==
  ASSUME NEW s \in Seq(Pairs), NEW k
  PROVE  /\ M!Without(s, k) \in Seq(Pairs)
         /\ M!Under(M!Without(s, k), k) = Below(M!Under(s, k))
         /\ \A q : q # k => M!Under(M!Without(s, k), q) = M!Under(s, q)
         /\ M!Position(s, k) > 0 <=> M!Under(s, k) # <<>>
<1> DEFINE i == M!Position(s, k)
<1>1. CASE i # 0
  <2>1. /\ i \in 1 .. Len(s) /\ M!Under(s, k) # <<>> /\ M!Under(Before(s, i), k) = <<>>
        /\ Below(M!Under(s, k)) = M!Under(Behind(s, i), k)
        /\ \A q : q # k => M!Under(s, q) = M!Under(Before(s, i), q) \o M!Under(Behind(s, i), q)
    BY <1>1, FoundUnder
  <2>2. M!Without(s, k) = Before(s, i) \o Behind(s, i) /\ i > 0
    <3>1. i > 0
      BY <2>1
    <3>2. M!Without(s, k) = M!RemoveAt(s, i)
      BY <3>1, Zenon DEF M!Without
    <3> QED
      BY <3>1, <3>2, Zenon DEF M!RemoveAt, Before, Behind
  <2> HIDE DEF i
  <2> DEFINE a == Before(s, i)
             b == Behind(s, i)
  <2>3. a \in Seq(Pairs) /\ b \in Seq(Pairs)
    BY <2>1, PartsAre
  <2> HIDE DEF a, b
  <2>4. a \o b \in Seq(Pairs) /\ \A q : M!Under(a \o b, q) = M!Under(a, q) \o M!Under(b, q)
    BY <2>3, ConcatProperties, UnderConcat
  <2>5. <<>> \o M!Under(b, k) = M!Under(b, k)
    BY <2>3, UnderInSeq, ConcatEmptySeq
  <2>6. M!Under(M!Without(s, k), k) = Below(M!Under(s, k))
    BY <2>1, <2>2, <2>4, <2>5, Zenon DEF a, b
  <2>7. \A q : q # k => M!Under(M!Without(s, k), q) = M!Under(s, q)
    BY <2>1, <2>2, <2>4, Zenon DEF a, b
  <2> QED
    BY <2>1, <2>2, <2>4, <2>6, <2>7 DEF a, b, i
<1>2. CASE i = 0
  <2>1. M!Under(s, k) = <<>> /\ M!Without(s, k) = s
    BY <1>2, NotFoundUnder DEF M!Without
  <2>2. ~(i > 0)
    BY <1>2
  <2> QED
    BY <2>1, <2>2 DEF Below
<1> QED
  BY <1>1, <1>2

\* A search finds the top value.
LEMMA FoundIs ==
  ASSUME NEW s \in Seq(Pairs), NEW k
  PROVE  M!Found(s, k) = IF M!Under(s, k) = <<>> THEN Null ELSE Head(M!Under(s, k))
<1> DEFINE i == M!Position(s, k)
<1>1. CASE i # 0
  <2>1. i \in 1 .. Len(s) /\ M!Under(s, k) # <<>> /\ Head(M!Under(s, k)) = s[i].value
    BY <1>1, FoundUnder
  <2>2. M!Found(s, k) = s[i].value
    BY <2>1 DEF M!Found
  <2> QED
    BY <2>1, <2>2
<1>2. CASE i = 0
  BY <1>2, NotFoundUnder DEF M!Found
<1> QED
  BY <1>1, <1>2

-----------------------------------------------------------------------------
(* Maps: every call                                                        *)

MapInv ==
  /\ entries = [m \in Maps |-> entries[m]]
  /\ \A m \in Maps : entries[m] \in Seq(Pairs)

\* The stacks of an array, and of all of them.
Stacks(s) == [k \in Keys |-> M!Under(s, k)]
AllStacks == [m \in Maps |-> Stacks(entries[m])]

LEMMA RetFields ==
  ASSUME NEW name, NEW m, NEW key, NEW value, NEW from
  PROVE  LET r == M!Ret(name, m, key, value, from)
         IN  r.op = name /\ r.map = m /\ r.key = key /\ r.value = value /\ r.from = from
BY DEF M!Ret

\* A call that gives a map another array gives it the stacks of that array.
LEMMA MapChanges ==
  ASSUME MapInv, NEW m \in Maps, NEW t \in Seq(Pairs), entries' = [entries EXCEPT ![m] = t]
  PROVE  /\ MapInv'
         /\ AllStacks' = [AllStacks EXCEPT ![m] = Stacks(t)]
         /\ AllStacks[m] = Stacks(entries[m])
<1>1. entries'[m] = t /\ (\A q \in Maps : q # m => entries'[q] = entries[q])
      /\ entries' = [q \in Maps |-> entries'[q]]
  BY DEF MapInv
<1>2. ASSUME NEW q \in Maps PROVE entries'[q] \in Seq(Pairs)
  BY <1>1 DEF MapInv
<1>3. AllStacks' = [q \in Maps |-> Stacks(entries'[q])]
  BY DEF AllStacks, Stacks
<1>4. [q \in Maps |-> Stacks(entries'[q])] = [AllStacks EXCEPT ![m] = Stacks(t)]
  <2>1. \A q \in Maps : Stacks(entries'[q]) = IF q = m THEN Stacks(t) ELSE AllStacks[q]
    BY <1>1, Zenon DEF AllStacks
  <2> HIDE DEF Stacks
  <2> QED
    BY <2>1 DEF AllStacks
<1>5. AllStacks[m] = Stacks(entries[m])
  BY DEF AllStacks
<1> QED
  BY <1>1, <1>2, <1>3, <1>4, <1>5 DEF MapInv

\* What each step of the promise says, about the stacks of the arrays.
LEMMA SetMeans ==
  M!Promise!Set <=> /\ mapRet'.op = "set"
                    /\ AllStacks' = [AllStacks EXCEPT ![mapRet'.map] =
                                       M!Promise!Put(@, mapRet'.key, mapRet'.value)]
BY DEF AllStacks, Stacks, M!Promise!Set

LEMMA DelMeans ==
  M!Promise!Del <=>
    /\ mapRet'.op = "del"
    /\ mapRet'.value = (AllStacks[mapRet'.map][mapRet'.key] # <<>>)
    /\ AllStacks' = [AllStacks EXCEPT ![mapRet'.map][mapRet'.key] = IF @ = <<>> THEN @ ELSE Tail(@)]
BY DEF AllStacks, Stacks, M!Promise!Del

LEMMA GetMeans ==
  M!Promise!Get <=>
    /\ mapRet'.op = "get"
    /\ LET s == AllStacks[mapRet'.map][mapRet'.key]
       IN  mapRet'.value = IF s = <<>> THEN Null ELSE Head(s)
    /\ AllStacks' = AllStacks
BY DEF AllStacks, Stacks, M!Promise!Get

LEMMA CopyMeans ==
  /\ M!Promise!Merge <=>
       /\ mapRet'.op = "merge"
       /\ AllStacks' = [AllStacks EXCEPT ![mapRet'.map] =
                          [k \in Keys |-> AllStacks[mapRet'.map][k] \o AllStacks[mapRet'.from][k]]]
  /\ M!Promise!Replace <=>
       /\ mapRet'.op = "replace"
       /\ AllStacks' = [AllStacks EXCEPT ![mapRet'.map] = AllStacks[mapRet'.from]]
BY DEF AllStacks, Stacks, M!Promise!Merge, M!Promise!Replace, M!Promise!Under

LEMMA InitMeans ==
  M!Promise!Init <=> AllStacks = [m \in Maps |-> [k \in Keys |-> <<>>]] /\ mapRet.op = "new"
BY DEF AllStacks, Stacks, M!Promise!Init

\* A set changes the top value, or puts one on an empty stack.
LEMMA SetIsSetKey ==
  ASSUME MapInv, NEW m \in Maps, NEW k \in Keys, NEW v \in Values, M!Set(m, k, v)
  PROVE  MapInv' /\ M!Promise!Next
<1> DEFINE s == entries[m]
           t == M!Put(s, k, v)
<1>1. entries' = [entries EXCEPT ![m] = t] /\ mapRet' = M!Ret("set", m, k, v, Null)
  BY DEF M!Set, M!Answered
<1>2. mapRet'.op = "set" /\ mapRet'.map = m /\ mapRet'.key = k /\ mapRet'.value = v
  BY <1>1, RetFields
<1>3. s \in Seq(Pairs)
  BY DEF MapInv
<1> HIDE DEF s
<1>4. /\ t \in Seq(Pairs) /\ M!Under(t, k) = <<v>> \o Below(M!Under(s, k))
      /\ \A q : q # k => M!Under(t, q) = M!Under(s, q)
  BY <1>3, PutUnder
<1> HIDE DEF t
<1>5. Stacks(t) = M!Promise!Put(Stacks(s), k, v)
  <2>1. M!Promise!Put(Stacks(s), k, v) = [Stacks(s) EXCEPT ![k] = <<v>> \o Below(Stacks(s)[k])]
    BY DEF M!Promise!Put, Below
  <2>2. Stacks(s)[k] = M!Under(s, k)
    BY DEF Stacks
  <2>3. \A q \in Keys : M!Under(t, q) = IF q = k THEN <<v>> \o Below(M!Under(s, k)) ELSE M!Under(s, q)
    BY <1>4
  <2> DEFINE top == <<v>> \o Below(M!Under(s, k))
  <2> HIDE DEF top
  <2>4. Stacks(t) = [Stacks(s) EXCEPT ![k] = top]
    BY <2>3 DEF Stacks, top
  <2> QED
    BY <2>1, <2>2, <2>4 DEF top
<1>6. MapInv' /\ AllStacks' = [AllStacks EXCEPT ![m] = Stacks(t)] /\ AllStacks[m] = Stacks(s)
  BY <1>1, <1>4, MapChanges DEF s
<1>7. AllStacks' = [AllStacks EXCEPT ![m] = M!Promise!Put(AllStacks[m], k, v)]
  BY <1>5, <1>6
<1>8. M!Promise!Set
  BY <1>2, <1>7, SetMeans
<1> QED
  BY <1>6, <1>8 DEF M!Promise!Next

\* A delete takes the top value off.
LEMMA DelIsDel ==
  ASSUME MapInv, NEW m \in Maps, NEW k \in Keys, M!Del(m, k)
  PROVE  MapInv' /\ M!Promise!Next
<1> DEFINE s == entries[m]
           t == M!Without(s, k)
<1>1. entries' = [entries EXCEPT ![m] = t] /\ mapRet' = M!Ret("del", m, k, M!Position(s, k) > 0, Null)
  BY DEF M!Del, M!Answered
<1>2. mapRet'.op = "del" /\ mapRet'.map = m /\ mapRet'.key = k /\ mapRet'.value = (M!Position(s, k) > 0)
  BY <1>1 DEF M!Ret
<1>3. s \in Seq(Pairs)
  BY DEF MapInv
<1> HIDE DEF s
<1>4. /\ t \in Seq(Pairs) /\ M!Under(t, k) = Below(M!Under(s, k))
      /\ \A q : q # k => M!Under(t, q) = M!Under(s, q)
      /\ M!Position(s, k) > 0 <=> M!Under(s, k) # <<>>
  BY <1>3, WithoutUnder
<1> HIDE DEF t
<1>5. Stacks(t) = [Stacks(s) EXCEPT ![k] = Below(Stacks(s)[k])]
  <2>1. Stacks(s)[k] = M!Under(s, k)
    BY DEF Stacks
  <2>2. \A q \in Keys : M!Under(t, q) = IF q = k THEN Below(M!Under(s, k)) ELSE M!Under(s, q)
    BY <1>4
  <2> DEFINE rest == Below(M!Under(s, k))
  <2> HIDE DEF rest
  <2>3. Stacks(t) = [Stacks(s) EXCEPT ![k] = rest]
    BY <2>2 DEF Stacks, rest
  <2> QED
    BY <2>1, <2>3 DEF rest
<1>6. MapInv' /\ AllStacks' = [AllStacks EXCEPT ![m] = Stacks(t)] /\ AllStacks[m] = Stacks(s)
  BY <1>1, <1>4, MapChanges DEF s
<1>7. AllStacks' = [AllStacks EXCEPT ![m][k] = IF @ = <<>> THEN @ ELSE Tail(@)]
  <2>1. Below(AllStacks[m][k]) = IF AllStacks[m][k] = <<>> THEN AllStacks[m][k] ELSE Tail(AllStacks[m][k])
    BY DEF Below
  <2> DEFINE rest == Below(AllStacks[m][k])
  <2> HIDE DEF rest
  <2>2. AllStacks' = [AllStacks EXCEPT ![m] = [AllStacks[m] EXCEPT ![k] = rest]]
    BY <1>5, <1>6 DEF rest
  <2>3. AllStacks' = [AllStacks EXCEPT ![m][k] = rest]
    BY <2>2
  <2> QED
    BY <2>1, <2>3 DEF rest
<1>8. M!Promise!Del
  <2>1. mapRet'.value = (AllStacks[m][k] # <<>>)
    <3>1. AllStacks[m][k] = M!Under(s, k)
      BY <1>6 DEF Stacks
    <3>2. (M!Position(s, k) > 0) = (AllStacks[m][k] # <<>>)
      BY <1>4, <3>1
    <3> QED
      BY <1>2, <3>2, Zenon
  <2> QED
    BY <1>2, <1>7, <2>1, DelMeans
<1> QED
  BY <1>6, <1>8 DEF M!Promise!Next

\* A get finds the top value.
LEMMA GetIsGetKey ==
  ASSUME MapInv, NEW m \in Maps, NEW k \in Keys, M!Get(m, k)
  PROVE  MapInv' /\ M!Promise!Next
<1> DEFINE s == entries[m]
<1>1. entries' = entries /\ mapRet' = M!Ret("get", m, k, M!Found(s, k), Null)
  BY DEF M!Get, M!Answered
<1>2. mapRet'.op = "get" /\ mapRet'.map = m /\ mapRet'.key = k /\ mapRet'.value = M!Found(s, k)
  BY <1>1, RetFields
<1>3. s \in Seq(Pairs)
  BY DEF MapInv
<1>4. MapInv' /\ AllStacks' = AllStacks /\ AllStacks[m][k] = M!Under(s, k)
  BY <1>1 DEF MapInv, AllStacks, Stacks
<1> HIDE DEF s
<1>5. mapRet'.value = IF AllStacks[m][k] = <<>> THEN Null ELSE Head(AllStacks[m][k])
  BY <1>2, <1>3, <1>4, FoundIs
<1>6. M!Promise!Get
  BY <1>2, <1>4, <1>5, GetMeans
<1> QED
  BY <1>4, <1>6 DEF M!Promise!Next

\* A copy of a map replaces the stacks, one of a string map lies under those that were there.
LEMMA CopyIsCopy ==
  ASSUME MapInv, NEW m \in Maps, NEW from \in Maps, M!CopyMap(m, from) \/ M!CopyStrings(m, from)
  PROVE  MapInv' /\ M!Promise!Next
<1> DEFINE s == entries[m]
           t == entries[from]
<1>1. s \in Seq(Pairs) /\ t \in Seq(Pairs)
  BY DEF MapInv
<1>2. AllStacks[from] = Stacks(t)
  BY DEF AllStacks
<1>3. CASE M!CopyMap(m, from)
  <2>1. entries' = [entries EXCEPT ![m] = t] /\ mapRet' = M!Ret("replace", m, Null, Null, from)
    BY <1>3 DEF M!CopyMap
  <2>2. mapRet'.op = "replace" /\ mapRet'.map = m /\ mapRet'.from = from
    BY <2>1, RetFields
  <2> HIDE DEF t
  <2>3. MapInv' /\ AllStacks' = [AllStacks EXCEPT ![m] = Stacks(t)]
    BY <1>1, <2>1, MapChanges
  <2>4. M!Promise!Replace
    BY <1>2, <2>2, <2>3, CopyMeans
  <2> QED
    BY <2>3, <2>4 DEF M!Promise!Next
<1>4. CASE M!CopyStrings(m, from)
  <2>1. entries' = [entries EXCEPT ![m] = s \o t] /\ mapRet' = M!Ret("merge", m, Null, Null, from)
    BY <1>4 DEF M!CopyStrings
  <2>2. mapRet'.op = "merge" /\ mapRet'.map = m /\ mapRet'.from = from
    BY <2>1, RetFields
  <2> DEFINE u == s \o t
  <2> HIDE DEF s, t
  <2>3. u \in Seq(Pairs) /\ \A k : M!Under(u, k) = M!Under(s, k) \o M!Under(t, k)
    BY <1>1, ConcatProperties, UnderConcat
  <2>4. entries' = [entries EXCEPT ![m] = u]
    BY <2>1
  <2> HIDE DEF u
  <2>5. MapInv' /\ AllStacks' = [AllStacks EXCEPT ![m] = Stacks(u)] /\ AllStacks[m] = Stacks(s)
    BY <2>3, <2>4, MapChanges DEF s
  <2>6. Stacks(u) = [k \in Keys |-> AllStacks[m][k] \o AllStacks[from][k]]
    <3>1. \A k \in Keys : AllStacks[m][k] = M!Under(s, k) /\ AllStacks[from][k] = M!Under(t, k)
      BY <1>2, <2>5 DEF Stacks
    <3> QED
      BY <2>3, <3>1, Zenon DEF Stacks
  <2>7. M!Promise!Merge
    BY <2>2, <2>5, <2>6, CopyMeans
  <2> QED
    BY <2>5, <2>7 DEF M!Promise!Next
<1> QED
  BY <1>3, <1>4

LEMMA MapInit == M!Init => MapInv /\ M!Promise!Init
<1> SUFFICES ASSUME M!Init PROVE MapInv /\ M!Promise!Init
  OBVIOUS
<1>1. entries = [m \in Maps |-> <<>>] /\ mapRet = M!Ret("new", Null, Null, Null, Null)
  BY DEF M!Init
<1>2. <<>> \in Seq(Pairs) /\ mapRet.op = "new"
  BY <1>1, RetFields
<1>3. \A k : M!Under(<<>>, k) = <<>>
  <2>1. Len(<<>>) = 0 /\ 1 .. 0 = {}
    OBVIOUS
  <2>2. \A i \in 1 .. Len(<<>>) : FALSE
    BY <2>1
  <2> QED
    BY <1>2, <2>2, UnderNone
<1>4. AllStacks = [m \in Maps |-> [k \in Keys |-> <<>>]]
  BY <1>1, <1>3 DEF AllStacks, Stacks
<1> QED
  BY <1>1, <1>2, <1>4, InitMeans DEF MapInv

LEMMA MapStep ==
  ASSUME MapInv, M!Next
  PROVE  MapInv' /\ M!Promise!Next
<1>1. ASSUME NEW m \in Maps, NEW i \in 0 .. MostEntries - 1, M!GetIndex(m, i)
      PROVE  MapInv' /\ M!Promise!Next
  <2>1. entries[m] \in Seq(Pairs) /\ i + 1 \in 1 .. Len(entries[m])
    BY <1>1 DEF M!GetIndex, MapInv
  <2>2. entries[m][i + 1].key \in Keys
    <3>1. entries[m][i + 1] \in Pairs
      BY <2>1
    <3> QED
      BY <3>1 DEF Pairs
  <2> QED
    BY <1>1, <2>2, GetIsGetKey DEF M!GetIndex
<1> QED
  BY <1>1, SetIsSetKey, DelIsDel, GetIsGetKey, CopyIsCopy DEF M!Next

LEMMA MapStutter == MapInv /\ UNCHANGED mapVars => MapInv' /\ UNCHANGED M!Promise!vars
BY DEF MapInv, mapVars, M!Promise!vars

\* Deletions move entries and copies add to them, replacing nothing, and yet every key keeps
\* its values in their order, the first of which counts: cfl_map and cfl_mapstr are stacks
\* under keys, for any maps, keys and values.
THEOREM MapIsStacks == OneSpec => MapIsKeyStacks
<1>1. OneInit => MapInv /\ M!Promise!Init
  BY MapInit DEF OneInit
<1>2. MapInv /\ [OneNext]_allVars => MapInv' /\ [M!Promise!Next]_(M!Promise!vars)
  BY MapStep, MapStutter DEF OneNext, allVars
<1> QED
  BY <1>1, <1>2, PTL DEF OneSpec, MapIsKeyStacks, M!ImplementsKeyStacks, M!Promise!Spec
=============================================================================
