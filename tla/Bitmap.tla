------------------------------- MODULE Bitmap -------------------------------
(***************************************************************************)
(* cfl_bitmap.c: sets of small numbers in words of bits.  A word is the    *)
(* set of its bits that are 1.                                             *)
(***************************************************************************)
EXTENDS Integers

CONSTANTS Width,      \* bits of a word: 8 in the code
          Sizes       \* the numbers of bits clients ask for

VARIABLES map,        \* the words of bitmaps 1 and 2
          asked       \* the numbers that were set in them and not reset, for the properties
vars == <<map, asked>>

Words(bits) == 0 .. bits \div Width
Bit(pos) == pos % Width
Word(pos) == pos \div Width
Has(b, pos) == Word(pos) \in DOMAIN b /\ Bit(pos) \in b[Word(pos)]

\* cfl_bitmap_new, which always has a word more than the quotient.
Init == /\ map \in [1 .. 2 -> {[w \in Words(n) |-> {}] : n \in Sizes}]
        /\ asked = [b \in 1 .. 2 |-> {}]

Put(b, w, pos) == /\ map' = IF w \in DOMAIN map[b] THEN [map EXCEPT ![b][w] = @ \cup {Bit(pos)}] ELSE map
                  /\ asked' = [asked EXCEPT ![b] = @ \cup {pos}]

\* A bug: the first number beyond the last word is taken for one of its bits.
SetBeyond(b, pos) == Put(b, IF Word(pos) \in DOMAIN map[b] THEN Word(pos) ELSE Word(pos) - 1, pos)

\* What lies beyond the last word is ignored.
Set(b, pos) == Put(b, Word(pos), pos)

Reset(b, pos) ==
  /\ map' = IF Word(pos) \in DOMAIN map[b] THEN [map EXCEPT ![b][Word(pos)] = @ \ {Bit(pos)}] ELSE map
  /\ asked' = [asked EXCEPT ![b] = @ \ {pos}]

Clear(b) == /\ map' = [map EXCEPT ![b] = [w \in DOMAIN @ |-> {}]]
            /\ asked' = [asked EXCEPT ![b] = {}]

\* The other bitmap goes on as a clone of b.
Clone(b) == /\ map' = [map EXCEPT ![3 - b] = map[b]]
            /\ asked' = [asked EXCEPT ![3 - b] = asked[b]]

\* The words of both are compared from the first on.
IsSubSet(b, c) == DOMAIN b \subseteq DOMAIN c /\ \A w \in DOMAIN b : b[w] \subseteq c[w]
Equals(b, c) == DOMAIN b = DOMAIN c /\ \A w \in DOMAIN b : b[w] = c[w]

Positions == 0 .. Width * 3 - 1
Next == \E b \in 1 .. 2 : Clear(b) \/ Clone(b) \/ \E pos \in Positions : Set(b, pos) \/ Reset(b, pos)

Spec == Init /\ [][Next]_vars

-----------------------------------------------------------------------------
(* Properties                                                              *)

\* The numbers of a set that a bitmap has room for.
Within(words, set) == {pos \in set : Word(pos) \in DOMAIN words}

\* At the edges of the words get and equals answer for the numbers that were
\* set and for which there is room, and so does isSubSet of a bitmap that has no
\* more words than the other.  For one that has more the code always says no;
\* that is only right where it holds a number the other does not, and is left
\* open.
BitmapsAreSets ==
  LET set(b) == Within(map[b], asked[b])
      inside == DOMAIN map[1] \subseteq DOMAIN map[2]
  IN  /\ \A b \in 1 .. 2, pos \in Positions : Has(map[b], pos) <=> pos \in set(b)
      /\ IsSubSet(map[1], map[2]) => set(1) \subseteq set(2)
      /\ inside /\ set(1) \subseteq set(2) => IsSubSet(map[1], map[2])
      /\ Equals(map[1], map[2]) <=> set(1) = set(2) /\ DOMAIN map[1] = DOMAIN map[2]
=============================================================================
