------------------------------ MODULE NumBits -------------------------------
(***************************************************************************)
(* cfl_number.c, the first half: natural numbers as words, the lowest      *)
(* first.  A number is the sequence of its words up to the highest that is *)
(* not zero; the words its block has beyond them hold zeros.               *)
(***************************************************************************)
EXTENDS Integers, SequencesExt

CONSTANT W               \* bits of a word: 32 in the code

Radix == 2 ^ W
Upto(n) == [i \in 1 .. n |-> i]
Word(a, i) == IF i <= Len(a) THEN a[i] ELSE 0
Most(m, n) == IF m > n THEN m ELSE n

\* numbits_trim.
Trim(words) ==
  LET used == {i \in DOMAIN words : words[i] # 0}
  IN  SubSeq(words, 1, IF used = {} THEN 0 ELSE CHOOSE i \in used : \A j \in used : j <= i)

\* The field numBits, as numbits_trim computes it.
SizeOf(a) ==
  IF a = <<>> THEN 0 ELSE (Len(a) - 1) * W + CHOOSE k \in 1 .. W : 2 ^ (k - 1) <= a[Len(a)] /\ a[Len(a)] < 2 ^ k

\* The loop of all sums: a column, with the carry (or the borrow, which is
\* negative) of the one below, leaves its word and a carry.
Carried(column) ==
  LET carry[i \in 0 .. Len(column)] ==
        IF i = 0 THEN 0 ELSE (column[i] + carry[i - 1]) \div Radix
  IN  [i \in DOMAIN column |-> (column[i] + carry[i - 1]) % Radix]

FromNat(v) == Trim(<<v % Radix, v \div Radix>>)

Cmp(a, b) ==
  LET apart == {i \in 1 .. Len(a) : a[i] # b[i]}
      top == CHOOSE i \in apart : \A j \in apart : j <= i
  IN  IF SizeOf(a) # SizeOf(b) THEN SizeOf(a) - SizeOf(b)
      ELSE IF apart = {} THEN 0 ELSE a[top] - b[top]

\* A bug: there is no word for the last carry.
AddShort(a, b) == Trim(Carried([i \in 1 .. Most(Len(a), Len(b)) |-> Word(a, i) + Word(b, i)]))

Add(a, b) == Trim(Carried([i \in 1 .. Most(Len(a), Len(b)) + 1 |-> Word(a, i) + Word(b, i)]))

\* For a that is not below b.
Sub(a, b) == Trim(Carried([i \in 1 .. Len(a) |-> a[i] - Word(b, i)]))

MulSmall(a, m) == Trim(Carried([i \in 1 .. Len(a) + 1 |-> Word(a, i) * m]))
AddSmall(a, s) == IF a = <<>> THEN FromNat(s)
                  ELSE Trim(Carried([i \in 1 .. Len(a) + 1 |-> Word(a, i) + IF i = 1 THEN s ELSE 0]))

\* One row for each word of a, added to the rows before.
Mul(a, b) ==
  LET Row(r, i) == Carried([j \in DOMAIN r |->
                     r[j] + IF j \in i .. i + Len(b) - 1 THEN a[i] * b[j - i + 1] ELSE 0])
  IN  Trim(FoldLeft(Row, [j \in 1 .. Len(a) + Len(b) + 1 |-> 0], Upto(Len(a))))

\* From the highest word down; a word is cleared when it has been moved, also
\* when it has been moved into itself.
Shl(a, k) ==
  LET far == k \div W
      by == k % W
      Moved(r, i) ==
        [j \in DOMAIN r |->
           IF j = i THEN 0
           ELSE IF j = i + far THEN r[j] + ((r[i] * 2 ^ by) % Radix)
           ELSE IF j = i + far + 1 /\ by > 0 THEN r[j] + (r[i] \div 2 ^ (W - by)) ELSE r[j]]
  IN  IF a = <<>> \/ k = 0 THEN a
      ELSE Trim(FoldLeft(Moved, [i \in 1 .. Len(a) + far + 1 |-> Word(a, i)], Reverse(Upto(Len(a)))))

Shr(a, k) ==
  LET far == k \div W
      by == k % W
  IN  IF k = 0 THEN a
      ELSE Trim([i \in 1 .. Len(a) - far |->
                   (a[i + far] \div 2 ^ by) + ((Word(a, i + far + 1) * 2 ^ (W - by)) % Radix)])

FromBitSet(bits) ==
  LET Weight(b, i) == IF (i - 1) * W + b \in bits THEN 2 ^ b ELSE 0
  IN  [i \in 1 .. 1 + FoldLeft(Most, 0, SetToSeq({b \div W : b \in bits})) |->
         FoldLeft(LAMBDA sum, b : sum + Weight(b - 1, i), 0, Upto(W))]

\* The divisor, moved up to the dividend's highest bit, comes down bit by bit.
DivMod(a, b) ==
  LET shift == SizeOf(a) - SizeOf(b)
      Bit(s, k) ==
        LET fits == Cmp(s.rest, s.part) >= 0
        IN  [rest |-> IF fits THEN Sub(s.rest, s.part) ELSE s.rest,
             part |-> IF k > 0 THEN Shr(s.part, 1) ELSE s.part,
             bits |-> IF fits THEN s.bits \cup {k} ELSE s.bits]
      end == FoldLeft(Bit, [rest |-> a, part |-> Shl(b, shift), bits |-> {}],
                      [i \in 1 .. shift + 1 |-> shift + 1 - i])
  IN  IF Cmp(a, b) < 0 THEN [quo |-> <<>>, rest |-> a]
      ELSE [quo |-> Trim(FromBitSet(end.bits)), rest |-> end.rest]

DivSmall(a, d) ==
  LET rest[i \in 1 .. Len(a) + 1] ==
        IF i > Len(a) THEN 0 ELSE (rest[i + 1] * Radix + a[i]) % d
  IN  [quo |-> Trim([i \in 1 .. Len(a) |-> (rest[i + 1] * Radix + a[i]) \div d]), rest |-> rest[1]]

\* The number the words stand for.
NatOf(a) == FoldRight(LAMBDA word, above : word + Radix * above, a, 0)
=============================================================================
