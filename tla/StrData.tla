------------------------------ MODULE StrData -------------------------------
(***************************************************************************)
(* cfl_str.c: the functions that compare and search.  A character is a     *)
(* number, 0 ends a C string.                                              *)
(***************************************************************************)
EXTENDS Integers, SequencesExt

Blank == 1
UpperCase == {2}
LowerCase == {3}       \* one more than its upper case letter
Characters == {Blank} \cup UpperCase \cup LowerCase

\* toupper, tolower, and a comparison that regards case.
Upper == [c \in {0} \cup Characters |-> IF c \in LowerCase THEN c - 1 ELSE c]
Lower == [c \in {0} \cup Characters |-> IF c \in UpperCase THEN c + 1 ELSE c]
Same == [c \in {0} \cup Characters |-> c]

\* The character of a C string at a place, which is its end after the last one.
CharAt(s, i) == IF i <= Len(s) THEN s[i] ELSE 0

\* The loop of the four compare functions stops where the strings differ or
\* end; unless the match is to be exact, the end of one string is a match.
Compare(s, t, exact, fold) ==
  LET stop == CHOOSE i \in 1 .. Len(s) + 1 :
                /\ fold[CharAt(s, i)] # fold[CharAt(t, i)] \/ CharAt(s, i) = 0
                /\ \A j \in 1 .. i - 1 : fold[s[j]] = fold[CharAt(t, j)]
      c == fold[CharAt(s, stop)]
      d == fold[CharAt(t, stop)]
  IN  IF c < d THEN IF c = 0 /\ ~exact THEN 0 ELSE -1
      ELSE IF c > d THEN IF d = 0 /\ ~exact THEN 0 ELSE 1
      ELSE 0

Equals(s, t, fold) == Compare(s, t, TRUE, fold) = 0

\* bufferStartsWith, with and without regard to case.
StartsWith(s, t, fold) == \A i \in 1 .. Len(t) : fold[CharAt(s, i)] = fold[t[i]]

IndexOf(s, c, start) ==
  LET at == {i \in start .. Len(s) - 1 : s[i + 1] = c}
  IN  IF at = {} THEN -1 ELSE CHOOSE i \in at : \A j \in at : i <= j

\* What is found beyond the end of the text.
Wild == -2

\* The first character, then the others from the last one down.  From a start
\* beyond the text the length that is left wraps, and the search goes on there.
IndexOfText(s, t, start) ==
  LET Matches(i) == /\ s[i + 1] = t[1]
                    /\ \A j \in 2 .. Len(t) : s[i + j] = t[j]
      at == {i \in start .. Len(s) - Len(t) : Matches(i)}
  IN  IF t = <<>> THEN -1
      ELSE IF start > Len(s) THEN Wild
      ELSE IF Len(s) - start < Len(t) \/ at = {} THEN -1
      ELSE CHOOSE i \in at : \A j \in at : i <= j

\* What trim leaves: the blanks at the end go, and as many characters more as
\* there are blanks at the start, which stay, as the condition for the move of
\* the text is never true.
TrimmedLength(s) ==
  LET solid == {i \in DOMAIN s : s[i] # Blank}
      start == IF solid = {} THEN Len(s) ELSE (CHOOSE i \in solid : \A j \in solid : i <= j) - 1
      end == IF solid = {} THEN Len(s) ELSE CHOOSE i \in solid : \A j \in solid : i >= j
  IN  end - start
=============================================================================
