-------------------------------- MODULE Str ---------------------------------
(***************************************************************************)
(* cfl_str.c: strings that either own a block of memory or show a constant *)
(* text of the client's, until a change gives them a block.  The hash is   *)
(* computed when it is asked for and kept.                                 *)
(***************************************************************************)
EXTENDS StrData

CONSTANTS MaxLength,     \* bound on the length of a string
          Given,         \* the texts clients give
          NoHash

VARIABLES str,       \* the two strings
          call,      \* the last call: its name, string and arguments
          stale,     \* history: the strings changed in a way that keeps the hash
          lost,      \* the strings whose length covers no text, for want of memory
          fault      \* what a call did that ends all promises

vars == <<str, call, stale, lost, fault>>

\* The text is what the length covers; a constant is taken to end there.
String(text, dataSize, isVarData, hash) ==
  [text |-> text, dataSize |-> dataSize, isVarData |-> isVarData, hash |-> hash]

Const(text, dataSize) == String(text, dataSize, FALSE, NoHash)
Owned(text, dataSize) == String(text, dataSize, TRUE, NoHash)
Call(op, on, arg, at, end) == [op |-> op, on |-> on, arg |-> arg, at |-> at, end |-> end]

Init == /\ str = [s \in 1 .. 2 |-> Const(<<>>, 0)]
        /\ call = Call("new", 1, <<>>, 0, 0)
        /\ stale = {} /\ lost = {} /\ fault = "none"

-----------------------------------------------------------------------------
(* The block                                                               *)

\* A bug: no place for the zero.
EnsuredTight(s, n) ==
  IF ~s.isVarData THEN [s EXCEPT !.dataSize = n \div 2 + n, !.isVarData = TRUE]
  ELSE IF n >= s.dataSize THEN [s EXCEPT !.dataSize = @ \div 2 + n] ELSE s

\* ensureCapacityForLen; a constant is copied to a block of the new size.
Ensured(s, n) ==
  IF ~s.isVarData THEN [s EXCEPT !.dataSize = n \div 2 + 1 + n, !.isVarData = TRUE]
  ELSE IF n >= s.dataSize THEN [s EXCEPT !.dataSize = @ \div 2 + 1 + n] ELSE s

\* The zero behind the new text, or behind the copy of the constant, is written
\* beyond the block.
Overruns(s, n) ==
  LET size == Ensured(s, n).dataSize
  IN  n >= size \/ (~s.isVarData /\ Len(s.text) >= size)

\* A constant is to become a shorter text in a block.
Shortens(s, n) == ~s.isVarData /\ n < Len(s.text)

Fails(c, why) == fault' = why /\ call' = c /\ UNCHANGED <<str, stale, lost>>

\* The length stays, over no data.
Lose(s, string, c) ==
  /\ str' = [str EXCEPT ![s] = string] /\ lost' = lost \cup {s}
  /\ call' = c /\ UNCHANGED <<stale, fault>>

Put(s, string, c) ==
  /\ str' = [str EXCEPT ![s] = string] /\ call' = c
  /\ stale' = stale \ {s} /\ lost' = lost \ {s} /\ UNCHANGED fault

\* Without data an empty constant still takes a text.
Usable(s) == s \notin lost \/ (~str[s].isVarData /\ str[s].text = <<>>)

\* Every change of the text that asks for room, which may not be there: copy
\* and setChar write all the same.  The hash is forgotten.
Change(s, n, text, c) ==
  LET moves == ~str[s].isVarData \/ n >= str[s].dataSize
      checked == c.op \notin {"range", "char"}
  IN  /\ Usable(s) /\ Len(text) <= MaxLength
      /\ \/ moves /\ ~checked /\ Fails(c, "memory")
         \/ /\ moves /\ checked
            /\ Lose(s, [str[s] EXCEPT !.dataSize = IF str[s].isVarData THEN Ensured(str[s], n).dataSize ELSE 0], c)
         \/ Overruns(str[s], n) /\ Fails(c, IF Shortens(str[s], n) THEN "shortened" ELSE "overrun")
         \/ ~Overruns(str[s], n) /\ Put(s, [Ensured(str[s], n) EXCEPT !.text = text, !.hash = NoHash], c)

-----------------------------------------------------------------------------
(* Operations                                                              *)

\* init, initCapacity, initValue, newBufferLen: the string is made anew.
Make(s, text, n) ==
  Put(s, IF n = 0 THEN Const(<<>>, 0) ELSE Owned(text, n + 1), Call("set", s, text, 0, 0))

\* initCapacity and initValue without memory; the latter has set the length.
\* The functions that make a new string answer NULL, and leave the old one.
NoBlock(s, text, n) ==
  /\ n > 0
  /\ IF text = <<>> THEN Put(s, Const(<<>>, n + 1), Call("set", s, <<>>, 0, 0))
     ELSE Lose(s, Const(text, 0), Call("set", s, text, 0, 0))

MakeConst(s, text) ==
  Put(s, Const(text, IF text = <<>> THEN 0 ELSE Len(text) + 1), Call("set", s, text, 0, 0))

\* setConstLen; the block is given back.
SetConst(s, text) == Put(s, Const(text, 0), Call("set", s, text, 0, 0))

Clear(s) ==
  /\ str[s].isVarData => s \notin lost
  /\ Put(s, IF str[s].isVarData THEN [str[s] EXCEPT !.text = <<>>, !.hash = NoHash]
            ELSE Const(<<>>, 0), Call("set", s, <<>>, 0, 0))

SetValue(s, text) ==
  IF text = <<>> THEN Clear(s) ELSE Change(s, Len(text), text, Call("set", s, text, 0, 0))

\* setFormat and setStr; nothing gives the block back.
SetFormat(s, text) == IF text = <<>> THEN SetConst(s, <<>>) ELSE SetValue(s, text)

\* newStr with the old string freed: a constant is shared, a hash goes along.
NewStr(s, from) ==
  LET o == str[from]
  IN  IF o.text = <<>> THEN MakeConst(s, <<>>)
      ELSE /\ from \notin lost
           /\ str' = [str EXCEPT ![s] = IF o.isVarData THEN [o EXCEPT !.dataSize = Len(o.text) + 1] ELSE o]
           /\ stale' = (stale \ {s}) \cup IF from \in stale THEN {s} ELSE {}
           /\ lost' = lost \ {s}
           /\ call' = Call("set", s, o.text, 0, 0)
           /\ UNCHANGED fault

\* appendChar, append, appendLen, appendStr and appendFormat.
AppendText(s, text) ==
  LET whole == str[s].text \o text
  IN  text # <<>> /\ Change(s, Len(whole), whole, Call("append", s, text, 0, 0))

SetLength(s, n) ==
  Change(s, n, [i \in 1 .. n |-> IF i <= Len(str[s].text) THEN str[s].text[i] ELSE Blank],
         Call("length", s, <<>>, n, 0))

\* Characters within the text are changed where they are, in a constant too.
InPlace(s, text, c, writes, forgets) ==
  LET changed == text # str[s].text
      forgotten == forgets /\ changed
  IN  /\ s \notin lost
      /\ IF writes /\ ~str[s].isVarData THEN Fails(c, "constant")
         ELSE /\ str' = [str EXCEPT ![s].text = text, ![s].hash = IF forgotten THEN NoHash ELSE @]
              /\ stale' = IF forgotten THEN stale \ {s} ELSE IF changed /\ ~forgets THEN stale \cup {s} ELSE stale
              /\ call' = c /\ UNCHANGED <<lost, fault>>

SetChar(s, i, c) ==
  LET longer == [j \in 1 .. i + 1 |->
                   IF j = i + 1 THEN c ELSE IF j <= Len(str[s].text) THEN str[s].text[j] ELSE Blank]
      char == Call("char", s, <<c>>, i, 0)
  IN  IF i >= Len(str[s].text) THEN Change(s, i + 1, longer, char)
      ELSE InPlace(s, [str[s].text EXCEPT ![i + 1] = c], char, TRUE, FALSE)

ReplaceChar(s, old, new) ==
  InPlace(s, [i \in DOMAIN str[s].text |-> IF str[s].text[i] = old THEN new ELSE str[s].text[i]],
          Call("replace", s, <<old, new>>, 0, 0), \E i \in DOMAIN str[s].text : str[s].text[i] = old, FALSE)

\* toUpper, toLower and trim write where the text changes.
Recast(s, text, op) == InPlace(s, text, Call(op, s, <<>>, 0, 0), text # str[s].text, TRUE)

\* A bug: the hash stays.
ToUpperKeepsHash(s) ==
  /\ str[s].isVarData /\ s \notin lost
  /\ str' = [str EXCEPT ![s].text = [i \in DOMAIN @ |-> Upper[@[i]]]]
  /\ call' = Call("upper", s, <<>>, 0, 0)
  /\ UNCHANGED <<stale, lost, fault>>

ToUpper(s) == Recast(s, [i \in DOMAIN str[s].text |-> Upper[str[s].text[i]]], "upper")
ToLower(s) == Recast(s, [i \in DOMAIN str[s].text |-> Lower[str[s].text[i]]], "lower")
TrimText(s) == Recast(s, SubSeq(str[s].text, 1, TrimmedLength(str[s].text)), "trim")

HashCode(s) ==
  /\ s \notin lost
  /\ str' = [str EXCEPT ![s].hash = IF @ = NoHash /\ str[s].text # <<>> THEN str[s].text ELSE @]
  /\ call' = Call("same", s, <<>>, 0, 0)
  /\ UNCHANGED <<stale, lost, fault>>

\* A bug: the last character of the range is left out.
CopyShort(s, start, end) ==
  LET from == str[3 - s].text
      last == IF end < start \/ end > Len(from) THEN Len(from) ELSE end
  IN  /\ start < Len(from) /\ 3 - s \notin lost
      /\ Change(s, last - start, SubSeq(from, start + 1, last - 1), Call("range", s, <<>>, start, last))

\* cfl_str_copy: the range of the other text, up to its end when there is none.
Copy(s, start, end) ==
  LET from == str[3 - s].text
      last == IF end < start \/ end > Len(from) THEN Len(from) ELSE end
  IN  IF start >= Len(from) THEN Change(s, 0, <<>>, Call("length", s, <<>>, 0, 0))
      ELSE /\ 3 - s \notin lost
           /\ Change(s, last - start, SubSeq(from, start + 1, last), Call("range", s, <<>>, start, last))

\* The string is made anew, of a range of the other text.  The length of a
\* range that ends before it begins wraps.
Substr(s, start, end) ==
  LET from == str[3 - s].text
      last == IF end > Len(from) THEN Len(from) ELSE end
  IN  IF start < Len(from) /\ end < start THEN Fails(Call("range", s, <<>>, start, end), "range")
      ELSE IF start >= last THEN MakeConst(s, <<>>)
      ELSE /\ 3 - s \notin lost
           /\ Put(s, Owned(SubSeq(from, start + 1, last), last - start + 1), Call("range", s, <<>>, start, last))

\* The other string is left empty, without a block.
Move(s) ==
  /\ str' = [str EXCEPT ![s] = str[3 - s], ![3 - s] = Const(<<>>, 0)]
  /\ stale' = (IF 3 - s \in stale THEN {s} ELSE {})
  /\ lost' = (IF 3 - s \in lost THEN {s} ELSE {})
  /\ call' = Call("take", s, <<>>, 0, 0)
  /\ UNCHANGED fault

\* The calls that read or write the data a string has lost.
TouchLost(s) == s \in lost /\ Fails(Call("same", s, <<>>, 0, 0), "lost")

\* What clients do to both strings; the second one only serves the first.
Common(s) ==
  \/ \E t \in Given : Make(s, t, Len(t)) \/ MakeConst(s, t) \/ NoBlock(s, t, Len(t))
  \/ NewStr(s, 3 - s) \/ Move(s) \/ HashCode(s) \/ TouchLost(s)

Changed(s) ==
  \/ \E t \in Given : SetConst(s, t) \/ SetValue(s, t) \/ SetFormat(s, t) \/ AppendText(s, t)
  \/ \E c \in UpperCase, d \in Characters : ReplaceChar(s, c, d)
  \/ \E i \in 0 .. MaxLength - 1, c \in LowerCase : SetChar(s, i, c)
  \/ \E n \in 0 .. MaxLength : SetLength(s, n) \/ \E end \in 0 .. MaxLength : Copy(s, n, end) \/ Substr(s, n, end)
  \/ Make(s, <<>>, MaxLength) \/ NoBlock(s, <<>>, MaxLength)
  \/ Clear(s) \/ ToUpper(s) \/ ToLower(s) \/ TrimText(s)

Next == fault = "none" /\ (Changed(1) \/ \E s \in 1 .. 2 : Common(s))

Spec == Init /\ [][Next]_vars

-----------------------------------------------------------------------------
(* Properties                                                              *)

\* The text and its zero lie in the block, however it came about: each call
\* computes the size in its own way.  Writes beyond it happen in one case, when
\* a constant is to become shorter: the fault "shortened" (cfl_str.c:34-42).
TextInBlock ==
  /\ fault # "overrun"
  /\ \A s \in 1 .. 2 \ lost : str[s].isVarData => Len(str[s].text) < str[s].dataSize

\* A hash that is kept is that of the text.  The strings that setChar and
\* replaceChar have changed are left out: these two keep the old hash.
HashOfText == \A s \in 1 .. 2 \ stale : str[s].hash \in {NoHash, str[s].text}

\* equals, startsWith, indexOf and compare agree with one another on every pair
\* of texts, and from every start within the text.
SearchesAgree ==
  LET t == str[1].text
      u == str[2].text
  IN  /\ Equals(t, u, Same) <=> t = u
      /\ Compare(t, u, TRUE, Same) = -Compare(u, t, TRUE, Same)
      /\ Compare(t, u, FALSE, Upper) = 0 <=> StartsWith(t, u, Upper) \/ StartsWith(u, t, Upper)
      /\ u # <<>> => (IndexOfText(t, u, 0) = 0 <=> StartsWith(t, u, Same))
      /\ \A i \in 0 .. Len(t) :
           LET found == IndexOfText(t, u, i)
               Here(j) == j + Len(u) <= Len(t) /\ SubSeq(t, j + 1, j + Len(u)) = u
           IN  u # <<>> => /\ IF found = -1 THEN \A j \in i .. Len(t) : ~Here(j)
                              ELSE Here(found) /\ \A j \in i .. found - 1 : ~Here(j)
                           /\ Len(u) = 1 => found = IndexOf(t, u[1], i)

Promise == INSTANCE Texts WITH
             texts <- [s \in 1 .. 2 |-> IF s \in lost THEN <<>> ELSE str[s].text]

\* Constants, blocks, growth and sharing do not show: each call does to the
\* text what it says, and to the other string nothing; memory that lacks and
\* writes that go astray show in the calls and the cases Texts names, no other.
ImplementsTexts == Promise!Spec
=============================================================================
