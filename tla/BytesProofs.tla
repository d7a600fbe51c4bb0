----------------------------- MODULE BytesProofs -----------------------------
(***************************************************************************)
(* The buffer, the transfers and the bitmap, of any size.                  *)
(*                                                                         *)
(* Buffer, sizes: the argument goes through the functions of BufferData.   *)
(* ensureCapacity answers yes only with a block that is large enough, and  *)
(* changes nothing but the block; a put that has the room after the        *)
(* position leaves position and length inside it.                          *)
(*                                                                         *)
(* Buffer, contents: call by call, the bytes below the length (Text) are   *)
(* changed as ByteFile says.  Growth, cuts and copies keep the first bytes *)
(* of the block (Keeps), a put writes its own over what is there (Wrote);  *)
(* lemmas on sequences turn these facts about the bytes into the steps of  *)
(* the file.                                                               *)
(*                                                                         *)
(* Bitmap: the bits that are 1 are the numbers in the set.                 *)
(*                                                                         *)
(* Transfer: the stream holds what was taken and not yet read, so that no  *)
(* byte is lost, repeated or invented.                                     *)
(***************************************************************************)
EXTENDS MCBytes, SequenceTheorems, TLAPS

\* The block is as large as the capacity says.
Block(b) ==
  /\ b.capacity \in 1 .. MaxUInt
  /\ DOMAIN b.data = 0 .. b.capacity - 1

Ends(b) == b.position \in Nat /\ b.length \in Nat /\ b.position <= b.length

Sized(b) == Block(b) /\ Ends(b) /\ b.length <= b.capacity

LEMMA MaxIsNat == MaxUInt \in Nat
  BY SizesAssumption

IInv == fault \in BOOLEAN /\ (~fault => Sized(buf))

-----------------------------------------------------------------------------
(* What the functions return                                               *)

LEMMA WrappedIs ==
  ASSUME NEW sum \in Nat
  PROVE  Wrapped(sum) \in Nat /\ (sum <= MaxUInt => Wrapped(sum) = sum)
  BY MaxIsNat DEF Wrapped

\* The three outcomes of ensureCapacity.
LEMMA EnsuredIs ==
  ASSUME NEW b, Block(b), NEW sum \in Nat, NEW a \in BOOLEAN
  PROVE  \/ /\ Ensured(b, sum, a) = Answer(TRUE, sum > MaxUInt, b)
            /\ Wrapped(sum) <= b.capacity
         \/ Ensured(b, sum, a) = Answer(FALSE, sum > MaxUInt, b)
         \/ \E n \in 1 .. MaxUInt :
              /\ Ensured(b, sum, a) = Answer(TRUE, sum > MaxUInt, Resized(b, n))
              /\ Wrapped(sum) <= n /\ b.capacity <= n
<1> DEFINE half == b.capacity \div 2
           min == Wrapped(sum)
           n == half + 1 + min
<1>0. b.capacity \in Nat /\ MaxUInt \in Nat /\ half \in Nat /\ min \in Nat
  <2>1. b.capacity \in Nat /\ MaxUInt \in Nat /\ min \in Nat
    BY MaxIsNat, WrappedIs DEF Block
  <2> QED
    BY <2>1
<1>1. Ensured(b, sum, a) =
        IF min <= b.capacity THEN Answer(TRUE, sum > MaxUInt, b)
        ELSE IF min > MaxUInt - half - 1 \/ ~a THEN Answer(FALSE, sum > MaxUInt, b)
        ELSE Answer(TRUE, sum > MaxUInt, Resized(b, n))
  BY Zenon DEF Ensured
<1> HIDE DEF min, half
<1>2. CASE min <= b.capacity
  BY <1>1, <1>2, Zenon DEF min
<1>3. CASE ~(min <= b.capacity) /\ (min > MaxUInt - half - 1 \/ ~a)
  BY <1>1, <1>3, Zenon
<1>4. CASE ~(min <= b.capacity) /\ ~(min > MaxUInt - half - 1 \/ ~a)
  <2>1. n \in 1 .. MaxUInt /\ min <= n /\ b.capacity <= n
    BY <1>0, <1>4
  <2>2. Ensured(b, sum, a) = Answer(TRUE, sum > MaxUInt, Resized(b, n))
    BY <1>1, <1>4, Zenon
  <2> HIDE DEF n
  <2> QED
    BY <2>1, <2>2, Zenon DEF min
<1> QED
  BY <1>2, <1>3, <1>4, Zenon

\* ensureCapacity, of a buffer that may have been made longer than its block.
LEMMA EnsuredIsEnough ==
  ASSUME NEW b, Block(b), NEW sum \in Nat, NEW a \in BOOLEAN
  PROVE  /\ Block(Ensured(b, sum, a).buf)
         /\ Ensured(b, sum, a).buf.length = b.length
         /\ Ensured(b, sum, a).buf.position = b.position
         /\ b.capacity <= Ensured(b, sum, a).buf.capacity
         /\ Ensured(b, sum, a).ok \in BOOLEAN
         /\ Ensured(b, sum, a).wraps = (sum > MaxUInt)
         /\ Ensured(b, sum, a).ok /\ sum <= MaxUInt => sum <= Ensured(b, sum, a).buf.capacity
<1> DEFINE e == Ensured(b, sum, a)
           Fits(r) == /\ Block(r.buf) /\ r.buf.length = b.length /\ r.buf.position = b.position
                      /\ b.capacity <= r.buf.capacity
                      /\ r.ok /\ sum <= MaxUInt => sum <= r.buf.capacity
           Says(r) == r.ok \in BOOLEAN /\ r.wraps = (sum > MaxUInt)
<1>0. b.capacity \in Nat /\ (sum <= MaxUInt => Wrapped(sum) = sum)
  BY MaxIsNat, WrappedIs DEF Block
<1>1. ASSUME e = Answer(TRUE, sum > MaxUInt, b), Wrapped(sum) <= b.capacity
      PROVE  Fits(e) /\ Says(e)
  <2>1. e.ok = TRUE /\ e.wraps = (sum > MaxUInt) /\ e.buf = b
    BY <1>1 DEF Answer
  <2>3. sum <= MaxUInt => sum <= b.capacity
    BY <1>0, <1>1
  <2> HIDE DEF e
  <2>2. Fits(e)
    BY <1>0, <2>1, <2>3
  <2> QED
    BY <2>1, <2>2, Zenon
<1>2. ASSUME e = Answer(FALSE, sum > MaxUInt, b)
      PROVE  Fits(e) /\ Says(e)
  <2>1. e.ok = FALSE /\ e.wraps = (sum > MaxUInt) /\ e.buf = b
    BY <1>2 DEF Answer
  <2> HIDE DEF e
  <2>2. Fits(e)
    BY <1>0, <2>1
  <2> QED
    BY <2>1, <2>2, Zenon
<1>3. ASSUME NEW n \in 1 .. MaxUInt, e = Answer(TRUE, sum > MaxUInt, Resized(b, n)),
             Wrapped(sum) <= n, b.capacity <= n
      PROVE  Fits(e) /\ Says(e)
  <2>1. e.ok = TRUE /\ e.wraps = (sum > MaxUInt) /\ e.buf = Resized(b, n)
    BY <1>3 DEF Answer
  <2>2. /\ Block(Resized(b, n)) /\ Resized(b, n).length = b.length
        /\ Resized(b, n).position = b.position /\ Resized(b, n).capacity = n
    BY <1>3 DEF Block, Resized, Buf
  <2> HIDE DEF e
  <2>3. Fits(e)
    BY <1>0, <1>3, <2>1, <2>2
  <2> QED
    BY <2>1, <2>3, Zenon
<1>4. Fits(e) /\ Says(e)
  <2> HIDE DEF Fits, Says
  <2> QED
    BY <1>1, <1>2, <1>3, EnsuredIs, Zenon
<1> QED
  BY <1>4, Zenon

\* A put that asks for the room it needs, or for more.
LEMMA StoredIsSized ==
  ASSUME NEW b, Sized(b), NEW sum \in Nat, NEW a \in BOOLEAN, NEW v,
         Len(v) \in Nat, b.position + Len(v) <= sum
  PROVE  /\ Stored(b, sum, v, a).ok \in BOOLEAN
         /\ Stored(b, sum, v, a).wraps = (sum > MaxUInt)
         /\ sum <= MaxUInt => Sized(Stored(b, sum, v, a).buf)
<1> DEFINE e == Ensured(b, sum, a)
           d == e.buf
<1>0. Block(b)
  BY DEF Sized
<1>1. /\ Block(d) /\ d.length = b.length /\ d.position = b.position
      /\ b.capacity <= d.capacity
  BY <1>0, EnsuredIsEnough
<1>2. e.ok \in BOOLEAN /\ (e.ok /\ sum <= MaxUInt => sum <= d.capacity) /\ e.wraps = (sum > MaxUInt)
  BY <1>0, EnsuredIsEnough, Zenon
<1>3. Stored(b, sum, v, a) = IF e.ok THEN Answer(TRUE, e.wraps, Overwritten(d, v)) ELSE e
  BY Zenon DEF Stored
<1> HIDE DEF e, d
<1>4. Sized(d)
  BY <1>1, MaxIsNat DEF Sized, Block, Ends
<1>5. ASSUME sum <= MaxUInt, sum <= d.capacity PROVE Sized(Overwritten(d, v))
  <2>0. d.position + Len(v) \in Nat /\ d.position + Len(v) <= d.capacity
        /\ d.position + Len(v) <= MaxUInt
    BY <1>1, <1>4, <1>5, MaxIsNat DEF Sized, Block, Ends
  <2>1. d.position + Len(v) <= d.capacity /\ Wrapped(d.position + Len(v)) = d.position + Len(v)
    BY <2>0, WrappedIs
  <2> QED
    BY <1>4, <2>1, MaxIsNat DEF Overwritten, Buf, Sized, Block, Ends
<1>6. CASE ~e.ok
  BY <1>2, <1>3, <1>4, <1>6, Zenon DEF d
<1>7. CASE e.ok
  <2> DEFINE s == Stored(b, sum, v, a)
  <2>1. s = Answer(TRUE, e.wraps, Overwritten(d, v))
    BY <1>3, <1>7, Zenon
  <2>2. s.ok = TRUE /\ s.wraps = e.wraps /\ s.buf = Overwritten(d, v)
    BY <2>1 DEF Answer
  <2>3. sum <= MaxUInt => Sized(Overwritten(d, v))
    BY <1>2, <1>5, <1>7, Zenon
  <2> HIDE DEF s
  <2>4. s.ok \in BOOLEAN /\ s.wraps = (sum > MaxUInt) /\ (sum <= MaxUInt => Sized(s.buf))
    BY <1>2, <2>2, <2>3, Zenon
  <2> QED
    BY <2>4, Zenon DEF s
<1> QED
  BY <1>6, <1>7

\* What a put leaves unless a sum wraps.
Sound(s) == s.wraps \in BOOLEAN /\ (~s.wraps => s.ok \in BOOLEAN /\ Sized(s.buf))

LEMMA PutFixedIsSized ==
  ASSUME NEW b, Sized(b), NEW a \in BOOLEAN, NEW v, Len(v) \in Nat
  PROVE  Sound(PutFixed(b, v, a))
<1> DEFINE sum == b.length + Len(v)
           s == Stored(b, sum, v, a)
<1>1. sum \in Nat /\ b.position + Len(v) <= sum
  BY DEF Sized, Ends
<1>2. s.ok \in BOOLEAN /\ s.wraps = (sum > MaxUInt) /\ (sum <= MaxUInt => Sized(s.buf))
  BY <1>1, StoredIsSized
<1>3. PutFixed(b, v, a) = s
  BY Zenon DEF PutFixed
<1>4. (sum > MaxUInt) \in BOOLEAN /\ (~(sum > MaxUInt) => sum <= MaxUInt)
  BY <1>1, MaxIsNat
<1> HIDE DEF s, sum
<1> QED
  BY <1>2, <1>3, <1>4, Zenon DEF Sound

\* What follows a put: it wraps if either does.
LEMMA ThenIs ==
  ASSUME NEW s, NEW t, s.wraps \in BOOLEAN
  PROVE  /\ Then(s, t).wraps \in BOOLEAN
         /\ ~Then(s, t).wraps => ~s.wraps
         /\ ~s.ok => Then(s, t) = s
         /\ s.ok => Then(s, t).ok = t.ok /\ Then(s, t).buf = t.buf
         /\ s.ok /\ ~Then(s, t).wraps => ~t.wraps
<1>1. CASE ~s.ok
  <2>1. Then(s, t) = s
    BY <1>1, Zenon DEF Then
  <2> QED
    BY <1>1, <2>1, Zenon
<1>2. CASE s.ok
  <2>1. Then(s, t) = Answer(t.ok, s.wraps \/ t.wraps, t.buf)
    BY <1>2, Zenon DEF Then
  <2>2. Then(s, t).ok = t.ok /\ Then(s, t).wraps = (s.wraps \/ t.wraps) /\ Then(s, t).buf = t.buf
    BY <2>1 DEF Answer
  <2> QED
    BY <1>2, <2>2, Zenon
<1> QED
  BY <1>1, <1>2

LEMMA ThenIsSound ==
  ASSUME NEW s, NEW t, Sound(s), ~s.wraps => Sound(t)
  PROVE  Sound(Then(s, t))
<1> DEFINE r == Then(s, t)
<1>1. /\ r.wraps \in BOOLEAN /\ (~r.wraps => ~s.wraps)
      /\ (~s.ok => r = s) /\ (s.ok => r.ok = t.ok /\ r.buf = t.buf)
      /\ (s.ok /\ ~r.wraps => ~t.wraps)
  BY ThenIs DEF Sound
<1> HIDE DEF r
<1>2. ~r.wraps => r.ok \in BOOLEAN /\ Sized(r.buf)
  <2>1. CASE s.ok
    BY <1>1, <2>1, Zenon DEF Sound
  <2>2. CASE ~s.ok
    BY <1>1, <2>2, Zenon DEF Sound
  <2> QED
    BY <2>1, <2>2
<1>3. Sound(r)
  BY <1>1, <1>2, Zenon DEF Sound
<1> QED
  BY <1>3, Zenon DEF r

LEMMA MovedIsSized ==
  ASSUME NEW b, Sized(b), NEW n \in 0 .. MaxUInt, NEW a \in BOOLEAN
  PROVE  Moved(b, n, a).ok \in BOOLEAN /\ (Moved(b, n, a).ok => Sized(Moved(b, n, a).buf))
<1>0. n \in Nat /\ n <= MaxUInt
  BY MaxIsNat
<1>1. CASE n <= b.length
  <2>1. Moved(b, n, a) = Answer(TRUE, FALSE, Buf(b.data, b.capacity, b.length, n))
    BY <1>1, Zenon DEF Moved
  <2>2. Moved(b, n, a).ok = TRUE /\ Moved(b, n, a).buf = Buf(b.data, b.capacity, b.length, n)
    BY <2>1 DEF Answer
  <2>3. Sized(Buf(b.data, b.capacity, b.length, n))
    BY <1>0, <1>1 DEF Sized, Block, Ends, Buf
  <2> QED
    BY <2>2, <2>3, Zenon
<1>2. CASE n > b.length
  <2> DEFINE long == Buf(b.data, b.capacity, n, n)
             e == Ensured(long, n, a)
             d == e.buf
  <2>1. Block(long) /\ long.length = n /\ long.position = n
    BY DEF Sized, Block, Buf
  <2>2. Moved(b, n, a) = e
    <3>1. ~(n <= b.length)
      BY <1>0, <1>2 DEF Sized, Ends
    <3> QED
      BY <3>1, Zenon DEF Moved
  <2> HIDE DEF long
  <2>3. Block(d) /\ d.length = n /\ d.position = n
    BY <1>0, <2>1, EnsuredIsEnough
  <2>4. e.ok \in BOOLEAN /\ (e.ok /\ n <= MaxUInt => n <= d.capacity)
    BY <1>0, <2>1, EnsuredIsEnough, Zenon
  <2> HIDE DEF e, d
  <2>5. ASSUME n <= d.capacity PROVE Sized(d)
    BY <1>0, <2>3, <2>5 DEF Sized, Ends
  <2> QED
    BY <1>0, <2>2, <2>4, <2>5, Zenon DEF d
<1> QED
  BY <1>0, <1>1, <1>2 DEF Sized, Ends

LEMMA CutIsSized ==
  ASSUME NEW b, Block(b), Ends(b), NEW n \in Nat, n <= b.capacity
  PROVE  Sized(Cut(b, n))
  BY DEF Cut, Buf, Sized, Block, Ends

LEMMA ResizedIsBlock ==
  ASSUME NEW b, Ends(b), NEW n \in 1 .. MaxUInt
  PROVE  Block(Resized(b, n)) /\ Ends(Resized(b, n)) /\ Resized(b, n).capacity = n
         /\ Resized(b, n).length = b.length
  BY DEF Resized, Buf, Block, Ends

LEMMA ValueLength == \A v \in Values : Len(v) \in Nat
<1>1. SUFFICES ASSUME NEW n \in 0 .. MaxPut, NEW v \in [1 .. n -> Bytes] PROVE Len(v) \in Nat
  BY DEF Values
<1>2. n \in Nat
  BY SizesAssumption
<1> QED
  BY <1>2
-----------------------------------------------------------------------------
(* The operations                                                          *)

\* What a put, a cut or a step to another position leaves.
LEMMA IntoIsSized ==
  ASSUME NEW op, NEW bytes, NEW s, Into(op, bytes, s), Sound(s)
  PROVE  IInv'
<1>1. fault' = s.wraps /\ buf' = s.buf
  BY Zenon DEF Into
<1>2. fault' \in BOOLEAN /\ (~fault' => Sized(buf'))
  BY <1>1, Zenon DEF Sound
<1> QED
  BY <1>2 DEF IInv, Sized, Block, Ends

LEMMA BecomesIsSized ==
  ASSUME NEW op, NEW b, Becomes(op, b), ~fault, fault \in BOOLEAN, Sized(b)
  PROVE  IInv'
  BY DEF Becomes, IInv, Sized, Block, Ends

\* What asks for the room of the bytes and of extra ones.
LEMMA StoredMoreIsSound ==
  ASSUME NEW b, Sized(b), NEW extra \in Nat, NEW a \in BOOLEAN, NEW v, Len(v) \in Nat,
         NEW s, s = Stored(b, b.position + Len(v) + extra, v, a)
  PROVE  Sound(s)
<1> DEFINE sum == b.position + Len(v) + extra
<1>1. sum \in Nat /\ b.position + Len(v) <= sum
  BY DEF Sized, Ends
<1>2. s.ok \in BOOLEAN /\ s.wraps = (sum > MaxUInt) /\ (sum <= MaxUInt => Sized(s.buf))
  BY <1>1, StoredIsSized
<1>3. (sum > MaxUInt) \in BOOLEAN /\ (~(sum > MaxUInt) => sum <= MaxUInt)
  BY <1>1, MaxIsNat
<1> HIDE DEF sum
<1> QED
  BY <1>2, <1>3, Zenon DEF Sound

\* The puts of one value.
LEMMA PutOneInv ==
  ASSUME Sized(buf), ~fault, fault \in BOOLEAN, NEW v \in Values, NEW a \in BOOLEAN,
         PutValue(v, a) \/ PutBytes(v, a)
  PROVE  IInv'
<1>0. Len(v) \in Nat
  BY ValueLength
<1>1. CASE PutValue(v, a)
  <2> DEFINE s == PutFixed(buf, v, a)
  <2>1. Sound(s)
    BY <1>0, PutFixedIsSized
  <2>2. \E bytes : Into("put", bytes, s)
    BY <1>1, Zenon DEF PutValue
  <2> HIDE DEF s
  <2> QED
    BY <2>1, <2>2, IntoIsSized
<1>2. CASE PutBytes(v, a)
  <2> DEFINE s == Stored(buf, buf.position + Len(v), v, a)
  <2>1. buf.position + Len(v) + 0 = buf.position + Len(v) /\ 0 \in Nat
    BY <1>0 DEF Sized, Ends
  <2>2. s = Stored(buf, buf.position + Len(v) + 0, v, a)
    BY <2>1
  <2>3. \E bytes : Into("put", bytes, s)
    BY <1>2, Zenon DEF PutBytes
  <2> HIDE DEF s
  <2>4. Sound(s)
    BY <1>0, <2>1, <2>2, StoredMoreIsSound
  <2> QED
    BY <2>3, <2>4, IntoIsSized
<1> QED
  BY <1>1, <1>2

LEMMA FieldIs ==
  ASSUME NEW n \in Nat
  PROVE  Len(LengthField(n)) = 2 /\ LengthField(n) \in Seq({n, 0})
  BY DEF LengthField

\* The puts of a text: after its length its bytes, with room for extra ones.
LEMMA TwoPutsInv ==
  ASSUME Sized(buf), ~fault, fault \in BOOLEAN, NEW v \in Values, NEW extra \in Nat, NEW fails,
         TwoPuts(v, extra, fails)
  PROVE  IInv'
<1> DEFINE first == PutFixed(buf, LengthField(Len(v)), fails # 1)
           second == Stored(first.buf, first.buf.position + Len(v) + extra, v, fails # 2)
           both == IF Len(v) > 0 THEN Then(first, second) ELSE first
<1>0. Len(v) \in Nat /\ Len(LengthField(Len(v))) \in Nat
  BY ValueLength, FieldIs
<1>1. Sound(first)
  BY <1>0, PutFixedIsSized
<1>2. \E bytes : Into("put", bytes, both)
  BY Zenon DEF TwoPuts
<1> HIDE DEF first
<1>3. ~first.wraps => Sound(second)
  <2> SUFFICES ASSUME ~first.wraps PROVE Sound(second)
    OBVIOUS
  <2>1. Sized(first.buf)
    BY <1>1, Zenon DEF Sound
  <2>2. (fails # 2) \in BOOLEAN
    OBVIOUS
  <2> QED
    BY <1>0, <2>1, <2>2, StoredMoreIsSound
<1> HIDE DEF second
<1>4. Sound(Then(first, second))
  BY <1>1, <1>3, ThenIsSound
<1>5. Sound(both)
  BY <1>1, <1>4, Zenon
<1> HIDE DEF both
<1> QED
  BY <1>2, <1>5, IntoIsSized

LEMMA AndPutIsSound ==
  ASSUME NEW s, NEW v, NEW a \in BOOLEAN, Len(v) \in Nat, Sound(s)
  PROVE  Sound(AndPut(s, v, a))
<1> DEFINE t == PutFixed(s.buf, v, a)
<1>1. ~s.wraps => Sound(t)
  <2> SUFFICES ASSUME ~s.wraps PROVE Sound(t)
    OBVIOUS
  <2>1. Sized(s.buf)
    BY Zenon DEF Sound
  <2> QED
    BY <2>1, PutFixedIsSized
<1>2. AndPut(s, v, a) = Then(s, t)
  BY Zenon DEF AndPut
<1> HIDE DEF t
<1> QED
  BY <1>1, <1>2, ThenIsSound

LEMMA PutDateInv ==
  ASSUME Sized(buf), ~fault, fault \in BOOLEAN, NEW fails,
         NEW y \in [1 .. 2 -> Bytes], NEW m \in [1 .. 1 -> Bytes], PutDate(y, m, m, fails)
  PROVE  IInv'
<1> DEFINE one == PutFixed(buf, y, fails # 1)
           two == AndPut(one, m, fails # 2)
           three == AndPut(two, m, fails # 3)
<1>0. Len(y) \in Nat /\ Len(m) \in Nat
  OBVIOUS
<1>1. Sound(one)
  BY <1>0, PutFixedIsSized
<1>2. \E bytes : Into("put", bytes, three)
  BY Zenon DEF PutDate
<1> HIDE DEF one
<1>3. Sound(two)
  BY <1>0, <1>1, AndPutIsSound
<1> HIDE DEF two
<1>4. Sound(three)
  BY <1>0, <1>3, AndPutIsSound
<1> HIDE DEF three
<1> QED
  BY <1>2, <1>4, IntoIsSized

\* The gets.
Reads ==
  \/ \E a \in BOOLEAN : GetText(a) \/ \E n \in 1 .. MaxPut : GetBytes(n, a)
  \/ \E n \in 1 .. MaxPut : GetValue(n) \/ CopyText(n)
  \/ GetDate

LEMMA ReadToIsSized ==
  ASSUME Sized(buf), ~fault, fault \in BOOLEAN, NEW p \in Nat, p <= buf.length, ReadTo(p)
  PROVE  IInv'
  BY MaxIsNat DEF ReadTo, Buf, IInv, Sized, Block, Ends

\* The field of the length and the text lie below the length of the buffer.
LEMMA TextEndIs ==
  ASSUME Sized(buf), NEW n \in TextLengths, NEW most \in Nat
  PROVE  /\ FieldEnd \in Nat /\ buf.position <= FieldEnd /\ FieldEnd <= TextEnd(n, most)
         /\ TextEnd(n, most) \in Nat /\ TextEnd(n, most) <= buf.length
<1>0. buf.position \in Nat /\ buf.length \in Nat /\ buf.position <= buf.length /\ MaxUInt \in Nat
  BY MaxIsNat DEF Sized, Ends
<1>1. n \in Nat
  BY <1>0 DEF TextLengths
<1>2. FieldEnd \in Nat /\ FieldEnd <= buf.length /\ buf.position <= FieldEnd
  BY <1>0 DEF FieldEnd, FieldThere, Field
<1> QED
  BY <1>0, <1>1, <1>2 DEF TextEnd

LEMMA ReadInv ==
  ASSUME Sized(buf), ~fault, fault \in BOOLEAN, Reads
  PROVE  IInv'
<1>0. /\ buf.position \in Nat /\ buf.length \in Nat /\ buf.position <= buf.length
      /\ MaxUInt \in Nat /\ 4 \in Nat /\ \A n \in 1 .. MaxPut : n \in Nat
  BY MaxIsNat, SizesAssumption DEF Sized, Ends
<1>1. ASSUME NEW n \in Nat, GetValue(n) PROVE IInv'
  <2>1. \/ buf.position + n <= buf.length /\ ReadTo(buf.position + n)
        \/ ReadTo(buf.length)
    BY <1>1, Zenon DEF GetValue, Answers, RunsShort
  <2>2. buf.position + n \in Nat /\ buf.length <= buf.length
    BY <1>0
  <2> QED
    BY <1>0, <2>1, <2>2, ReadToIsSized
<1>2. ASSUME NEW n \in Nat, NEW a \in BOOLEAN, GetBytes(n, a) PROVE IInv'
  <2>1. ReadTo(buf.position + n) \/ ReadTo(buf.position)
    BY <1>2, Zenon DEF GetBytes, Answers, NoMemory
  <2>2. buf.position + n \in Nat /\ buf.position + n <= buf.length
    BY <1>0, <1>2 DEF GetBytes
  <2> QED
    BY <1>0, <2>1, <2>2, ReadToIsSized
<1>3. ASSUME NEW most \in Nat, ReadText(most) PROVE IInv'
  <2>1. PICK n \in TextLengths : IF FieldThere THEN Answers(TextEnd(n, most) - buf.position)
                                 ELSE RunsShort(Field)
    BY <1>3, Zenon DEF ReadText
  <2>2. TextEnd(n, most) \in Nat /\ TextEnd(n, most) <= buf.length
    BY TextEndIs
  <2>3. buf.position + (TextEnd(n, most) - buf.position) = TextEnd(n, most)
    BY <1>0, <2>2
  <2>4. ReadTo(TextEnd(n, most)) \/ ReadTo(buf.length)
    BY <2>1, <2>3, Zenon DEF Answers, RunsShort
  <2> QED
    BY <1>0, <2>2, <2>4, ReadToIsSized
<1>4. ASSUME NEW a \in BOOLEAN, GetText(a) PROVE IInv'
  <2>1. CASE ReadText(MaxUInt)
    BY <1>0, <1>3, <2>1
  <2>2. CASE \E n \in TextLengths : NoMemory(FieldEnd) \/ NoMemory(TextEnd(n, MaxUInt))
    <3>1. PICK n \in TextLengths : ReadTo(FieldEnd) \/ ReadTo(TextEnd(n, MaxUInt))
      BY <2>2, Zenon DEF NoMemory
    <3>2. /\ FieldEnd \in Nat /\ FieldEnd <= TextEnd(n, MaxUInt)
          /\ TextEnd(n, MaxUInt) \in Nat /\ TextEnd(n, MaxUInt) <= buf.length
      BY <1>0, TextEndIs
    <3>3. FieldEnd <= buf.length
      BY <1>0, <3>2
    <3> QED
      BY <3>1, <3>2, <3>3, ReadToIsSized
  <2>3. CASE fault'
    BY <1>4, <2>3 DEF IInv, GetText, ReadText, Answers, RunsShort, NoMemory, ReadTo
  <2> QED
    BY <1>4, <2>1, <2>2, <2>3, Zenon DEF GetText
<1> QED
  BY <1>0, <1>1, <1>2, <1>3, <1>4 DEF Reads, CopyText, GetDate

LEMMA WithinInv ==
  ASSUME Sized(buf), ~fault, fault \in BOOLEAN,
         Rewind \/ Flip \/ Reset \/ Compact \/ Clone \/ MoveTo
  PROVE  IInv'
<1> USE MaxIsNat
<1>1. CASE Rewind \/ Flip \/ Reset \/ MoveTo
  <2>1. \A len, pos \in Nat : pos <= len /\ len <= buf.length =>
          Sized(Buf(buf.data, buf.capacity, len, pos))
    BY DEF Buf, Sized, Block, Ends
  <2>2. /\ 0 \in Nat /\ buf.length \in Nat /\ buf.position \in Nat
        /\ 0 <= buf.length /\ 0 <= buf.position /\ buf.position <= buf.length
        /\ 0 <= 0 /\ buf.length <= buf.length
    BY DEF Sized, Ends
  <2>3. /\ Sized(Buf(buf.data, buf.capacity, buf.length, 0))
        /\ Sized(Buf(buf.data, buf.capacity, buf.position, 0))
        /\ Sized(Buf(buf.data, buf.capacity, 0, 0))
    BY <2>1, <2>2
  <2> QED
    BY <1>1, <2>3, BecomesIsSized DEF Rewind, Flip, Reset, MoveTo
<1>2. CASE Compact
  <2>1. fault' \in BOOLEAN
    BY <1>2 DEF Compact
  <2>2. Sized(buf')
    <3>1. CASE buf.position = 0
      BY <1>2, <3>1 DEF Compact
    <3>2. CASE buf.position # 0
      BY <1>2, <3>2 DEF Compact, Remaining, Buf, Sized, Block, Ends
    <3> QED
      BY <3>1, <3>2
  <2> QED
    BY <2>1, <2>2 DEF IInv, Sized, Block, Ends
<1>3. CASE Clone
  <2> DEFINE n == IF buf.length > 0 THEN buf.length ELSE buf.capacity
  <2>1. n \in 1 .. MaxUInt /\ buf.length <= n /\ buf.length \in Nat /\ Ends(buf)
    BY DEF Sized, Block, Ends
  <2>2. Becomes("move", Cut(Resized(buf, n), buf.length))
    BY <1>3, Zenon DEF Clone
  <2> HIDE DEF n
  <2> QED
    BY <2>1, <2>2, ResizedIsBlock, CutIsSized, BecomesIsSized
<1> QED
  BY <1>1, <1>2, <1>3

\* What may grow or shrink the block.
LEMMA SizeInv ==
  ASSUME Sized(buf), ~fault, fault \in BOOLEAN, NEW a \in BOOLEAN,
         \/ \E n \in 0 .. MaxUInt : SetLength(n, a) \/ SetPosition(n, a) \/ SetCapacity(n, a)
         \/ \E n \in -MaxPut .. MaxPut : Skip(n, a)
  PROVE  IInv'
<1> USE MaxIsNat
<1>0. Block(buf) /\ Ends(buf)
  BY DEF Sized
<1>1. ASSUME NEW n \in 0 .. MaxUInt, NEW wraps \in BOOLEAN, GoTo(n, wraps, a) PROVE IInv'
  <2>1. Moved(buf, n, a).ok \in BOOLEAN /\ (Moved(buf, n, a).ok => Sized(Moved(buf, n, a).buf))
    BY MovedIsSized
  <2>2. buf' = Moved(buf, n, a).buf /\ fault' = (wraps \/ ~Moved(buf, n, a).ok)
    BY <1>1, Zenon DEF GoTo
  <2>3. fault' \in BOOLEAN /\ (~fault' => Sized(buf'))
    BY <2>1, <2>2, Zenon
  <2> QED
    BY <2>3 DEF IInv, Sized, Block, Ends
<1>2. ASSUME NEW n \in 0 .. MaxUInt, SetLength(n, a) PROVE IInv'
  <2> DEFINE e == Ensured(buf, n, a)
             d == e.buf
             q == IF buf.position > n THEN n ELSE buf.position
             s == IF e.ok THEN Answer(TRUE, e.wraps, Buf(d.data, d.capacity, n, q)) ELSE e
  <2>0. n \in Nat /\ n <= MaxUInt /\ (n > MaxUInt) = FALSE
    OBVIOUS
  <2>1. /\ Block(d) /\ d.length = buf.length /\ d.position = buf.position
        /\ buf.capacity <= d.capacity
    BY <1>0, <2>0, EnsuredIsEnough
  <2>2. e.ok \in BOOLEAN /\ (e.ok => n <= d.capacity) /\ e.wraps = FALSE
    BY <1>0, <2>0, EnsuredIsEnough, Zenon
  <2>3. Into("length", <<>>, s)
    BY <1>2, Zenon DEF SetLength
  <2>5. q \in Nat /\ q <= n
    BY <1>0, <2>0 DEF Ends
  <2> HIDE DEF e, d, q
  <2>6. Sized(d)
    BY <1>0, <2>1 DEF Sized, Block, Ends
  <2>7. n <= d.capacity => Sized(Buf(d.data, d.capacity, n, q))
    BY <2>0, <2>1, <2>5 DEF Buf, Sized, Block, Ends
  <2>8. s.wraps = FALSE /\ s.ok \in BOOLEAN /\ Sized(s.buf)
    <3>1. CASE e.ok
      <4>1. s = Answer(TRUE, e.wraps, Buf(d.data, d.capacity, n, q))
        BY <3>1, Zenon
      <4>2. s.wraps = e.wraps /\ s.ok = TRUE /\ s.buf = Buf(d.data, d.capacity, n, q)
        BY <4>1 DEF Answer
      <4> HIDE DEF s
      <4> QED
        BY <2>2, <2>7, <3>1, <4>2, Zenon
    <3>2. CASE ~e.ok
      BY <2>2, <2>6, <3>2, Zenon DEF d
    <3> QED
      BY <3>1, <3>2
  <2> HIDE DEF s
  <2> QED
    BY <2>3, <2>8, IntoIsSized DEF Sound
<1>3. ASSUME NEW n \in 0 .. MaxUInt, SetCapacity(n, a) PROVE IInv'
  <2>1. CASE n = 0
    BY <1>3, <2>1, IntoIsSized DEF SetCapacity, Answer, Sound
  <2>2. CASE n # 0 /\ n > buf.capacity
    <3> DEFINE e == Ensured(buf, n, a)
               d == e.buf
    <3>0. /\ Block(d) /\ d.length = buf.length /\ d.position = buf.position
          /\ buf.capacity <= d.capacity /\ e.wraps = FALSE /\ e.ok \in BOOLEAN
      <4>1. n \in Nat /\ (n > MaxUInt) = FALSE
        OBVIOUS
      <4> QED
        BY <1>0, <4>1, EnsuredIsEnough
    <3>2. Into("length", <<>>, e)
      BY <1>3, <2>2, Zenon DEF SetCapacity
    <3> HIDE DEF e, d
    <3>1. Sized(d)
      BY <1>0, <3>0 DEF Sized, Block, Ends
    <3> USE DEF d
    <3> QED
      BY <3>0, <3>1, <3>2, IntoIsSized DEF Sound
  <2>3. CASE n # 0 /\ ~(n > buf.capacity)
    <3>1. Sized(Cut(Resized(buf, n), n))
      BY <1>0, <2>3, ResizedIsBlock, CutIsSized
    <3>2. Sized(buf') /\ fault' \in BOOLEAN
      BY <1>3, <2>3, <3>1 DEF SetCapacity
    <3> QED
      BY <3>2 DEF IInv, Sized, Block, Ends
  <2> QED
    BY <2>1, <2>2, <2>3
<1>4. ASSUME NEW n \in -MaxPut .. MaxPut, Skip(n, a) PROVE IInv'
  <2>0. n \in Int
    BY SizesAssumption
  <2>1. CASE n < 0
    <3> DEFINE q == IF -n > buf.position THEN 0 ELSE buf.position + n
    <3>1. q \in Nat /\ q <= buf.length
      BY <1>0, <2>0, <2>1 DEF Ends
    <3>2. Becomes("move", Buf(buf.data, buf.capacity, buf.length, q))
      BY <1>4, <2>1 DEF Skip
    <3> HIDE DEF q
    <3>3. Sized(Buf(buf.data, buf.capacity, buf.length, q))
      BY <1>0, <3>1 DEF Buf, Sized, Block, Ends
    <3> QED
      BY <3>2, <3>3, BecomesIsSized
  <2>2. CASE ~(n < 0)
    <3> DEFINE q == Wrapped(buf.position + n)
               wraps == buf.position + n > MaxUInt
    <3>1. q \in 0 .. MaxUInt /\ wraps \in BOOLEAN
      BY <1>0, <2>0, <2>2, SizesAssumption DEF Wrapped, Sized, Block, Ends
    <3>2. GoTo(q, wraps, a)
      BY <1>4, <2>2, Zenon DEF Skip
    <3> HIDE DEF q, wraps
    <3> QED
      BY <1>1, <3>1, <3>2
  <2> QED
    BY <2>1, <2>2
<1> QED
  BY <1>1, <1>2, <1>3, <1>4 DEF SetPosition

-----------------------------------------------------------------------------

LEMMA InitInv == Init => IInv
  BY MaxIsNat, SizesAssumption DEF Init, Buf, IInv, Sized, Block, Ends

LEMMA StepInv == ASSUME IInv, Next PROVE IInv'
<1>0. ~fault /\ fault \in BOOLEAN /\ Sized(buf)
  BY DEF Next, IInv
<1>1. ASSUME NEW v \in Values, NEW fails, PutText(v, fails) \/ PutFormat(v, fails) PROVE IInv'
  BY <1>0, <1>1, TwoPutsInv DEF PutText, PutFormat
<1>2. ASSUME NEW y \in [1 .. 2 -> Bytes], NEW m \in [1 .. 1 -> Bytes], NEW fails,
             PutDate(y, m, m, fails)
      PROVE  IInv'
  BY <1>0, <1>2, PutDateInv
<1>3. ASSUME NEW a \in BOOLEAN, NEW v \in Values, PutValue(v, a) \/ PutBytes(v, a) PROVE IInv'
  BY <1>0, <1>3, PutOneInv
<1>4. ASSUME NEW a \in BOOLEAN,
             \/ \E n \in 0 .. MaxUInt : SetLength(n, a) \/ SetPosition(n, a) \/ SetCapacity(n, a)
             \/ \E n \in -MaxPut .. MaxPut : Skip(n, a)
      PROVE  IInv'
  BY <1>0, <1>4, SizeInv
<1>5. CASE Reads
  BY <1>0, <1>5, ReadInv
<1>6. CASE Rewind \/ Flip \/ Reset \/ Compact \/ Clone \/ MoveTo
  BY <1>0, <1>6, WithinInv
<1> QED
  BY <1>1, <1>2, <1>3, <1>4, <1>5, <1>6, Zenon DEF Next, Reads

LEMMA Invariant == Spec => []IInv
<1>1. IInv /\ UNCHANGED vars => IInv'
  BY DEF vars, IInv, Sized, Block, Ends
<1> QED
  BY <1>1, InitInv, StepInv, PTL DEF Spec

\* Whatever is put, read, skipped, cut and copied, and whichever allocations
\* fail, position, length and capacity of a buffer keep their order and the
\* block is as large as the capacity says, until a sum is too large for a
\* CFL_UINT32 or the code does not look at a failure (PUT_BUFFER,
\* ensureCapacity, cfl_buffer_setPosition).
THEOREM SizesStaySound == Spec => []SoundSizes
<1>1. IInv => SoundSizes
  BY MaxIsNat DEF IInv, Sized, Block, Ends, SoundSizes
<1> QED
  BY <1>1, Invariant, PTL

-----------------------------------------------------------------------------
(* The bytes below the length                                              *)

Text(b) == [i \in 1 .. b.length |-> b.data[i - 1]]

\* v was written over what b holds at its position.
Wrote(b, c, v) ==
  LET end == b.position + Len(v)
  IN  /\ c.position = end
      /\ c.length = IF end > b.length THEN end ELSE b.length
      /\ \A i \in 0 .. c.length - 1 :
           c.data[i] = IF i \in b.position .. end - 1 THEN v[i - b.position + 1] ELSE b.data[i]

\* The first n bytes are those of b.
Keeps(b, c, n) == \A i \in 0 .. n - 1 : c.data[i] = b.data[i]

LEMMA TextIs ==
  ASSUME NEW b, Ends(b)
  PROVE  /\ Text(b) \in Seq({b.data[i] : i \in 0 .. b.length - 1})
         /\ Len(Text(b)) = b.length
         /\ \A i \in 1 .. b.length : Text(b)[i] = b.data[i - 1]
<1> DEFINE S == {b.data[i] : i \in 0 .. b.length - 1}
<1>1. b.length \in Nat
  BY DEF Ends
<1>2. \A i \in 1 .. b.length : b.data[i - 1] \in S
  <2> SUFFICES ASSUME NEW i \in 1 .. b.length PROVE b.data[i - 1] \in S
    OBVIOUS
  <2>1. i - 1 \in 0 .. b.length - 1
    BY <1>1
  <2> QED
    BY <2>1
<1>3. Text(b) \in [1 .. b.length -> S]
  BY <1>2 DEF Text
<1> HIDE DEF S
<1> QED
  BY <1>1, <1>3 DEF Text

\* Sequences by their elements: what is written over a text.
LEMMA Splice ==
  ASSUME NEW S, NEW s \in Seq(S), NEW v \in Seq(S), NEW t \in Seq(S), NEW p \in 0 .. Len(s),
         Len(t) = IF p + Len(v) > Len(s) THEN p + Len(v) ELSE Len(s),
         \A i \in 1 .. Len(t) : t[i] = IF i \in p + 1 .. p + Len(v) THEN v[i - p] ELSE s[i]
  PROVE  t = Promise!Upto(s, p) \o v \o Promise!Beyond(s, p + Len(v))
<1> DEFINE e == p + Len(v)
           a == SubSeq(s, 1, p)
           c == SubSeq(s, e + 1, Len(s))
<1>0. p \in Nat /\ Len(s) \in Nat /\ Len(v) \in Nat /\ e \in Nat /\ p <= Len(s)
  OBVIOUS
<1>1. a \in Seq(S) /\ Len(a) = p /\ \A i \in 1 .. p : a[i] = s[i]
  <2>1. \A i \in 1 .. p : s[i] \in S
    BY <1>0
  <2> QED
    BY <1>0, <2>1, SubSeqProperties
<1>2. /\ c \in Seq(S) /\ Len(c) = IF e < Len(s) THEN Len(s) - e ELSE 0
      /\ \A i \in 1 .. Len(c) : c[i] = s[e + i]
  <2>1. \A i \in e + 1 .. Len(s) : s[i] \in S
    BY <1>0
  <2> HIDE DEF e
  <2>2. /\ c \in Seq(S) /\ Len(c) = IF e + 1 <= Len(s) THEN Len(s) - (e + 1) + 1 ELSE 0
        /\ \A i \in 1 .. Len(s) - (e + 1) + 1 : c[i] = s[(e + 1) + i - 1]
    BY <1>0, <2>1, SubSeqProperties
  <2> QED
    BY <1>0, <2>2
<1>3. Promise!Upto(s, p) = a /\ Promise!Beyond(s, p + Len(v)) = c
  <2>1. Promise!Upto(s, p) = a
    BY <1>0 DEF Promise!Upto
  <2> QED
    BY <2>1 DEF Promise!Beyond
<1> HIDE DEF a, c
<1>4. /\ a \o v \in Seq(S) /\ Len(a \o v) = e
      /\ \A i \in 1 .. e : (a \o v)[i] = IF i <= p THEN a[i] ELSE v[i - p]
  BY <1>1, ConcatProperties
<1> DEFINE av == a \o v
           r == av \o c
<1> HIDE DEF e, av
<1>5. /\ r \in Seq(S) /\ Len(r) = e + Len(c)
      /\ \A i \in 1 .. e + Len(c) : r[i] = IF i <= e THEN av[i] ELSE c[i - e]
  BY <1>2, <1>4, ConcatProperties DEF av
<1> HIDE DEF r
<1>e. e = p + Len(v)
  BY DEF e
<1>t. Len(t) = (IF e > Len(s) THEN e ELSE Len(s))
      /\ \A i \in 1 .. Len(t) : t[i] = IF i \in p + 1 .. e THEN v[i - p] ELSE s[i]
  BY DEF e
<1>c. Len(c) = IF e < Len(s) THEN Len(s) - e ELSE 0
  BY <1>2
<1>6. Len(t) = Len(r)
  <2>1. Len(r) = e + Len(c)
    BY <1>5
  <2>2. CASE e > Len(s)
    BY <1>0, <1>c, <1>t, <2>1, <2>2
  <2>3. CASE ~(e > Len(s))
    BY <1>0, <1>c, <1>t, <2>1, <2>3
  <2> QED
    BY <2>2, <2>3
<1>7. \A i \in 1 .. Len(t) : t[i] = r[i]
  <2> SUFFICES ASSUME NEW i \in 1 .. Len(t) PROVE t[i] = r[i]
    OBVIOUS
  <2>1. i \in Nat /\ i >= 1 /\ i <= e + Len(c) /\ Len(c) \in Nat
    BY <1>2, <1>5, <1>6
  <2>2. CASE i <= p
    BY <1>0, <1>1, <1>4, <1>5, <2>1, <2>2 DEF e, av
  <2>3. CASE i > p /\ i <= e
    <3>1. t[i] = v[i - p]
      BY <1>0, <1>t, <2>1, <2>3
    <3>2. r[i] = av[i] /\ av[i] = v[i - p]
      BY <1>0, <1>4, <1>5, <2>1, <2>3 DEF av
    <3> QED
      BY <3>1, <3>2
  <2>4. CASE i > e
    <3>1. i - e \in 1 .. Len(c) /\ r[i] = c[i - e]
      BY <1>0, <1>5, <2>1, <2>4
    <3>2. c[i - e] = s[e + (i - e)] /\ e + (i - e) = i
      BY <1>0, <1>2, <2>1, <3>1
    <3>3. t[i] = s[i]
      BY <1>0, <1>t, <1>e, <2>1, <2>4
    <3> QED
      BY <3>1, <3>2, <3>3
  <2> QED
    BY <1>0, <2>1, <2>2, <2>3, <2>4
<1>8. t = r
  BY <1>5, <1>6, <1>7, SeqEqual
<1> QED
  BY <1>3, <1>8 DEF r, av

-----------------------------------------------------------------------------
(* What the functions do to the text                                       *)

\* realloc and a refusal both leave the bytes there were.
LEMMA EnsuredKeeps ==
  ASSUME NEW b, Block(b), NEW sum \in Nat, NEW a \in BOOLEAN
  PROVE  /\ Keeps(b, Ensured(b, sum, a).buf, b.capacity)
         /\ ~Ensured(b, sum, a).ok => Ensured(b, sum, a).buf = b
<1> DEFINE e == Ensured(b, sum, a)
           Holds(r) == Keeps(b, r.buf, b.capacity) /\ (~r.ok => r.buf = b)
<1>1. ASSUME e = Answer(TRUE, sum > MaxUInt, b) \/ e = Answer(FALSE, sum > MaxUInt, b)
      PROVE  Holds(e)
  <2>1. e.buf = b
    BY <1>1 DEF Answer
  <2> HIDE DEF e
  <2> QED
    BY <2>1 DEF Keeps
<1>2. ASSUME NEW n \in 1 .. MaxUInt, e = Answer(TRUE, sum > MaxUInt, Resized(b, n)),
             b.capacity <= n
      PROVE  Holds(e)
  <2>1. e.ok = TRUE /\ e.buf = Resized(b, n)
    BY <1>2 DEF Answer
  <2>2. Keeps(b, Resized(b, n), b.capacity)
    BY <1>2, MaxIsNat DEF Keeps, Resized, Buf, Block
  <2> HIDE DEF e
  <2> QED
    BY <2>1, <2>2, Zenon
<1>3. Holds(e)
  <2> HIDE DEF Holds
  <2> QED
    BY <1>1, <1>2, EnsuredIs, Zenon
<1> QED
  BY <1>3, Zenon

LEMMA OverwrittenWrote ==
  ASSUME NEW b, Sized(b), NEW v, Len(v) \in Nat, b.position + Len(v) <= b.capacity
  PROVE  Wrote(b, Overwritten(b, v), v)
<1>1. b.position + Len(v) \in Nat /\ b.position + Len(v) <= MaxUInt
  BY MaxIsNat DEF Sized, Block, Ends
<1>2. Wrapped(b.position + Len(v)) = b.position + Len(v)
  BY <1>1, WrappedIs
<1> QED
  BY <1>2 DEF Wrote, Overwritten, Buf, Sized, Block, Ends

\* A put writes all of it or nothing.
Does(b, s, v) == (s.ok => Wrote(b, s.buf, v)) /\ (~s.ok => s.buf = b)

LEMMA StoredWrote ==
  ASSUME NEW b, Sized(b), NEW sum \in Nat, NEW a \in BOOLEAN, NEW v,
         Len(v) \in Nat, b.position + Len(v) <= sum, ~Stored(b, sum, v, a).wraps
  PROVE  Does(b, Stored(b, sum, v, a), v)
<1> DEFINE e == Ensured(b, sum, a)
           d == e.buf
           s == Stored(b, sum, v, a)
<1>0. Block(b) /\ sum <= MaxUInt
  <2>1. s.wraps = (sum > MaxUInt)
    BY StoredIsSized
  <2>2. ~(sum > MaxUInt)
    BY <2>1, Zenon
  <2> QED
    BY <2>2, MaxIsNat DEF Sized
<1>1. /\ Block(d) /\ d.length = b.length /\ d.position = b.position
      /\ b.capacity <= d.capacity
  BY <1>0, EnsuredIsEnough
<1>2. e.ok \in BOOLEAN /\ (e.ok => sum <= d.capacity)
  BY <1>0, EnsuredIsEnough, Zenon
<1>3. Keeps(b, d, b.capacity) /\ (~e.ok => d = b)
  BY <1>0, EnsuredKeeps, Zenon
<1>4. s = IF e.ok THEN Answer(TRUE, e.wraps, Overwritten(d, v)) ELSE e
  BY Zenon DEF Stored
<1> HIDE DEF e, d, s
<1>5. Sized(d)
  BY <1>1, MaxIsNat DEF Sized, Block, Ends
<1>6. ASSUME sum <= d.capacity PROVE Wrote(b, Overwritten(d, v), v)
  <2>1. d.position + Len(v) <= d.capacity
    BY <1>1, <1>5, <1>6, MaxIsNat DEF Sized, Block, Ends
  <2>2. Wrote(d, Overwritten(d, v), v)
    BY <1>5, <2>1, OverwrittenWrote
  <2>3. \A i \in 0 .. b.length - 1 : d.data[i] = b.data[i]
    BY <1>0, <1>3, MaxIsNat DEF Keeps, Sized, Block, Ends
  <2> QED
    BY <1>1, <2>2, <2>3 DEF Wrote, Sized, Block, Ends
<1>7. CASE ~e.ok
  <2>1. Does(b, s, v)
    BY <1>3, <1>4, <1>7, Zenon DEF d, Does
  <2> QED
    BY <2>1, Zenon DEF s
<1>8. CASE e.ok
  <2>1. s.ok = TRUE /\ s.buf = Overwritten(d, v)
    BY <1>4, <1>8 DEF Answer
  <2>2. Wrote(b, Overwritten(d, v), v)
    BY <1>2, <1>6, <1>8, Zenon
  <2>3. Does(b, s, v)
    BY <2>1, <2>2, Zenon DEF Does
  <2> QED
    BY <2>3, Zenon DEF s
<1> QED
  BY <1>2, <1>7, <1>8

LEMMA PutFixedWrote ==
  ASSUME NEW b, Sized(b), NEW a \in BOOLEAN, NEW v, Len(v) \in Nat, ~PutFixed(b, v, a).wraps
  PROVE  Does(b, PutFixed(b, v, a), v)
<1>1. b.length + Len(v) \in Nat /\ b.position + Len(v) <= b.length + Len(v)
  BY DEF Sized, Ends
<1> QED
  BY <1>1, StoredWrote DEF PutFixed

\* One write after the other is the write of both.
LEMMA WroteBoth ==
  ASSUME NEW S, NEW v \in Seq(S), NEW w \in Seq(S), NEW b, NEW c, NEW d,
         Sized(b), Sized(c), Wrote(b, c, v), Wrote(c, d, w)
  PROVE  Wrote(b, d, v \o w)
<1>1. /\ Len(v \o w) = Len(v) + Len(w)
      /\ \A i \in 1 .. Len(v) + Len(w) : (v \o w)[i] = IF i <= Len(v) THEN v[i] ELSE w[i - Len(v)]
      /\ Len(v) \in Nat /\ Len(w) \in Nat
  BY ConcatProperties
<1> DEFINE vw == v \o w
           p == b.position
           end == p + Len(vw)
<1> HIDE DEF vw
<1>2. p \in Nat /\ b.length \in Nat /\ p <= b.length /\ Len(vw) = Len(v) + Len(w)
  BY <1>1 DEF Sized, Ends, vw
<1>3. /\ c.position = p + Len(v) /\ d.position = end
      /\ c.length = IF p + Len(v) > b.length THEN p + Len(v) ELSE b.length
      /\ d.length = IF end > b.length THEN end ELSE b.length
  BY <1>1, <1>2 DEF Wrote
<1>4. ASSUME NEW i \in 0 .. d.length - 1
      PROVE  d.data[i] = IF i \in p .. end - 1 THEN vw[i - p + 1] ELSE b.data[i]
  <2>0. i \in Nat /\ d.length \in Nat /\ i < d.length /\ c.length \in Nat
    BY <1>1, <1>2, <1>3
  <2>1. CASE i < p
    BY <1>1, <1>2, <1>3, <2>0, <2>1 DEF Wrote
  <2>2. CASE i >= p /\ i < p + Len(v)
    <3>1. d.data[i] = c.data[i] /\ c.data[i] = v[i - p + 1]
      BY <1>1, <1>2, <1>3, <2>0, <2>2 DEF Wrote
    <3>2. vw[i - p + 1] = v[i - p + 1]
      <4>1. i - p + 1 \in 1 .. Len(v)
        BY <1>1, <1>2, <2>0, <2>2
      <4> QED
        BY <1>1, <4>1 DEF vw
    <3> QED
      BY <1>1, <1>2, <2>0, <2>2, <3>1, <3>2
  <2>3. CASE i >= p + Len(v) /\ i < end
    <3>1. d.data[i] = w[i - (p + Len(v)) + 1]
      BY <1>1, <1>2, <1>3, <2>0, <2>3 DEF Wrote
    <3>2. vw[i - p + 1] = w[i - (p + Len(v)) + 1]
      <4>1. /\ i - p + 1 \in 1 .. Len(v) + Len(w) /\ ~(i - p + 1 <= Len(v))
            /\ (i - p + 1) - Len(v) = i - (p + Len(v)) + 1
        BY <1>1, <1>2, <2>0, <2>3
      <4> QED
        BY <1>1, <4>1 DEF vw
    <3> QED
      BY <1>1, <1>2, <2>0, <2>3, <3>1, <3>2
  <2>4. CASE i >= end
    BY <1>1, <1>2, <1>3, <2>0, <2>4 DEF Wrote
  <2> QED
    BY <1>1, <1>2, <2>0, <2>1, <2>2, <2>3, <2>4
<1> QED
  BY <1>3, <1>4 DEF Wrote, vw

LEMMA WroteNothing == ASSUME NEW b, Sized(b) PROVE Wrote(b, b, <<>>)
  BY DEF Wrote, Sized, Ends

-----------------------------------------------------------------------------
(* The operations as those of a file                                       *)

Content == IF fault THEN <<>> ELSE Contents

LEMMA ContentIs == ~fault => Content = Text(buf)
  BY DEF Content, Contents, Text

\* Bytes that are kept are a prefix of the text.
LEMMA PrefixIs ==
  ASSUME NEW b, NEW c, Ends(b), Ends(c), NEW n \in Nat, n <= b.length, n <= c.length, Keeps(b, c, n)
  PROVE  SubSeq(Text(b), 1, n) = SubSeq(Text(c), 1, n)
<1>1. /\ Text(b) = [i \in 1 .. b.length |-> b.data[i - 1]]
      /\ Text(c) = [i \in 1 .. c.length |-> c.data[i - 1]]
      /\ b.length \in Nat /\ c.length \in Nat
  BY DEF Text, Ends
<1>2. \A i \in 1 .. n : Text(b)[i] = Text(c)[i]
  <2> SUFFICES ASSUME NEW i \in 1 .. n PROVE Text(b)[i] = Text(c)[i]
    OBVIOUS
  <2>1. i \in 1 .. b.length /\ i \in 1 .. c.length /\ i - 1 \in 0 .. n - 1
    BY <1>1
  <2>2. c.data[i - 1] = b.data[i - 1]
    BY <2>1 DEF Keeps
  <2> QED
    BY <1>1, <2>1, <2>2
<1> DEFINE S == {Text(b)[i] : i \in 1 .. n}
           x == SubSeq(Text(b), 1, n)
           y == SubSeq(Text(c), 1, n)
<1>3. \A i \in 1 .. n : Text(b)[i] \in S
  OBVIOUS
<1>4. \A i \in 1 .. n : Text(c)[i] \in S
  BY <1>2, <1>3
<1> HIDE DEF S
<1>5. x \in Seq(S) /\ Len(x) = n /\ \A i \in 1 .. n : x[i] = Text(b)[i]
  BY <1>3, SubSeqProperties
<1>6. y \in Seq(S) /\ Len(y) = n /\ \A i \in 1 .. n : y[i] = Text(c)[i]
  BY <1>4, SubSeqProperties
<1> HIDE DEF x, y
<1>7. x = y
  BY <1>2, <1>5, <1>6, SeqEqual
<1> QED
  BY <1>7 DEF x, y

LEMMA TextWhole ==
  ASSUME NEW b, Ends(b)
  PROVE  SubSeq(Text(b), 1, b.length) = Text(b)
  BY TextIs, SubSeqFull

\* The text up to n, as the file sees it.
LEMMA UptoIs ==
  ASSUME NEW b, Ends(b), NEW n \in Nat
  PROVE  Promise!Upto(Text(b), n) = IF n < b.length THEN SubSeq(Text(b), 1, n) ELSE Text(b)
<1>1. Len(Text(b)) = b.length
  BY TextIs
<1> QED
  BY <1>1, TextWhole DEF Promise!Upto

LEMMA WroteAt ==
  ASSUME NEW b, NEW c, NEW v, Len(v) \in Nat, b.position \in Nat, c.length \in Nat, Wrote(b, c, v)
  PROVE  \A j \in 0 .. c.length - 1 :
           c.data[j] = IF j \in b.position .. b.position + Len(v) - 1
                       THEN v[j - b.position + 1] ELSE b.data[j]
  BY DEF Wrote

LEMMA IsPut ==
  ASSUME ~fault, ~fault', Sized(buf), Sized(buf'), NEW S, NEW v \in Seq(S), Wrote(buf, buf', v),
         ret'.op = "put", ret'.bytes = v
  PROVE  Promise!Put
<1> DEFINE s == Text(buf)
           t == Text(buf')
           p == buf.position
           A == {s[i] : i \in 1 .. buf.length} \cup {v[i] : i \in 1 .. Len(v)}
<1>0. /\ p \in Nat /\ buf.length \in Nat /\ p <= buf.length /\ Len(v) \in Nat
      /\ buf'.length \in Nat /\ Ends(buf) /\ Ends(buf')
  BY DEF Sized, Ends
<1>1. /\ Len(s) = buf.length /\ \A i \in 1 .. buf.length : s[i] = buf.data[i - 1]
      /\ DOMAIN s = 1 .. buf.length
  BY <1>0, TextIs DEF Text
<1>2. /\ Len(t) = buf'.length /\ \A i \in 1 .. buf'.length : t[i] = buf'.data[i - 1]
      /\ t = [i \in 1 .. buf'.length |-> buf'.data[i - 1]]
  BY <1>0, TextIs DEF Text
<1>3. s \in Seq(A)
  <2>1. s \in [1 .. buf.length -> A]
    BY <1>1 DEF Text
  <2> HIDE DEF A
  <2> QED
    BY <1>0, <2>1
<1>4. v \in Seq(A)
  <2>1. v \in [1 .. Len(v) -> A]
    OBVIOUS
  <2> HIDE DEF A
  <2> QED
    BY <1>0, <2>1
<1>5. /\ Len(t) = IF p + Len(v) > Len(s) THEN p + Len(v) ELSE Len(s)
      /\ \A i \in 1 .. Len(t) : t[i] = IF i \in p + 1 .. p + Len(v) THEN v[i - p] ELSE s[i]
  <2>1. Len(t) = IF p + Len(v) > Len(s) THEN p + Len(v) ELSE Len(s)
    BY <1>1, <1>2 DEF Wrote
  <2> SUFFICES ASSUME NEW i \in 1 .. Len(t)
               PROVE  t[i] = IF i \in p + 1 .. p + Len(v) THEN v[i - p] ELSE s[i]
    BY <2>1
  <2>2. i \in Nat /\ i >= 1 /\ i - 1 \in 0 .. buf'.length - 1 /\ t[i] = buf'.data[i - 1]
    BY <1>0, <1>2
  <2>3. t[i] = IF i - 1 \in p .. p + Len(v) - 1 THEN v[(i - 1) - p + 1] ELSE buf.data[i - 1]
    <3>1. \A j \in 0 .. buf'.length - 1 :
            buf'.data[j] = IF j \in p .. p + Len(v) - 1 THEN v[j - p + 1] ELSE buf.data[j]
      <4>1. Len(v) \in Nat /\ buf.position \in Nat /\ buf'.length \in Nat
        BY <1>0
      <4> HIDE DEF t, s, A
      <4> QED
        BY <4>1, WroteAt
    <3> HIDE DEF t, p
    <3> QED
      BY <2>2, <3>1
  <2>4. CASE i \in p + 1 .. p + Len(v)
    <3>1. i - 1 \in p .. p + Len(v) - 1 /\ (i - 1) - p + 1 = i - p
      BY <1>0, <2>2, <2>4
    <3> QED
      BY <2>3, <2>4, <3>1
  <2>5. CASE i \notin p + 1 .. p + Len(v)
    <3>1. i - 1 \notin p .. p + Len(v) - 1 /\ i \in 1 .. buf.length
      BY <1>0, <1>1, <1>2, <2>1, <2>2, <2>5
    <3> QED
      BY <1>1, <2>3, <2>5, <3>1
  <2> QED
    BY <2>4, <2>5
<1>6. t \in Seq(A)
  <2>1. \A i \in 1 .. buf'.length : t[i] \in A
    <3> SUFFICES ASSUME NEW i \in 1 .. buf'.length PROVE t[i] \in A
      OBVIOUS
    <3>1. CASE i \in p + 1 .. p + Len(v)
      <4>1. t[i] = v[i - p] /\ i - p \in 1 .. Len(v)
        BY <1>0, <1>2, <1>5, <3>1
      <4> QED
        BY <4>1
    <3>2. CASE i \notin p + 1 .. p + Len(v)
      <4>1. t[i] = s[i] /\ i \in 1 .. buf.length
        BY <1>0, <1>1, <1>2, <1>5, <3>2
      <4> QED
        BY <4>1
    <3> QED
      BY <3>1, <3>2
  <2> HIDE DEF A
  <2>2. t \in [1 .. buf'.length -> A]
    BY <1>2, <2>1
  <2> QED
    BY <1>0, <2>2
<1>7. p \in 0 .. Len(s)
  BY <1>0, <1>1
<1>8. t = Promise!Upto(s, p) \o v \o Promise!Beyond(s, p + Len(v))
  <2> HIDE DEF s, t, p, A
  <2> QED
    BY <1>3, <1>4, <1>5, <1>6, <1>7, Splice
<1>9. Content = s /\ Content' = t
  BY ContentIs DEF Content, Contents, Text
<1>10. buf'.position = p + Len(v)
  BY DEF Wrote
<1> HIDE DEF s, t, p
<1> QED
  BY <1>8, <1>9, <1>10 DEF Promise!Put, Content, p
\* What a call that puts, once or in parts, leaves and answers.
LEMMA IntoIsPut ==
  ASSUME ~fault, ~fault', Sized(buf), Sized(buf'), NEW S, NEW v \in Seq(S), NEW r,
         Into("put", v, r), Wrote(buf, r.buf, v)
  PROVE  Promise!Put
  BY IsPut DEF Into, Ret

LEMMA ValueIsSeq == ASSUME NEW v \in Values PROVE v \in Seq(Bytes)
<1>1. PICK n \in 0 .. MaxPut : v \in [1 .. n -> Bytes]
  BY DEF Values
<1>2. n \in Nat
  BY SizesAssumption
<1> QED
  BY <1>1, <1>2

\* What one put leaves and answers, its bytes or none.
LEMMA OneIsPut ==
  ASSUME ~fault, ~fault', Sized(buf), Sized(buf'), NEW S, NEW v \in Seq(S), NEW s,
         Does(buf, s, v), Into("put", IF s.ok THEN v ELSE <<>>, s)
  PROVE  Promise!Put
<1>0. <<>> \in Seq(S)
  OBVIOUS
<1>1. CASE s.ok
  <2>1. Into("put", v, s) /\ Wrote(buf, s.buf, v)
    BY <1>1, Zenon DEF Does
  <2> QED
    BY <2>1, IntoIsPut
<1>2. CASE ~s.ok
  <2>1. Into("put", <<>>, s) /\ s.buf = buf
    BY <1>2, Zenon DEF Does
  <2>2. Wrote(buf, s.buf, <<>>)
    BY <2>1, WroteNothing
  <2> QED
    BY <1>0, <2>1, <2>2, IntoIsPut
<1> QED
  BY <1>1, <1>2

LEMMA PutOneIsPut ==
  ASSUME ~fault, ~fault', Sized(buf), Sized(buf'), NEW v \in Values, NEW a \in BOOLEAN,
         PutValue(v, a) \/ PutBytes(v, a)
  PROVE  Promise!Put
<1>0. Len(v) \in Nat /\ v \in Seq(Bytes)
  BY ValueLength, ValueIsSeq
<1>1. CASE PutValue(v, a)
  <2> DEFINE s == PutFixed(buf, v, a)
  <2>1. Into("put", IF s.ok THEN v ELSE <<>>, s)
    BY <1>1, Zenon DEF PutValue
  <2>2. ~s.wraps
    BY <2>1, Zenon DEF Into
  <2>3. Does(buf, s, v)
    BY <1>0, <2>2, PutFixedWrote
  <2> HIDE DEF s
  <2> QED
    BY <1>0, <2>1, <2>3, OneIsPut
<1>2. CASE PutBytes(v, a)
  <2> DEFINE s == Stored(buf, buf.position + Len(v), v, a)
  <2>1. buf.position + Len(v) \in Nat /\ buf.position + Len(v) <= buf.position + Len(v)
    BY <1>0 DEF Sized, Ends
  <2>2. Into("put", IF s.ok THEN v ELSE <<>>, s)
    BY <1>2, Zenon DEF PutBytes
  <2>3. ~s.wraps
    BY <2>2, Zenon DEF Into
  <2>4. Does(buf, s, v)
    BY <1>0, <2>1, <2>3, StoredWrote
  <2> HIDE DEF s
  <2> QED
    BY <1>0, <2>2, <2>4, OneIsPut
<1> QED
  BY <1>1, <1>2

\* The length of a text and its bytes are one write, or the length alone.
LEMMA TwoPutsIsPut ==
  ASSUME ~fault, ~fault', Sized(buf), Sized(buf'), NEW v \in Values, NEW extra \in Nat, NEW fails,
         TwoPuts(v, extra, fails)
  PROVE  Promise!Put
<1> DEFINE len == LengthField(Len(v))
           first == PutFixed(buf, len, fails # 1)
           room == first.buf.position + Len(v) + extra
           second == Stored(first.buf, room, v, fails # 2)
           both == IF Len(v) > 0 THEN Then(first, second) ELSE first
           bytes == IF both.ok THEN len \o v ELSE IF first.ok THEN len ELSE <<>>
           S == Bytes \cup {Len(v), 0}
<1>0. /\ Len(v) \in Nat /\ Len(len) \in Nat
      /\ v \in Seq(Bytes) /\ v \in Seq(S) /\ len \in Seq(S) /\ <<>> \in Seq(S)
  <2>1. Len(v) \in Nat /\ v \in Seq(Bytes)
    BY ValueLength, ValueIsSeq
  <2>2. len \in Seq({Len(v), 0}) /\ Len(len) \in Nat
    BY <2>1, FieldIs
  <2>3. \A T1 \in SUBSET S : Seq(T1) \subseteq Seq(S)
    BY SeqMonotonic
  <2>4. Bytes \subseteq S /\ {Len(v), 0} \subseteq S
    OBVIOUS
  <2>5. <<>> \in Seq(S)
    OBVIOUS
  <2> HIDE DEF S, len
  <2> QED
    BY <2>1, <2>2, <2>3, <2>4, <2>5
<1>s. Sound(first)
  BY <1>0, PutFixedIsSized
<1>5. Into("put", bytes, both)
  BY Zenon DEF TwoPuts
<1> HIDE DEF second
<1>w. ~first.wraps /\ (Len(v) > 0 /\ first.ok => ~second.wraps)
  <2>1. ~both.wraps
    BY <1>5, Zenon DEF Into
  <2> HIDE DEF first
  <2>2. CASE Len(v) > 0
    <3>1. ~Then(first, second).wraps
      BY <2>1, <2>2, Zenon
    <3>2. first.wraps \in BOOLEAN
      BY <1>s, Zenon DEF Sound
    <3> QED
      BY <3>1, <3>2, ThenIs
  <2>3. CASE ~(Len(v) > 0)
    BY <2>1, <2>3, Zenon
  <2> QED
    BY <2>2, <2>3
<1>1. Sized(first.buf) /\ first.ok \in BOOLEAN
  BY <1>s, <1>w, Zenon DEF Sound
<1>2. Does(buf, first, len)
  BY <1>0, <1>w, PutFixedWrote
<1> HIDE DEF first, S, len
<1>3. room \in Nat /\ first.buf.position + Len(v) <= room
  BY <1>0, <1>1 DEF Sized, Ends
<1>4. first.ok /\ Len(v) > 0 => Does(first.buf, second, v)
  <2> SUFFICES ASSUME first.ok, Len(v) > 0 PROVE Does(first.buf, second, v)
    OBVIOUS
  <2>1. ~second.wraps /\ (fails # 2) \in BOOLEAN
    BY <1>w, Zenon
  <2> HIDE DEF room
  <2>2. ~Stored(first.buf, room, v, fails # 2).wraps
    BY <2>1, Zenon DEF second
  <2> QED
    BY <1>0, <1>1, <1>3, <2>1, <2>2, StoredWrote DEF second
<1>t. /\ first.ok /\ Len(v) > 0 => both.ok = second.ok /\ both.buf = second.buf
      /\ ~first.ok \/ ~(Len(v) > 0) => both = first
  <2>1. first.wraps \in BOOLEAN
    BY <1>s, Zenon DEF Sound
  <2>2. (~first.ok => Then(first, second) = first)
        /\ (first.ok => Then(first, second).ok = second.ok /\ Then(first, second).buf = second.buf)
    BY <2>1, ThenIs
  <2>3. CASE Len(v) > 0
    BY <2>2, <2>3, Zenon
  <2>4. CASE ~(Len(v) > 0)
    BY <2>4, Zenon
  <2> QED
    BY <2>3, <2>4
<1> HIDE DEF both
<1>6. CASE ~first.ok
  <2>1. Into("put", <<>>, first) /\ first.buf = buf
    BY <1>2, <1>5, <1>6, <1>t, Zenon DEF Does
  <2>2. Wrote(buf, first.buf, <<>>)
    BY <2>1, WroteNothing
  <2> QED
    BY <1>0, <2>1, <2>2, IntoIsPut
<1>7. CASE first.ok /\ Len(v) > 0 /\ second.ok
  <2>1. Into("put", len \o v, both) /\ Wrote(buf, first.buf, len) /\ Wrote(first.buf, second.buf, v)
    BY <1>2, <1>4, <1>5, <1>7, <1>t, Zenon DEF Does
  <2>2. Wrote(buf, second.buf, len \o v)
    BY <1>0, <1>1, <2>1, WroteBoth
  <2>3. Wrote(buf, both.buf, len \o v)
    BY <1>7, <1>t, <2>2, Zenon
  <2>4. len \o v \in Seq(S)
    BY <1>0, ConcatProperties
  <2> QED
    BY <2>1, <2>3, <2>4, IntoIsPut
<1>8. CASE first.ok /\ Len(v) > 0 /\ ~second.ok
  <2>1. Into("put", len, both)
    BY <1>5, <1>8, <1>t, Zenon
  <2>2. Wrote(buf, first.buf, len) /\ both.buf = first.buf
    BY <1>2, <1>4, <1>8, <1>t, Zenon DEF Does
  <2>3. Wrote(buf, both.buf, len)
    BY <2>2, Zenon
  <2> QED
    BY <1>0, <2>1, <2>3, IntoIsPut
<1>9. CASE first.ok /\ ~(Len(v) > 0)
  <2>1. Into("put", len \o v, first) /\ Wrote(buf, first.buf, len)
    BY <1>2, <1>5, <1>9, <1>t, Zenon DEF Does
  <2>2. len \o v = len
    <3>1. v = <<>>
      BY <1>0, <1>9
    <3> QED
      BY <1>0, <3>1, ConcatEmptySeq
  <2>3. Into("put", len, first)
    BY <2>1, <2>2, Zenon
  <2> QED
    BY <1>0, <2>1, <2>3, IntoIsPut
<1> QED
  BY <1>1, <1>6, <1>7, <1>8, <1>9

LEMMA PutDateIsPut ==
  ASSUME ~fault, ~fault', Sized(buf), Sized(buf'), NEW fails,
         NEW y \in [1 .. 2 -> Bytes], NEW m \in [1 .. 1 -> Bytes], PutDate(y, m, m, fails)
  PROVE  Promise!Put
<1> DEFINE one == PutFixed(buf, y, fails # 1)
           two == AndPut(one, m, fails # 2)
           three == AndPut(two, m, fails # 3)
           bytes == IF three.ok THEN y \o m \o m ELSE IF two.ok THEN y \o m
                    ELSE IF one.ok THEN y ELSE <<>>
<1>0. /\ Len(y) \in Nat /\ Len(m) \in Nat /\ y \in Seq(Bytes) /\ m \in Seq(Bytes)
      /\ <<>> \in Seq(Bytes)
  <2>1. \A n \in Nat : \A w \in [1 .. n -> Bytes] : w \in Seq(Bytes) /\ Len(w) \in Nat
    OBVIOUS
  <2>2. 1 \in Nat /\ 2 \in Nat
    OBVIOUS
  <2>3. <<>> \in Seq(Bytes)
    OBVIOUS
  <2> QED
    BY <2>1, <2>2, <2>3, Zenon
<1> DEFINE putTwo == PutFixed(one.buf, m, fails # 2)
           putThree == PutFixed(two.buf, m, fails # 3)
<1>s. Sound(one)
  BY <1>0, PutFixedIsSized
<1>d. two = Then(one, putTwo) /\ three = Then(two, putThree)
  BY Zenon DEF AndPut
<1>9. Into("put", bytes, three)
  BY Zenon DEF PutDate
<1>u. ~three.wraps
  BY <1>9, Zenon DEF Into
<1>v. Sound(two)
  BY <1>0, <1>s, AndPutIsSound
<1> HIDE DEF putTwo, putThree, three
<1>w. ~two.wraps /\ (two.ok => ~putThree.wraps)
  <2>1. two.wraps \in BOOLEAN
    BY <1>v, Zenon DEF Sound
  <2> HIDE DEF two
  <2>2. ~Then(two, putThree).wraps
    BY <1>d, <1>u, Zenon
  <2> QED
    BY <2>1, <2>2, ThenIs
<1> HIDE DEF two
<1>x. ~one.wraps /\ (one.ok => ~putTwo.wraps)
  <2>1. one.wraps \in BOOLEAN
    BY <1>s, Zenon DEF Sound
  <2> HIDE DEF one
  <2>2. ~Then(one, putTwo).wraps
    BY <1>d, <1>w, Zenon
  <2> QED
    BY <2>1, <2>2, ThenIs
<1>1. Sized(one.buf) /\ one.ok \in BOOLEAN
  BY <1>s, <1>x, Zenon DEF Sound
<1>2. (one.ok => Wrote(buf, one.buf, y)) /\ (~one.ok => one.buf = buf)
  <2>1. Does(buf, one, y)
    BY <1>0, <1>x, PutFixedWrote
  <2> HIDE DEF one
  <2> QED
    BY <2>1, Zenon DEF Does
<1> HIDE DEF one
<1>3. one.ok => /\ putTwo.ok \in BOOLEAN /\ Sized(putTwo.buf)
                /\ putTwo.ok => Wrote(one.buf, putTwo.buf, m)
                /\ ~putTwo.ok => putTwo.buf = one.buf
  <2> SUFFICES ASSUME one.ok
               PROVE  Sound(putTwo) /\ Does(one.buf, putTwo, m)
    BY <1>x, Zenon DEF Sound, Does
  <2>1. Sound(putTwo)
    BY <1>0, <1>1, PutFixedIsSized DEF putTwo
  <2>2. ~PutFixed(one.buf, m, fails # 2).wraps
    BY <1>x, Zenon DEF putTwo
  <2>3. Does(one.buf, putTwo, m)
    BY <1>0, <1>1, <2>2, PutFixedWrote DEF putTwo
  <2> QED
    BY <2>1, <2>3
<1>5. (one.ok => two.ok = putTwo.ok /\ two.buf = putTwo.buf) /\ (~one.ok => two = one)
  <2>1. one.wraps \in BOOLEAN
    BY <1>s, Zenon DEF Sound
  <2> QED
    BY <1>d, <2>1, ThenIs
<1>6. Sized(two.buf) /\ two.ok \in BOOLEAN
  BY <1>v, <1>w, Zenon DEF Sound
<1>7. two.ok => /\ putThree.ok => Wrote(two.buf, putThree.buf, m)
                /\ ~putThree.ok => putThree.buf = two.buf
  <2> SUFFICES ASSUME two.ok PROVE Does(two.buf, putThree, m)
    BY Zenon DEF Does
  <2>1. ~PutFixed(two.buf, m, fails # 3).wraps
    BY <1>w, Zenon DEF putThree
  <2> QED
    BY <1>0, <1>6, <2>1, PutFixedWrote DEF putThree
<1>8. (two.ok => three.ok = putThree.ok /\ three.buf = putThree.buf) /\ (~two.ok => three = two)
  <2>1. two.wraps \in BOOLEAN
    BY <1>v, Zenon DEF Sound
  <2> QED
    BY <1>d, <2>1, ThenIs
<1>10. y \o m \in Seq(Bytes) /\ y \o m \o m \in Seq(Bytes)
  BY <1>0, ConcatProperties
<1>11. CASE ~one.ok
  <2>1. Into("put", <<>>, one) /\ one.buf = buf
    BY <1>2, <1>5, <1>8, <1>9, <1>11, Zenon
  <2>2. Wrote(buf, one.buf, <<>>)
    BY <2>1, WroteNothing
  <2> QED
    BY <1>0, <2>1, <2>2, IntoIsPut
<1>12. CASE one.ok /\ ~two.ok
  <2>1. Into("put", y, two) /\ two.buf = one.buf /\ Wrote(buf, one.buf, y)
    BY <1>2, <1>3, <1>5, <1>8, <1>9, <1>12, Zenon
  <2>2. Wrote(buf, two.buf, y)
    BY <2>1, Zenon
  <2> QED
    BY <1>0, <2>1, <2>2, IntoIsPut
<1>13. ASSUME one.ok, two.ok PROVE Wrote(buf, two.buf, y \o m)
  <2>1. /\ Wrote(buf, one.buf, y) /\ Wrote(one.buf, putTwo.buf, m)
        /\ two.buf = putTwo.buf
    BY <1>2, <1>3, <1>5, <1>13, Zenon
  <2>2. Wrote(buf, putTwo.buf, y \o m)
    BY <1>0, <1>1, <2>1, WroteBoth
  <2> QED
    BY <2>1, <2>2, Zenon
<1>14. CASE one.ok /\ two.ok /\ ~three.ok
  <2>1. Into("put", y \o m, three) /\ three.buf = two.buf
    BY <1>7, <1>8, <1>9, <1>14, Zenon
  <2>2. Wrote(buf, three.buf, y \o m)
    BY <1>13, <1>14, <2>1, Zenon
  <2> QED
    BY <1>10, <2>1, <2>2, IntoIsPut
<1>15. CASE one.ok /\ two.ok /\ three.ok
  <2>1. Into("put", y \o m \o m, three) /\ Wrote(buf, two.buf, y \o m)
        /\ Wrote(two.buf, putThree.buf, m) /\ three.buf = putThree.buf
    BY <1>7, <1>8, <1>9, <1>13, <1>15, Zenon
  <2>2. Wrote(buf, putThree.buf, (y \o m) \o m)
    BY <1>0, <1>6, <1>10, <2>1, WroteBoth
  <2>3. Wrote(buf, three.buf, y \o m \o m)
    BY <2>1, <2>2, Zenon
  <2> QED
    BY <1>10, <2>1, <2>3, IntoIsPut
<1> QED
  BY <1>11, <1>12, <1>14, <1>15

-----------------------------------------------------------------------------
(* Reading, moving and cutting                                             *)

LEMMA AtIs ==
  ASSUME NEW b, Ends(b), NEW n \in Nat, b.position + n <= b.length
  PROVE  At(b, n) = SubSeq(Text(b), b.position + 1, b.position + n)
<1> DEFINE p == b.position
           x == At(b, n)
           y == SubSeq(Text(b), p + 1, p + n)
           S == {b.data[i] : i \in 0 .. b.length - 1}
<1>0. p \in Nat /\ b.length \in Nat
  BY DEF Ends
<1>1. \A i \in 1 .. n : p + i - 1 \in 0 .. b.length - 1 /\ p + i \in 1 .. b.length
  BY <1>0
<1>2. x = [i \in 1 .. n |-> b.data[p + i - 1]]
  BY DEF At
<1>3. \A i \in 1 .. b.length : Text(b)[i] = b.data[i - 1]
  BY TextIs
<1>4. \A i \in p + 1 .. p + n : Text(b)[i] \in S
  <2> SUFFICES ASSUME NEW i \in p + 1 .. p + n PROVE Text(b)[i] \in S
    OBVIOUS
  <2>1. i - 1 \in 0 .. b.length - 1 /\ i \in 1 .. b.length
    BY <1>0
  <2> QED
    BY <1>3, <2>1
<1>5. \A i \in 1 .. n : b.data[p + i - 1] \in S
  BY <1>1
<1> HIDE DEF S, p
<1>6. /\ y \in Seq(S) /\ Len(y) = IF p + 1 <= p + n THEN (p + n) - (p + 1) + 1 ELSE 0
      /\ \A i \in 1 .. (p + n) - (p + 1) + 1 : y[i] = Text(b)[(p + 1) + i - 1]
  BY <1>0, <1>4, SubSeqProperties
<1> HIDE DEF x, y
<1>7. Len(y) = n /\ \A i \in 1 .. n : y[i] = Text(b)[p + i]
  BY <1>0, <1>6
<1>8. \A i \in 1 .. n : y[i] = x[i]
  <2> SUFFICES ASSUME NEW i \in 1 .. n PROVE y[i] = x[i]
    OBVIOUS
  <2>1. y[i] = Text(b)[p + i] /\ p + i \in 1 .. b.length
    BY <1>1, <1>7
  <2>2. Text(b)[p + i] = b.data[(p + i) - 1]
    BY <1>3, <2>1
  <2> QED
    BY <1>0, <1>2, <2>1, <2>2
<1>9. x \in Seq(S) /\ Len(x) = n
  BY <1>2, <1>5
<1>10. x = y
  BY <1>6, <1>7, <1>8, <1>9, SeqEqual
<1> QED
  BY <1>10 DEF x, y, p

\* A read changes the position only.
LEMMA ReadToIs ==
  ASSUME ~fault, Sized(buf), NEW q \in Nat, ReadTo(q)
  PROVE  /\ Content = Text(buf) /\ Content' = Text(buf) /\ Len(Text(buf)) = buf.length
         /\ buf'.position = q
<1>0. Ends(buf)
  BY DEF Sized
<1>1. buf'.data = buf.data /\ buf'.length = buf.length /\ buf'.position = q /\ ~fault'
  BY DEF ReadTo, Buf
<1>2. Content = Text(buf) /\ Content' = Text(buf)
  BY <1>1, ContentIs DEF Content, Contents, Text
<1> QED
  BY <1>0, <1>1, <1>2, TextIs

LEMMA IsGet ==
  ASSUME ~fault, Sized(buf), NEW n \in Nat, buf.position + n <= buf.length, Answers(n)
  PROVE  Promise!Get
<1> DEFINE q == buf.position + n
<1>1. Ends(buf) /\ q \in Nat /\ ReadTo(q)
  BY DEF Sized, Ends, Answers
<1>2. ret'.op = "get" /\ ret'.bytes = At(buf, n)
  BY DEF Answers, Ret
<1>3. At(buf, n) = SubSeq(Text(buf), buf.position + 1, q)
  BY <1>1, AtIs
<1>4. Content = Text(buf) /\ Content' = Text(buf) /\ buf'.position = q
  BY <1>1, ReadToIs
<1> QED
  BY <1>2, <1>3, <1>4 DEF Promise!Get, Content

LEMMA IsShort ==
  ASSUME ~fault, Sized(buf), NEW n \in Nat, buf.position + n > buf.length, RunsShort(n)
  PROVE  Promise!Short
<1>1. buf.length \in Nat /\ ReadTo(buf.length)
  BY DEF Sized, Ends, RunsShort
<1>2. ret'.op = "short" /\ ret'.asked = n
  BY DEF RunsShort
<1>3. /\ Content = Text(buf) /\ Content' = Text(buf) /\ Len(Text(buf)) = buf.length
      /\ buf'.position = buf.length
  BY <1>1, ReadToIs
<1> QED
  BY <1>2, <1>3 DEF Promise!Short, Content

LEMMA IsLost ==
  ASSUME ~fault, Sized(buf), NEW p \in Nat, buf.position <= p, p <= buf.length, NoMemory(p)
  PROVE  Promise!Lost
<1>1. ReadTo(p)
  BY DEF NoMemory
<1>2. ret'.op = "nomemory"
  BY DEF NoMemory, Ret
<1>3. /\ Content = Text(buf) /\ Content' = Text(buf) /\ Len(Text(buf)) = buf.length
      /\ buf'.position = p
  BY <1>1, ReadToIs
<1> QED
  BY <1>2, <1>3 DEF Promise!Lost, Content

LEMMA ReadIsGet ==
  ASSUME ~fault, ~fault', Sized(buf), Reads
  PROVE  Promise!Get \/ Promise!Short \/ Promise!Lost
<1>0. /\ buf.position \in Nat /\ buf.length \in Nat /\ buf.position <= buf.length
      /\ MaxUInt \in Nat /\ 4 \in Nat /\ \A n \in 1 .. MaxPut : n \in Nat
  BY MaxIsNat, SizesAssumption DEF Sized, Ends
<1>1. ASSUME NEW n \in Nat, GetValue(n) PROVE Promise!Get \/ Promise!Short
  <2>1. CASE buf.position + n <= buf.length
    BY <1>1, <2>1, IsGet DEF GetValue
  <2>2. CASE ~(buf.position + n <= buf.length)
    <3>1. buf.position + n > buf.length
      BY <1>0, <2>2
    <3> QED
      BY <1>1, <2>2, <3>1, IsShort DEF GetValue
  <2> QED
    BY <2>1, <2>2
<1>2. ASSUME NEW n \in Nat, NEW a \in BOOLEAN, GetBytes(n, a) PROVE Promise!Get \/ Promise!Lost
  <2>1. buf.position + n <= buf.length
    BY <1>0, <1>2 DEF GetBytes
  <2>2. CASE a
    BY <1>2, <2>1, <2>2, IsGet DEF GetBytes
  <2>3. CASE ~a
    BY <1>0, <1>2, <2>3, IsLost DEF GetBytes
  <2> QED
    BY <2>2, <2>3
<1>3. ASSUME NEW most \in Nat, ReadText(most) PROVE Promise!Get \/ Promise!Short
  <2>1. PICK n \in TextLengths : IF FieldThere THEN Answers(TextEnd(n, most) - buf.position)
                                 ELSE RunsShort(Field)
    BY <1>3, Zenon DEF ReadText
  <2> DEFINE end == TextEnd(n, most)
  <2>2. end \in Nat /\ end <= buf.length /\ FieldEnd \in Nat /\ buf.position <= FieldEnd
        /\ FieldEnd <= end
    BY TextEndIs
  <2>3. CASE FieldThere
    <3>1. Answers(end - buf.position)
      BY <2>1, <2>3, Zenon
    <3> HIDE DEF end
    <3>2. end - buf.position \in Nat /\ buf.position + (end - buf.position) <= buf.length
      BY <1>0, <2>2
    <3> QED
      BY <3>1, <3>2, IsGet
  <2>4. CASE ~FieldThere
    <3>1. RunsShort(Field)
      BY <2>1, <2>4, Zenon
    <3>2. Field \in Nat /\ buf.position + Field > buf.length
      BY <1>0, <2>4 DEF FieldThere, Field
    <3> QED
      BY <3>1, <3>2, IsShort
  <2> QED
    BY <2>3, <2>4
<1>4. ASSUME NEW a \in BOOLEAN, GetText(a) PROVE Promise!Get \/ Promise!Short \/ Promise!Lost
  <2>1. CASE ReadText(MaxUInt)
    BY <1>0, <1>3, <2>1
  <2>2. CASE \E n \in TextLengths : NoMemory(FieldEnd) \/ NoMemory(TextEnd(n, MaxUInt))
    <3>1. PICK n \in TextLengths : NoMemory(FieldEnd) \/ NoMemory(TextEnd(n, MaxUInt))
      BY <2>2, Zenon
    <3> DEFINE end == TextEnd(n, MaxUInt)
    <3>2. end \in Nat /\ end <= buf.length /\ FieldEnd \in Nat /\ buf.position <= FieldEnd
          /\ FieldEnd <= end
      BY <1>0, TextEndIs
    <3>3. NoMemory(FieldEnd) \/ NoMemory(end)
      BY <3>1
    <3> HIDE DEF end
    <3>4. FieldEnd <= buf.length /\ buf.position <= end
      BY <1>0, <3>2
    <3> QED
      BY <3>2, <3>3, <3>4, IsLost
  <2> QED
    BY <1>4, <2>1, <2>2, Zenon DEF GetText
<1> QED
  BY <1>0, <1>1, <1>2, <1>3, <1>4 DEF Reads, CopyText, GetDate

\* A move keeps the text and adds to it what lies before the new position.
LEMMA IsMove ==
  ASSUME ~fault, ~fault', Sized(buf), Sized(buf'), ret'.op = "move",
         Keeps(buf, buf', buf.length),
         buf'.length = IF buf'.position > buf.length THEN buf'.position ELSE buf.length
  PROVE  Promise!Move
<1>0. Ends(buf) /\ Ends(buf') /\ buf.length \in Nat /\ buf.length <= buf'.length
  BY DEF Sized, Ends
<1>1. Content = Text(buf) /\ Content' = Text(buf')
  BY ContentIs DEF Content, Contents, Text
<1>2. Len(Text(buf)) = buf.length /\ Len(Text(buf')) = buf'.length
  BY <1>0, TextIs
<1>3. SubSeq(Text(buf'), 1, buf.length) = Text(buf)
  BY <1>0, PrefixIs, TextWhole
<1>4. Promise!Upto(Text(buf'), buf.length) = Text(buf)
  <2>1. CASE buf.length < buf'.length
    BY <1>0, <1>3, <2>1, UptoIs
  <2>2. CASE ~(buf.length < buf'.length)
    <3>1. buf'.length = buf.length
      BY <1>0, <2>2 DEF Ends
    <3> QED
      BY <1>0, <1>3, <2>2, <3>1, UptoIs, TextWhole
  <2> QED
    BY <2>1, <2>2
<1>5. /\ Promise!Upto(Content', Len(Content)) = Content
      /\ Len(Content') = IF buf'.position > Len(Content) THEN buf'.position ELSE Len(Content)
      /\ ret'.op = "move"
  BY <1>1, <1>2, <1>4
<1> QED
  BY <1>5 DEF Promise!Move, Content

\* A length that is set cuts the text or adds to it.
LEMMA IsResize ==
  ASSUME ~fault, ~fault', Sized(buf), Sized(buf'), ret'.op = "length",
         Keeps(buf, buf', IF buf.length < buf'.length THEN buf.length ELSE buf'.length)
  PROVE  Promise!Resize
<1>0. /\ Ends(buf) /\ Ends(buf') /\ buf.length \in Nat /\ buf'.length \in Nat
      /\ buf'.position <= buf'.length
  BY DEF Sized, Ends
<1>1. Content = Text(buf) /\ Content' = Text(buf')
  BY ContentIs DEF Content, Contents, Text
<1>2. Len(Text(buf)) = buf.length /\ Len(Text(buf')) = buf'.length
  BY <1>0, TextIs
<1>3. CASE buf.length < buf'.length
  <2>1. SubSeq(Text(buf'), 1, buf.length) = Text(buf)
    BY <1>0, <1>3, PrefixIs, TextWhole
  <2>2. Promise!Upto(Text(buf'), buf.length) = Text(buf)
    BY <1>0, <1>3, <2>1, UptoIs
  <2>3. /\ Promise!Upto(Content', Len(Content)) = Content
        /\ ret'.op = "length" /\ buf'.position <= Len(Content')
    BY <1>0, <1>1, <1>2, <2>2
  <2> QED
    BY <2>3 DEF Promise!Resize, Content
<1>4. CASE ~(buf.length < buf'.length)
  <2>1. SubSeq(Text(buf), 1, buf'.length) = Text(buf')
    BY <1>0, <1>4, PrefixIs, TextWhole
  <2>2. Promise!Upto(Text(buf), buf'.length) = Text(buf')
    <3>1. CASE buf'.length < buf.length
      BY <1>0, <2>1, <3>1, UptoIs
    <3>2. CASE ~(buf'.length < buf.length)
      <4>1. buf'.length = buf.length
        BY <1>0, <1>4, <3>2
      <4> QED
        BY <1>0, <2>1, <3>2, <4>1, UptoIs, TextWhole
    <3> QED
      BY <3>1, <3>2
  <2>3. /\ Content' = Promise!Upto(Content, Len(Content'))
        /\ ret'.op = "length" /\ buf'.position <= Len(Content')
    BY <1>0, <1>1, <1>2, <2>2
  <2> QED
    BY <2>3 DEF Promise!Resize, Content
<1> QED
  BY <1>3, <1>4

LEMMA CompactIsDrop ==
  ASSUME ~fault, ~fault', Sized(buf), Sized(buf'), Compact
  PROVE  Promise!Drop
<1> DEFINE p == buf.position
           n == buf.length - p
<1>0. /\ Ends(buf) /\ Ends(buf') /\ p \in Nat /\ buf.length \in Nat /\ p <= buf.length
      /\ n \in Nat /\ buf.capacity \in Nat /\ buf.length <= buf.capacity
  BY MaxIsNat DEF Sized, Ends, Block
<1>1. /\ Content = Text(buf) /\ Content' = Text(buf')
      /\ Len(Text(buf)) = buf.length
  BY <1>0, ContentIs, TextIs DEF Content, Contents, Text
<1>2. At(buf, n) = SubSeq(Text(buf), p + 1, buf.length)
  <2>1. p + n = buf.length
    BY <1>0
  <2> QED
    BY <1>0, <2>1, AtIs
<1>3. Text(buf') = At(buf, n) /\ buf'.position = 0
  <2>1. CASE p = 0
    <3>1. buf' = buf
      BY <1>0, <2>1 DEF Compact
    <3>2. n = buf.length /\ \A i \in 1 .. n : p + i - 1 = i - 1
      BY <1>0, <2>1
    <3> QED
      BY <2>1, <3>1, <3>2 DEF Text, At
  <2>2. CASE p # 0
    <3>1. n = Remaining(buf)
      BY <1>0 DEF Remaining
    <3>2. buf' = Buf([i \in 0 .. buf.capacity - 1 |->
                        IF i < n THEN buf.data[p + i] ELSE buf.data[i]], buf.capacity, n, 0)
      BY <2>2, <3>1 DEF Compact
    <3> HIDE DEF n
    <3>3. /\ buf'.length = n /\ buf'.position = 0
          /\ \A i \in 0 .. n - 1 : buf'.data[i] = buf.data[p + i]
      <4>1. n <= buf.capacity
        BY <1>0 DEF n
      <4> QED
        BY <1>0, <3>2, <4>1 DEF Buf
    <3>4. \A i \in 1 .. n : buf'.data[i - 1] = buf.data[p + i - 1]
      <4> SUFFICES ASSUME NEW i \in 1 .. n PROVE buf'.data[i - 1] = buf.data[p + i - 1]
        OBVIOUS
      <4>1. i - 1 \in 0 .. n - 1 /\ p + (i - 1) = p + i - 1
        BY <1>0
      <4> QED
        BY <3>3, <4>1
    <3> QED
      BY <3>3, <3>4 DEF Text, At
  <2> QED
    BY <2>1, <2>2
<1>4. Content' = Promise!Beyond(Content, p) /\ ret'.op = "compact"
  BY <1>1, <1>2, <1>3 DEF Promise!Beyond, Compact, Ret
<1> QED
  BY <1>3, <1>4 DEF Promise!Drop, Content

LEMMA KeepsItself == ASSUME NEW b, NEW n PROVE Keeps(b, b, n)
BY DEF Keeps

LEMMA WithinIs ==
  ASSUME ~fault, ~fault', Sized(buf), Sized(buf'), Rewind \/ Flip \/ Reset \/ Clone \/ MoveTo
  PROVE  Promise!Move \/ Promise!Resize
<1> DEFINE long == IF buf'.position > buf.length THEN buf'.position ELSE buf.length
           both == IF buf.length < buf'.length THEN buf.length ELSE buf'.length
<1>0. /\ Ends(buf) /\ buf.position \in Nat /\ buf.length \in Nat /\ buf.position <= buf.length
      /\ buf.capacity \in Nat /\ buf.length <= buf.capacity
  BY MaxIsNat DEF Sized, Ends, Block
<1>1. CASE Rewind \/ MoveTo
  <2>1. /\ buf'.length = buf.length /\ buf'.position <= buf.length /\ buf'.position \in Nat
        /\ buf'.data = buf.data /\ ret'.op = "move"
    BY <1>0, <1>1 DEF Rewind, MoveTo, Becomes, Buf, Ret
  <2>2. Keeps(buf, buf', buf.length) /\ buf'.length = long
    BY <1>0, <2>1 DEF Keeps
  <2> QED
    BY <2>1, <2>2, IsMove
<1>2. CASE Flip \/ Reset
  <2>1. buf'.data = buf.data /\ ret'.op = "length"
    BY <1>2 DEF Flip, Reset, Becomes, Buf, Ret
  <2>2. Keeps(buf, buf', both)
    BY <2>1 DEF Keeps
  <2> QED
    BY <2>1, <2>2, IsResize
<1>3. CASE Clone
  <2> DEFINE n == IF buf.length > 0 THEN buf.length ELSE buf.capacity
  <2>1. Becomes("move", Cut(Resized(buf, n), buf.length))
    BY <1>3, Zenon DEF Clone
  <2>2. n \in Nat /\ buf.length <= n
    BY <1>0
  <2> HIDE DEF n
  <2>3. /\ buf'.length = buf.length /\ buf'.position = buf.position
        /\ Keeps(buf, buf', buf.length)
    BY <1>0, <2>1, <2>2 DEF Becomes, Cut, Resized, Buf, Keeps
  <2>4. ret'.op = "move" /\ buf'.length = long
    BY <1>0, <2>1, <2>3 DEF Becomes, Ret
  <2> QED
    BY <2>3, <2>4, IsMove
<1> QED
  BY <1>1, <1>2, <1>3

LEMMA SizeIs ==
  ASSUME ~fault, ~fault', Sized(buf), Sized(buf'), NEW a \in BOOLEAN,
         \/ \E n \in 0 .. MaxUInt : SetLength(n, a) \/ SetPosition(n, a) \/ SetCapacity(n, a)
         \/ \E n \in -MaxPut .. MaxPut : Skip(n, a)
  PROVE  Promise!Move \/ Promise!Resize
<1> DEFINE long == IF buf'.position > buf.length THEN buf'.position ELSE buf.length
           both == IF buf.length < buf'.length THEN buf.length ELSE buf'.length
<1>0. /\ Block(buf) /\ Ends(buf) /\ buf.position \in Nat /\ buf.length \in Nat
      /\ buf.position <= buf.length /\ buf.capacity \in Nat /\ buf.length <= buf.capacity
  BY MaxIsNat DEF Sized, Ends, Block
<1>1. ASSUME NEW n \in Nat, NEW wraps \in BOOLEAN, GoTo(n, wraps, a) PROVE Promise!Move
  <2> DEFINE s == Moved(buf, n, a)
  <2>1. buf' = s.buf /\ ret'.op = "move"
    <3>1. buf' = s.buf /\ ret' = Ret("move", <<>>, TRUE)
      BY <1>1, Zenon DEF GoTo
    <3> HIDE DEF s
    <3> QED
      BY <3>1 DEF Ret
  <2>2. CASE n <= buf.length
    <3>1. s.buf = Buf(buf.data, buf.capacity, buf.length, n)
      BY <2>2 DEF Moved, Answer
    <3>2. buf'.length = buf.length /\ buf'.position = n /\ Keeps(buf, buf', buf.length)
      BY <2>1, <3>1 DEF Buf, Keeps
    <3>3. buf'.length = long
      BY <1>0, <2>2, <3>2
    <3> QED
      BY <2>1, <3>2, <3>3, IsMove
  <2>3. CASE ~(n <= buf.length)
    <3> DEFINE more == Buf(buf.data, buf.capacity, n, n)
               e == Ensured(more, n, a)
    <3>1. s = e
      BY <2>3 DEF Moved
    <3>2. /\ Block(more) /\ more.length = n /\ more.position = n /\ more.data = buf.data
          /\ more.capacity = buf.capacity
      BY <1>0 DEF Block, Buf
    <3> HIDE DEF more
    <3>3. Keeps(more, e.buf, more.capacity)
      BY <3>2, EnsuredKeeps
    <3>4. e.buf.length = more.length /\ e.buf.position = more.position
      BY <3>2, EnsuredIsEnough
    <3> HIDE DEF s, e
    <3>5. buf'.length = n /\ buf'.position = n /\ Keeps(buf, buf', buf.length)
      BY <1>0, <2>1, <3>1, <3>2, <3>3, <3>4 DEF Keeps
    <3>6. buf'.length = long
      BY <1>0, <2>3, <3>5
    <3> QED
      BY <2>1, <3>5, <3>6, IsMove
  <2> QED
    BY <2>2, <2>3
<1>2. ASSUME NEW n \in Nat, SetLength(n, a) PROVE Promise!Resize
  <2> DEFINE e == Ensured(buf, n, a)
             d == e.buf
             q == IF buf.position > n THEN n ELSE buf.position
             c == Buf(d.data, d.capacity, n, q)
             s == IF e.ok THEN Answer(TRUE, e.wraps, c) ELSE e
  <2>1. Keeps(buf, d, buf.capacity) /\ (~e.ok => d = buf)
    BY <1>0, EnsuredKeeps, Zenon
  <2>3. buf' = s.buf /\ ret'.op = "length"
    <3>1. buf' = s.buf /\ ret' = Ret("length", <<>>, s.ok)
      BY <1>2, Zenon DEF SetLength, Into
    <3> HIDE DEF s
    <3> QED
      BY <3>1 DEF Ret
  <2>4. c.length = n /\ c.data = d.data
    BY DEF Buf
  <2> HIDE DEF e, d, c
  <2>5. CASE ~e.ok
    <3>1. buf' = buf
      BY <2>1, <2>3, <2>5, Zenon DEF d
    <3> QED
      BY <2>3, <3>1, IsResize, KeepsItself
  <2>6. CASE e.ok
    <3>1. s.buf = c
      BY <2>6 DEF Answer
    <3> HIDE DEF s
    <3>2. Keeps(buf, buf', IF buf.length < n THEN buf.length ELSE n) /\ buf'.length = n
      BY <1>0, <2>1, <2>3, <2>4, <3>1 DEF Keeps
    <3> QED
      BY <2>3, <3>2, IsResize
  <2> QED
    BY <2>5, <2>6
<1>3. ASSUME NEW n \in 0 .. MaxUInt, SetCapacity(n, a) PROVE Promise!Resize
  <2>0. n \in Nat
    OBVIOUS
  <2>1. CASE n = 0
    <3>1. buf' = buf /\ ret'.op = "length"
      BY <1>3, <2>1 DEF SetCapacity, Into, Ret, Answer
    <3> QED
      BY <3>1, IsResize, KeepsItself
  <2>2. CASE n # 0 /\ n > buf.capacity
    <3> DEFINE e == Ensured(buf, n, a)
    <3>1. buf' = e.buf /\ ret' = Ret("length", <<>>, e.ok)
      BY <1>3, <2>2, Zenon DEF SetCapacity, Into
    <3>2. Keeps(buf, e.buf, buf.capacity)
      BY <1>0, <2>0, EnsuredKeeps
    <3>3. e.buf.length = buf.length
      BY <1>0, <2>0, EnsuredIsEnough
    <3> HIDE DEF e
    <3>4. Keeps(buf, buf', both) /\ ret'.op = "length"
      BY <1>0, <3>1, <3>2, <3>3 DEF Keeps, Ret
    <3> QED
      BY <3>4, IsResize
  <2>3. CASE n # 0 /\ ~(n > buf.capacity)
    <3> DEFINE m == IF buf.length > n THEN n ELSE buf.length
    <3>1. a /\ buf' = Cut(Resized(buf, n), n) /\ ret' = Ret("length", <<>>, a)
      BY <1>3, <2>3 DEF SetCapacity
    <3>2. buf'.length = m /\ Keeps(buf, buf', m)
      BY <1>0, <2>0, <2>3, <3>1 DEF Cut, Resized, Buf, Keeps
    <3>3. ret'.op = "length" /\ Keeps(buf, buf', both)
      BY <1>0, <2>0, <3>1, <3>2 DEF Ret
    <3> QED
      BY <3>3, IsResize
  <2> QED
    BY <2>1, <2>2, <2>3
<1>4. ASSUME NEW n \in -MaxPut .. MaxPut, Skip(n, a) PROVE Promise!Move
  <2>0. n \in Int
    BY SizesAssumption
  <2>1. CASE n < 0
    <3> DEFINE q == IF -n > buf.position THEN 0 ELSE buf.position + n
    <3>1. q \in Nat /\ q <= buf.length
      BY <1>0, <2>0, <2>1
    <3>2. buf' = Buf(buf.data, buf.capacity, buf.length, q) /\ ret' = Ret("move", <<>>, TRUE)
      BY <1>4, <2>1, Zenon DEF Skip, Becomes
    <3> HIDE DEF q
    <3>3. /\ buf'.length = buf.length /\ buf'.position = q /\ Keeps(buf, buf', buf.length)
          /\ ret'.op = "move"
      BY <3>2 DEF Buf, Keeps, Ret
    <3>4. buf'.length = long
      BY <1>0, <3>1, <3>3
    <3> QED
      BY <3>3, <3>4, IsMove
  <2>2. CASE ~(n < 0)
    <3> DEFINE q == Wrapped(buf.position + n)
               wraps == buf.position + n > MaxUInt
    <3>1. q \in Nat /\ wraps \in BOOLEAN
      BY <1>0, <2>0, <2>2, WrappedIs
    <3>2. GoTo(q, wraps, a)
      BY <1>4, <2>2, Zenon DEF Skip
    <3> HIDE DEF q, wraps
    <3> QED
      BY <1>1, <3>1, <3>2
  <2> QED
    BY <2>1, <2>2
<1>5. \A n \in 0 .. MaxUInt : n \in Nat
  OBVIOUS
<1> QED
  BY <1>1, <1>2, <1>3, <1>4, <1>5 DEF SetPosition

\* Every call is one step of the file.
LEMMA StepOfFile ==
  ASSUME IInv, IInv', ~fault', Next
  PROVE  Promise!Next
<1>0. ~fault /\ Sized(buf) /\ Sized(buf')
  BY DEF Next, IInv
<1>1. ASSUME NEW v \in Values, NEW fails, PutText(v, fails) \/ PutFormat(v, fails) PROVE Promise!Put
  <2>1. 0 \in Nat /\ 1 \in Nat
    OBVIOUS
  <2> QED
    BY <1>0, <1>1, <2>1, TwoPutsIsPut DEF PutText, PutFormat
<1>2. ASSUME NEW y \in [1 .. 2 -> Bytes], NEW m \in [1 .. 1 -> Bytes], NEW fails,
             PutDate(y, m, m, fails)
      PROVE  Promise!Put
  BY <1>0, <1>2, PutDateIsPut
<1>3. ASSUME NEW a \in BOOLEAN, NEW v \in Values, PutValue(v, a) \/ PutBytes(v, a)
      PROVE  Promise!Put
  BY <1>0, <1>3, PutOneIsPut
<1>4. ASSUME NEW a \in BOOLEAN,
             \/ \E n \in 0 .. MaxUInt : SetLength(n, a) \/ SetPosition(n, a) \/ SetCapacity(n, a)
             \/ \E n \in -MaxPut .. MaxPut : Skip(n, a)
      PROVE  Promise!Move \/ Promise!Resize
  BY <1>0, <1>4, SizeIs
<1>5. CASE Reads
  BY <1>0, <1>5, ReadIsGet DEF Promise!Next
<1>6. CASE Rewind \/ Flip \/ Reset \/ Clone \/ MoveTo
  BY <1>0, <1>6, WithinIs DEF Promise!Next
<1>7. CASE Compact
  BY <1>0, <1>7, CompactIsDrop DEF Promise!Next
<1>8. \/ \E v \in Values, fails \in 0 .. 2 : PutText(v, fails) \/ PutFormat(v, fails)
      \/ \E y \in [1 .. 2 -> Bytes], m \in [1 .. 1 -> Bytes], fails \in 0 .. 3 : PutDate(y, m, m, fails)
      \/ \E a \in BOOLEAN :
           \/ \E v \in Values : PutValue(v, a) \/ PutBytes(v, a)
           \/ \E n \in 0 .. MaxUInt : SetLength(n, a) \/ SetPosition(n, a) \/ SetCapacity(n, a)
           \/ \E n \in -MaxPut .. MaxPut : Skip(n, a)
      \/ Reads \/ Rewind \/ Flip \/ Reset \/ Compact \/ Clone \/ MoveTo
  BY Zenon DEF Next, Reads
<1> QED
  BY <1>1, <1>2, <1>3, <1>4, <1>5, <1>6, <1>7, <1>8, Zenon DEF Promise!Next

\* Until a sum is too large for a CFL_UINT32 or the code does not look at a failure, a
\* buffer is a file in memory, whatever its sizes and whichever allocations fail: a put
\* changes the bytes at the position and no others, a get answers those that are there
\* and skips a value that is not, growth, cuts and copies keep what lies below the
\* length (PUT_BUFFER, GET_BUFFER, ensureCapacity, cfl_buffer_compact, cfl_buffer_clone).
THEOREM BufferIsFile == Spec => ImplementsFile
<1>1. Init => Promise!Init
  <2> SUFFICES ASSUME Init PROVE Promise!Init
    OBVIOUS
  <2>1. fault = FALSE /\ buf.length = 0 /\ buf.position = 0 /\ ret.op = "new"
    BY DEF Init, Buf, Ret
  <2>2. Contents = <<>>
    BY <2>1 DEF Contents
  <2> QED
    BY <2>1, <2>2 DEF Promise!Init
<1>2. IInv /\ IInv' /\ [Next]_vars => [Promise!Next]_Promise!vars
  <2>1. ASSUME IInv, IInv', Next PROVE Promise!Next
    <3>1. CASE fault'
      BY <3>1 DEF Promise!Next
    <3>2. CASE ~fault'
      BY <2>1, <3>2, StepOfFile
    <3> QED
      BY <3>1, <3>2
  <2>2. ASSUME UNCHANGED vars PROVE UNCHANGED Promise!vars
    BY <2>2 DEF vars, Promise!vars, Contents
  <2> QED
    BY <2>1, <2>2
<1> QED
  BY <1>1, <1>2, Invariant, PTL DEF Spec, ImplementsFile, Promise!Spec

-----------------------------------------------------------------------------
(* Numbers in words of bits                                                *)

\* Quotient and remainder name a bit, and every bit has its number.
LEMMA BitOfNumber ==
  ASSUME NEW pos \in Nat
  PROVE  B!Word(pos) \in Nat /\ B!Bit(pos) \in 0 .. Width - 1
BY BytesAssumption DEF B!Word, B!Bit

LEMMA NumberOfBit ==
  ASSUME NEW w \in Nat, NEW i \in 0 .. Width - 1
  PROVE  /\ w * Width + i \in Nat
         /\ B!Word(w * Width + i) = w /\ B!Bit(w * Width + i) = i
BY BytesAssumption DEF B!Word, B!Bit

LEMMA NumberIsItsBit ==
  ASSUME NEW p \in Nat, NEW q \in Nat, B!Word(p) = B!Word(q), B!Bit(p) = B!Bit(q)
  PROVE  p = q
BY BytesAssumption DEF B!Word, B!Bit

\* The words that a bitmap has.
IsWords(m) == /\ DOMAIN m \subseteq Nat
              /\ m = [w \in DOMAIN m |-> m[w]]
              /\ \A w \in DOMAIN m : m[w] \subseteq 0 .. Width - 1

\* The bits that are 1 are those of the numbers in the set for which there are words.
Holds(m, set) ==
  set \subseteq Nat /\ \A pos \in Nat : B!Has(m, pos) <=> pos \in B!Within(m, set)

BitmapInv ==
  /\ map = [b \in 1 .. 2 |-> map[b]] /\ asked = [b \in 1 .. 2 |-> asked[b]]
  /\ \A b \in 1 .. 2 : IsWords(map[b]) /\ Holds(map[b], asked[b])

LEMMA BitmapInit == B!Init => BitmapInv
<1> SUFFICES ASSUME B!Init PROVE BitmapInv
  OBVIOUS
<1>1. /\ map \in [1 .. 2 -> {[w \in B!Words(n) |-> {}] : n \in Sizes}]
      /\ asked = [b \in 1 .. 2 |-> {}]
  BY DEF B!Init
<1>2. ASSUME NEW b \in 1 .. 2 PROVE IsWords(map[b]) /\ Holds(map[b], asked[b])
  <2>1. PICK n \in Sizes : map[b] = [w \in B!Words(n) |-> {}]
    BY <1>1
  <2>2. B!Words(n) \subseteq Nat
    BY BytesAssumption DEF B!Words
  <2> QED
    BY <1>1, <2>1, <2>2 DEF IsWords, Holds, B!Has, B!Within
<1> QED
  BY <1>1, <1>2 DEF BitmapInv

\* set, of a number whose word is there.
LEMMA BitSet ==
  ASSUME NEW m, NEW set, IsWords(m), Holds(m, set), NEW pos \in Nat, B!Word(pos) \in DOMAIN m
  PROVE  LET n == [m EXCEPT ![B!Word(pos)] = @ \cup {B!Bit(pos)}]
         IN  IsWords(n) /\ Holds(n, set \cup {pos})
<1> DEFINE n == [m EXCEPT ![B!Word(pos)] = @ \cup {B!Bit(pos)}]
<1>1. B!Bit(pos) \in 0 .. Width - 1
  BY BitOfNumber
<1>2. \A w \in DOMAIN m : n[w] = IF w = B!Word(pos) THEN m[w] \cup {B!Bit(pos)} ELSE m[w]
  BY DEF IsWords
<1>3. DOMAIN n = DOMAIN m /\ n = [w \in DOMAIN m |-> n[w]]
  BY DEF IsWords
<1> HIDE DEF n
<1>4. IsWords(n)
  BY <1>1, <1>2, <1>3 DEF IsWords
<1>5. ASSUME NEW q \in Nat PROVE B!Has(n, q) <=> q \in B!Within(n, set \cup {pos})
  <2>1. B!Has(n, q) <=> B!Has(m, q) \/ (B!Word(q) = B!Word(pos) /\ B!Bit(q) = B!Bit(pos))
    BY <1>2, <1>3 DEF B!Has
  <2>2. B!Word(q) = B!Word(pos) /\ B!Bit(q) = B!Bit(pos) => q = pos
    BY NumberIsItsBit
  <2> QED
    BY <1>3, <2>1, <2>2 DEF Holds, B!Within
<1> QED
  BY <1>4, <1>5 DEF n, Holds

LEMMA BitReset ==
  ASSUME NEW m, NEW set, IsWords(m), Holds(m, set), NEW pos \in Nat, B!Word(pos) \in DOMAIN m
  PROVE  LET n == [m EXCEPT ![B!Word(pos)] = @ \ {B!Bit(pos)}]
         IN  IsWords(n) /\ Holds(n, set \ {pos})
<1> DEFINE n == [m EXCEPT ![B!Word(pos)] = @ \ {B!Bit(pos)}]
<1>2. \A w \in DOMAIN m : n[w] = IF w = B!Word(pos) THEN m[w] \ {B!Bit(pos)} ELSE m[w]
  BY DEF IsWords
<1>3. DOMAIN n = DOMAIN m /\ n = [w \in DOMAIN m |-> n[w]]
  BY DEF IsWords
<1> HIDE DEF n
<1>4. IsWords(n)
  BY <1>2, <1>3 DEF IsWords
<1>5. ASSUME NEW q \in Nat PROVE B!Has(n, q) <=> q \in B!Within(n, set \ {pos})
  <2>1. B!Has(n, q) <=> B!Has(m, q) /\ ~(B!Word(q) = B!Word(pos) /\ B!Bit(q) = B!Bit(pos))
    BY <1>2, <1>3 DEF B!Has
  <2>2. B!Word(q) = B!Word(pos) /\ B!Bit(q) = B!Bit(pos) <=> q = pos
    BY NumberIsItsBit
  <2> QED
    BY <1>3, <2>1, <2>2 DEF Holds, B!Within
<1> QED
  BY <1>4, <1>5 DEF n, Holds

LEMMA BitmapStep == BitmapInv /\ B!Next => BitmapInv'
<1> SUFFICES ASSUME BitmapInv, NEW b \in 1 .. 2,
                    \/ B!Clear(b) \/ B!Clone(b)
                    \/ \E pos \in B!Positions : B!Set(b, pos) \/ B!Reset(b, pos)
             PROVE  BitmapInv'
  BY DEF B!Next
<1>0. /\ map = [c \in 1 .. 2 |-> map[c]] /\ asked = [c \in 1 .. 2 |-> asked[c]]
      /\ \A c \in 1 .. 2 : IsWords(map[c]) /\ Holds(map[c], asked[c])
  BY DEF BitmapInv
<1>1. CASE B!Clear(b)
  <2> DEFINE n == [w \in DOMAIN map[b] |-> {}]
  <2>1. IsWords(n) /\ Holds(n, {})
    BY <1>0 DEF IsWords, Holds, B!Has, B!Within
  <2> HIDE DEF n
  <2>2. map' = [map EXCEPT ![b] = n] /\ asked' = [asked EXCEPT ![b] = {}]
    BY <1>1 DEF B!Clear, n
  <2> QED
    BY <1>0, <2>1, <2>2 DEF BitmapInv
<1>2. CASE B!Clone(b)
  <2>1. 3 - b \in 1 .. 2
    OBVIOUS
  <2> QED
    BY <1>0, <1>2, <2>1 DEF B!Clone, BitmapInv
<1>3. ASSUME NEW pos \in B!Positions, B!Set(b, pos) PROVE BitmapInv'
  <2>0. pos \in Nat
    BY BytesAssumption DEF B!Positions
  <2>1. CASE B!Word(pos) \in DOMAIN map[b]
    <3> DEFINE n == [map[b] EXCEPT ![B!Word(pos)] = @ \cup {B!Bit(pos)}]
    <3>1. IsWords(n) /\ Holds(n, asked[b] \cup {pos})
      BY <1>0, <2>0, <2>1, BitSet
    <3>2. map' = [map EXCEPT ![b] = n] /\ asked' = [asked EXCEPT ![b] = @ \cup {pos}]
      BY <1>0, <1>3, <2>1 DEF B!Set, B!Put
    <3> HIDE DEF n
    <3> QED
      BY <1>0, <3>1, <3>2 DEF BitmapInv
  <2>2. CASE B!Word(pos) \notin DOMAIN map[b]
    <3>1. map' = map /\ asked' = [asked EXCEPT ![b] = @ \cup {pos}]
      BY <1>3, <2>2 DEF B!Set, B!Put
    <3>2. Holds(map[b], asked[b] \cup {pos})
      BY <1>0, <2>0, <2>2 DEF Holds, B!Within
    <3> QED
      BY <1>0, <3>1, <3>2 DEF BitmapInv
  <2> QED
    BY <2>1, <2>2
<1>4. ASSUME NEW pos \in B!Positions, B!Reset(b, pos) PROVE BitmapInv'
  <2>0. pos \in Nat
    BY BytesAssumption DEF B!Positions
  <2>1. CASE B!Word(pos) \in DOMAIN map[b]
    <3> DEFINE n == [map[b] EXCEPT ![B!Word(pos)] = @ \ {B!Bit(pos)}]
    <3>1. IsWords(n) /\ Holds(n, asked[b] \ {pos})
      BY <1>0, <2>0, <2>1, BitReset
    <3>2. map' = [map EXCEPT ![b] = n] /\ asked' = [asked EXCEPT ![b] = @ \ {pos}]
      BY <1>0, <1>4, <2>1 DEF B!Reset
    <3> HIDE DEF n
    <3> QED
      BY <1>0, <3>1, <3>2 DEF BitmapInv
  <2>2. CASE B!Word(pos) \notin DOMAIN map[b]
    <3>1. map' = map /\ asked' = [asked EXCEPT ![b] = @ \ {pos}]
      BY <1>4, <2>2 DEF B!Reset
    <3>2. Holds(map[b], asked[b] \ {pos})
      BY <1>0, <2>0, <2>2 DEF Holds, B!Within
    <3> QED
      BY <1>0, <3>1, <3>2 DEF BitmapInv
  <2> QED
    BY <2>1, <2>2
<1> QED
  BY <1>1, <1>2, <1>3, <1>4

\* What the comparison of words says of the sets.
LEMMA SubSetOfWords ==
  ASSUME NEW m, NEW n, NEW s0, NEW t0, IsWords(m), IsWords(n), Holds(m, s0), Holds(n, t0)
  PROVE  B!IsSubSet(m, n) <=> /\ B!Within(m, s0) \subseteq B!Within(n, t0)
                              /\ DOMAIN m \subseteq DOMAIN n
<1> DEFINE s == B!Within(m, s0)
           t == B!Within(n, t0)
<1>0. s \subseteq Nat /\ \A pos \in Nat : B!Has(m, pos) <=> pos \in s
  BY DEF Holds, B!Within
<1>t. \A pos \in Nat : B!Has(n, pos) <=> pos \in t
  BY DEF Holds
<1> HIDE DEF s, t
<1>1. ASSUME B!IsSubSet(m, n) PROVE s \subseteq t
  BY <1>0, <1>t, <1>1 DEF B!IsSubSet, B!Has
<1>2. ASSUME s \subseteq t, DOMAIN m \subseteq DOMAIN n, NEW w \in DOMAIN m, NEW i \in m[w]
      PROVE  i \in n[w]
  <2>1. w \in Nat /\ i \in 0 .. Width - 1
    BY DEF IsWords
  <2> DEFINE pos == w * Width + i
  <2>2. pos \in Nat /\ B!Word(pos) = w /\ B!Bit(pos) = i
    BY <2>1, NumberOfBit
  <2> HIDE DEF pos
  <2>3. pos \in s
    BY <1>0, <2>2 DEF B!Has
  <2> QED
    BY <1>2, <1>t, <2>2, <2>3 DEF B!Has
<1> QED
  BY <1>1, <1>2 DEF B!IsSubSet, s, t

\* Whatever the width of a word and the sizes of the bitmaps, get and equals answer for the
\* numbers that were set and have a word, and so does isSubSet of a bitmap that has no more
\* words than the other (cfl_bitmap_get, isSubSet, equals).
THEOREM BitmapsStaySets == OneSpec => []BitmapsAreSets
<1>1. OneInit => BitmapInv
  BY BitmapInit DEF OneInit
<1>2. BitmapInv /\ [OneNext]_allVars => BitmapInv'
  <2>1. BitmapInv /\ UNCHANGED bitmapVars => BitmapInv'
    BY DEF BitmapInv, bitmapVars, IsWords, Holds, B!Has
  <2> QED
    BY <2>1, BitmapStep DEF OneNext, allVars
<1>3. BitmapInv => BitmapsAreSets
  <2> SUFFICES ASSUME BitmapInv PROVE B!BitmapsAreSets
    BY DEF BitmapsAreSets
  <2>0. \A b \in 1 .. 2 : IsWords(map[b]) /\ Holds(map[b], asked[b])
    BY DEF BitmapInv
  <2> DEFINE set(b) == B!Within(map[b], asked[b])
  <2>1. \A b \in 1 .. 2, pos \in B!Positions : B!Has(map[b], pos) <=> pos \in set(b)
    BY <2>0, BytesAssumption DEF B!Positions, Holds
  <2>2. /\ B!IsSubSet(map[1], map[2]) <=> set(1) \subseteq set(2) /\ DOMAIN map[1] \subseteq DOMAIN map[2]
        /\ B!IsSubSet(map[2], map[1]) <=> set(2) \subseteq set(1) /\ DOMAIN map[2] \subseteq DOMAIN map[1]
    BY <2>0, SubSetOfWords
  <2>3. B!Equals(map[1], map[2]) <=> B!IsSubSet(map[1], map[2]) /\ B!IsSubSet(map[2], map[1])
    BY DEF B!Equals, B!IsSubSet
  <2> QED
    BY <2>1, <2>2, <2>3 DEF B!BitmapsAreSets
<1> QED
  BY <1>1, <1>2, <1>3, PTL DEF OneSpec

-----------------------------------------------------------------------------
(* Transfers                                                               *)

Sent == mem["sender"].position
Got == mem["receiver"].position

\* A side's memory is as large as the message, and its position lies in it.
SideInv(b) ==
  /\ b = T!Buf(b.data, Size, Size, b.position)
  /\ b.position \in 0 .. Size
  /\ b.data = [i \in 0 .. Size - 1 |-> b.data[i]]

Plain == \A s \in T!Sides : kind[s] = "plain"

\* The stream holds what was taken and not yet read, in its order.
TransferInv ==
  /\ mem = [s \in T!Sides |-> mem[s]] /\ at = [s \in T!Sides |-> at[s]]
  /\ SideInv(mem["sender"]) /\ mem["sender"].data = T!Message
  /\ SideInv(mem["receiver"])
  /\ taken \in Seq(Nat) /\ stream \in Seq(Nat)
  /\ Len(taken) = Sent /\ Len(stream) = Sent - Got
  /\ \A i \in 1 .. Len(stream) : stream[i] = taken[Got + i]
  /\ \A s \in T!Sides : at[s] = "true" => mem[s].position = Size
  /\ Plain => /\ \A i \in 1 .. Sent : taken[i] = i - 1
              /\ \A i \in 0 .. Got - 1 : mem["receiver"].data[i] = i

LEMMA ConcatIs ==
  ASSUME NEW s \in Seq(Nat), NEW t \in Seq(Nat)
  PROVE  /\ s \o t \in Seq(Nat) /\ Len(s \o t) = Len(s) + Len(t)
         /\ \A i \in 1 .. Len(s) + Len(t) : (s \o t)[i] = IF i <= Len(s) THEN s[i] ELSE t[i - Len(s)]
BY ConcatProperties

LEMMA RestIs ==
  ASSUME NEW s \in Seq(Nat), NEW n \in Nat, n <= Len(s)
  PROVE  LET r == SubSeq(s, n + 1, Len(s))
         IN  /\ r \in Seq(Nat) /\ Len(r) = Len(s) - n
             /\ \A i \in 1 .. Len(s) - n : r[i] = s[n + i]
BY SubSeqProperties

LEMMA SidesAre == T!Sides = {"sender", "receiver"} /\ Size \in Nat
BY BytesAssumption DEF T!Sides

LEMMA FreshSide ==
  ASSUME NEW d, d = [i \in 0 .. Size - 1 |-> d[i]]
  PROVE  SideInv(T!Buf(d, Size, Size, 0))
BY SidesAre DEF SideInv, T!Buf

LEMMA TransferInit == T!Init => TransferInv
<1> SUFFICES ASSUME T!Init PROVE TransferInv
  OBVIOUS
<1>1. /\ mem = [s \in T!Sides |-> mem[s]] /\ at = [s \in T!Sides |-> at[s]]
      /\ mem["sender"] = T!Buf(T!Message, Size, Size, 0)
      /\ mem["receiver"] = T!Buf([i \in 0 .. Size - 1 |-> Junk], Size, Size, 0)
      /\ taken = <<>> /\ stream = <<>>
      /\ at["sender"] # "true" /\ at["receiver"] # "true"
  BY DEF T!Init, T!Sides
<1>2. /\ SideInv(mem["sender"]) /\ SideInv(mem["receiver"])
      /\ mem["sender"].data = T!Message /\ Sent = 0 /\ Got = 0
  <2> DEFINE d == T!Message
             e == [i \in 0 .. Size - 1 |-> Junk]
  <2>1. d = [i \in 0 .. Size - 1 |-> d[i]] /\ e = [i \in 0 .. Size - 1 |-> e[i]]
    BY DEF T!Message
  <2> HIDE DEF d, e
  <2>2. /\ SideInv(T!Buf(d, Size, Size, 0)) /\ SideInv(T!Buf(e, Size, Size, 0))
    BY <2>1, FreshSide
  <2>3. mem["sender"] = T!Buf(d, Size, Size, 0) /\ mem["receiver"] = T!Buf(e, Size, Size, 0)
    BY <1>1 DEF d, e
  <2>4. mem["sender"].data = d /\ Sent = 0 /\ Got = 0
    BY <2>3 DEF T!Buf, Sent, Got
  <2> QED
    BY <2>2, <2>3, <2>4 DEF d
<1> QED
  BY <1>1, <1>2, SidesAre DEF TransferInv

\* What a side that moves on by n bytes becomes.
LEMMA SideAdvances ==
  ASSUME NEW s \in T!Sides, SideInv(mem[s]), NEW n \in 1 .. Size, n <= T!Remaining(mem[s])
  PROVE  /\ mem[s].position + n <= Size
         /\ T!Advance(s, n) = T!Buf(mem[s].data, Size, Size, mem[s].position + n)
         /\ T!AfterBytes(s, T!Advance(s, n)) = "true" => mem[s].position + n = Size
<1> DEFINE b == mem[s]
           p == b.position + n
           c == T!Buf(b.data, Size, Size, p)
<1>1. b.length = Size /\ b.capacity = Size /\ b.position \in Nat /\ Size \in Nat
  BY BytesAssumption DEF SideInv, T!Buf
<1>2. p <= Size
  BY <1>1 DEF T!Remaining
<1>3. T!Moved(b, p, TRUE) = T!Answer(TRUE, FALSE, c)
  BY <1>1, <1>2 DEF T!Moved
<1>4. T!Advance(s, n) = c
  <2> DEFINE m == T!Moved(b, p, TRUE)
  <2>1. T!Advance(s, n) = m.buf
    BY DEF T!Advance
  <2>2. m = T!Answer(TRUE, FALSE, c)
    BY <1>3
  <2> HIDE DEF m, c
  <2> QED
    BY <2>1, <2>2 DEF T!Answer
<1>5. T!Remaining(c) = 0 => p = Size
  BY <1>1, <1>2 DEF T!Remaining, T!Buf
<1> QED
  BY <1>2, <1>4, <1>5 DEF T!AfterBytes

LEMMA SendInv == ASSUME TransferInv, NEW n \in 1 .. Size, T!Send(n) PROVE TransferInv'
<1> DEFINE b == mem["sender"]
           o == T!Offset("sender")
           bytes == [i \in 1 .. n |-> b.data[o + i - 1]]
           moved == T!Advance("sender", n)
<1>0. /\ "sender" \in T!Sides /\ "receiver" \in T!Sides
      /\ T!Sides = {"sender", "receiver"} /\ Size \in Nat
  BY SidesAre
<1>1. /\ n <= T!Remaining(b) /\ at["sender"] = "call"
      /\ taken' = taken \o bytes /\ stream' = stream \o bytes
      /\ mem' = [mem EXCEPT !["sender"] = moved]
      /\ at' = [at EXCEPT !["sender"] = T!AfterBytes("sender", moved)]
      /\ kind' = kind
  <2>1. n \in 1 .. T!Least(T!Remaining(b), Room - Len(stream))
    BY DEF T!Send
  <2>2. n <= T!Remaining(b)
    BY <1>0, <2>1, BytesAssumption DEF T!Least, TransferInv, T!Remaining, SideInv, T!Buf
  <2> QED
    BY <2>2 DEF T!Send, T!Goes
<1>2. /\ SideInv(b) /\ b.position = Sent /\ Sent \in Nat /\ Got \in Nat /\ Got <= Sent
      /\ b.data = [i \in 0 .. Size - 1 |-> i]
  BY <1>0 DEF TransferInv, SideInv, Sent, Got, T!Message
<1>3. /\ Sent + n <= Size /\ moved = T!Buf(b.data, Size, Size, Sent + n)
      /\ T!AfterBytes("sender", moved) = "true" => Sent + n = Size
  BY <1>0, <1>1, <1>2, SideAdvances
<1>4. o \in Nat /\ o + n <= Size /\ (kind["sender"] = "plain" => o = Sent)
  BY <1>0, <1>2, <1>3 DEF T!Offset
<1>5. /\ bytes \in Seq(Nat) /\ Len(bytes) = n
      /\ \A i \in 1 .. n : bytes[i] = o + i - 1
  <2>1. \A i \in 1 .. n : o + i - 1 \in 0 .. Size - 1
    BY <1>0, <1>4
  <2>2. \A i \in 1 .. n : b.data[o + i - 1] = o + i - 1
    BY <1>2, <2>1
  <2>3. \A i \in 1 .. n : b.data[o + i - 1] \in Nat
    BY <1>4, <2>1, <2>2
  <2> QED
    BY <2>2, <2>3
<1> HIDE DEF bytes, moved, b, o
<1>6. /\ mem' = [s \in T!Sides |-> mem'[s]] /\ at' = [s \in T!Sides |-> at'[s]]
      /\ mem'["sender"] = moved /\ mem'["receiver"] = mem["receiver"]
      /\ at'["sender"] = T!AfterBytes("sender", moved) /\ at'["receiver"] = at["receiver"]
  BY <1>0, <1>1 DEF TransferInv
<1>7. Sent' = Sent + n /\ Got' = Got
  BY <1>3, <1>6 DEF Sent, Got, T!Buf
<1>8. SideInv(mem'["sender"]) /\ mem'["sender"].data = T!Message
  BY <1>0, <1>2, <1>3, <1>6 DEF SideInv, T!Buf, T!Message
<1>9. /\ taken \in Seq(Nat) /\ stream \in Seq(Nat) /\ Len(taken) = Sent /\ Len(stream) = Sent - Got
      /\ \A i \in 1 .. Len(stream) : stream[i] = taken[Got + i]
  BY DEF TransferInv
<1>10. /\ taken' \in Seq(Nat) /\ stream' \in Seq(Nat)
       /\ Len(taken') = Sent + n /\ Len(stream') = Sent + n - Got
       /\ \A i \in 1 .. Sent + n : taken'[i] = IF i <= Sent THEN taken[i] ELSE bytes[i - Sent]
       /\ \A i \in 1 .. Sent + n - Got : stream'[i] = IF i <= Sent - Got THEN stream[i]
                                                   ELSE bytes[i - (Sent - Got)]
  <2>1. n \in Nat
    BY <1>0
  <2>2. /\ taken' \in Seq(Nat) /\ Len(taken') = Sent + n
        /\ \A i \in 1 .. Sent + n : taken'[i] = IF i <= Sent THEN taken[i] ELSE bytes[i - Sent]
    <3>1. taken' = taken \o bytes /\ Len(taken) = Sent /\ Len(bytes) = n
      BY <1>1, <1>5, <1>9
    <3>2. /\ taken' \in Seq(Nat) /\ Len(taken') = Len(taken) + Len(bytes)
          /\ \A i \in 1 .. Len(taken) + Len(bytes) :
               taken'[i] = IF i <= Len(taken) THEN taken[i] ELSE bytes[i - Len(taken)]
      BY <1>5, <1>9, <3>1, ConcatIs
    <3> QED
      BY <3>1, <3>2
  <2>3. /\ stream' \in Seq(Nat) /\ Len(stream') = (Sent - Got) + n
        /\ \A i \in 1 .. (Sent - Got) + n : stream'[i] = IF i <= Sent - Got THEN stream[i]
                                                      ELSE bytes[i - (Sent - Got)]
    <3>1. stream' = stream \o bytes /\ Len(stream) = Sent - Got /\ Len(bytes) = n
      BY <1>1, <1>5, <1>9
    <3>2. /\ stream' \in Seq(Nat) /\ Len(stream') = Len(stream) + Len(bytes)
          /\ \A i \in 1 .. Len(stream) + Len(bytes) :
               stream'[i] = IF i <= Len(stream) THEN stream[i] ELSE bytes[i - Len(stream)]
      BY <1>5, <1>9, <3>1, ConcatIs
    <3> QED
      BY <3>1, <3>2
  <2>4. (Sent - Got) + n = Sent + n - Got
    BY <1>2, <2>1
  <2> QED
    BY <2>2, <2>3, <2>4
<1>11. \A i \in 1 .. Len(stream') : stream'[i] = taken'[Got + i]
  <2> SUFFICES ASSUME NEW i \in 1 .. Sent + n - Got PROVE stream'[i] = taken'[Got + i]
    BY <1>10
  <2>1. Got + i \in 1 .. Sent + n
    BY <1>2
  <2>2. CASE i <= Sent - Got
    BY <1>2, <1>9, <1>10, <2>1, <2>2
  <2>3. CASE ~(i <= Sent - Got)
    <3>1. ~(Got + i <= Sent) /\ i - (Sent - Got) = Got + i - Sent
      BY <1>2, <2>3
    <3>2. ASSUME NEW j \in 1 .. Sent + n, ~(j <= Sent) PROVE taken'[j] = bytes[j - Sent]
      BY <1>10, <3>2
    <3>4. taken'[Got + i] = bytes[Got + i - Sent]
      BY <1>2, <2>1, <3>1, <3>2
    <3>3. stream'[i] = bytes[i - (Sent - Got)]
      BY <1>10, <2>3
    <3> QED
      BY <3>1, <3>4, <3>3
  <2> QED
    BY <2>2, <2>3
<1>12. ASSUME Plain PROVE \A i \in 1 .. Sent + n : taken'[i] = i - 1
  <2> SUFFICES ASSUME NEW i \in 1 .. Sent + n PROVE taken'[i] = i - 1
    OBVIOUS
  <2>1. CASE i <= Sent
    BY <1>2, <1>10, <1>12, <2>1 DEF TransferInv
  <2>2. CASE ~(i <= Sent)
    <3>1. i - Sent \in 1 .. n /\ o = Sent
      BY <1>0, <1>2, <1>4, <1>12, <2>2 DEF Plain
    <3>2. taken'[i] = bytes[i - Sent]
      BY <1>10, <2>2
    <3>3. bytes[i - Sent] = o + (i - Sent) - 1
      BY <1>5, <3>1
    <3> QED
      BY <1>2, <3>1, <3>2, <3>3
  <2> QED
    BY <2>1, <2>2
<1>13. \A s \in T!Sides : at'[s] = "true" => mem'[s].position = Size
  BY <1>0, <1>3, <1>6 DEF TransferInv, T!Buf
<1>14. SideInv(mem'["receiver"])
  BY <1>6 DEF TransferInv
<1>15. Plain' <=> Plain
  BY <1>1 DEF Plain
<1>16. ASSUME Plain PROVE \A i \in 0 .. Got - 1 : mem'["receiver"].data[i] = i
  BY <1>6, <1>16 DEF TransferInv
<1>17. Plain' => /\ \A i \in 1 .. Sent' : taken'[i] = i - 1
                 /\ \A i \in 0 .. Got' - 1 : mem'["receiver"].data[i] = i
  BY <1>7, <1>12, <1>15, <1>16
<1>18. /\ Len(taken') = Sent' /\ Len(stream') = Sent' - Got'
       /\ \A i \in 1 .. Len(stream') : stream'[i] = taken'[Got' + i]
  <2>1. Len(taken') = Sent' /\ Len(stream') = Sent' - Got'
    BY <1>2, <1>7, <1>10
  <2>2. \A i \in 1 .. Len(stream') : stream'[i] = taken'[Got' + i]
    BY <1>7, <1>11
  <2> QED
    BY <2>1, <2>2
<1> QED
  BY <1>6, <1>8, <1>10, <1>13, <1>14, <1>17, <1>18 DEF TransferInv

LEMMA ReceiveInv == ASSUME TransferInv, NEW n \in 1 .. Size, T!Receive(n) PROVE TransferInv'
<1> DEFINE b == mem["receiver"]
           from == T!Offset("receiver")
           moved == T!Advance("receiver", n)
           data == [i \in 0 .. Size - 1 |->
                      IF i \in from .. from + n - 1 THEN stream[i - from + 1] ELSE b.data[i]]
<1>0. /\ "sender" \in T!Sides /\ "receiver" \in T!Sides
      /\ T!Sides = {"sender", "receiver"} /\ Size \in Nat /\ n \in Nat
  BY SidesAre
<1>1. /\ SideInv(b) /\ b.position = Got /\ Sent \in Nat /\ Got \in Nat /\ Got <= Sent
      /\ taken \in Seq(Nat) /\ stream \in Seq(Nat) /\ Len(taken) = Sent /\ Len(stream) = Sent - Got
      /\ \A i \in 1 .. Len(stream) : stream[i] = taken[Got + i]
  BY <1>0 DEF TransferInv, SideInv, Sent, Got
<1>2. n <= T!Remaining(b) /\ n <= Len(stream)
  <2>1. n \in 1 .. T!Least(T!Remaining(b), Len(stream))
    BY DEF T!Receive
  <2>2. T!Remaining(b) \in Nat
    BY <1>0, <1>1 DEF T!Remaining, SideInv, T!Buf
  <2> QED
    BY <1>1, <2>1, <2>2 DEF T!Least
<1>3. /\ Got + n <= Size /\ moved = T!Buf(b.data, Size, Size, Got + n)
      /\ T!AfterBytes("receiver", moved) = "true" => Got + n = Size
  BY <1>0, <1>1, <1>2, SideAdvances
<1>4. from \in Nat /\ (kind["receiver"] = "plain" => from = Got)
  BY <1>0, <1>1 DEF T!Offset
<1>5. /\ stream' = SubSeq(stream, n + 1, Len(stream)) /\ taken' = taken
      /\ mem' = [mem EXCEPT !["receiver"] = T!Buf(data, Size, Size, Got + n)]
      /\ at' = [at EXCEPT !["receiver"] = T!AfterBytes("receiver", moved)]
      /\ kind' = kind
  <2>1. moved.data = b.data
    BY <1>3 DEF T!Buf
  <2>2. mem' = [mem EXCEPT !["receiver"] = [moved EXCEPT !.data = data]]
    BY <2>1 DEF T!Receive
  <2> HIDE DEF data
  <2>3. [moved EXCEPT !.data = data] = T!Buf(data, Size, Size, Got + n)
    BY <1>3 DEF T!Buf
  <2> QED
    BY <2>2, <2>3 DEF T!Receive, T!Goes
<1>6. data = [i \in 0 .. Size - 1 |-> data[i]]
  OBVIOUS
<1>7. ASSUME NEW i \in 0 .. Size - 1
      PROVE  data[i] = IF i \in from .. from + n - 1 THEN stream[i - from + 1] ELSE b.data[i]
  OBVIOUS
<1> HIDE DEF data, moved, b, from
<1>8. /\ mem' = [s \in T!Sides |-> mem'[s]] /\ at' = [s \in T!Sides |-> at'[s]]
      /\ mem'["sender"] = mem["sender"] /\ mem'["receiver"] = T!Buf(data, Size, Size, Got + n)
      /\ at'["sender"] = at["sender"] /\ at'["receiver"] = T!AfterBytes("receiver", moved)
  BY <1>0, <1>5 DEF TransferInv
<1>9. Sent' = Sent /\ Got' = Got + n /\ mem'["receiver"].data = data
  BY <1>8 DEF Sent, Got, T!Buf
<1>10. SideInv(mem'["receiver"])
  BY <1>0, <1>1, <1>3, <1>6, <1>8 DEF SideInv, T!Buf
<1>11. SideInv(mem'["sender"]) /\ mem'["sender"].data = T!Message
  BY <1>8 DEF TransferInv
<1>12. /\ stream' \in Seq(Nat) /\ Len(stream') = Len(stream) - n
       /\ \A i \in 1 .. Len(stream) - n : stream'[i] = stream[n + i]
  BY <1>0, <1>1, <1>2, <1>5, RestIs
<1>13. /\ Len(taken') = Sent' /\ Len(stream') = Sent' - Got'
       /\ \A i \in 1 .. Len(stream') : stream'[i] = taken'[Got' + i]
  <2>1. Len(taken') = Sent' /\ Len(stream') = Sent' - Got'
    BY <1>0, <1>1, <1>5, <1>9, <1>12
  <2>2. ASSUME NEW i \in 1 .. Len(stream') PROVE stream'[i] = taken[Got + n + i]
    <3>0. i \in 1 .. Len(stream) - n /\ Len(stream) \in Nat
      BY <1>1, <1>12
    <3>4. n \in Nat /\ Got \in Nat
      BY <1>0, <1>1
    <3>1. n + i \in 1 .. Len(stream) /\ Got + (n + i) = Got + n + i
      BY <3>0, <3>4
    <3>2. stream'[i] = stream[n + i] /\ stream[n + i] = taken[Got + (n + i)]
      BY <1>1, <1>12, <3>0, <3>1
    <3> QED
      BY <3>1, <3>2
  <2> QED
    BY <1>5, <1>9, <2>1, <2>2
<1>14. \A s \in T!Sides : at'[s] = "true" => mem'[s].position = Size
  BY <1>0, <1>3, <1>8 DEF TransferInv, T!Buf
<1>15. ASSUME Plain
       PROVE  /\ \A i \in 1 .. Sent : taken[i] = i - 1
              /\ \A i \in 0 .. Got + n - 1 : data[i] = i
  <2>1. /\ \A i \in 1 .. Sent : taken[i] = i - 1
        /\ \A i \in 0 .. Got - 1 : b.data[i] = i
    BY <1>15 DEF TransferInv, b
  <2>2. from = Got
    BY <1>0, <1>4, <1>15 DEF Plain
  <2>3. ASSUME NEW i \in 0 .. Got + n - 1 PROVE data[i] = i
    <3>0. i \in 0 .. Size - 1
      BY <1>0, <1>1, <1>3
    <3>1. CASE i \in Got .. Got + n - 1
      <4>1. /\ i - Got + 1 \in 1 .. Len(stream) /\ Got + (i - Got + 1) = i + 1
            /\ i + 1 \in 1 .. Sent /\ i + 1 - 1 = i
        BY <1>0, <1>1, <1>2, <3>1
      <4>2. data[i] = stream[i - Got + 1]
        BY <1>7, <2>2, <3>0, <3>1
      <4>3. stream[i - Got + 1] = taken[Got + (i - Got + 1)]
        BY <1>1, <4>1
      <4> QED
        BY <2>1, <4>1, <4>2, <4>3
    <3>2. CASE i \notin Got .. Got + n - 1
      <4>1. i \in 0 .. Got - 1
        BY <1>0, <1>1, <3>2
      <4> QED
        BY <1>7, <2>1, <2>2, <3>0, <3>2, <4>1
    <3> QED
      BY <3>1, <3>2
  <2> QED
    BY <2>1, <2>3
<1>16. Plain' => /\ \A i \in 1 .. Sent' : taken'[i] = i - 1
                 /\ \A i \in 0 .. Got' - 1 : mem'["receiver"].data[i] = i
  <2>1. Plain' <=> Plain
    BY <1>5 DEF Plain
  <2>2. Sent' = Sent /\ Got' = Got + n /\ taken' = taken /\ mem'["receiver"].data = data
    BY <1>5, <1>9
  <2>3. ASSUME Plain PROVE \A i \in 1 .. Sent' : taken'[i] = i - 1
    BY <1>15, <2>2, <2>3
  <2>4. ASSUME Plain PROVE \A i \in 0 .. Got' - 1 : mem'["receiver"].data[i] = i
    <3>1. \A i \in 0 .. Got + n - 1 : data[i] = i
      BY <1>15, <2>4
    <3>2. Got' - 1 = Got + n - 1 /\ mem'["receiver"].data = data
      BY <1>0, <1>1, <2>2
    <3> QED
      BY <3>1, <3>2
  <2> QED
    BY <2>1, <2>3, <2>4
<1> QED
  BY <1>1, <1>5, <1>8, <1>10, <1>11, <1>12, <1>13, <1>14, <1>16 DEF TransferInv

\* The other steps move no byte, and none of them answers success.
LEMMA RestInv ==
  ASSUME TransferInv, UNCHANGED <<kind, mem, stream, taken>>,
         NEW s \in T!Sides, NEW where, where # "true", at' = [at EXCEPT ![s] = where]
  PROVE  TransferInv'
<1>1. /\ at' = [t \in T!Sides |-> at'[t]]
      /\ \A t \in T!Sides : at'[t] = "true" => at[t] = "true"
  BY DEF TransferInv
<1>2. Sent' = Sent /\ Got' = Got /\ (Plain' <=> Plain)
  BY DEF Sent, Got, Plain
<1> QED
  BY <1>1, <1>2 DEF TransferInv

LEMMA TransferStep == TransferInv /\ T!Next => TransferInv'
<1> SUFFICES ASSUME TransferInv, T!Next PROVE TransferInv'
  OBVIOUS
<1>0. "sender" \in T!Sides /\ "receiver" \in T!Sides
  BY SidesAre
<1>1. ASSUME NEW s \in T!Sides, T!WouldBlock(s) \/ T!Selected(s) \/ T!PeerGone(s) PROVE TransferInv'
  <2>1. /\ UNCHANGED <<kind, mem, stream, taken>>
        /\ \E w \in {"select", "call", "false"} : at' = [at EXCEPT ![s] = w]
    BY <1>1 DEF T!WouldBlock, T!Selected, T!PeerGone, T!Goes, T!AtRest
  <2> QED
    BY <2>1, RestInv
<1>2. ASSUME NEW s \in T!Sides, T!Interrupted(s) PROVE TransferInv'
  <2>1. /\ UNCHANGED <<kind, mem, stream, taken>>
        /\ \E w \in {"call", "false"} : at' = [at EXCEPT ![s] = w]
    BY <1>2 DEF T!Interrupted, T!Goes, T!AtRest
  <2> QED
    BY <2>1, RestInv
<1>3. CASE T!TimesOut
  <2>1. /\ UNCHANGED <<kind, mem, stream, taken>>
        /\ at' = [at EXCEPT !["receiver"] = "false"]
    BY <1>3 DEF T!TimesOut, T!Goes, T!AtRest
  <2> QED
    BY <1>0, <2>1, RestInv
<1>4. CASE T!Finished
  <2>1. UNCHANGED <<kind, mem, stream, taken, at>>
    BY <1>4 DEF T!Finished, T!vars
  <2> QED
    BY <2>1 DEF TransferInv, Sent, Got, Plain
<1> QED
  BY <1>1, <1>2, <1>3, <1>4, SendInv, ReceiveInv DEF T!Next, T!Step

\* However a message is cut, whoever is interrupted, times out or gives up: in plain memory
\* what is read is the beginning of the message, the position of each side counts what it
\* sent or read, and success is answered after all of it (cfl_socket_sendAll, receiveAll and
\* their kin over buffers), for a message and a stream of any size.
THEOREM TransfersStayExact == OneSpec => []TransferExact
<1>1. OneInit => TransferInv
  BY TransferInit DEF OneInit
<1>2. TransferInv /\ [OneNext]_allVars => TransferInv'
  <2>1. TransferInv /\ UNCHANGED socketVars => TransferInv'
    BY DEF TransferInv, socketVars, Sent, Got, Plain
  <2> QED
    BY <2>1, TransferStep DEF OneNext, allVars
<1>3. TransferInv => TransferExact
  <2> SUFFICES ASSUME TransferInv PROVE T!PlainArrives /\ T!BytesCounted
    BY DEF TransferExact
  <2>1. Sent \in Nat /\ Len(taken) = Sent /\ taken \in Seq(Nat)
    BY SidesAre DEF TransferInv, SideInv, Sent
  <2>2. T!BytesCounted
    BY <2>1, SidesAre DEF T!BytesCounted, TransferInv, SideInv, Sent, Got
  <2>3. ASSUME Plain PROVE taken = [i \in 1 .. Sent |-> i - 1]
    BY <2>1, <2>3 DEF TransferInv
  <2> QED
    BY <2>2, <2>3 DEF T!PlainArrives, Plain, TransferInv, Sent, Got
<1> QED
  BY <1>1, <1>2, <1>3, PTL DEF OneSpec
=============================================================================
