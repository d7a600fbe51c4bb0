------------------------------- MODULE Buffer -------------------------------
(***************************************************************************)
(* cfl_buffer.c: a block of memory with a length and a position, which     *)
(* grows as values are put in it.  A text is its length, of two bytes, and *)
(* its bytes.  Any allocation may fail, and sums may be too large for a    *)
(* CFL_UINT32.                                                             *)
(***************************************************************************)
EXTENDS BufferData

CONSTANTS Bytes,      \* what clients put
          MaxPut,     \* bound on the bytes of one value or text
          FirstCapacities

ASSUME SizesAssumption ==
  /\ MaxUInt \in Nat /\ MaxPut \in 0 .. MaxUInt
  /\ FirstCapacities \subseteq 1 .. MaxUInt

VARIABLES buf,     \* data, capacity, length and position
          ret,     \* what the last operation did: its name, its bytes, its answer
          fault    \* did the code go on after a failure it does not look at, a
                   \* sum too large for a CFL_UINT32, or a copy that overlaps?

vars == <<buf, ret, fault>>

-----------------------------------------------------------------------------
(* Operations                                                              *)

Values == UNION {[1 .. n -> Bytes] : n \in 0 .. MaxPut}
Ret(op, bytes, ok) == [op |-> op, bytes |-> bytes, ok |-> ok]

Init ==
  /\ \E c \in FirstCapacities : buf = Buf([i \in 0 .. c - 1 |-> Junk], c, 0, 0)
  /\ ret = Ret("new", <<>>, TRUE)
  /\ fault = FALSE

Into(op, bytes, s) == buf' = s.buf /\ ret' = Ret(op, bytes, s.ok) /\ fault' = s.wraps
Becomes(op, b) == buf' = b /\ ret' = Ret(op, <<>>, TRUE) /\ UNCHANGED fault

\* cfl_buffer_putInt8 to putDouble.
PutValue(v, allocated) ==
  /\ Len(v) > 0
  /\ LET s == PutFixed(buf, v, allocated) IN Into("put", IF s.ok THEN v ELSE <<>>, s)

\* cfl_buffer_put, and putBuffer with the bytes that remain in the other one.
PutBytes(v, allocated) ==
  LET s == Stored(buf, buf.position + Len(v), v, allocated)
  IN  Into("put", IF s.ok THEN v ELSE <<>>, s)

\* The length of a text, of fewer than 256 bytes.
LengthField(n) == <<n, 0>>

\* A text goes in as two puts, its length and its bytes, of which the one
\* numbered fails finds no memory; when the second fails the first stays.
TwoPuts(v, extra, fails) ==
  LET len == LengthField(Len(v))
      first == PutFixed(buf, len, fails # 1)
      second == Stored(first.buf, first.buf.position + Len(v) + extra, v, fails # 2)
      both == IF Len(v) > 0 THEN Then(first, second) ELSE first
  IN  Into("put", IF both.ok THEN len \o v ELSE IF first.ok THEN len ELSE <<>>, both)

\* putString, putStringLen, putCharArray and putCharArrayLen.
PutText(v, fails) == TwoPuts(v, 0, fails)

\* A byte more, for the zero that vsnprintf adds and the function takes back.
PutFormat(v, fails) == TwoPuts(v, 1, fails)

\* Year, month and day, one after the other.
PutDate(y, m, d, fails) ==
  LET one == PutFixed(buf, y, fails # 1)
      two == AndPut(one, m, fails # 2)
      three == AndPut(two, d, fails # 3)
  IN  Into("put", IF three.ok THEN y \o m \o d ELSE IF two.ok THEN y \o m
                  ELSE IF one.ok THEN y ELSE <<>>, three)

\* What a read leaves and answers.  A value that is not there in full is
\* skipped, and so is what is left of it.
ReadTo(p) == buf' = Buf(buf.data, buf.capacity, buf.length, p) /\ UNCHANGED fault
Answers(n) == ReadTo(buf.position + n) /\ ret' = Ret("get", At(buf, n), TRUE)
RunsShort(n) == ReadTo(buf.length) /\ ret' = [op |-> "short", asked |-> n]
NoMemory(p) == ReadTo(p) /\ ret' = Ret("nomemory", <<>>, FALSE)

\* Nothing wraps here: sizeof makes the sum a size_t.
GetValue(n) == IF buf.position + n <= buf.length THEN Answers(n) ELSE RunsShort(n)

\* Clients ask haveEnough before cfl_buffer_get and copy, which do not test.
GetBytes(n, allocated) ==
  /\ buf.length > buf.position /\ n <= buf.length - buf.position
  /\ IF allocated THEN Answers(n) ELSE NoMemory(buf.position)

\* The length of the text ahead: any number where no text was put.
Field == 2
FieldThere == buf.position + Field <= buf.length
FieldEnd == IF FieldThere THEN buf.position + Field ELSE buf.length
TextLengths ==
  IF ~FieldThere THEN {0}
  ELSE IF buf.data[buf.position] \in Nat /\ buf.data[buf.position + 1] = 0
  THEN {buf.data[buf.position]} ELSE 0 .. MaxUInt

\* As much of the text as is there, and at most so many bytes.
TextEnd(n, most) ==
  FieldEnd + (IF n <= most /\ n <= buf.length - FieldEnd THEN n
              ELSE IF most <= buf.length - FieldEnd THEN most ELSE buf.length - FieldEnd)

ReadText(most) ==
  \E n \in TextLengths :
    IF FieldThere THEN Answers(TextEnd(n, most) - buf.position) ELSE RunsShort(Field)

\* copyStringLen and copyCharArrayLen, which leave the rest unread.
CopyText(most) == ReadText(most)

\* getString, copyString, getCharArray and copyCharArray.  Without memory
\* getCharArray stops after the length and getString after the text; for the
\* zero at the end getCharArray asks for a byte more, a sum that may wrap.
GetText(allocated) ==
  \/ allocated /\ ReadText(MaxUInt)
  \/ ~allocated /\ \E n \in TextLengths : NoMemory(FieldEnd) \/ NoMemory(TextEnd(n, MaxUInt))
  \/ /\ allocated /\ MaxUInt \in TextLengths
     /\ buf' = Buf(buf.data, buf.capacity, buf.length, buf.length)
     /\ ret' = Ret("get", At(buf, Remaining(buf)), TRUE)
     /\ fault' = TRUE

\* Of a date that is not there in full nothing is left.
GetDate == GetValue(4)

SetLength(n, allocated) ==
  LET e == Ensured(buf, n, allocated)
      position == IF buf.position > n THEN n ELSE buf.position
  IN  Into("length", <<>>,
           IF e.ok THEN Answer(TRUE, e.wraps, Buf(e.buf.data, e.buf.capacity, n, position)) ELSE e)

\* A failure to grow is not noticed: the length is then beyond the memory.
GoTo(n, wraps, allocated) ==
  LET s == Moved(buf, n, allocated)
  IN  buf' = s.buf /\ ret' = Ret("move", <<>>, TRUE) /\ fault' = (wraps \/ ~s.ok)

SetPosition(n, allocated) == GoTo(n, FALSE, allocated)

Skip(n, allocated) ==
  IF n < 0 THEN Becomes("move", Buf(buf.data, buf.capacity, buf.length,
                                    IF -n > buf.position THEN 0 ELSE buf.position + n))
  ELSE GoTo(Wrapped(buf.position + n), buf.position + n > MaxUInt, allocated)

Rewind == Becomes("move", Buf(buf.data, buf.capacity, buf.length, 0))
Flip == Becomes("length", Buf(buf.data, buf.capacity, buf.position, 0))
Reset == Becomes("length", Buf(buf.data, buf.capacity, 0, 0))

\* memcpy between areas that overlap may garble them.
Compact ==
  LET n == Remaining(buf)
  IN  /\ buf' = IF buf.position = 0 THEN buf
                ELSE Buf([i \in 0 .. buf.capacity - 1 |->
                            IF i < n THEN buf.data[buf.position + i] ELSE buf.data[i]],
                         buf.capacity, n, 0)
      /\ fault' \in IF buf.position > 0 /\ n > buf.position THEN BOOLEAN ELSE {FALSE}
      /\ ret' = Ret("compact", <<>>, TRUE)

\* A bug: the position stays where it was.
CutLengthOnly(b, n) == [b EXCEPT !.length = IF @ > n THEN n ELSE @]

Cut(b, n) == Buf(b.data, b.capacity, IF b.length > n THEN n ELSE b.length,
                                     IF b.position > n THEN n ELSE b.position)

\* When a smaller block cannot be had, the pointer to the old one is lost.
SetCapacity(n, allocated) ==
  IF n = 0 THEN Into("length", <<>>, Answer(FALSE, FALSE, buf))
  ELSE IF n > buf.capacity THEN Into("length", <<>>, Ensured(buf, n, allocated))
  ELSE /\ buf' = IF allocated THEN Cut(Resized(buf, n), n) ELSE buf
       /\ ret' = Ret("length", <<>>, allocated)
       /\ fault' = ~allocated

\* The client goes on with a copy.
Clone ==
  Becomes("move", Cut(Resized(buf, IF buf.length > 0 THEN buf.length ELSE buf.capacity), buf.length))

\* Another record takes over the block, and the client goes on with it.
MoveTo == Becomes("move", buf)

Next ==
  /\ ~fault
  /\ \/ \E v \in Values, fails \in 0 .. 2 : PutText(v, fails) \/ PutFormat(v, fails)
     \/ \E y \in [1 .. 2 -> Bytes], m \in [1 .. 1 -> Bytes], fails \in 0 .. 3 : PutDate(y, m, m, fails)
     \/ \E a \in BOOLEAN :
          \/ \E v \in Values : PutValue(v, a) \/ PutBytes(v, a)
          \/ \E n \in 0 .. MaxUInt : SetLength(n, a) \/ SetPosition(n, a) \/ SetCapacity(n, a)
          \/ \E n \in -MaxPut .. MaxPut : Skip(n, a)
          \/ \E n \in 1 .. MaxPut : GetBytes(n, a)
          \/ GetText(a)
     \/ \E n \in 1 .. MaxPut : GetValue(n) \/ CopyText(n)
     \/ GetDate \/ Rewind \/ Flip \/ Reset \/ Compact \/ Clone \/ MoveTo

Spec == Init /\ [][Next]_vars

-----------------------------------------------------------------------------
(* Properties                                                              *)

\* Until a sum is too large for a CFL_UINT32 or a failure goes unseen, position,
\* length and capacity keep their order, so that a put, which asks for room
\* after the length and writes at the position (PUT_BUFFER), and every read stay
\* inside the block.
SoundSizes ==
  ~fault => /\ 0 <= buf.position /\ buf.position <= buf.length /\ buf.length <= buf.capacity
            /\ buf.capacity <= MaxUInt /\ DOMAIN buf.data = 0 .. buf.capacity - 1

Contents == [i \in 1 .. buf.length |-> buf.data[i - 1]]
Promise == INSTANCE ByteFile WITH content <- IF fault THEN <<>> ELSE Contents, pos <- buf.position,
                                  broken <- fault

\* Up to the same point a buffer is a file in memory, through growth, shrinking
\* and failed allocations: no byte below the length changes unless it is written
\* (ensureCapacity, PUT_BUFFER, GET_BUFFER).
ImplementsFile == Promise!Spec
=============================================================================
