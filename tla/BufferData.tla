----------------------------- MODULE BufferData -----------------------------
(***************************************************************************)
(* cfl_buffer.c: the record of a buffer and what its functions make of it. *)
(* Bytes are abstract; a fixed size value is a sequence of them.           *)
(***************************************************************************)
EXTENDS Integers, Sequences

CONSTANTS Junk,       \* a byte nobody has written
          MaxUInt     \* the largest CFL_UINT32, also the bound on what is asked for

Buf(data, capacity, length, position) ==
  [data |-> data, capacity |-> capacity, length |-> length, position |-> position]

\* A bug: the block is allocated anew and nothing is copied.
ResizedFresh(b, n) == Buf([i \in 0 .. n - 1 |-> Junk], n, b.length, b.position)

\* realloc: the bytes that were there stay.
Resized(b, n) ==
  Buf([i \in 0 .. n - 1 |-> IF i < b.capacity THEN b.data[i] ELSE Junk], n, b.length, b.position)

\* A sum of two CFL_UINT32 is one again.
Wrapped(sum) == IF sum <= MaxUInt THEN sum ELSE sum - (MaxUInt + 1)

\* What a function leaves: its answer, and whether a sum it made was too large
\* for a CFL_UINT32.
Answer(ok, wraps, b) == [ok |-> ok, wraps |-> wraps, buf |-> b]

\* ensureCapacity refuses a capacity that would overflow, but what it is asked
\* for is a sum its callers made, which has overflowed before.
Ensured(b, sum, allocated) ==
  LET min == Wrapped(sum)
  IN  IF min <= b.capacity THEN Answer(TRUE, sum > MaxUInt, b)
      ELSE IF min > MaxUInt - b.capacity \div 2 - 1 \/ ~allocated
      THEN Answer(FALSE, sum > MaxUInt, b)
      ELSE Answer(TRUE, sum > MaxUInt, Resized(b, b.capacity \div 2 + 1 + min))

\* The bytes are written at the position, inside the block or not, and the
\* position goes to their end.
Overwritten(b, bytes) ==
  LET written == b.position .. b.position + Len(bytes) - 1
      end == Wrapped(b.position + Len(bytes))
  IN  Buf([i \in DOMAIN b.data \cup written |->
             IF i \in written THEN bytes[i - b.position + 1] ELSE b.data[i]],
          b.capacity, IF end > b.length THEN end ELSE b.length, end)

Stored(b, sum, bytes, allocated) ==
  LET e == Ensured(b, sum, allocated)
  IN  IF e.ok THEN Answer(TRUE, e.wraps, Overwritten(e.buf, bytes)) ELSE e

\* PUT_BUFFER asks for room after the length, though it writes at the position.
PutFixed(b, bytes, allocated) == Stored(b, b.length + Len(bytes), bytes, allocated)

\* What follows a put is left out if the put failed.
Then(s, t) == IF s.ok THEN Answer(t.ok, s.wraps \/ t.wraps, t.buf) ELSE s
AndPut(s, bytes, allocated) == Then(s, PutFixed(s.buf, bytes, allocated))

Remaining(b) == IF b.length > b.position THEN b.length - b.position ELSE 0
At(b, n) == [i \in 1 .. n |-> b.data[b.position + i - 1]]

\* setPosition, and skip forward: the length goes along, with or without room.
Moved(b, position, allocated) ==
  IF position <= b.length
  THEN Answer(TRUE, FALSE, Buf(b.data, b.capacity, b.length, position))
  ELSE Ensured(Buf(b.data, b.capacity, position, position), position, allocated)
=============================================================================
