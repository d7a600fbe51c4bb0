------------------------------ MODULE ByteFile ------------------------------
(***************************************************************************)
(* What a buffer promises: a sequence of bytes with a position, until a    *)
(* failure it does not look at (broken).                                   *)
(***************************************************************************)
EXTENDS Integers, Sequences

VARIABLES content, pos, ret, broken
vars == <<content, pos, ret, broken>>

Init == content = <<>> /\ pos = 0 /\ ret.op = "new" /\ broken = FALSE

Upto(s, n) == SubSeq(s, 1, IF n < Len(s) THEN n ELSE Len(s))
Beyond(s, n) == SubSeq(s, n + 1, Len(s))

\* A put writes its bytes, those before the one for which it found no memory,
\* over what is at the position.
Put == /\ ret'.op = "put"
       /\ content' = Upto(content, pos) \o ret'.bytes \o Beyond(content, pos + Len(ret'.bytes))
       /\ pos' = pos + Len(ret'.bytes)

\* A get answers the bytes at the position and goes behind them.
Get == /\ ret'.op = "get" /\ content' = content
       /\ ret'.bytes = SubSeq(content, pos + 1, pos')

\* Only what is not there in full is skipped.
Short == /\ ret'.op = "short" /\ content' = content
         /\ pos + ret'.asked > Len(content) /\ pos' = Len(content)

\* Of a get without memory for its answer the header does not say how far it
\* goes; it stays within the content.
Lost == ret'.op = "nomemory" /\ content' = content /\ pos <= pos' /\ pos' <= Len(content)

\* A move beyond the end appends bytes of any value.
Move == /\ ret'.op = "move"
        /\ Upto(content', Len(content)) = content
        /\ Len(content') = IF pos' > Len(content) THEN pos' ELSE Len(content)

\* A cut, or a number of bytes of any value at the end.
Resize == /\ ret'.op = "length"
          /\ \/ Upto(content', Len(content)) = content
             \/ content' = Upto(content, Len(content'))
          /\ pos' <= Len(content')

Drop == ret'.op = "compact" /\ content' = Beyond(content, pos) /\ pos' = 0

Next == broken' \/ Put \/ Get \/ Short \/ Lost \/ Move \/ Resize \/ Drop
Spec == Init /\ [][Next]_vars
=============================================================================
