------------------------------ MODULE MCBytes -------------------------------
(* The buffer, the transfers over a socket that use it, and the bitmap, for *)
(* model checking: the client works with one of them, the others stay as    *)
(* they were made.                                                          *)
EXTENDS Buffer

CONSTANTS Size, Room, MaxSignals, Kinds, Modes,     \* of the transfer
          Width, Sizes                              \* of the bitmap

ASSUME BytesAssumption ==
  /\ Size \in Nat \ {0} /\ Room \in Nat \ {0} /\ MaxSignals \in Nat
  /\ Width \in Nat \ {0} /\ Sizes \subseteq Nat

VARIABLES used,                                                  \* the one
          kind, mode, mem, at, stream, taken, signals,
          map, asked

bufferVars == vars
socketVars == <<kind, mode, mem, at, stream, taken, signals>>
bitmapVars == <<map, asked>>
allVars == <<used, bufferVars, socketVars, bitmapVars>>

T == INSTANCE Transfer
B == INSTANCE Bitmap

OneInit ==
  /\ used \in {"buffer", "socket", "bitmap"}
  /\ Init
  /\ T!Init /\ (used # "socket" => \A s \in T!Sides : kind[s] = "plain" /\ mode[s] = "blocking")
  /\ B!Init /\ (used # "bitmap" => \A b \in 1 .. 2 : DOMAIN map[b] = {0})

OneNext ==
  \/ used = "buffer" /\ Next /\ UNCHANGED <<used, socketVars, bitmapVars>>
  \/ used = "socket" /\ T!Next /\ UNCHANGED <<used, bufferVars, bitmapVars>>
  \/ used = "bitmap" /\ B!Next /\ UNCHANGED <<used, bufferVars, socketVars>>

\* The system lets both sides of a transfer go on.
OneSpec ==
  OneInit /\ [][OneNext]_allVars
  /\ \A s \in T!Sides :
       WF_allVars(used = "socket" /\ T!Step(s) /\ UNCHANGED <<used, bufferVars, bitmapVars>>)

-----------------------------------------------------------------------------
(* Properties: SoundSizes and ImplementsFile of the buffer, and            *)

\* cfl_socket.c: plain bytes arrive in order, each once, and the position of
\* each side counts what it sent or read.
TransferExact == T!PlainArrives /\ T!BytesCounted

\* Both sides of a transfer come back.
BothReturn == used = "socket" ~> (\A s \in T!Sides : at[s] \in T!Back)

\* cfl_bitmap.c: a bitmap is a set of numbers.
BitmapsAreSets == B!BitmapsAreSets
=============================================================================
