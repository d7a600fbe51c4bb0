------------------------------ MODULE MCValues ------------------------------
(* The string, the number, the array and the list, and the maps, for model *)
(* checking: the client works with one of them, the others stay as they    *)
(* were made.                                                              *)
EXTENDS Integers, Sequences

VARIABLES used,                                                  \* the one
          str, call, stale, lost, fault,
          x, y, was, op,
          kind, vec, vecRet, index, steady, seen,
          mapKind, entries, mapRet

strVars == <<str, call, stale, lost, fault>>
numberVars == <<x, y, was, op>>
vectorVars == <<kind, vec, vecRet, index, steady, seen>>
mapVars == <<mapKind, entries, mapRet>>
allVars == <<used, strVars, numberVars, vectorVars, mapVars>>

CONSTANTS Null, Junk, Items, Maps, Keys, Values,
          Given, MostCharacters,    \* of the strings
          Capacities, MostItems,    \* of the array and the list
          MostEntries               \* of a map

S == INSTANCE Str WITH MaxLength <- MostCharacters, NoHash <- Null

\* Empty, one letter, a blank before a letter; blanks behind come with setLength.
GivenTexts == {<<>>, <<3>>, <<1, 2>>}

ASSUME ValuesAssumption ==
  /\ Given \subseteq Seq(S!Characters) /\ MostCharacters \in Nat
  /\ Capacities \subseteq Nat /\ MostItems \in Nat /\ MostEntries \in Nat

\* Words of four bits and digits to the base 3: every operation carries
\* between words, and a scale of two takes a block of digits.
N == INSTANCE Number WITH W <- 4, Ten <- 3, BlockDigits <- 2, MaxInt <- 5, MaxSize <- 6, MaxScale <- 2

V == INSTANCE Vector WITH MaxLength <- MostItems, ret <- vecRet

M == INSTANCE Map WITH Nothing <- Null, MaxEntries <- MostEntries, kind <- mapKind, ret <- mapRet

OneInit ==
  /\ used \in {"string", "number", "vector", "map"}
  /\ S!Init /\ N!Init
  /\ V!Init /\ (used # "vector" => kind = "array" /\ vec.capacity = 0)
  /\ M!Init /\ (used # "map" => mapKind = "map")

OneNext ==
  \/ used = "string" /\ S!Next /\ UNCHANGED <<used, numberVars, vectorVars, mapVars>>
  \/ used = "number" /\ N!Next /\ UNCHANGED <<used, strVars, vectorVars, mapVars>>
  \/ used = "vector" /\ V!Next /\ UNCHANGED <<used, strVars, numberVars, mapVars>>
  \/ used = "map" /\ M!Next /\ UNCHANGED <<used, strVars, numberVars, vectorVars>>

OneSpec == OneInit /\ [][OneNext]_allVars

-----------------------------------------------------------------------------
(* Properties: those of the modules                                        *)

\* cfl_str.c: the text and its zero lie in the block, with one exception; a kept
\* hash is that of the text, but for two calls; and equals, compare, startsWith
\* and indexOf agree on all texts.
TextSound == S!TextInBlock /\ S!HashOfText /\ S!SearchesAgree

\* A string is a text to its clients, whatever block or constant it shows, up to
\* the faults that Texts names.
StringIsText == S!ImplementsTexts

\* cfl_number.c: sums, differences and products are exact, texts keep the number,
\* and quotients are right where the divisor moves by whole words.
NumbersRight ==
  N!ArithmeticExact /\ N!TextsKeep /\ N!QuotientRightWhenAligned

\* cfl_array.c and cfl_list.c: the items in use lie in the block, and a walk
\* over an array that stays as it is meets them all.
VectorSound == V!InsideBlock /\ V!WalkMeetsAll

\* An array and a list are sequences to their clients; what setLength does to an
\* array without a block is left open.
VectorIsSequence == V!ImplementsSequence

\* cfl_map.c and cfl_map_str.c: every key keeps its values in their order.
MapIsKeyStacks == M!ImplementsKeyStacks
=============================================================================
