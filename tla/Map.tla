-------------------------------- MODULE Map ---------------------------------
(***************************************************************************)
(* cfl_map.c and cfl_map_str.c: an array of entries, searched from its     *)
(* start.  The entries of a string map own copies of key and value; those  *)
(* of the other one hold what the client gave, and a function of the       *)
(* client's frees it.  Clients do not copy a map to itself, and do not     *)
(* change the key or the value of an entry behind the map's back.          *)
(***************************************************************************)
EXTENDS Integers, SequencesExt

CONSTANTS Maps, Keys, Values, Nothing,
          MaxEntries       \* bound on the entries of a map

VARIABLES kind,       \* "map" or "mapstr"
          entries,    \* of each map: its array, as cfl_array.c keeps it
          ret

vars == <<kind, entries, ret>>

Entry(k, v) == [key |-> k, value |-> v]
Ret(op, map, key, value, from) == [op |-> op, map |-> map, key |-> key, value |-> value, from |-> from]

Init == /\ kind \in {"map", "mapstr"}
        /\ entries = [m \in Maps |-> <<>>]
        /\ ret = Ret("new", Nothing, Nothing, Nothing, Nothing)

-----------------------------------------------------------------------------
(* Operations                                                              *)

\* The loop every function begins with; beyond the last entry if none has the key.
Position(s, k) == SelectInSeq(s, LAMBDA e : e.key = k)
Answered(op, m, k, value) == ret' = Ret(op, m, k, value, Nothing) /\ UNCHANGED kind

\* A bug: the search ends one entry too early.
SetSearchShort(s, k, v) ==
  LET i == Position(s, k)
  IN  IF i \in 1 .. Len(s) - 1 THEN [s EXCEPT ![i] = Entry(k, v)] ELSE Append(s, Entry(k, v))

Put(s, k, v) ==
  LET i == Position(s, k)
  IN  IF i > 0 THEN [s EXCEPT ![i] = Entry(k, v)] ELSE Append(s, Entry(k, v))

\* cfl_map_set; cfl_mapstr_set, setStr and setFormat.
Set(m, k, v) ==
  /\ Len(Put(entries[m], k, v)) <= MaxEntries
  /\ entries' = [entries EXCEPT ![m] = Put(@, k, v)]
  /\ Answered("set", m, k, v)

Without(s, k) == LET i == Position(s, k) IN IF i > 0 THEN RemoveAt(s, i) ELSE s

\* The client's function is handed the key twice, where free hands it the value.
Del(m, k) ==
  /\ entries' = [entries EXCEPT ![m] = Without(@, k)]
  /\ Answered("del", m, k, Position(entries[m], k) > 0)

Found(s, k) == LET i == Position(s, k) IN IF i > 0 THEN s[i].value ELSE Nothing

\* cfl_map_get; cfl_mapstr_getStr, get and getDefault.
Get(m, k) == Answered("get", m, k, Found(entries[m], k)) /\ UNCHANGED entries

\* getIndex and, in a string map, getKeyIndex and getEntry give the client the
\* entries one by one, with which it looks up each key.
GetIndex(m, i) ==
  /\ i < Len(entries[m])
  /\ Get(m, entries[m][i + 1].key)

\* cfl_map_copy empties the target first.
CopyMap(to, from) ==
  /\ kind = "map"
  /\ entries' = [entries EXCEPT ![to] = entries[from]]
  /\ ret' = Ret("replace", to, Nothing, Nothing, from)
  /\ UNCHANGED kind

\* cfl_mapstr_copy adds every entry without a look for its key.
CopyStrings(to, from) ==
  /\ kind = "mapstr" /\ Len(entries[to]) + Len(entries[from]) <= MaxEntries
  /\ entries' = [entries EXCEPT ![to] = @ \o entries[from]]
  /\ ret' = Ret("merge", to, Nothing, Nothing, from)
  /\ UNCHANGED kind

Next ==
  \E m \in Maps :
    \/ \E k \in Keys : Del(m, k) \/ Get(m, k) \/ \E v \in Values : Set(m, k, v)
    \/ \E i \in 0 .. MaxEntries - 1 : GetIndex(m, i)
    \/ \E from \in Maps \ {m} : CopyMap(m, from) \/ CopyStrings(m, from)

Spec == Init /\ [][Next]_vars

-----------------------------------------------------------------------------
(* Properties                                                              *)

\* The values that the first entries hold under a key, in the order of the entries.
Gathered(s, k) ==
  LET of[i \in 0 .. Len(s)] == IF i = 0 THEN <<>>
                               ELSE of[i - 1] \o IF s[i].key = k THEN <<s[i].value>> ELSE <<>>
  IN  of

Under(s, k) == Gathered(s, k)[Len(s)]

Promise == INSTANCE KeyStacks WITH
             stack <- [m \in Maps |-> [k \in Keys |-> Under(entries[m], k)]]

\* Deletions move the entries and copies add to them, and yet every key keeps
\* its values in their order; where copies replace, it has one at most.
ImplementsKeyStacks == Promise!Spec
=============================================================================
