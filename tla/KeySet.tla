------------------------------- MODULE KeySet -------------------------------
(***************************************************************************)
(* What a keyed store promises: a set of keys.  add answers whether the    *)
(* key is new, delete whether it was there, and no call touches another    *)
(* key.                                                                    *)
(***************************************************************************)
CONSTANTS Keys, NoKey

VARIABLES keys, ret

Answer(op, key, yes) == [op |-> op, key |-> key, yes |-> yes]

Init == keys = {} /\ ret = Answer("none", NoKey, FALSE)

Add(k) ==
  \E yes \in BOOLEAN : /\ ret' = Answer("add", k, yes)
                       /\ yes <=> k \notin keys
                       /\ keys' = keys \cup {k}

Delete(k) ==
  \E yes \in BOOLEAN : /\ ret' = Answer("delete", k, yes)
                       /\ yes <=> k \in keys
                       /\ keys' = keys \ {k}

Clear == ret' = Answer("clear", NoKey, TRUE) /\ keys' = {}

\* Any call that only reads.
Read == ret' = Answer("none", NoKey, FALSE) /\ keys' = keys

Next == Read \/ Clear \/ \E k \in Keys : Add(k) \/ Delete(k)

Spec == Init /\ [][Next]_<<keys, ret>>
=============================================================================
