----------------------------- MODULE KeyStacks ------------------------------
(***************************************************************************)
(* What the maps promise: under every key a stack of values, of which the  *)
(* top one counts.  A key has more than one only after a copy that found   *)
(* it in the target.                                                       *)
(***************************************************************************)
EXTENDS Sequences

CONSTANTS Maps, Keys, Values, Nothing

VARIABLES stack,      \* the values under each key of each map
          ret         \* the last call: op, map, key, value, and the map copied from
vars == <<stack, ret>>

Init == stack = [m \in Maps |-> [k \in Keys |-> <<>>]] /\ ret.op = "new"

Put(s, k, v) == [s EXCEPT ![k] = <<v>> \o IF @ = <<>> THEN <<>> ELSE Tail(@)]

Set == /\ ret'.op = "set"
       /\ stack' = [stack EXCEPT ![ret'.map] = Put(@, ret'.key, ret'.value)]

\* The answer tells whether the key was there.
Del == /\ ret'.op = "del"
       /\ ret'.value = (stack[ret'.map][ret'.key] # <<>>)
       /\ stack' = [stack EXCEPT ![ret'.map][ret'.key] = IF @ = <<>> THEN @ ELSE Tail(@)]

Get == /\ ret'.op = "get"
       /\ LET s == stack[ret'.map][ret'.key]
          IN  ret'.value = IF s = <<>> THEN Nothing ELSE Head(s)
       /\ UNCHANGED stack

Under(k) == stack[ret'.map][k] \o stack[ret'.from][k]
Merge == ret'.op = "merge" /\ stack' = [stack EXCEPT ![ret'.map] = [k \in Keys |-> Under(k)]]
Replace == ret'.op = "replace" /\ stack' = [stack EXCEPT ![ret'.map] = stack[ret'.from]]

Next == Set \/ Del \/ Get \/ Merge \/ Replace
Spec == Init /\ [][Next]_vars
=============================================================================
