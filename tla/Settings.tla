------------------------------ MODULE Settings ------------------------------
(***************************************************************************)
(* What a tree of loggers promises: a field set at a path holds at every   *)
(* path below it, whether a logger exists there yet or not, until it is    *)
(* set again at or above that path.  Nothing else changes it.              *)
(***************************************************************************)
EXTENDS Sequences, SequencesExt

CONSTANTS Paths, Default, Nothing
VARIABLES setting,    \* for each path, a record with the value of each field
          asked       \* the change being made: a path, a field and a value

Init == setting = [p \in Paths |-> Default] /\ asked = Nothing

\* The field f becomes v at p and below it.
Set(before, p, f, v) ==
  [q \in Paths |-> IF IsPrefix(p, q) THEN [before[q] EXCEPT ![f] = v] ELSE before[q]]

Ask == asked = Nothing /\ asked' # Nothing /\ setting' = setting
Do == /\ asked # Nothing /\ asked' = Nothing
      /\ setting' = Set(setting, asked.path, asked.field, asked.value)

Next == Ask \/ Do
Spec == Init /\ [][Next]_<<setting, asked>>
=============================================================================
