------------------------------- MODULE KeyBag -------------------------------
(***************************************************************************)
(* What the B-tree does with keys that may be stored more than once: a bag *)
(* of keys.  add answers CFL_FALSE only of a key that is there, and stores *)
(* one more otherwise; cfl_btree.h:84 promises more, that a key which is   *)
(* there is never stored again.  delete takes one copy out, and answers    *)
(* NULL exactly when there is none.  Which key's pointer it returns is     *)
(* left open, beyond that the key was stored: by cfl_btree.h:92 it is the  *)
(* deleted one.                                                            *)
(***************************************************************************)
EXTENDS Bags, BagsExt

CONSTANTS Keys, NoKey

VARIABLES keys, ret

Answer(op, key, yes, got) == [op |-> op, key |-> key, yes |-> yes, got |-> got]

Init == keys = EmptyBag /\ ret = Answer("none", NoKey, FALSE, NoKey)

Add(k) ==
  \/ ret' = Answer("add", k, TRUE, NoKey) /\ keys' = BagAdd(keys, k)
  \/ ret' = Answer("add", k, FALSE, NoKey) /\ BagIn(k, keys) /\ UNCHANGED keys

Delete(k) ==
  \/ ret' = Answer("delete", k, FALSE, NoKey) /\ ~BagIn(k, keys) /\ UNCHANGED keys
  \/ \E got \in Keys : /\ ret' = Answer("delete", k, TRUE, got)
                       /\ BagIn(k, keys) /\ BagIn(got, keys) /\ keys' = BagRemove(keys, k)

\* Any call that only reads.
Read == ret' = Answer("none", NoKey, FALSE, NoKey) /\ UNCHANGED keys

Next == Read \/ \E k \in Keys : Add(k) \/ Delete(k)

Spec == Init /\ [][Next]_<<keys, ret>>
=============================================================================
