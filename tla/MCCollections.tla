---------------------------- MODULE MCCollections ----------------------------
(* The linked list, the hash table and the B-tree for model checking: the   *)
(* client works with one of them.                                           *)
EXTENDS MCStructures

VARIABLES tree, arena, astray, treeRet, treeIt, seen

treeVars == <<tree, arena, astray, treeRet, treeIt, seen>>

CONSTANTS TreeKeys, Order, LikeWidth, MaxKeys

B == INSTANCE BTree WITH Keys <- TreeKeys, ret <- treeRet, it <- treeIt

CollectionsInit ==
  /\ B!Init
  /\ \/ OneInit /\ ~arena
     \/ /\ used = "tree"
        /\ Init /\ maxNodeCache = 0
        /\ H!Init /\ \A k \in HashKeys : calc[k] = 0

CollectionsNext ==
  \/ OneNext /\ UNCHANGED treeVars
  \/ used = "tree" /\ B!Next /\ UNCHANGED <<used, listVars, tableVars>>

CollectionsSpec == CollectionsInit /\ [][CollectionsNext]_<<allVars, treeVars>>

-----------------------------------------------------------------------------
(* Properties of the B-tree                                                *)

\* cfl_btree.c: the tree is a B-tree until a fault; iterators and partial
\* searches answer as the keys say.
TreeSound == B!SoundTree /\ B!IteratorInOrder /\ B!SearchAnswersMatch

\* Adding and deleting keys in a tree is adding to and deleting from a bag.
TreeIsKeyBag == B!ImplementsKeyBag

\* cfl_btree.h:84: add answers CFL_FALSE if the key already exists.
AddRefusesExisting == B!RefusesExisting
=============================================================================
