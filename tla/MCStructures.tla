---------------------------- MODULE MCStructures ----------------------------
(* The linked list and the hash table for model checking: the client works *)
(* with one of them, the other stays as it was made.                       *)
EXTENDS LList

VARIABLES used,                                                  \* the one
          calc, primeIndex, table, entryCount, hashRet, hashIt, fault

listVars == vars
tableVars == <<calc, primeIndex, table, entryCount, hashRet, hashIt, fault>>
allVars == <<used, listVars, tableVars>>

CONSTANTS HashKeys, NoKey, Primes, Hashes

ASSUME TableAssumption ==
  /\ NoKey \notin HashKeys
  /\ Primes \in Seq(Nat \ {0}) /\ Primes # <<>> /\ Hashes \subseteq Nat

\* Clients remove one entry with an iterator, or all.
H == INSTANCE Hash WITH Keys <- HashKeys, Styles <- {"one", "all"}, ret <- hashRet, it <- hashIt

OneInit ==
  /\ used \in {"list", "table"}
  /\ Init /\ (used # "list" => maxNodeCache = 0)
  /\ H!Init /\ (used # "table" => \A k \in HashKeys : calc[k] = 0)

OneNext ==
  \/ used = "list" /\ Next /\ UNCHANGED <<used, tableVars>>
  \/ used = "table" /\ H!Next /\ UNCHANGED <<used, listVars>>

OneSpec == OneInit /\ [][OneNext]_allVars

-----------------------------------------------------------------------------
(* For model checking: a table of one or two entries grows                 *)

SomeCaches == 0 .. 4
SomePrimes == <<2, 3, 5>>

-----------------------------------------------------------------------------
(* Properties: those of the two modules                                    *)

\* cfl_llist.c: the chain is linked in both directions, holds every node, and
\* keeps within its limit.
ListSound == TypeOK /\ ChainWellLinked /\ ListInsideChain /\ CacheWithinLimit

\* The list is a deque, and frees no node the cache has room for.
ListIsDeque == FreesOnlyExcess /\ ImplementsDeque

\* cfl_hash.c: every entry is in the chain of its bucket, counted once, and
\* an iterator gives each entry once while entries are removed.
TableSound == H!SoundTable /\ H!IteratorVisitsAll

\* Whatever fails or grows, the table is a set of keys.
TableIsKeySet == H!ImplementsKeySet
=============================================================================
