-------------------------------- MODULE Hash --------------------------------
(***************************************************************************)
(* cfl_hash.c: a chained hash table that grows, with an iterator that can  *)
(* remove.  Entries are told apart by their keys: the code allows a key    *)
(* twice, "but they shouldn't be used".  The hash function is the          *)
(* application's and may be any.  Allocations may fail.                    *)
(***************************************************************************)
EXTENDS Integers, Sequences, SequencesExt, FiniteSets

CONSTANTS Keys, NoKey,
          Primes,   \* s_primes, the table sizes
          Hashes,   \* the values of cfl_hash_calc
          Styles    \* how clients use an iterator: they remove at most "one"
                    \* entry, or "all" of them

VARIABLES calc,        \* the hash function
          primeIndex,  \* position in Primes
          table,       \* the chain of each bucket
          entryCount,
          ret,         \* the answer of the last insert or remove
          it,          \* the iterator
          fault        \* has the table been given wild memory?

vars == <<calc, primeIndex, table, entryCount, ret, it, fault>>

-----------------------------------------------------------------------------
(* Table                                                                   *)

Size == Primes[primeIndex]
LoadLimit == (65 * Size + 99) \div 100     \* ceil(0.65 * size)
IndexFor(size, k) == calc[k] % size

Empty(size) == [b \in 0 .. size - 1 |-> <<>>]
Entries == UNION {ToSet(table[b]) : b \in DOMAIN table}

Answer(op, k, yes) == [op |-> op, key |-> k, yes |-> yes]
NoAnswer == Answer("none", NoKey, FALSE)
NoIterator == [on |-> FALSE]

Init ==
  /\ calc \in [Keys -> Hashes]
  /\ primeIndex = 1
  /\ table = Empty(Primes[1])
  /\ entryCount = 0
  /\ ret = NoAnswer
  /\ it = NoIterator
  /\ fault = FALSE

\* A bug: the bucket is chosen for the size the table had.
LinkedStale(t, size, k) == [t EXCEPT ![IndexFor(Size, k)] = <<k>> \o @]

\* The entry of k heads the chain of its bucket in t.
Linked(t, size, k) == [t EXCEPT ![IndexFor(size, k)] = <<k>> \o @]

\* The entries of the first i buckets, one chain after the other.
Gathered ==
  LET all[i \in 0 .. Size] == IF i = 0 THEN <<>> ELSE all[i - 1] \o table[i - 1]
  IN  all

\* The new table after i of these entries.
Moves(size, entries) ==
  LET t[i \in 0 .. Len(entries)] == IF i = 0 THEN Empty(size) ELSE Linked(t[i - 1], size, entries[i])
  IN  t

\* Each entry goes to the head of its new chain, bucket after bucket.
Moved(size) == Moves(size, Gathered[Size])[Len(Gathered[Size])]

\* hash_expand: "moved" when a new table is allocated, "reallocated" when only
\* the old one can be enlarged, which clears memory at an address read from an
\* uninitialized element, "full" when no size or no memory is left.
Expand(outcome) ==
  \/ outcome = "full" /\ UNCHANGED <<primeIndex, fault>>
  \/ /\ outcome # "full" /\ primeIndex < Len(Primes)
     /\ primeIndex' = primeIndex + 1
     /\ fault' = (outcome = "reallocated")

\* The count is raised first; it comes down again if the entry cannot be
\* allocated, the larger table stays.
Insert(k, outcome, allocated) ==
  /\ ~it.on /\ k \notin Entries
  /\ IF entryCount + 1 > LoadLimit THEN Expand(outcome)
     ELSE outcome = "full" /\ UNCHANGED <<primeIndex, fault>>
  /\ LET grown == IF outcome = "moved" THEN Moved(Primes[primeIndex']) ELSE table
     IN  /\ table' = IF allocated /\ ~fault' THEN Linked(grown, Primes[primeIndex'], k) ELSE grown
         /\ entryCount' = IF allocated THEN entryCount + 1 ELSE entryCount
         /\ ret' = IF allocated THEN Answer("add", k, TRUE) ELSE NoAnswer
  /\ UNCHANGED <<calc, it>>

\* The place of e in a chain.
At(s, e) == CHOOSE j \in DOMAIN s : s[j] = e

\* Entries are compared only in the bucket of the key and with the same hash.
Search(k) == \E i \in DOMAIN table[IndexFor(Size, k)] : table[IndexFor(Size, k)][i] = k

RemoveKey(k) ==
  /\ ~it.on
  /\ IF Search(k)
     THEN /\ table' = [table EXCEPT ![IndexFor(Size, k)] = RemoveAt(@, At(@, k))]
          /\ entryCount' = entryCount - 1
     ELSE UNCHANGED <<table, entryCount>>
  /\ ret' = Answer("delete", k, Search(k))
  /\ UNCHANGED <<calc, primeIndex, it, fault>>

Clear ==
  /\ ~it.on
  /\ table' = Empty(Size)
  /\ entryCount' = 0
  /\ ret' = Answer("clear", NoKey, TRUE)
  /\ UNCHANGED <<calc, primeIndex, it, fault>>

-----------------------------------------------------------------------------
(* Iterator                                                                *)

\* e->next
Successor(e) ==
  LET b == CHOOSE c \in DOMAIN table : e \in ToSet(table[c])
      i == At(table[b], e)
  IN  IF i < Len(table[b]) THEN table[b][i + 1] ELSE NoKey

\* findNextEntry: the three entries move up by one; the next one follows in the
\* chain, or heads the first chain from index on.
FindNextEntry(i) ==
  LET follows == IF i.next = NoKey THEN NoKey ELSE Successor(i.next)
      filled == {b \in i.index .. Size - 1 : table[b] # <<>>}
      b == CHOOSE c \in filled : \A d \in filled : c <= d
      moved == [i EXCEPT !.last = i.curr, !.lastIndex = i.currIndex,
                         !.curr = i.next, !.currIndex = i.nextIndex]
  IN  IF follows # NoKey THEN [moved EXCEPT !.next = follows]
      ELSE IF filled # {} THEN [moved EXCEPT !.next = table[b][1], !.nextIndex = b, !.index = b + 1]
      ELSE [moved EXCEPT !.next = NoKey, !.index = Size,
                         !.nextIndex = IF i.index < Size THEN Size - 1 ELSE @]

\* A new iterator, or one set to the first entry.  style, seen and start are
\* not in the code: how the client uses it, the entries it has been given and
\* those there were.
IteratorFirst(style) ==
  /\ it' = FindNextEntry([on |-> TRUE, last |-> NoKey, curr |-> NoKey, next |-> NoKey,
                          lastIndex |-> 0, currIndex |-> 0, nextIndex |-> 0, index |-> 0,
                          style |-> style, seen |-> <<>>, removed |-> {}, start |-> Entries])
  /\ ret' = NoAnswer
  /\ UNCHANGED <<calc, primeIndex, table, entryCount, fault>>

\* Clients ask hasNext first.
IteratorNext ==
  /\ it.on /\ it.next # NoKey
  /\ it' = LET i == FindNextEntry(it) IN [i EXCEPT !.seen = Append(@, i.curr)]
  /\ ret' = NoAnswer
  /\ UNCHANGED <<calc, primeIndex, table, entryCount, fault>>

\* A bug: the entry before is not looked at.
UnlinkedFromHead ==
  [table EXCEPT ![it.currIndex] =
     SubSeq(@, At(@, it.curr) + 1, Len(@))]

\* The entry goes by way of the one before, if that is known and in the same
\* bucket; otherwise it is taken for the head of the chain.
Unlinked ==
  [table EXCEPT ![it.currIndex] =
     LET rest == SubSeq(@, At(@, it.curr) + 1, Len(@))
     IN  IF it.lastIndex = it.currIndex /\ it.last # NoKey
         THEN SubSeq(@, 1, At(@, it.last)) \o rest ELSE rest]

IteratorRemove ==
  /\ it.on /\ it.curr # NoKey
  /\ table' = Unlinked
  /\ entryCount' = entryCount - 1
  /\ it' = [it EXCEPT !.curr = NoKey, !.currIndex = 0, !.removed = @ \cup {it.curr}]
  /\ ret' = Answer("delete", it.curr, TRUE)
  /\ UNCHANGED <<calc, primeIndex, fault>>

IteratorFree ==
  /\ it.on
  /\ it' = NoIterator /\ ret' = NoAnswer
  /\ UNCHANGED <<calc, primeIndex, table, entryCount, fault>>

-----------------------------------------------------------------------------
(* Specification                                                           *)

\* A bound on clients, not in the code: with an iterator they remove one entry,
\* or each before they ask for the next.  Two removals with an entry kept between
\* them in one chain, which line 418 is not up to, do not happen.
MayRemove == it.on /\ (it.style = "one" => it.removed = {})
MayGoOn == it.on /\ (it.style = "all" => ToSet(it.seen) = it.removed)

\* The table changes under no other iterator; nothing follows a fault.
Next ==
  /\ ~fault
  /\ \/ \E k \in Keys, outcome \in {"moved", "reallocated", "full"}, allocated \in BOOLEAN :
          Insert(k, outcome, allocated)
     \/ \E k \in Keys : RemoveKey(k)
     \/ Clear
     \/ \E style \in Styles : IteratorFirst(style)
     \/ MayGoOn /\ IteratorNext
     \/ MayRemove /\ IteratorRemove
     \/ IteratorFree

Spec == Init /\ [][Next]_vars

-----------------------------------------------------------------------------
(* Properties                                                              *)

\* Whatever fails or grows, every entry is in one chain, once, where a search
\* for it looks, and the count is that of the entries.
SoundTable ==
  ~fault =>
    /\ \A b \in DOMAIN table : /\ IsInjective(table[b])
                              /\ \A k \in ToSet(table[b]) : IndexFor(Size, k) = b
    /\ entryCount = Cardinality(Entries)

\* Insert, remove, clear and the iterator's remove are those of a set of keys.
Abstract == INSTANCE KeySet WITH keys <- Entries
ImplementsKeySet == [][~fault' => Abstract!Next]_vars

\* The iterator gives each entry there was once, also while it removes.
IteratorVisitsAll ==
  it.on => /\ IsInjective(it.seen)
           /\ ToSet(it.seen) \subseteq it.start
           /\ it.next = NoKey => ToSet(it.seen) = it.start
=============================================================================
