# A TLA+ model of the CFL library

CFL is a C library of data structures and wrappers: strings, buffers, lists,
hash tables, a B-tree, numbers and dates on one side; threads, locks, events,
thread variables, a blocking queue, a logger and sockets on the other. This
project states what its parts promise, models how the code does it, checks the
models with TLC on small instances and proves the main results with TLAPS for
every instance.

Everything is modelled from the POSIX build of `cfl-lib/src/main/c`. Line
numbers below are those of the files there.

## 1. Inventory

### The concurrent part

| Component | State | Operations | What makes it correct |
|---|---|---|---|
| Mutex, condition variable (`cfl_lock.c`) | the pthread objects | acquire, tryAcquire, release, wait, waitTimeout, wake, wakeAll | they are pthread's; `waitCondition` can hand over an invalid time (132) |
| Reentrant lock (`cfl_lock.c` 289-386) | mutex, owner, count | acquire, tryAcquire, release | one holder; `owner` and `count` describe it although they are read without the mutex; the holder never blocks on itself |
| Synchronized queue (`cfl_sync_queue.c`) | ring, index, itemCount, canceled, one mutex, two conditions | put, tryPut, get, tryGet, waitEmpty, waitNotEmpty, cancel, drain, queries | FIFO, nothing lost or doubled, no sleeper left behind, cancel reaches everybody, timeouts stay timeouts |
| Event (`cfl_event.c`) | state, kind, mutex, condition | set, reset, wait, waitTimeout (two versions of each wait) | no set is lost, waiters of an event that stays set come back |
| Thread (`cfl_thread.c`) | status, handle, joined | new, start, wait, waitTimeout, kill, signalError, free | the status tells what happened, the system lets go of the thread once, nobody touches the object after free |
| Thread variable (`cfl_thread.c` 470-568) | initialized, key, one block per thread | get, set, free; created on first use | one creator, no key leaked or used early, each thread finds its own value, nobody spins for ever |
| Log (`cfl_log.c`) | tree of nodes, loggers, writers with counts, the spin lock `s_locked` | register, root, find, write, setWriter, setLevel, setFormatter | settings reach what is below them, writers counted exactly, the spin lock is left on every path |
| Socket (`cfl_socket.c`) | a descriptor; the bytes under way are the system's | send and receive all of a message, and system calls in a row | bytes arrive in order, once, over partial transfers, signals and timeouts; both sides return |
| Atomic (`cfl_atomic.c`) | none | one instruction each | atomicity, assumed where it is used |

### The sequential part

| Component | State | Operations | What makes it correct |
|---|---|---|---|
| Linked list (`cfl_llist.c`) | chain of nodes, list inside it, cache limit | add, remove and get at both ends | a deque; chain intact in both directions; cache bounded; no leak |
| Hash table (`cfl_hash.c`) | buckets of chains, count, load limit | insert, search, remove, clear, iterate and remove | every entry reachable and counted, through growth, failed allocations and removals by an iterator |
| B-tree (`cfl_btree.c`) | nodes of keys and children | add, delete, searches, positions, iterators | sorted, balanced, no key lost |
| Buffer (`cfl_buffer.c`) | data, position, length, capacity | put, get, skip, flip, compact, ... | no access outside the block, no byte changes unless written |
| List, array, iterator (`cfl_list.c`, `cfl_array.c`, `cfl_iterator.c`) | block, length, capacity; index of the iterator | add, insert, set, delete, setLength, clone, iterate | a sequence, whatever the growth |
| Map, string map (`cfl_map.c`, `cfl_map_str.c`) | an array of entries | set, get, delete, copy | a key keeps its values |
| Bitmap (`cfl_bitmap.c`) | words | set, reset, test, and, or, ... | a set of numbers |
| String (`cfl_str.c`) | data or constant, length, kept hash | building, cutting, searching, comparing | the text in its block, the hash that of the text |
| Number (`cfl_number.c`) | sign, words, scale | arithmetic, conversions | exact results |
| Date, SQL | values, expression trees | arithmetic, printing | - |

### Interactions

The synchronized queue is built on the mutex and condition variables of
`cfl_lock.c`; the event and the thread use pthread directly. The threads' own
`CFL_THREAD` objects are found through a key that is created the way a thread
variable's is. Loggers keep their children in `cfl_list`; maps and the array
iterator rest on `cfl_array`; transfers put into and get from `cfl_buffer`;
`cfl_iterator.c` calls the iterators of array, hash table and B-tree through a
table of functions.

### Hard behaviours

* **Shared state.** Queue, event, lock, thread, thread variable and log: wakeups
  that go to the wrong thread or to nobody, fields read outside their mutex, a
  signal after the unlock, a compare-and-swap race, a status two threads write.
* **Time.** Waits that expire while their condition comes true, timeouts that
  are decremented in a loop and have a reserved value (0), spurious wakeups.
* **Ends of lives.** Cancelling the queue with sleepers on two conditions,
  killing a thread that is about to finish, freeing an object its thread still
  reads, a writer shared by nodes that each drop it.
* **Hand-made pointers.** The linked list moves cached nodes from one end of its
  chain to the other; the hash table and the B-tree mend chains and nodes while
  iterators stand on them.
* **Partial work.** A transfer in several pieces; growth that fails half-way; two
  puts of which the second finds no memory.
* **Sizes.** A dozen functions of strings, arrays and buffers that each compute
  a capacity; carries over the end of the shorter number.

PROJECT.json lists each at the line where it bites, with the properties that
cover it or the reason why none does.

## 2. Modules

### Concurrent components

| Module | Models | State and actions against the code |
|---|---|---|
| `SyncQueue` | `cfl_sync_queue.c` on `cfl_lock.c` | `index`, `itemCount`, `canceled`, `data` are the fields. The mutex is given up only in a wait and on return, so what a thread runs between two such points is one action: `Invoke` (the call, before it has the mutex), `Block` (the loop sends it to sleep), and one action for each way out of a function (`PutStores`, `PutCanceled`, `PutGivesUp`, ...). `pc`, `call` and `ret` are the thread's side. Each `Return` names the conditions the code broadcasts. `SpuriousWakeup` and `Expire` are pthread's; the actions named `...Fails`, and the second case of `PutGivesUp`, are `waitCondition`'s EINVAL. |
| `BoundedQueue` | what the queue promises | A sequence, and calls that take effect in one step. `SyncQueue` implements it (`ImplementsFifo`): the ring read from `index` is the sequence, the last critical section of the last critical section of a call its effect. Left open are the two answers on which header and code differ: that of a canceled put, and how many items a drain takes. |
| `RLock` | `cfl_rlock_*` | One action for each access to `owner` and `count`. `depth` is each client's own count of what it holds. |
| `Event` | `cfl_event.c` | The mutex is a variable, because a wait that times out returns holding it (197, 218). `SetState` and `SetSignal` are two steps: the signal comes after the unlock (95-106). |
| `ThreadVar` | thread variables | One action for each access to `initialized` and the key; a thread's own block is read or written in one. `AllocationFails` is a malloc or a `pthread_setspecific` (506) that fails. `stored` is a history of what each thread stored. |
| `Thread` | one `CFL_THREAD`, its owner and its thread | One action for each access to `status` and each system call; `killed`, `signalled`, `completed` and `released` (how often the system was told to let go of the thread) are history. The owner starts the thread once, joins it once, and frees it when it was joined or killed (`Completed`, the words of `cfl_thread.h`). |
| `Log` | `cfl_log.c` | `tree` maps the paths of the nodes to logger, writer and format; `level` and `node` are the fields of loggers, `refs` the writers' counts. A call waits for `s_locked` (`Lock`), then runs to the unlock in one step (`Body`): only the holder writes the tree. `Test` and `Write`, the two reads of a write, take no lock. A logger put in place of a placeholder (373) takes over its node. |
| `Settings` | what the tree of loggers promises | What is set at a path holds below it, for loggers that come later too. `Log` implements it (`ImplementsSettings`). |
| `Transfer` | the four transfer loops of `cfl_socket.c` | Each side is in one system call at a time: it sends or receives any number of bytes, waits in `select`, is interrupted, times out, or finds its peer gone. `mem` is a buffer, moved with the functions of `BufferData`. |

### Sequential components

A call on these is one action: an object belongs to one thread. Blocks and
pointers are modelled because the code mends them by hand; what they hold is abstract.

| Module | Models | State and actions against the code |
|---|---|---|
| `LList` / `Deque` | `cfl_llist.c` / its promise | All pointers of all nodes; each branch of an add is an action. `CheckCacheOverflow` computes at once what the two loops do node by node. |
| `Hash` | `cfl_hash.c` | The chains of the buckets. `Insert` has the outcomes of its two allocations, `fault` is the one after which the code walks wild memory. The iterator has the fields of the code, the three entries and the indexes; any function from keys to hashes is a hash function. |
| `BTree` / `KeyBag` | `cfl_btree.c` / what its add and delete do | A node is a record of keys and children; `mem` says whether the code has freed it. Splits, borrowing, merges, searches (exact, partial, last, soft) and the frames of iterators follow the functions one by one. With `arena` the allocator keeps what is freed, so that the algorithm can be followed past a premature free. `astray` is history: a deletion walked to a wrong predecessor (437), or a merge of nodes with equal keys put them the wrong way round. |
| `KeySet` | what the hash table promises | A set of keys and what insert and remove answer. |
| `BufferData`, `Buffer` / `ByteFile` | `cfl_buffer.c` / its promise | `BufferData` has the functions on the record (`Ensured` is `ensureCapacity`, `PutFixed` the macro `PUT_BUFFER`), `Buffer` the calls, each with its allocations failing or not. A text is a length of two bytes and its bytes. Sums wrap at `MaxUInt`. `fault`: such a sum, a failure the code does not notice, or a copy between areas that overlap; nothing follows it. Gets answer bytes, run short or find no memory, which `ByteFile` tells apart (`Get`, `Short`, `Lost`). Clients ask `haveEnough` before `cfl_buffer_get` and `copy`, which do not test. |
| `Vector` / `Sequence` | `cfl_array.c`, `cfl_list.c` / their promise | The block, length and capacity; the iterator is an index. `steady` and `seen` are history. `bare` tells the promise that an array has no block yet. |
| `Map` / `KeyStacks` | `cfl_map.c`, `cfl_map_str.c` / their promise | The array of entries, searched from its start, deleted from by shifting. |
| `Bitmap` | `cfl_bitmap.c` | A word is the set of its bits; `asked` is what clients asked for. |
| `NumBits`, `Number` | `cfl_number.c` | `NumBits` has the natural numbers as sequences of words, with the loops of carries, borrows, shifts and long division; `Number` sign, scale, integers, texts and the conversion from doubles on top; the one to doubles is left out. |
| `StrData`, `Str` / `Texts` | `cfl_str.c` / its promise | `StrData` compares and searches texts; `Str` has a block or a constant, capacity, length and the kept hash. `stale` is history, `lost` holds the strings whose length covers no text because no memory was found, and `fault` names what ended all promises: a lost text that is read (`lost`), a write without memory (`memory`) or into a constant (`constant`), a constant made shorter (`shortened`), a range that ends before it begins (`range`). `Texts` says which call may do which; a write beyond the block for any other reason would be an `overrun`, which the invariant excludes. |

`BTree` declares recursive operators, as the code is recursive, and `NumBits` has
recursive functions and folds over digits; nothing is proved about them. `Hash` moves
its entries to a larger table with two recursive functions, `Gathered` (the order in which
they are taken) and `Moves` (each to the head of its new chain).

### Composition for model checking

`MCSyncQueue` and `MCLog` give constants their values. `MCThreads` (reentrant lock, event,
thread variable, thread object), `MCStructures` (list, hash table), `MCCollections` (these
and the B-tree), `MCBytes` (buffer, transfer, bitmap) and `MCValues` (string, number,
vector, maps) put together components that a program uses side by side and
that share no state: the initial state says which one the client works with,
the others stay as they were made. Sizes, capacities, texts and widths that
theorems are about are constants of these modules too, and get their values in
`Threads.cfg`, `Collections.cfg`, `Bytes.cfg` and `Values.cfg`. `MCCollections` is a
module of its own because the B-tree is recursive: the proofs about list and table
extend `MCStructures`. Each of these modules states the properties of its
components again under names of its own, with their parts as conjuncts
(`TreeSound == B!SoundTree /\ B!IteratorInOrder /\ ...`).

Operators whose comment begins with "A bug:" are not part of the models. Each is
a wrong version of the definition that follows it, the way a slip in the
C code would make it (a missing broadcast, a test that is off by one, a pointer
left behind). Putting it in place of the right one makes a property fail, which
shows that the property depends on that code.

## 3. Runs

| Run | Instance | Shows |
|---|---|---|
| `queue_fifo` | 2 threads, 2 values, capacity 2, all operations, timeouts 0 and 2, symmetry | The ring implements the FIFO, no wakeup of consumers is lost, nobody sleeps in a canceled queue, no timed call becomes untimed. |
| `queue_progress` | 3 threads, 1 value, capacity 1, no drain | The wakeups of putters and of `waitEmpty`, which share a condition; cancel ends all calls; a get or put that can go on returns. |
| `queue_canceled_put` (violation) | 2 threads, capacity 1 | A put that a cancel meets answers `CFL_TRUE` although its item was dropped. |
| `threads` | 3 threads with a lock (nesting 2 deep), an event (all operations, both kinds) or a variable (1 key, 2 values), or an owner with 2 workers | Lock: one holder, described by the fields, that never blocks; others change nothing; acquire returns. Event: no set is lost on sleepers; waiters of one that stays set return, if no timed out wait keeps the mutex. Variable: one creator, no leak or early use, values kept, every call returns even if the key cannot be created. Thread: nothing is touched after a join and a free, the system lets go of it once, and its status says something that happened. |
| `event_timeout_keeps_mutex` (violation) | 2 threads | A wait that timed out leaves the mutex locked and set never returns. |
| `thread_error_lost` (violation) | 1 worker | A signalled error is overwritten by the end of the function. |
| `collections` | list: 4 nodes, 2 items, limits 0 to 4; table: 4 keys, sizes 2, 3, 5, every hash function into 3 values; tree: 4 keys, 3 to a node, up to 10 copies | The list is a deque with an intact chain and leaks nothing. The table is a set of keys through growth and failed allocations and its iterator gives each entry once while it removes. The tree stays a B-tree until the code frees a live node, and a bag of keys in order until a deletion strays; what iterators and searches answer is there. |
| `tree_key_twice` (violation) | the B-tree as above | A key that is there is added again. |
| `log` | 2 threads, one logger in a group and the root, 2 levels, 2 writers | Writers count their nodes; settings reach what is below, whatever is registered, found or replaced in between; every call returns. |
| `bytes` | buffer: up to 5 bytes, values and texts of up to 2, any allocation failing; transfer: 5 bytes over a stream of 3, 2 signals, a time out; bitmaps of 1 to 3 bits in words of 2 | Up to a fault no access leaves the block and no byte changes unless written; plain bytes arrive in order, once, and are counted; both sides return; bitmaps are sets. |
| `number_division` (violation) | words of 4 bits, base 3 | Division is wrong when the divisor moves by less than a word. |
| `values` | string: texts of up to 2 characters, any allocation failing; number: words of 4 bits, base 3, scales to 2; vector: up to 3 items; maps: 2, up to 3 entries | Text and zero in the block, kept hashes right, searches agree with one another; sums, differences, products and texts exact; arrays and lists are sequences and walks meet every item; keys keep their values. Strings fail and lose their text only as `Texts` says. |

### Bounds

* *Threads.* Lost wakeups need a thread that sleeps, one that changes the state
  and one that takes the wakeup away: three, in `queue_progress` and
  `threads`. Two are enough to show that calls are atomic (`queue_fifo`), which is
  proved for any number. In `log` one thread changes settings and two
  register and write, so that each step of one falls between those of the other.
* *Capacity.* 1 makes every put and get cross the full and empty boundaries; 2
  lets the ring wrap with an item on either side and shows order.
* *Timeouts.* 2 is the smallest budget that `waitEmpty` can use up in more than
  one wait, and that an off-by-one turns to 0.
* *Depth 2* covers a first and a nested acquisition; a third repeats the second.
* *Keys of a thread variable.* One: the life after `varFree` has it again.
* *Workers.* Two leave it open which thread the system makes for the object.
* *Nodes of the list.* Moving a cached node needs a cached node on one side of a
  list of two and one to allocate: four. `Add` is disabled when all are in
  use: malloc's limit in the model, which does not stop the other operations.
* *Hash table.* Sizes 2, 3 and 5 let a table of four keys grow twice; with every
  hash function into {0, 2, 4}, keys share a bucket at one size and part at
  the next, or stay together at all.
* *B-tree.* Three keys to a node and up to ten copies of four keys reach a third level, with
  every kind of split, borrowing and merging on the way down. A key that `existsKey`
  overlooks is added again, as the code does. Nothing more is added once a deletion
  has strayed: the keys are then out of order, and what is left is to delete
  them. An even `Order` loses a key in a split (section 4), which is why it is 3.
* *Buffer.* `MaxUInt` = 5 stands for the largest CFL_UINT32: growth meets the
  limit, and sums beyond it wrap, which is a fault. A value of 1 or 2 bytes covers one that ends
  at the length, before it and beyond it.
* *Transfer.* Five bytes over a stream of three need several turns of each side.
  `MaxSignals` = 2 is one for each kind of call.
* *Numbers.* Words of four bits and base 3 make carries, borrows and shifts over
  words happen with numbers a run can enumerate. `MaxInt`, `MaxSize` and
  `MaxScale` bound what is entered and what is kept.
* *Strings.* Characters 1 to 3 are a blank, an upper case letter and its lower
  case; `MostCharacters` = 2 has an inner and an outer position.
* *Maps and vectors.* Three entries or items: a deletion in the middle shifts one.

Deadlock is checked where the system goes on for ever. It is not in
`EventTimeoutLocks.cfg`, where a thread that keeps the mutex stops
all the others in the code too (in `MCThreads` the step `EventRests` stands for that, so that
deadlock is checked for the others); in `Bytes.cfg`, where a transfer ends; and in
`Collections.cfg`, `TreeKeyTwice.cfg`, `Values.cfg` and `NumberDivision.cfg`, where nothing
follows a fault and computations stop at their bounds.

### Fairness

* `SyncQueue`, `Event`: weak fairness of `Section(t)`, what thread `t` does by
  itself once it gets the mutex. Sections are short and the system's mutex does
  not starve a contender for ever. Nothing is assumed of calls, time outs and
  spurious wakeups, so no liveness property holds because of a timeout.
* `RLock`: weak fairness of the steps inside a call, strong fairness of `Lock`: the
  mutex comes free again and again but may be taken in between, and the
  scheduler lets a contender have it in the end. `AcquireReturns`
  supposes in its statement that holders give the lock up.
* `ThreadVar`: weak fairness of every thread inside a call: threads keep running,
  in particular the creator the others spin for.
* `Log`: weak fairness of the steps inside a call; strong fairness of `Lock`,
  because the spin lock yields the processor after each failed try and is
  held only for a section without waits.
* `Transfer`: weak fairness of each side's `Step`: the system lets both go on, and
  a side that gives up closes its end, which the other one notices.

## 4. Where code and documentation part

Shown by a run, with the sentence it contradicts in PROJECT.json:

1. A put on a canceled queue drops its item and answers `CFL_TRUE`
   (`cfl_sync_queue.c` 181); `cfl_sync_queue.h` 134 and 152 say `CFL_FALSE`.
2. `cfl_event_waitTimeout` and `cfl_event_waitTimeout2` keep the mutex when they
   time out (`cfl_event.c` 197, 218); the next set hangs.
3. `CFL_THREAD_ERROR` is overwritten with `CFL_THREAD_FINISHED` when the function returns
   (`cfl_thread.c` 336); `cfl_thread.h` 51 and 55 keep the latter for a normal end.
4. `cfl_btree_existsKey` overlooks keys (`cfl_btree.c` 319), so that adding 1, 2, 3, 4 and 1
   again answers `CFL_TRUE` (`cfl_btree.h` 84).
5. `numbits_shl_inplace` clears what it has just moved when the shift is of less
   than a word (`cfl_number.c` 285): 10 / 2 gives 8.

Met while reading. The models have these as the code has them where they reach,
and where a header says otherwise the properties are stated so that they do not
settle it:

* *Queue.* A drain takes one item, where `cfl_sync_queue.h` 170-173 lets it remove all:
  `BoundedQueue` leaves the number open. It frees a slot and wakes nobody (317):
  `NoSleepOverRoom` is for clients without it. `cfl_sync_queue_free` after a cancel does not wait
  for the threads that were woken (87). `waitCondition` passes a
  `tv_nsec` of 1000000000 when the clock falls on it (`cfl_lock.c` 132).
* *Event.* An untimed wait does not look at the state after it was woken (127): a
  waiter may be released on an unset event. `waitTimeout` with a timeout
  of 0 may sleep for ever (126).
* *Thread.* A thread that was freed after a kill still touches its object
  (300, 145; `cfl_thread.h` 164 allows it): `NoTouchAfterFree` promises nothing
  of that case. A thread that has completed may be reported killed. A second start before
  the thread has written its status creates a second thread (358-362).
* *Log.* A write that has read the writer of a node may call through it after a
  setWriter has freed it (422), and may find the root half made (386, 421), which the model
  makes in one step under the lock. A call on a logger that is not registered takes the spin
  lock and registers it, which takes it again (414). A logger that was displaced by
  another of the same path no longer follows `setLevel`. Placeholders
  that clients hold dangle once their path is registered (373). The default
  writer is never closed.
* *Socket.* After a partial send `cfl_socket_sendAllBuffer` starts again at the
  beginning of the buffer (475; `cfl_socket.h` 96 promises the whole buffer), and
  `receiveAllBuffer` stores at the start (566) and times only its first wait:
  `TransferExact` promises order for plain memory only. `acceptTimeout` leaves
  `timesUp` unset on an invalid socket.
* *B-tree.* Inner splits and merges free live nodes (256, 175): `Faults`. The walk to the
  predecessor takes a child numbered by another node's keys (437), and a merge tells its sides by keys
  that may be equal: from then on keys are out of order (`astray`), and only the
  shape is vouched for. A deletion by rotation or merge returns a neighbour's pointer, where
  `cfl_btree.h` 92 promises the deleted one: `KeyBag` leaves it open. With an
  even number of keys to a node a split loses one. `next` skips the last child of an inner
  node (890; `cfl_btree.h` 166), and `searchPosition` does not look there (`cfl_btree.h` 108):
  `IteratorInOrder` asks for a prefix of the keys and `SearchAnswersMatch` for the positions
  before that child, in a tree of two levels. `previous` never ends at the first key. The
  old root leaks when the tree shrinks.
* *Buffer.* Sums that do not fit a `CFL_UINT32` wrap (`cfl_buffer.c` 33, 463, 482, 648, 662,
  718), a failure to grow after `setPosition` or `skip` goes unseen, and `compact`
  copies between areas that may overlap: `fault`.
* *Bitmap.* A bitmap of more words is never a subset (`cfl_bitmap.h` 83 promises it for all
  bits set): `BitmapsAreSets` asks only that a yes is right then.
* *Hash.* After a removal the iterator has no predecessor in the chain, and a
  second removal there may drop entries (418): clients of the model remove one entry or
  all of them.
* *Array.* Removing with the iterator skips the next item, and `hasNext` wraps
  when the array has shrunk below the index (`cfl_array.c` 241): `WalkMeetsAll` is for
  steady arrays. `setLength` without a block leaves the length (`cfl_array.c` 192-194;
  `cfl_array.h` 128-131 sets it): `Sequence` leaves both open. Sums of sizes wrap beyond 32 bits
  (108-136), which the model's naturals do not; an insert beyond the length shows what was in the block.
* *Maps.* `cfl_map_set` does not free the value it replaces, a deletion hands the key
  twice to the client's function, a copy shares values; `cfl_mapstr_copy`
  appends keys that are there already (288), which `KeyStacks` describes as it is. Clients of the model do not use `setKey` and
  `setValue` of entries or copy a map to itself.
* *String.* `setChar` (669) and `replaceChar` (1302) keep the hash (`stale`) and write into
  constants, as do `toUpper`, `toLower` and `trim`: fault `constant`. `trim` leaves leading
  blanks and cuts the end instead (1210-1216; `cfl_str.h` 836-846): `Texts` leaves open what
  remains of such a text. When a constant becomes shorter its
  text is copied whole into a block for the new one (34-42): fault `shortened`. A
  string that finds no memory loses its text (44, 48, 187), where `cfl_str.h` 160
  promises an empty one and 381-382 the one it had: `lost`. A `substr` that ends before it
  begins wraps (1250): fault `range`. A search from behind the end of the text wraps and
  reads on (1272): nothing is asked of it. `equals` and `compare` read past the given
  length of a constant.
* *Number.* The counts of bits and digits are 16 bits wide; the smallest 64 bit
  integer and negative doubles that round to zero keep a wrong sign. `to_double` divides with
  rounding (1047-1048) and is left out.
* *Date.* `setMonth` before `setDay` lets 31 February pass (`cfl_date.c` 209).

## 5. Proofs

TLAPS checks the theorems for all values of the constants, under the assumptions
named next to the constants: a queue has a capacity of at least 1, timeouts are
natural numbers, the values that stand for "none" are not among the others,
the depth of nesting is bounded, the default is one of a variable's values,
the nodes malloc has to give are finitely many, table sizes are positive and hashes natural numbers, first capacities of a buffer are between 1 and the largest CFL_UINT32, the sizes and
widths of buffers, streams, bitmaps and arrays are natural numbers, the texts that
clients give consist of the model's characters, the paths of loggers are closed under
prefixes.

* **`SyncQueueProofs`.** `TypeCorrect` contains that the ring never holds more than
  `Size` items and its index stays among the slots. `NoLostWakeup`,
  `CancelReachesSleepers` and `NoLostWakeupWithoutDrain` say when a thread may sleep.
  They are inductive once types are known: a step that takes a sleeper's reason
  away (an item for `notEmpty`, a slot for `notFull`, or the cancel) also broadcasts
  its variable, and nobody goes to sleep without a reason. The third needs
  that no client calls `drain`.
  `QueueIsFifo`: `SyncQueue` implements `BoundedQueue`, the refinement that
  `queue_fifo` checks for two threads. The ring lemmas (`Inserts`, `Removes`) say that an
  insertion at `NextIndex` appends to `Items` and an advance of `index` drops its head:
  slots of different items differ, and `%` is at most one wrap
  (`SlotIsModulo`). `CallsFit` is the invariant that calls need: a thread is idle exactly
  between calls, only puts carry an item, and only a timed call can be timed
  out, so that giving up is allowed by the FIFO too. Then each critical
  section is one abstract step (`Stores`, `Takes`, `Quiet`) and sleeping, waking and
  expiring are none (`Stutters`). `TimedStaysTimed`: no step makes a wait with a limit
  one that lasts for ever (`waitEmpty` counts down only to what is left, 361).
* **`LockProofs`.** *Reentrant lock.* `MutualExclusion` is not inductive: nothing in it speaks of a
  thread half-way through an acquire or a release. `IInv` adds it:
  `MutexInv` (a thread between `setOwner` and `unlock`, or with a positive depth, has
  the mutex), `OwnerInv` (owner names a thread exactly while it has the mutex and is
  neither about to write its name nor past removing it), `CountInv` (count is the
  owner's depth, except between the writes) and `DepthInv`. The unlocked read of
  `owner` is then harmless: it equals `t` only if `t` itself wrote it, and
  nobody else can remove it. `Reentrancy` and `HeldLockIsStable` follow.
  *Event.* `NoSetLost`. A woken waiter of a manual-reset event goes and leaves
  the state on, so `NoSleepOverSetEvent` needs `Announced`: a manual-reset event
  that is set has sleepers only until its broadcast. An auto-reset event is
  unset by whoever leaves.
* **`ThreadProofs`.** `StatusIsSettled`, `FreedAlone` and `LetGoOnce`. The invariant follows
  the one thread of the object: `OneWorker`, `CallsFit` (what the owner waits for or kills
  exists and has begun) and `Ending`: a thread that ends before its function has
  returned was condemned, that is, a kill has marked it or is about to, and a
  condemned thread can do no worse to the status than signal an error. `FreedAlone`
  speaks of the owner who frees after a join; after a kill alone it is false (section 4).
  `LetGoOnce` needs that `released` counts the join while the object lives, and the detach
  of a thread that was not joined when it is freed.
* **`ThreadVarProofs`.** `SingleInitializer`, `NoKeyLeaked` and `ValuesKept` need each
  other and two more facts: `WinnerInv`, what the thread that won the
  compare-and-swap has done so far, at each place, and `NothingStored`, that
  before there is a key no thread has stored anything. Only the winner
  writes `initialized` until it has published it.
* **`BytesProofs`.** *Buffer.* `SizesStaySound`, for any sizes, bytes and failing
  allocations, up to the first fault. `WrappedIs` says that a sum is itself unless it
  wraps, and then the step is a fault. The lemmas follow the functions: `EnsuredIsEnough` (ensureCapacity
  answers yes only with enough room and changes nothing but the block, also for a
  buffer that was already made longer than its block), `StoredIsSized` (a put with
  room after its position stays inside), `MovedIsSized`, `CutIsSized`; then one lemma
  for each kind of call. `BufferIsFile` goes through the same calls again with what is in
  the block: it holds bytes at every place (`Text`), growth keeps those below the
  length (`Keeps`), and a put writes its bytes and no others (`Wrote`). A read answers what it
  passes, runs short or finds no memory (`IsGet`, `IsShort`, `IsLost`).
  *Transfer.* `TransfersStayExact` needs to know where the bytes under way are
  (`TransferInv`): the stream holds what the sender has handed over and the receiver has
  not taken, in order; what was received is a prefix of what was sent, and each side's
  count is what it moved. *Bitmap.* `BitmapsStaySets` (`BitmapInv`): there is a word for
  every number asked for, and a bit is set exactly if it was asked for.
* **`ValuesProofs`.** *Array and list.* `VectorIsASequence`: a block is as large as its
  capacity says (`IsBlock`), and each function (grow, insert, delete, lengthen) gives a
  block again, whose items in use are what the operation on sequences gives.
  `VectorsStaySound` adds `WalkInv`: a walk over a steady array has seen the items before
  its index. *String.* `StringsStaySound` and `StringIsAText`. First, for any two texts, where
  the comparison loop stops (`CompareIs`) and what the searches find (`IndexOfTextIs`), from
  which their agreement follows (`SearchesAgreeOn`). Then `StrInv`: a string that owns its
  block and has not lost its text has room for text and zero, keeps a right hash unless it was
  changed in place behind it, and only a constant made shorter overran a block (`RoomIs`). Every
  call changes a string in one of a few ways: it becomes a string with a certain text (`BecomesIs`,
  `PutIs`, `ChangeIs`, `InPlaceIs`), loses it (`LoseIs`), or ends all promises for a reason
  that `Texts` grants that call (`FailsIs`, `Excused`); `Move` alone changes both. *Map.* `MapIsStacks`: what is under a key is
  gathered along the array, and what two arrays hold, one behind the other, is what the one
  holds on top of what the other does (`UnderConcat`). A deletion or a replacement is then
  followed through what lies before the entry found, the entry and what lies behind it
  (`UnderWith`, `WithoutUnder`, `PutUnder`). Nothing needs the bound on entries.
* **`StructuresProofs`.** *Linked list.* `ListStaysSound` and `ListIsADeque`. The
  invariant (`ListInv`) names the chain: a function `c` from the places `1 .. n` to nodes, no
  node twice, such that `next` and `previous` lead to the neighbouring places (`Chain`), and
  two places `a` and `b` between which the list lies (`Segment`). A walk along a link is then
  counting (`StepsNext`, `DistanceNext`). Each operation gives the `c`, `a` and `b` of the
  next state: a place more at an end (`ChainLonger`), the first place moved to the end by the
  six pointers that are mended (`ChainTurned`), or, for `checkCacheOverflow`, a number of places
  less at either end (`Trims`, `ChainTrimmed`), which it computes from the excess and the places
  (`OverflowFrees`). What the list shows between `a` and `b` changes like the deque.
  *Hash table.* `TableStaysSound` and `TableIsASetOfKeys`. The chains of a table are `Filed`:
  each entry is in the chain of its bucket, at one place, so that linking an entry at a head
  (`LinkedIs`) or cutting one out (`Unchained`) changes what is `Kept` by that entry.
  That growth keeps every entry (`MovedIs`) needs no induction over data: the two recursions
  of `hash_expand` have a solution (`Solvable`, by the least length that has none), and each
  beginning of it is a sound table of the entries moved so far (`Holds`). The iterator
  is what `SoundTable` and the key set alone would not carry: `IterSound` says that what it
  has given and what is still to come, from its next entry and its index on (`Rest`), are the
  entries there were (`GivesEach`), and that last, current and next entry are neighbours
  (`Neighbours`) while the client may remove. `findNextEntry` has three outcomes (`InChain`,
  `InLaterChain`, `Nowhere`), each of which takes one entry from `Rest`. `iteratorRemove`
  unlinks by way of the entry before, or at the head; `Neighbours` makes either the right
  one (`UnlinkedIs`), and the next entry moves up a place (`NextMoves`). That clients
  remove one entry or all is essential: after some other removal `Neighbours` is lost
  (section 4).
* **`LogProofs`.** `TreeIsSettings` and `WritersStayCounted`. The tree is sound when each
  path has the node above it (`Sound`, `Rooted`); registering adds the nodes that are
  missing, which inherit from the nearest one there is (`NodesAdded`, `Nearest`).
  `CallsFit` and `LockFits` say who holds the spin lock and what a thread in a call is
  about to do, so that the section under it is one abstract step (`StepsAreSettings`).
  `Counted` compares each writer's count with the cardinality of the set of its nodes,
  one node at a time.

The proofs have no assumption beyond those named. Only checked by TLC are:

* every liveness property and its fairness, which are out of the prover's reach;
* `TreeSound` and `TreeIsKeyBag`, because the model of the B-tree is recursive like its code
  and `RECURSIVE` operators are out of the provers' reach;
* `NumbersRight`. The weight of a word is a power of 2 and that of a digit a power of `Ten`,
  and the provers know nothing of `^`, not even that `2 ^ 0 = 1`. (The other obstacle, that
  they have no induction over data, is one maps and hash table get around, by the least
  index at which a recursive function would fail: `LeastOfNat`, `GatheredIs`, `UpTo`,
  `Solvable`.)

## 6. What is not modelled

* The Windows build.
* Creation and release of queues, events, lists, maps and tables; the library
  leaves it to callers that nobody uses them any more. The thread is the
  exception, because the library itself still uses the object.
* A failing malloc where the code does not test it: list, array, B-tree,
  number. Where it does (hash table, buffer, thread variable), and in strings, which
  go on without their text, it is modelled.
* Negative timeouts of an event; calls on a logger that is not registered, which
  never return (section 4).
* Sockets beyond the transfer loops: opening, listening, names and options are
  system calls in a row.
* Formatting (`cfl_str_setFormat`, the text of a log message), byte order and
  alignment: no property is about them.
* Date: pure calendar arithmetic. SQL builder: prints expression trees; neither
  has state that outlives a call. Atomic: one instruction per function, a
  step of its users. Error, memory, process, types: thin wrappers.

## 7. What is left

A theorem about the sums and differences of numbers needs the powers as recursive
functions first, and the folds over digits too. The date arithmetic could be checked against a calendar by days.
