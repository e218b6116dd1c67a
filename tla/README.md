# W16: TLA+ models, model checking and proofs

W16 runs the events of a JavaScript program in several threads.  Each event is
a transaction of a software transactional memory inside a modified V8; threads
share one heap, one garbage collector and one event queue.  This directory
models the concurrent part of W16 and the garbage collector and handles under
it, checks them with TLC on small instances and proves the main safety
properties with TLAPS for all sizes.

Paths are relative to the repository; line numbers are those of the sources
the models were written from.  `stm.cc` is `src/stm.cc`, `main.cc` is
`w16/main.cc`.

## The system and its parts

| Part | Code | State | Operations that change it | Modelled in |
|---|---|---|---|---|
| Transactions | `stm.cc` 300-440, 576-659 | `transactions_`, per transaction `aborted_`, `read_set_`, `write_set_`, `mutex_`; the heap and the private copies | `StartTransaction`, `RedirectLoad`, `RedirectStore`, `CommitTransaction` | `STM`, abstractly `AtomicTransactions` |
| Cell maps | `stm.cc` 27-298 | blocks of cells, `location_set_`, `object_map_` | `AddMapping`, `Iterate`, `RebuildObjectMap`, destructor | `CellMap` |
| Scopes and pauses | `stm.cc` 411-430, 449-568; `heap-inl.h` 43-59, 514-546; `heap.cc` 445-533, 6460-6475 | `need_gc_`, `heap_mutex_`, `commit_mutex_`, `transactions_mutex_`, `gc_mutex_`, `done_gc_` | enter and leave allocation and collection scopes, `PauseForGC`, start and end of transactions | `GCPause` |
| Event loop | `main.cc` 54-261 | `event_queue`, `running_threads`, statistics | `Async`, `EventLoop`, start and join of the workers | `EventLoop` |
| Inline caches | `ic.cc` 453, 777, 842, 1117, 1390, 1754 | none of their own | call the redirection and access the object they get | inside `STM`, `HeapCommit` |
| Incremental marker, write barrier | `incremental-marking.cc`, `incremental-marking-inl.h` | `state_`, `should_hurry_`, `marking_deque_`, mark bits | `Start`, `Step`, `BaseRecordWrite`, `UpdateMarkingDequeAfterScavenge`, `Hurry`, `Abort`, `Finalize` | `HeapMarking` |
| Scavenger, mark-compact, store buffer | `heap.cc` 468-1500, `mark-compact.cc`, `store-buffer.cc` | generations, the compactor's deque, the store buffer | `Scavenge`, `Prepare`, `MarkLiveObjects`, `SweepSpaces` | `HeapMarking` |
| Commit into that heap | `stm.cc` 142-169, 343-382 | the write set | `RedirectStore`, `CommitChanges` | `HeapCommit` |
| Global handles | `global-handles.cc` | nodes, blocks, `first_free_`, `new_space_nodes_`, the weak count | `Create`, `Destroy`, `MakeWeak`, `ClearWeakness`, `MarkIndependent`, processing after collections | `GlobalHandles` |
| Test program | `w16/primes.js` | two shared counters, what is printed | one event per batch | `Primes` |
| Isolate, spaces, profiler, compilers | V8 | | | not modelled (see below) |

How they interact.  A worker takes an event from the queue and starts a
transaction, which enters `transactions_`.  Every load and store of the
event's function goes through `RedirectLoad` or `RedirectStore`; the first
store to an object makes a private copy, in an allocation scope.  Commits are
serialised by `commit_mutex_`; a commit aborts the transactions whose read or
write sets meet its write set and copies its own copies back.  An aborted
event is executed again.  When memory runs out a thread raises `need_gc_` and
locks the `gc_mutex_` of every other transaction.  The others give theirs up
when they enter an allocation scope and see the flag, or when they commit.  The
collection itself is V8's: a scavenge of the new generation, or mark-compact,
which builds on what the incremental marker has done between steps of the
program.  After it the callbacks of weak global handles run.  An event keeps
its function in a global handle.

## Modules

**STM** (`MCSTM` for TLC).  One transaction per thread, named by the thread.
A word is one field of one object.  `RedirectLoad` looks up the sets,
`AddRead` enters the object under `mutex_`, `Load` reads it through the
returned handle (`ic.cc`); in the same way `RedirectStore`, `CopyWord` (word by
word, as `CopyBlock` does), `AddWrite`, `Store`.  `EndEvent` to
`RemoveTransaction` are the steps of `CommitTransaction`, with one step per
element of each of its loops and per word of `CommitHeap`.  `BlindStores`
says whether the program stores to objects it has not loaded.
`reads` and `written` are history variables.

**AtomicTransactions** is what `STM` promises: transactions that read current
values, buffer their stores and commit in one step, or are given up.

**CellMap** (`MCCellMap`).  The data structure under the read and write sets,
one of each, while a collector moves objects.  `Walked` is the set of cells
that the four loops over the blocks reach.

**GCPause** (`MCGCPause`).  Threads in and out of transactions, in scopes,
requesting, skipping, performing and waiting for collections.  Mutexes are
those of `platform-linux.cc`: an unlock by a thread that is not the owner has
no effect.  `Collectors`, `CollectInScope` and `RuntimeAllocs` say which
threads run out of memory and where; `Debug` whether ASSERTs are compiled in.
Runtime functions allocate without a scope (for instance `runtime.cc` 6445) and
reach `Runtime::PerformGC` (`runtime.cc` 13218) when memory runs out.  A thread
that skipped a collection runs `LeaveCollectionScope` too and walks the list
without its mutex; the model lets that walk end early, because removals shift
the list under it.

**EventLoop** (`MCEventLoop`).  `main`, the workers, the queue and the
counter of running threads, whose decrement and increment are a load and a
store.  Transactions appear as the property `AbortedForAReason` of `STM`
describes them: a commit fails only if another one succeeded meanwhile.
`--stm_aborts` is off here.

**Primes** (`MCPrimes`) composes `EventLoop` and `STM` by `INSTANCE` and runs
`primes.js` on them: `Begin` is `StartTransaction` of both, `Redirect`, `Load`
and `Store` are the operations of `inc_primes` and `inc_processed`, `PrintResult`
is the call of `print` inside the transaction, `EndCommit` is
`CommitTransaction`'s return, on which the event is deleted or restarted.
`LoopSpec` maps it back to `EventLoop`: an event counts as committed when its
conflicts are being resolved.  So the abstract transactions of `EventLoop` are
justified by those of `STM`, not only by a property.

**HeapMarking** (`MCHeapMarking`).  Objects with pointer fields, generations,
three colours, the store buffer as a set of slots, the marker's and the
compactor's deques as sets of at most `Room` objects.  `Store` is
`WRITE_FIELD` with both halves of `WRITE_BARRIER`.  `Step` scans one object;
a real step scans several, which is a sequence of them.  `BeginScavenge`,
`ScavengeObject`, `FinishScavenge` are a scavenge; `BeginWithMarks`, `Hurry`,
`Finalize` a mark-compact collection that builds on incremental marks,
`BeginFromNothing` one that does not, or throws them away; `MarkRoot`,
`EmptyMarkingDeque`, `RefillMarkingDeque`, `SweepSpaces` the rest of both;
`EndCollection` may start the marker again.  An object keeps its identity when
it moves, and the fields of freed memory hold nothing.

**HeapCommit** extends it by one transaction: redirected loads and stores, and
the commit as the plain copy that it is.

**GlobalHandles** (`MCGlobalHandles`).  Nodes, node blocks with their links, the
free list, `new_space_nodes_`.  A collection is one step that decides which
objects survive and which weak handles are pending; `rounds` is the stack of
`PostGarbageCollectionProcessing` calls, since a callback may collect again.
`Allocate`, `Hold` and `Drop` are the embedder's.

**STMProofs**, **CellMapProofs**, **GCPauseProofs**, **EventLoopProofs**,
**HeapMarkingProofs** and **GlobalHandlesProofs** hold the theorems about the
modules they are named after.  **PrimesSteps** has the lemmas about `Primes`: sums,
the refinement of `EventLoop`, and the steps outside the operations of an
event; **PrimesProofs** the remaining steps, the theorems of the two components
as instances of their proof modules, and the theorems.

Definitions called a *faulty variant* or marked *Fault* are not part of the
models: each is a plausible mistake in one operation that breaks a property, and
shows that the property depends on that operation.

## Runs

| Run | Instance | Shows |
|---|---|---|
| `stm_atomic` | 2 threads, 1 object of 2 fields, 2 values, 3 operations, no blind stores, `--stm_aborts` | `TypeOK`, `LoadedIsCurrent`, `NoLostUpdate`, `CommitterNotAborted`, `AbortedForAReason`, and that `STM` implements `AtomicTransactions` (`AtomicSpec`) |
| `gc_exclusive` | 3 threads, all collect, everywhere; no ASSERTs | `TypeOK`, `StopTheWorld`, `ScopesExclusive` |
| `gc_progress` | 3 threads, one collects, in runtime functions | `NoAssertFails`, `RequestedGCHappens`, `PausedResumes`, no deadlock |
| `event_loop` | 3 threads, 3 events, all threads enter the loop before the first looks at the queue | `TypeOK`, `EventsAccounted`, `ExitSound`, `StatisticsAddUp`, `Terminates` |
| `cellmap` | 4 objects, blocks of 2 cells, every relocation | `TypeOK`, `CellsComplete`, `LookupCorrect`, `IntersectsExact` |
| `primes` | 3 threads, 2 batches | `PrintedOnce`, `ResultsComplete`, `LoopSpec` (it implements `EventLoop`), `Terminates` |
| `marking` | 3 objects of 1 field, deques with room for 1 | `TypeOK`, `NoDangling`, `StoreBufferComplete`, `MarkingClosed`, `DequeGrey`, `MarksOnlyLive`, `CollectionAdvances` |
| `global_handles` | 1 object, 3 blocks of 1 node, a collection inside a callback | `TypeOK`, `HandlesKeepObjects`, `NewSpaceNodesComplete`, `ListsAccountForNodes`, `WeakHandlesCounted`, `PendingProcessed` |

These runs end with a counterexample, and each is a disagreement between the
code and what the repository says of it:

| Run | Property | What happens |
|---|---|---|
| `stm_blind_store` | `NoLostUpdate` | `RedirectStore` copies the object before it is in a set (`stm.cc` 363); a commit to another field in between is undone.  Programs that load what they update, as `primes.js` does, are safe: the theorem `UpdatesAreKept`. |
| `gc_in_scope` | `RequestedGCHappens` | `CALL_AND_RETRY` collects with `heap_mutex_` locked; a thread that is past its test of `need_gc_` waits for `heap_mutex_` and the collector for that thread (against `stm.cc` 511). |
| `event_loop_late_start` | `Terminates` | The increment of a starting thread (`main.cc` 91) is lost in another one's decrement (`main.cc` 101); the counter ends at -1 and the program never stops (against `main.cc` 247). |
| `heap_commit` | `AllPointersToNewSpace` | The private copy of an old object gets a pointer to another private copy, or to itself, and the commit copies the pointer into the old object with `CopyBlock` (`stm.cc` 153): the store buffer does not have the slot (against `store-buffer.h` 79).  With the barrier alone it always does: the theorem `StoreBufferHasAllSlots`. |

Two more disagreements are not runs of their own.  With two threads that run out
of memory, the one that skipped the collection fails the ASSERT of
`LeaveCollectionScope` (`stm.cc` 533), which is why `NoAssertFails` is checked
with one collector; without ASSERTs the world is still stopped (`gc_exclusive`
and its theorem).  And runtime functions allocate outside scopes, at the same
time (against `stm.cc` 450); `ScopesExclusive` says what scopes do give.

### Bounds

* Two threads make every conflict between a committer and one other
  transaction; commits are serial, so a third thread adds no new kind of
  conflict.  Two fields let a commit tear an object.  `MaxOps` allows load, store
  and load again.  `primes` adds the third thread, for progress.
* In `GCPause` three threads are a collector, one that skips or asks again, and
  one that runs, starts or commits.
* In `EventLoop`, `MaxEvents` bounds the calls of `async`: the program is
  finite.  Three events and three threads allow a queue that is empty while
  two events are executed, one of which adds a third.
* In `CellMap` four cells in blocks of two give an empty map, a block partly
  filled, one just full and two full ones.  Addresses are all in use, so every
  move exchanges objects, which is the worst case for `object_map_`.
* In `Primes` two batches on three threads make each event conflict with the
  other, and leave one thread spinning on the empty queue.
* In `HeapMarking` three objects are a black one, a white one and the one the
  pointer is moved from; with room for one, every push of a second object
  overflows, and refills overflow again.
* In `GlobalHandles` three blocks of one node give a used list whose first, middle
  and last block leave it while an iterator stands on one of them, and one
  object may have several handles.  The iterator's step inside a block is
  not exercised with one node per block; two blocks of two are out of
  reach.  `MaxDepth` allows one collection inside a callback.
* Symmetry is used for safety only: threads in `STM` and `GCPause`, addresses
  in `CellMap`, objects in `HeapMarking` and blocks in `GlobalHandles`
  (`CollectionAdvances` is about single steps).

### Fairness

* `GCPause`: a thread goes on (weak fairness); every event's function returns
  (strong fairness of `BeginCommit`); a mutex that is free again and again is
  not denied forever to a thread that waits for it (strong fairness of
  `Acquire`), which is what a scheduler gives in practice.  Nothing makes
  programs start, allocate in runtime functions or run out of memory.
* `EventLoop` and `Primes`: the same: weak fairness of steps, strong fairness of
  the queue's mutex, which spinning threads take all the time.  Nothing is asked of
  the mutexes of the STM in `Primes` beyond weak fairness.

`gc_exclusive` does not check for deadlock, because the deadlock of
`gc_in_scope` is among its behaviours; the programs of
`event_loop` and `primes` end, so these do not either, but `Terminates` covers it.

## Proofs

For any number of threads, objects, fields, values and operations, with or
without blind stores and `--stm_aborts`, from the assumptions named in `STM`
(`NobodyAssumption`, `ValueAssumption`, `BoundAssumption`, `FlagAssumption`):

* `TypeCorrect`, `LoadsStayCurrent`, `CommittersAreSafe`, `AbortsHaveAReason`;
* `UpdatesAreKept` and `Atomicity` (`Spec => AtomicSpec`), if there are no
  blind stores.

The inductive invariant `IndInv` of `STM` adds to these properties who holds
which mutex at which label (`LockDiscipline`), that the transactions a commit
has visited are aborted if they conflict with it (`ConflictsAborted`), what an
operation in progress has done so far (`OperationInv`), that the histories
follow the sets (`SetsInv`) and that stores follow loads if the program has no
blind ones (`StoresFollowLoads`).  `LoadedIsCurrent` alone is not inductive: a
step of `CommitHeap` keeps it only because every transaction that has the
object in its read set was aborted before, and no object was added since,
because the committer holds all `mutex_`.

The refinement maps the heap to the heap that a commit in progress is about to
complete, so the commit takes effect when all conflicts are resolved
(`BeginCommitHeap`); all later steps of `CommitTransaction` are stutters.

For any number of threads and any of them collecting, in and outside scopes,
with or without ASSERTs, from `ThreadsAssumption` and `FlagsAssumption` of
`GCPause`: `TypeCorrect`, `CollectionStopsTheWorld`, `ScopesAreExclusive`.  The
inductive invariant says that a running thread owns its `gc_mutex_`
(`OwnGCInv`), that the collector keeps `transactions_mutex_` and every
`gc_mutex_` it has visited (`StoppingInv`), that the list holds exactly the
threads in transactions (`ListInv`), and that `heap_mutex_` stays with the
scope through nested collections and pauses (`ScopeInv`).  If moreover at most
one thread runs out of memory (`OneCollector`), `AssertsHold`: `need_gc_` is 1
exactly while that thread is between `EnterCollectionScope` and
`LeaveCollectionScope`, and nobody leaves a collection to another thread
(`RequestInv`, together with `IndInv`).  With two such threads it is false.

For any number of threads and events, from `ThreadsAssumption` of `EventLoop`:
`TypeCorrect` and `EveryEventAccounted`; and, if all threads enter the loop
before one looks at the queue, `NobodyLeavesWork` (`ExitSound`) and
`StatisticsAreRight`.  `ExitSound` is not inductive.  The invariant says that
`running_threads` is the number of threads counted in, with the loaded and not
yet stored values of decrements taken into account (`CountInv`), that an event
that is not committed is queued once or in the hand of one thread (`QueueInv`),
and what each label implies (`ControlInv`); a thread that reads zero then knows
that no thread has an event in hand.  Without the assumption on the start
the counter is wrong, which is the run `event_loop_late_start`.

For any heap, any number of fields and any capacity of the deques, from
`ObjectsAssumption` and `RoomAssumption` of `HeapMarking`: `TypeCorrect`,
`NothingInUseIsFreed`, `StoreBufferHasAllSlots`, `MarkingEndsClosed`,
`MarkerPopsGrey`, `OnlyLiveIsMarked`.  The invariant is the three-colour one, in
two forms: for the incremental marker, black objects point to no white one, and
grey ones are on the deque or the deque has overflowed (`IncrementalInv`); for
the compactor, whose deque holds black objects, black ones off the deque point
to no white one and grey ones mean overflow (`CompactorInv`).  To these it adds
that only objects promoted by a scavenge under way have slots that are not in
the store buffer (`BufferInv`), that the heap is closed under pointers and
freed memory is white (`HeapInv`), and that there are no marks outside a cycle
(`PhaseInv`).  If there are finitely many objects, `PhasesAdvance`
(`CollectionAdvances`): with white objects counted four times, grey ones twice,
and the deque and its overflow flag once, every step of a phase makes the sum
smaller; a visit that finds no room raises the flag but greys an object that
was white.

For any number of objects, any block size and any relocations, from
`SizeAssumption` and `ObjectsAssumption` of `CellMap`: `TypeCorrect`,
`CellsAreComplete`, `LookupIsCorrect`, `IntersectsIsExact`.  The invariant says
that a list of blocks ends with a block partly filled, or has only full ones and
`index_` means nothing (`WellFormed`), and that the cells in use are those of
the objects added, at their present addresses, with `object_map_` leading from
these addresses to these cells (`Represents`).  Its last conjunct, that
`object_map_` knows no address without an object, is what makes it sound that
`Iterate` does not rebuild the map when no original has moved: no object can
then have come to an address that is still an entry.

For any number of objects and of node blocks, any block size and any depth of
collections inside callbacks, from `BlockSizeAssumption` and `BlocksAssumption`
of `GlobalHandles`: `TypeCorrect`, `ObjectsKept`, `NewSpaceComplete`,
`NodesAccountedFor`, `WeakCounted`, `CallbacksDone`.  The blocks on a list are
defined as the least set that contains its first block and is closed under
`next_used_` (`Reach`), so what linking in and taking out a block do to a list
is proved with closed sets and without induction.  The invariant says that the
list of used blocks is linked both ways and holds the blocks with a count other
than zero (`BlockInv`), that rounds of callbacks other than the innermost one
are stale and in a callback (`RoundInv`), and that every pending handle is ahead
of a mark-compact round that is not stale: further on in its block or in a block
that the present links lead to (`PendingInv`).  A block that a callback takes
out keeps its own `next_used_`, and that is what keeps the rest of the list
ahead of a round standing on it.

For any number of threads and any non-empty list of batches, from
`ThreadAssumption`, `GarbageAssumption` and `BatchesAssumption` of `Primes`:
`ResultPrintedOnce` (`PrintedOnce`), `NothingIsLost` (`ResultsComplete`) and
`LoopsRefined` (`Spec => LoopSpec`).  Neither invariant is inductive.  The one that
is has three parts: `IndInv` of `STM`, `IndInv` of `EventLoop` under the
refinement mapping, and `ProgramInv`.  Every step of `Primes` is one of `STM` or a
stutter (`StmStep`), and one of `EventLoop` or a stutter (`LoopStep`), so the first
two parts are kept by the lemmas of `STMProofs` and `EventLoopProofs`.
`ProgramInv` says what an event has loaded and stored at each of its operations
(`Progress`); that the counters hold the sums over the events committed so far, or
the private copy of the one that is committing does (`SumsInv`); that the number of
processed batches an event arrives at is at most one more than the number of
committed events, and less if the event is doomed (`ReckoningInv`); and that an
event that has printed is the last one and cannot be aborted (`PrintInv`).  The
third is why `print` is safe inside a transaction that may be restarted: an event
that is going to be restarted never finds all batches processed.

`SumOver` is a recursive function.  That adding a batch to a set adds its primes to
the sum (`SumsAdd`) is proved for every list by way of a least counterexample, since
every non-empty set of natural numbers has a smallest element
(`LeastNatural`, from `WellFoundedInduction`).

Each proof module makes Zenon the prover of the leaves that name no other one;
leaves with arithmetic name SMT.

Only model-checked: all liveness properties (`Terminates` of `EventLoop` and of
`Primes`, `RequestedGCHappens`, `PausedResumes`), which are out of reach of the
prover; and what the four runs with counterexamples show.

## Not modelled

* Parsing, compiling, code generation, inline-cache lookup, the profiler, the
  debugger: V8's own, sequential or switched off, and the bulk of the
  repository.  They neither share state between W16's threads by design nor
  have the small state that a model checker needs.
* `--stm` off: one thread without transactions.  `load`: input.
* In `GCPause`: allocation scopes inside one another, `print_mutex` held across an
  allocation, the lifetime of the `done_gc_` semaphore.
* In `STM`: object values and object identity.  The store inline caches redirect
  the stored value as well (`ic.cc` 1397), so after a commit a field may refer to
  a former private copy.  `HeapCommit` has this for the collector; no property
  says which identities survive.
* In `HeapMarking`: weak collections, object groups, string and map tables, code
  flushing, compaction of old space with its recorded slots, lazy sweeping page by
  page, pages that are scanned instead of recorded in the store buffer.  And more
  than one thread: write barriers of several threads race on mark bits and the
  deque, which nothing in the code orders.
* In `GlobalHandles`: object groups, class ids, the second counter of weak
  handles, `mutex_`, and use by several threads, for instance `delete e`
  (`main.cc` 139) outside a transaction while another thread collects.
