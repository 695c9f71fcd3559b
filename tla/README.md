# WooMem in TLA+

WooMem is the memory manager of WooRT: a page and unit allocator with a concurrent
mark-sweep collector. This directory holds TLA+ models of its parts, TLC configurations
that check them on small instances, and TLAPS proofs of the properties that matter most.
`PROJECT.json` maps every definition to the lines it models and lists runs, mutants,
hazards, findings and theorems.

## The system

| Part | State | Operations | What is hard about it |
|---|---|---|---|
| Gray queue (`woomem_mpsc_queue.hpp`) | ring of slots with sequence numbers, two positions | `try_enqueue`, `drain` | many producers, one consumer, no lock; a producer may stop between claim and publication |
| Marking (`woomem_gc.cpp`, Steps 1–5) | life of every unit, `m_local_work`, `m_is_draining`, the marking flag | `mark_unit_to_gray`, `mark_root_unit_to_gray`, `process_gray_units` | mutators shade units while workers scan; the queue may be full while nobody drains it |
| Heap (`woomem.cpp`, `woomem_gc.cpp`) | references, root set, life, age and timing of units, round counter | allocation in two calls, root registration, write barrier, marking, sweep | references move while they are followed; new units are neither marked nor freed; the counter wraps |
| Rendezvous (`woomem_gc.cpp` 89–142, 70–86) | launch state, finish counter, one condition variable | launch, wait, done, shutdown | lost wake-ups, a counter reused for each phase, shutdown |
| Trigger (`woomem_gc.cpp` 184–268, 346–347) | force flag, round count, shutdown flag, one condition variable | `trigger_gc`, Step 0, end of a round | flags change and notifications come without the mutex |
| Pages (`woomem_thread_page_collection.hpp`, `woomem_global_page_collection.hpp`, `woomem_page_unit_alloc.*`, `woomem_global_context.cpp`, Steps 6–7) | page chain, free lists of a page, thread caches, pool, run-out and retirement flags | allocate, link, sweep, reuse, retire, drop, thread exit | threads allocate from pages that workers sweep |
| Chunk (`woomem_chunk.*`, `woomem_rwlock.hpp`, `woomem_validate_addr`) | block sizes by page, address-ordered free list, one lock word, a flag in each page head | `allocate_pages`, `free_page`, `validate`, lock and unlock in two modes | splitting and merging leaves old sizes behind; page heads are written and read outside the lock |
| Unit sizes (`woomem_page_unit_alloc.*`, `woomem.cpp`) | none | group of a size, layout of a page, unit of an address | hand-written tables, boundaries |
| Start-up and shutdown (`woomem_global_context.cpp`, `woomem_thread_context.cpp`, `GC::GC`, `GC::~GC`) | set of threads, flags, the pointers in each thread context | init, shutdown, thread start and exit | workers start while init assigns contexts; contexts outlive the runtime |

A round runs like this. The main thread leaves Step 0 (`GCTrigger`), sets the marking flag
and calls back into the runtime, whose threads and the main thread itself mark roots
(`GCMarking`). It launches the workers three times (`WorkerBarrier`): they drain their gray
queues (`MpscGrayQueue`), drain again after mutators have been told to stop, and sweep the
pages of the global chain (`PageLifecycle`), giving dead ones back to the chunk
(`ChunkAccess`). `CollectedHeap` says what all this is for: it looks at reachability over
many rounds. `RuntimeLifecycle` is about what surrounds the rounds.

## Modules

| Module | Models | Built on |
|---|---|---|
| `GrayQueueOps` | the queue as a sequence of claimed entries | |
| `GrayQueue` | what the queue promises | `GrayQueueOps` |
| `MpscGrayQueue` | each atomic step of the ring | refines `GrayQueue` |
| `GCMarking` | main thread, workers and marking callers through a round | `GrayQueueOps` |
| `CollectedHeap` | mutators, collector and heap over many rounds | |
| `Monitor` | a mutex and waiting on a condition variable (external) | |
| `WorkerBarrier` | the condition variable under `GCMarking`'s waits | `Monitor` |
| `GCTrigger` | Step 0, `trigger_gc`, shutdown | `Monitor` |
| `PageLifecycle` | allocation and sweep | |
| `PageMap`, `Chunk` | what the chunk promises, and how | `Chunk` refines `PageMap` |
| `ReadWriteSpinlock` | the lock word | |
| `ChunkAccess` | threads at the chunk: lock, tables, page heads | `ReadWriteSpinlock`, `Chunk` |
| `UnitSizes` | the arithmetic of sizes and addresses | |
| `RuntimeLifecycle` | init, shutdown, thread contexts | |
| `...Proofs` | proofs | the modules they extend |
| `MC...` | instances for TLC | |

Variables keep the names of the fields they stand for without the `m_` prefix; each
declaration says which field it is. Operators whose comment begins with "Mutation" are
deliberate bugs. They are used by no specification; `PROJECT.json` says which definition each
one replaces and which property must then fail.

### How state and actions correspond to the code

*Memory* is sequentially consistent: every atomic access is one step and takes effect at
once. Reorderings that only relaxed accesses allow are out of scope.

*GCMarking.* One action per access to shared state. `MarkShade` is the CAS on `m_life`,
`MarkEnqueue`/`MarkPublish` the two halves of `try_enqueue`, and
`MarkFull`, `MarkLock`, `MarkRecheck`, `MarkPush` the way around a full queue. `PopLocal`,
`ScanChild`, `ScanDone`, `StartDrain`, `DrainTake`, `DrainEnd`, `LeaveDraining` are
`process_gray_units`. The waits are guards, which `WorkerBarrier` justifies. Sweeping is
reduced to its effect on `m_life`. The two callbacks belong to the runtime: each returns
when every mutator has answered outside an API call; the model assumes nothing else of them.

*CollectedHeap.* Each unit has one reference. Gray units are sets in the hands of workers;
`GCMarking` has the details. `AllocateBegin`, `RegisterRoot`, `AllocateEnd` and
`StoreUnmarked` are the steps of an allocation, `Sweep` is `check_and_free_unmarked_unit`. Of
`m_age` only "is 15" matters, and `m_timing` only then, so both are one variable. The write
barrier is the runtime's. The model has the one the collector needs: while the flag is set, a
reference is marked before it is overwritten or taken off the root set. The begin callback
stops mutators between operations and marks what their stacks hold; the stop callback waits
until no barrier is at work. Once the flag is down mutators overwrite references as they like.
History: `dead` is what was garbage when the round began and has not been freed; `lost` is what
was cut off from the collector by overwriting between Step 4 and the end of Step 5 (remarks
below); `broken` says that something reachable has been freed.

*Monitor, WorkerBarrier, GCTrigger.* A thread whose condition is false decides to sleep while it holds
the mutex and falls asleep in the next step, so a notification between the two is lost unless
the notifier needed the mutex. Wake-ups may be spurious.

*PageLifecycle.* One size group, since groups share nothing, plus huge pages. Life above
PENDING is one value. A unit in use that no mutator refers to any more (`DropUnit`) may be
found unmarked by the sweep; all others are found marked or young. Free lists are sets. The
pool is kept without the null entries that `pick_free_page` skips.

*Chunk, ChunkAccess.* `Chunk` has the tables: `held` and `result` are history (the blocks
callers have; what the last allocation was asked for and returned), so that `PageMap` allows a
failure only when no run of that size is free. `ChunkAccess` lets threads take the lock of
`ReadWriteSpinlock`, step through an operation of `Chunk` (the restarts of
`free_list_insert` are steps of their own), and release the lock. After it, an allocating
thread initialises the head of its page and clears `m_page_just_allocated`, and a thread in
`woomem_validate_addr` tests that flag and reads the head. Any page may be freed but one that still has the flag:
only SWEEP frees pages, and it finds them in the chain. So a page can be freed, and
handed out again, under a thread that has looked it up; `overtaken` is the history of that.

*RuntimeLifecycle.* The owner thread calls `woomem_init` and `woomem_shutdown` alternately,
each loop over the thread entries under its mutex. User threads may exist before, between and
after, but none starts or ends while one of the two calls is under way: constructor and
destructor of a thread context read flags that nothing protects. Workers start during
`woomem_init` and may be arbitrarily late. `woomem_init` may fail at the chunk or at the GC.

## Runs

| Run | Instance | Shows |
|---|---|---|
| `queue` | 3 producers, 2 slots, 3 positions | `SlotExclusive`, `Fifo`, `FalseOnlyIfFull`, `ImplementsGrayQueue` |
| `marking` | 2 mutators, main, 2 workers, 3 units, queue of 1 | `WorkersParked`, `LocalWorkExclusive`, `GrayHeldOnce`, `SweepSeesNoGray`, `MarkingComplete`, `MarksKept` |
| `marking_live` | 1 mutator | `CallReturns`, `CycleCompletes` |
| `heap` | 2 units, one of them a root, 2 mutators, 2 workers, counter modulo 2 | `FreesGarbageOrLost`, `GarbageFreed` |
| `barrier` | 3 workers | `WorkInStep`, `NoLostWakeup`, `PhaseEnds`, `WorkersJoined` |
| `trigger` | 2 callers | `RequestKept`, `SyncTriggerReturns`, `MainJoins` |
| `pages` | 2 pages of 2 units, 2 threads, 2 workers | `TypeOK`, `PageOwnedOnce`, `FreeListsExact`, `ChainKeepsEveryPage`, `SweepsPagesInUse`, `DropsOnlyDeadPages`, `SweepEnds` |
| `sweep_empty_chain` | 1 page | `SweepsPagesInUse` fails: finding below |
| `chunk_access` | 2 threads, 4 pages, requests of 1, 2 and 5, lock word of 3 bits | `WordCountsHolders`, `WriterAlone`, `SomebodyGetsIn`, `FreeListExact`, `ValidateExact`, `ImplementsPageMap`, `ReadsInitialisedHeads` |
| `unit_sizes` | every size in a page, every offset of every group | `SmallestFit`, `UnitFound` |
| `lifecycle` | 2 user threads, 2 workers | `ThreadsEquipped`, `NothingDangles`, `CallsReturn` |
| `worker_context` | 1 user thread, 2 workers | `MarksForItself` fails: finding below |

`FreesGarbageOrLost` and `ReadsInitialisedHeads` carry an exception each, for what the code leaves
open (remarks below). `SyncTriggerReturns` has a synchronous `trigger_gc` return if there is no
shutdown, and also after one if it has yet to test its condition. A caller that sleeps by then
is woken by nobody, since `~GC` sets `m_shutdown` without notifying the callers.

The type invariants of the other state machines are proved (see Proofs), by themselves or as part
of an inductive invariant, and are in no run.

### Bounds

- `MaxPos` caps the positions of the queue. Three positions on two slots wrap the ring and
  reuse a slot; the proofs remove the bound on everything but `Capacity # 1`.
- `GCMarking` runs with an abstract queue of one entry, the hardest case for a full queue.
  It is an instance of `GrayQueue`, not of the ring, which needs two slots.
  All threads mark for worker 0, so that they compete; three units give a root, its child and
  a unit only a mutator marks. Rounds are not bounded: the state space is finite.
- `CollectedHeap` is finite without a bound, for any number of rounds. A counter modulo 2 comes
  round after two rounds instead of 256. Two units are enough for a reference to move away
  from the worker that is looking for it, and for one to be lost; the proofs hold for all sizes.
  The constraint `Unbroken` does not follow a heap in which something reachable was freed.
  The view `RelativeTiming` identifies states that differ only by a rotation of the round
  counter and of all timings: timings are compared with the counter and with nothing else.
- `PageLifecycle` is finite without a bound. Two units a page let a page be partly free.
  `Pinned` pages hold huge units that never die. With
  one of them the chain is never empty, which keeps the finding below out of the other run.
  The proofs hold for all numbers of pages, units, threads and workers.
- Four pages let blocks of both sizes be split off and freed with neighbours on both sides; a
  request of 5 always fails. Two threads are enough for a reader and a writer, or two of
  either, to meet at the lock; the proofs hold for all numbers of threads and pages.
- In `UnitSizes` the sizes within a page and the offsets are exhaustive; `HugeSizes` holds both
  sides of the first four page boundaries, and is any set of larger sizes in the proofs.
- `RuntimeLifecycle` is finite without a bound: the runtime may be started any number of times.

`GCTrigger` is checked without deadlock detection: after shutdown the system really stops.

### Fairness

Threads are scheduled by the operating system, so every enabled step of a thread is taken
eventually (weak fairness). Taking a mutex or a spinlock is strongly fair in `WorkerBarrier`,
`GCTrigger` and for `MainStep` of `GCMarking`: a lock that becomes free again and again is
got some time. In `ChunkAccess` a compare-exchange that could succeed again and again does not
fail for ever. A mutator answers a callback some time between its calls. In `GCTrigger` the
timed wait ends and ten seconds pass some time. Nothing is assumed about spurious wake-ups,
about calls being made, or about the exit of the program. `SomebodyGetsIn` promises only
that some thread gets in: a writer can starve.

## Findings

`sweep_empty_chain`: `m_sweep_page_list` is not reset when a round finds the chain empty.
After a sweep that dropped every page, the next round sweeps freed pages, against the
assertion in `Chunk::free_page`.

`worker_context`: `worker_thread_job` sets its own marking context ("Update
`m_gc_marking_context` as this"). `GC::GC`, which has started the worker, walks the thread
entries at the same time. If it looks at `m_is_gc_worker_context` before the worker sets it, and
stores after the worker has stored, the worker keeps the context of another worker. Then
what it finds goes to a queue whose worker may be done with FINAL_MARK, and the gray unit
meets the sweep (`assert(life != UnitLife::SELF_MARKED)`). `GCMarking` and `CollectedHeap`
describe the intended case: a worker marks for itself. It takes two workers or more, which
`default_gc_worker_count` gives from 16 processors on.

Remarks without a run, since no line of the repository says otherwise:

- The `static_assert` of the queue admits `Capacity` 1, with which the sequence number of a
  published slot is the one of a free slot of the next lap. The theorems about the queue
  exclude it; the collector uses 8192.
- Between Step 4 and the end of Step 5 the flag is down and units may still be gray. If a mutator
  overwrites the reference in such a unit, it marks nothing, and what it referred to is
  lost to the collector though the mutator may have it on its stack: a gray root refers to an
  old `x`; the flag goes down; a mutator loads `x` and overwrites the reference; the worker scans
  the root and does not find `x`; the sweep frees `x`. A barrier that looks at the flag cannot
  help, and no callback tells the runtime when FINAL_MARK is over. `FreesGarbageOrLost` says that
  nothing else is in danger, and `NothingLostNothingBroken` that a program which never does this
  is safe.
- `woomem_validate_addr` may be called at any time. If SWEEP frees the page between
  `Chunk::validate` and the reads of the head, these reads meet a page that is free, or one that
  was handed out again and whose head is being written. `ReadsInitialisedHeads` is about the calls
  that are not overtaken in this way.
- A thread that starts during `woomem_init` can miss both the flag and the loop over the
  entries, and stay without a page collection; one that ends during `woomem_shutdown` can
  return its pages to a page collection that is gone.
- `shutdown_manually` leaves `m_cached_pages`, and nothing resets `m_all_page_list`. After a second
  `woomem_init` both refer to the chunk of the first.

## Proofs

All theorems hold for every value of the constants that satisfies the assumptions named in
the modules. Each rests on an inductive invariant, proved action by action.

- `MpscGrayQueueProofs`: `TypeCorrect`; and, for `Capacity # 1`, `SlotsAreExclusive`,
  `QueueIsFifo`, `FailureMeansFull`. `QueueInv` says what each sequence number in the window
  `Released .. Released + Capacity - 1` means: its position while free or unwritten, one more
  when published. `Fifo` alone is not inductive because it does not say why a published slot
  cannot be claimed again. `SlotInjective` (positions of one window use different slots) is the
  arithmetic core; it is where capacity 1 would break.
  `RingImplementsQueue` is step simulation under the refinement mapping of `MpscGrayQueue`,
  for `Capacity # 1`. Its invariant adds to `QueueInv` which producer owns
  which claimed position (`Owned`) and with which unit it was called (`Arguments`). A claim, a
  publication and a read are one step each of `GrayQueue`, everything else stutters.
- `GCMarkingProofs`: `TypeCorrect`, `BarrierWorks`, `LocalWorkIsExclusive`. `ControlInv` ties
  `finish_counter` to the number of workers that have moved on (`Running`), `m_is_draining` to
  being in `process_gray_units` (`Places`), and the spinlock to its holder (`Locks`).
  On top of it come `GrayIsHeldOnce`, `NothingGrayWhenSweeping`, `MarksAreKept` and
  `MarkingIsComplete`, from `UnitInv`, which has six parts.
  - `GrayInv` is `GrayHeldOnce` with one predicate `Holds` for the four kinds of holder; an
    action either begins, moves or ends one holding (`GrayBegins`, `GrayMoves`, `GrayEnds`).
  - `PublishInv`: an unpublished queue entry has a caller about to publish it. Without such a
    caller in FINAL_MARK, `drain` stops only at an empty queue, which gives `DrainedInv`: a
    worker that has left its last `process_gray_units` has nothing left.
  - `BlackInv`: no black unit has a white child. `RootInv`: the visited roots are marked, but
    for the one being marked. So when nothing is gray, the black units hold the roots and are
    closed under references, and contain all that is reachable.
  - `SweptInv`: a worker that has swept leaves no mark, so the next round starts all white.
- `CollectedHeapProofs`: `TypeCorrect`, `OnlyGarbageOrLostIsFreed`,
  `NothingLostNothingBroken`, `AllGarbageIsFreed`.
  - Reachability is the least set that holds what the program holds and is closed under
    references, so no induction over paths is needed: to show that a unit is reachable only
    if P, exhibit a closed set.
  - `BasicInv` (types, control, what allocations and barriers are about, who holds gray units)
    always holds. `HeapInv`, which holds until something reachable is freed, adds
    the invariant of a snapshot at the beginning. `Protected`: while the collector
    marks, every reachable unit that the sweep would free (unmarked and not new) is lost or in every
    set that `Follows` what is gray, that is, at the end of a chain of references from a gray
    unit through unmarked ones. References a barrier has overtaken (`Stale`) do not count. When
    nothing is gray any more the empty set follows, so nothing reachable is condemned
    but what is lost (`SweepSafe`). `FreesGarbageOrLost` alone says nothing before the sweep.
    With nothing lost, nothing is ever broken, which is `NothingLostNothingBroken`.
  - `GarbageInv` needs no `HeapInv`, so garbage is freed whatever was lost. It adds to `BasicInv` that some set separates all that is held or marked from the dead
    (`Separates`), so no dead unit is ever marked, and that unmarked units are old or of this
    round after each sweep (`Ages`), so the wrapping counter cannot make one young again.
- `SynchronisationProofs`: `BarrierTypes`, `WorkersInStep`, `WakeupsNotLost` for `WorkerBarrier`.
  `BarrierInv` ties the finish counter to the workers that are done with the phase and says who
  may be between test and sleep while the mutex is free. `TriggerTypes`, `RequestIsKept` for
  `GCTrigger`; `RequestKept` is inductive with the types.
- `RuntimeLifecycleProofs`: `TypeCorrect`, `ThreadsAreEquipped`, `NothingEverDangles`.
  `LifecycleInv` says for each place of the owner which entries have which pointer, and that a
  live thread is an entry.
- `PageUnitProofs`, `PageLifecycleProofs`: `PageTypes`, `PagesOwnedOnce`, `FreeListsKept`,
  `ChainKept`, `SweepsOnlyPagesInUse`, and of steps `DropsDeadPages`. They assume
  `Pinned # {}`, a page that is never given back: without one the chain can become empty, and
  the finding about `m_sweep_page_list` is a counterexample. `IInv` has these parts besides the
  types.
  - `ChainInv`: each page in use is in the chain, in one worker's rest of its list or hands,
    or about to be linked by one thread (`ThreadInv`), never in two of these. It is stated with
    finite `next` chains (`IsList`, `Members`), because a list in shared memory can also be
    cyclic or end in another list; pushing, taking the whole chain, cutting it into shares and
    walking on are lemmas about them.
  - `OwnerInv` is `PageOwnedOnce` with what makes it stay: a page to allocate from is linked
    and not run out, so the sweep, which offers only run-out pages to the pool, offers none
    that somebody has.
  - `UnitInv` is `FreeListsExact` with what free, huge and pinned pages look like;
    `PendingInv` gives each unit between `allocate_begin` and `allocate_end` one thread.
  - `VisitInv` keeps what a worker has learnt about its page. A page that had run out when its
    visit began still has, since only that worker could give it back to threads; so a unit it saw
    released stays released, which is why dropping the page at the end is right although
    threads were allocating meanwhile.
- `ChunkAccessProofs`, for any number of pages, any set of requests, and fewer threads than
  `WRITE_LOCKED`: `WordIsExact`, `WriterIsAlone`, `FreeListKept`, `ValidateFindsBlocks`,
  `HeadsReadAreInitialised`, `RefinesPageMap`. `AccessInv` has four parts.
  - `LockInv`: the lock's two invariants and its types, inductive together.
  - `ChunkInv`: the blocks on the list (`Listed`, told by their links alone) are linked to their
    neighbours in address order in both directions and do not touch; blocks handed out carry
    the flag and zeroes inside; each page is free, handed out, in the hands of
    `free_list_insert` or of `allocate_pages` (`Tiles`); and no page outside the blocks handed out
    has the flag. `FreeListExact` speaks only of the moments between operations, and of the walk
    along the list, which is a recursive function; `ChunkInv` is local, and the lemmas about
    walking (`Walk`, `FirstWhere`) lead from it to what the loops of the code find.
  - `JobInv`: an operation on the tables belongs to one thread with the write lock, so a reader
    meets none.
  - `HeadInv`: the head of each page handed out is flagged or initialised; a flagged page that
    a thread initialises is its own and stays handed out; a page that was looked up is
    still handed out or the look-up is overtaken.
  - Under the mapping of `Chunk` the last step of an allocation, a failed one and the first
    step of `free_page` are steps of `PageMap`; the others leave it alone. That an allocation
    fails only for want of a run needs the blocks not to touch.
- In the same module, for `UnitSizes`: `SmallestUnitFits` and `UnitIsFound`. The table's last
  entries are the group sizes in steps of 8, so the look-up is the least group that fits; the
  thirteen unit sizes all divide the storage of a page, so no rest remains at its end.

Facts about recursive functions, such as the walk along the free list and the chains of
pages, are proved from the least counterexample (`Least`): the natural numbers are well-founded,
so a set of positions that holds 0 and with each position the next one holds all (`UpTo`).

Only model-checked: all liveness (`CallReturns`, `CycleCompletes`, `PhaseEnds`, `WorkersJoined`,
`SyncTriggerReturns`, `MainJoins`, `SweepEnds`, `SomebodyGetsIn`, `CallsReturn`), since fairness
is beyond the prover used here. Every other property of a passing run has its theorem.

## Not modelled

- Operating system memory (reserving, committing, releasing, failing to commit): wrappers of
  system calls without state.
- The contents of units, statistics (`m_alive_memory_size_counter`, the volume that
  triggers a round, which is a choice), overflow of `size_t`: no property is about them.
- Weak memory effects: TLA+ steps are interleaved.
- `dequeue` and `empty` of the queue, which nobody calls.
- `Spinlock` (`woomem_lock.hpp`) as a loop: it is a lock that is taken in one step.
- The end of the program (`~GlobalContext`) and threads that start or end during init and
  shutdown: the code does not protect the flags they read.
