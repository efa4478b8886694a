# TLA+ models of readerwriterqueue

This directory holds TLA+ models of the single-producer / single-consumer queues in
`src/readerwriterqueue.h` and `src/readerwritercircularbuffer.h`, the TLC
configurations that check them, and `PROJECT.json`, which records every run, the
source lines behind every definition, the hazards and the findings.

## The system

| Part | Source | State | Operations |
|---|---|---|---|
| `ReaderWriterQueue` (V3) | `readerwriterqueue.h` 1–883 | a circular linked list of `Block`s, each a power-of-two ring buffer with `front`, `tail` (shared), the shadows `localTail` (consumer) and `localFront` (producer), `next`, `sizeMask`; shared `frontBlock`, `tailBlock`; producer-only `largestBlockSize` | constructor, `try_enqueue`/`enqueue`/`try_emplace`/`emplace` (one `inner_enqueue`), `try_dequeue`, `peek`, `pop`, `size_approx`, `max_capacity`, destructor, move ctor/assign |
| `ceilToPow2` and the constructor's layout | `readerwriterqueue.h` 116–192, 765–778 | none (pure) | round up to a power of two; choose one block or a ring of `MAX_BLOCK_SIZE` blocks with a spare |
| `BlockingReaderWriterQueue` | `readerwriterqueue.h` 885–1109 | a V3 queue plus a `LightweightSemaphore` counting elements | enqueue then `signal`; `wait`/`wait_dequeue_timed`/`try_wait` then `try_dequeue` with `assert(success)` |
| `BlockingReaderWriterCircularBuffer` (V2) | `readerwritercircularbuffer.h` | fixed ring of `mask + 1` slots, wrapping counters `nextSlot`/`nextItem`, semaphores `slots_` (free slots) and `items` (ready elements) | `try_enqueue`, `wait_enqueue(_timed)`, `try_dequeue`, `wait_dequeue(_timed)`, `size_approx`, `max_capacity`, destructor, move/swap |
| `LightweightSemaphore`, `weak_atomic`, fences | `atomicops.h` (not in the sources) | count | `signal`, `tryWait`, `wait`, `wait(timeout)` |

The producer and the consumer are the only two threads. In V3 they share
`frontBlock`, `tailBlock`, and each block's `front`, `tail` and `next`; each thread
keeps a shadow copy of the other's index (`localTail`, `localFront`) and reloads it
only when the shadow says "empty" or "full". The hard parts are the races around
block boundaries (a consumer that finds its block empty while the producer is
moving on, a producer that finds its block full while the consumer is advancing
`frontBlock`), the re-read of a stale shadow, the spare block that gives the
constructor its capacity promise, and the size arithmetic at the top of `size_t`.

## Modules

| Module | Models | Notes |
|---|---|---|
| `Word` | W-bit `size_t` arithmetic: `ceilToPow2` (765–778), V2's mask computation (circular buffer 53–59), the `ssize_t` cast (36) | every `++`, `--`, `+` is `% 2^W`; the `sizeof(size_t)` loop is the recursive `WideSmear` |
| `Sizing` | the V3 constructor's choice of layout (129–186) | extends `Word` |
| `SizingCheck`, `MC_Sizing` | a counter walking the sizes `Lo..Hi`, checked against a reference power of two and the capacity the constructor promises | |
| `SPSCQueue` | the abstract FIFO the queue promises: `Enqueue(v)`, `Dequeue` on a sequence | |
| `ReaderWriterQueue`, `MC_ReaderWriterQueue` | V3: constructor, `inner_enqueue` (both `CanAlloc` and `CannotAlloc`), `try_dequeue`, `pop`, `peek`, as a producer and a consumer each running one shared access per step | refines `SPSCQueue` |
| `ReaderWriterQueueDestructor` | V3's destructor (237–263) run after any interleaving of the two threads | extends `ReaderWriterQueue` |
| `ReaderWriterQueueObservers` | V3's `size_approx` (564–578) and `max_capacity` (589–601), called by either thread while the other keeps working | extends `ReaderWriterQueue` |
| `ReaderWriterQueueLifetime`, `MC_…` | a queue's whole life: both threads with the observers, then the destructor once no call is in flight | extends the two modules above |
| `MC_ReaderWriterQueueS3` | scenario S3 of the specification, as an invariant over `ReaderWriterQueue` | |
| `Semaphore` | the `LightweightSemaphore` contract: `signal`, `tryWait`, `wait`, `wait(timeout)`, `availableApprox` | modelled from the spec (`atomicops.h` is not among the sources); instantiated with `count <-` each semaphore variable |
| `BlockingReaderWriterQueue`, `MC_…` | the wrapper (885–1109): every enqueue variant then `signal`; `try_dequeue`/`pop` (`tryWait`), `wait_dequeue` (`wait`), `wait_dequeue_timed`, each followed by the inner call and `assert(success)`; `peek` | extends `ReaderWriterQueue`, so the wrapper's semaphore steps interleave with the inner queue's single shared accesses; refines `SPSCQueue` |
| `CircularBuffer`, `MC_CircularBuffer` | V2: constructor, `try_enqueue`, `wait_enqueue`, `wait_enqueue_timed`, `try_dequeue`, `wait_dequeue`, `wait_dequeue_timed`, `inner_enqueue`/`inner_dequeue`, destructor | refines `SPSCQueue` |
| `QueueOwnership`, `MC_QueueOwnership` | heap ownership across the lifetimes of several objects of all three classes: constructors (V3 116–192 with `make_block` failure, wrapper 893–897, V2 34–66), move constructors (V3 196–219, wrapper 899–903, V2 68–75), move assignments and `swap` (V3 223–233, wrapper 905–910, V2 88–108), destructors, and one-element enqueue/dequeue | sequential: these calls are not thread-safe by contract |

### How `ReaderWriterQueue` corresponds to the code

Blocks are the numbers `1..MaxBlocks`; `allocated` is the set that `make_block` has
returned, and the rest are the free pool a later `make_block` draws from (or fails,
returning `nullptr`). Per block the model keeps `front`, `tail`, `localFront`,
`localTail`, `next`, `sizeMask`, and per slot `live` (an element is constructed
there) and `val` (which element, numbered by enqueue order).

Each thread has a program counter (`ppc`, `cpc`) and the locals the code keeps in
registers (`tailBlock_`, `blockFront`, `blockTail`, `nextBlockTail`, `newBlock` as
`tb, bf, bt, nbt, nb`; `frontBlock_`, `blockFront`, `blockTail` as `fb, cf, ct`).
Each action is the code between two shared accesses, so every interleaving of
shared loads and stores is explored:

* producer: `PBegin` (loads of `tailBlock`, `localFront`, `tail`), `PRefreshFront`
  (line 648's reload of `front`), `PConstruct` and `PStoreTail` (656, 663 — the fast
  path's linearization point), `PCheckNext` (670; also the `CannotAlloc` return and the
  hand-off to allocation), `PReadNext`, `PConstructNext`, `PStoreNextTail`,
  `PPublishTail` (681–705), `PAlloc` (711–726, including `make_block` failure), `PLink`
  (729–730) and the final `tailBlock = newBlock` (740) in `PPublishTail`.
* consumer: `CBegin` (343–355, choosing `try_dequeue`, `pop` or `peek`),
  `CRefreshTail` (364), `CTake` and `CStoreFront` (370–379, the linearization point),
  `CCheckTail` (383), `CReread` (387–397), `CReadNext`, `CReadNextTail` (401–412),
  `CAdvance` (418). `peek` and `pop` share the same control with their own results.

History variables (`sent`, `removed`, `presult`, `cresult`, `lenAtStart`,
`emptyAtStart`, `lastPeek`) record what the calls returned and what the abstract
queue looked like when they began; they are never read by the code's actions.

`AbsQueue` walks the blocks from `frontBlock` along `next` to `tailBlock` and
concatenates the elements between `front` and `tail` of each. It is the refinement
mapping: `Abstract == INSTANCE SPSCQueue WITH queue <- AbsQueue`.

### How `ReaderWriterQueueObservers` corresponds to the code

An observer call is made by one thread (`caller`) when it has no enqueue or
dequeue in flight, and that thread takes no other step until the call returns;
the other thread runs freely. `ObsBegin` loads `frontBlock` into `ofb`
(`frontBlock_`). `size_approx` then takes three steps per block, because each is
a separate load the other thread can come between: `SizeReadFront`, `SizeReadTail`
(which adds `(tail - front) & sizeMask`) and `ObsReadNext`. `max_capacity` takes
one step per block, `ObsReadNext`, which adds `sizeMask` (constant once the block
is made) and loads `next`. Both end when `next` is `ofb`. The history variables
`ostart` and `oend` hold the measured quantity when the call begins and when it
returns. That quantity is the elements stored in, or the capacity of, the blocks
on the ring through `frontBlock`. A block between `make_block` and `PLink` is not
yet on the ring.

### How `QueueOwnership` corresponds to the code

Objects are model values in `RObjs`, `WObjs` and `CObjs`, each `unborn`, `alive`
or `dead`; storage blocks are model values in `Storage`, and `inUse` is what has
been allocated and not freed. `own[o]` is the storage `o`'s pointers designate
(`frontBlock`'s ring, `inner`'s ring, or `rawData`), `held[o]` its element count
and `sema[o]` the count of a wrapper's semaphore, `Null` once it has been moved
from. One call is one step. `RConstruct` makes `CtorBlocks` blocks or, when
`AllocCanFail`, throws after fewer, which stay in `inUse`. `RMoveConstruct` and
`WMoveConstruct` take the source's ring and give it a fresh block (lines 206–218);
`WMoveAssign` swaps `sema` and then, unless the temporary's `make_block` fails,
the rings. V2's move constructor starts empty and swaps. The queue operations
are reduced to one element in and out; the wrapper's `signal` and `tryWait`
move `sema` with them, and no call is made on an object whose `sema` is null.
The failing `make_block` of the V3 move constructor leaves both objects as they
were, so it is not a separate step.

### How `CircularBuffer` corresponds to the code

`nextSlot` and `nextItem` are W-bit counters (`Wrap`); a counter's slot is
`Pos(i) = i % (mask + 1)`, which is `i & mask` for the power-of-two `mask + 1`
that `CircularMask` computes exactly as the constructor does. `slots` and `items`
are the two semaphores' counts; `slots` starts at `SignedSize(Capacity)`, the
`ssize_t` conversion of line 36. Each thread's pc is `idle`, `wait`/`timedWait`
(blocked in the semaphore), then `enqueue`/`dequeue` (inside `inner_*`, having
taken a unit) and `signal` (the counter is incremented and the element moved,
the other semaphore not yet signalled). So the gap between moving the element and
signalling, where the other thread can run, is explored. The destructor walks
`availableApprox()` elements from `nextItem` and then frees the array.
`AbsQueue` lists the elements from `nextItem` on, leaving out one the producer
has written but not yet signalled; it maps `CircularBuffer` onto `SPSCQueue`.

## Runs

| Run | Config | Checks | Shows |
|---|---|---|---|
| `sizing_ceil` | W = 16, `MAX_BLOCK_SIZE` = 8, sizes 0..65535 | `CeilMatchesReference`, `CapacityCoversRepresentable` | `ceilToPow2` is the least power of two ≥ x, and 0 when it does not fit in W bits; the constructor's layout reserves `size` elements for every size below 2^(W-1) |
| `sizing_huge_size` (violation) | W = 8, `MAX_BLOCK_SIZE` = 4, sizes 0..255 | `CapacityCovers` | at size 128 the constructor builds a single block of 0 slots (finding below) |
| `rwq_ring` | `MAX_BLOCK_SIZE` = 2, size 4 (five 1-element blocks), 6 blocks, 6 enqueues | all safety properties and `QueueSpec` | the multi-block ring, growth beyond it, `make_block` failure |
| `rwq_wide` | `MAX_BLOCK_SIZE` = 4, size 2 (one 4-slot block), 3 blocks, 7 enqueues, `FairSpec` | the same, and `Delivered` | index wrap inside a block, block sizes doubling, peeking into the next block; every enqueued element is eventually dequeued |
| `brwq_ring` | as `rwq_ring`, with the wrapper, `BFairSpec` | `BlockingTypeOK`, `SemaphoreAssertHolds`, `SemaphoreCountsElements`, `QueueSpec`, `WaitDequeueReturns` | `assert(success)` never fails; the semaphore counts the queue's elements; a consumer blocked in `wait_dequeue` returns once the queue holds an element |
| `rwq_lifetime` | `MAX_BLOCK_SIZE` = 2, size 3 (one 4-slot block), 3 blocks, 5 enqueues, then the destructor | `ObserverTypeOK`, `SizeApproxWithinCall`, `MaxCapacityWithinCall`, `DestructorReleasesAll` | each observer returns a value the measured quantity had during the call; the destructor then destroys each remaining element once and frees each allocated block once, whatever blocks the producer spliced in |
| `rwq_s3` (violation) | `MAX_BLOCK_SIZE` = 8, size 15, 2 blocks, 17 enqueues | `S3FirstGrowthAt17` | the 16th enqueue already allocates (finding below) |
| `cb_wrap` | W = 8, capacity 3 (4 slots), 262 enqueues | `SlotAccessSafe`, `SemaphoresEncodeOccupancy`, `DestructorSafe`, `QueueSpec` | slot ownership across the counter wrap; the semaphores account for every slot; the destructor destroys exactly the ready elements; V2 is a FIFO queue |
| `cb_live` | W = 8, capacity 2, 5 enqueues, `FairSpec` | `Delivered`, `EnqueueWaitReturns` | every element is delivered; a producer blocked on a full ring is woken |
| `own_moves` | two objects of each class, 5 storage blocks, a 2-block constructor ring, 1 element per queue, 2 enqueues, allocation never fails | `OwnershipTypeOK`, `OwnershipSound`, `ElementsConserved`, `SemaphoreMatchesInner` | every sequence of constructions, moves, move assignments, swaps, enqueues, dequeues and destructions keeps each block owned by exactly one living object, every element accounted for once, and each wrapper's semaphore equal to its queue's length |
| `own_ctor_fail` (violation) | as `own_moves`, `make_block` may fail | `OwnershipSound` | the multi-block constructor leaks the blocks made before a failing `make_block` (finding below) |
| `own_swap_fail` (violation) | as `own_moves`, `make_block` may fail | `SemaphoreMatchesInner` | a failing wrapper move assignment leaves the semaphores swapped and the queues not (finding below) |

Properties of `ReaderWriterQueue`:

* `SlotAccessSafe` — the producer never constructs into a slot holding a live
  element and the consumer only moves out of a live slot (no overwrite, no read of
  garbage).
* `CodeAssertions` — the code's `assert(nextBlockFront != nextBlockTail)` (412) and
  `assert(nextBlockFront == nextBlockTail)` (690) hold in every interleaving.
* `EmptyReturnLinearizable` — `try_dequeue`/`pop`/`peek` return empty only if the
  queue was empty at some moment during the call.
* `CapacityGuarantee` — `try_enqueue` reports full only if the queue held at least
  `size` elements when the call began (the constructor's promise).
* `PeekSeesFront` — the element `peek` returned is the head of the queue until the
  consumer's next call.
* `QueueSpec` — the queue implements a FIFO queue (refinement).
* `Delivered` — every enqueued element is eventually removed.

Properties of the other modules:

* `SizeApproxWithinCall`, `MaxCapacityWithinCall` — an observer's result lies
  between the quantity it measures at the call and at the return. The other
  thread only adds (caller is the consumer) or only removes (caller is the
  producer), so the quantity moves one way. A walk that ends at the current
  `frontBlock` instead of the one it loaded, or that drops the mask, leaves the
  interval. `size_approx` counts an element the producer has stored in the next
  block before publishing `tailBlock`, and so does the quantity. That is why the
  quantity is the stored count rather than the length of the abstract queue.
* `DestructorReleasesAll` — every element the destructor destroys is live, no
  block is freed twice, and when the loop ends every allocated block is freed and
  no element is left.
* `SemaphoreAssertHolds` — the wrapper's `assert(success)` (1000, 1016, 1035,
  1073) holds: a unit of the semaphore always finds an element in the inner queue.
* `SemaphoreCountsElements` — the queue's length is the semaphore count plus the
  element published but not yet signalled and the one taken but not yet removed;
  a timed wait that gives up takes nothing.
* `WaitDequeueReturns` — a blocked `wait_dequeue` returns once the queue is not
  empty.
* V2 `SlotAccessSafe` — `inner_enqueue` constructs only into a free slot and
  `inner_dequeue` moves only out of a full one, across the counter wrap.
* `SemaphoresEncodeOccupancy` — `items` plus the in-flight units equals the
  elements in the ring, and `slots` plus the in-flight units plus the elements
  equals the capacity.
* `DestructorSafe` — V2's destructor destroys exactly the live slots.
* V2 `QueueSpec`, `Delivered`, and `EnqueueWaitReturns` — a producer blocked in
  `wait_enqueue` on a full ring gets a slot.
* `OwnershipSound` — every block or buffer in use belongs to exactly one living
  object (no leak, no double free to come), no living object points at freed
  storage, and every living V3 queue, moved from or not, has a ring.
* `ElementsConserved` — every element enqueued is dequeued, destroyed by a
  destructor, or in a living queue, exactly once.
* `SemaphoreMatchesInner` — every non-null semaphore of a wrapper counts the
  elements of its own inner queue, through moves and move assignments.

Under the wrapper, the consumer's double check of `tailBlock` (V3 lines 387–397,
mutant `CRereadSkipped`) is no longer needed for `QueueSpec`: a consumer that holds
a unit of the semaphore always finds its element, at worst in a later block. So
`brwq_ring` uses a different mutant for `QueueSpec`, and `rwq_ring` still checks
the double check for the bare queue.

Each property has a mutant in `PROJECT.json`: a plausible bug in the code
(a dropped refresh of a shadow index, a missing mask, a skipped re-read, no spare
block, a peek into the wrong block, …) that TLC finds violates it.

### Bounds

Blocks of 1 element (`MAX_BLOCK_SIZE` = 2) make every enqueue a block boundary,
which is where the races are; the five-block ring is the smallest the constructor
builds in multi-block mode with a spare and still leaves room to grow. The 4-slot
run makes indices wrap inside a block and makes a peeked element live in the next
block. `MaxEnqueues` exceeds the capacity so that "full", growth and `make_block`
failure (free pool exhausted) all happen. W = 16 for the sizing runs covers the
`sizeof(size_t)` loop's two iterations of `i`; W = 8 makes the overflow reachable
in a 256-state run.

For V2, W = 8 with 262 enqueues drives `nextSlot` and `nextItem` past 255 and back
to 0, so positions are taken from wrapped counters. Capacity 3 rounds up to 4
slots, so `mask + 1 ≠ capacity` and a position taken modulo the capacity instead
of masked would be caught. The wrapper run reuses the five-block ring of
`rwq_ring`. The lifetime run uses a ring that starts with one block and grows,
so the observers and the destructor both meet spliced-in blocks; the five-block
ring under the observers is out of TLC's reach in minutes.

For `QueueOwnership`, two objects per class give every move and swap a partner
and a moved-from object to reuse; five blocks hold two 2-block rings and the
fresh block of a move. A `MaxHeld` of 1 below the 2 enqueues lets a queue be
full (V2's `slots_` refusing) and lets elements be left for the destructors.
Symmetry is taken over the objects of each class only: the storage blocks are
interchangeable too, but their permutations cost more than the states they save.

### Fairness

Both queue functions are wait-free: once a call has begun, each of its steps is
enabled until it returns, so weak fairness on each thread's in-flight steps is
justified by the scheduler running the threads. The producer may stop enqueuing
(no fairness on `PBegin`); the consumer is assumed to keep calling `try_dequeue` or
`pop` (strong fairness on beginning such a call), which is the client loop
`Delivered` is about.

The blocking queues' waits are not wait-free, but each semaphore is decremented
only by the one thread that waits on it. Once its count is positive it stays
positive until that thread takes a unit, so weak fairness on the wait's acquire
step is enough. The consumer keeps calling `wait_dequeue` (strong fairness on
beginning it); the producer may stop. The blocking, lifetime and ownership runs set
`CHECK_DEADLOCK FALSE`: once the producer stops, a consumer in `wait_dequeue`
blocks for ever, as the code intends. The destructor ends the queue's life, so no
step follows it, and in `QueueOwnership` nothing follows once every object is dead.

### Memory model

Every shared access is an atomic step in a sequentially consistent
interleaving: the code's acquire/release fences are what make the x86/ARM build
behave so, and reorderings under a weaker model are not explored.

## Findings

`sizing_huge_size`: `ReaderWriterQueue(size)` computes `ceilToPow2(size + 1)` in
`size_t` (line 129). For `size >= 2^(W-1)` the result wraps to 0, the single-block
branch is taken and `make_block(0)` builds a block with no slots and `sizeMask` all
ones: the queue cannot hold the `size` elements promised, and the first enqueue
constructs past the allocation instead of the constructor failing.

`rwq_s3`: scenario S3 of the specification says that a queue constructed with
size 15 and `MAX_BLOCK_SIZE` 8 has two blocks of 8, and that the 17th enqueue is
the first to allocate. The constructor (line 131) computes `ceilToPow2(16)` = 16.
That is not greater than `2 * MAX_BLOCK_SIZE`, so it builds a single 16-slot block
holding 15 elements, and TLC finds the 16th enqueue reaching `make_block`. The
specification's own construction rule (a single block when `ceil_pow2(size + 1)
≤ 2 · MAX_BLOCK_SIZE`) agrees with the code. It is the scenario that is wrong.

`own_ctor_fail`: in the multi-block branch of `ReaderWriterQueue(size)`, a
`make_block` that returns `nullptr` throws `std::bad_alloc` (line 157) after
earlier iterations have linked blocks into `firstBlock`. The object is never
constructed, so no destructor frees them: they leak.

`own_swap_fail`: `BlockingReaderWriterQueue::operator=(&&)` runs
`std::swap(sema, other.sema)` and then `std::swap(inner, other.inner)` (lines
907–908). The second swap move-constructs a temporary, which calls
`make_block(32)`. If that throws, each object keeps its own queue but the other's
semaphore: a `wait_dequeue` takes a unit for an element its queue does not have
(`assert(success)` fails), and the other queue's elements have no units.

## Not modelled

* Calls on a moved-from wrapper, whose `sema` is null: they dereference null.
* V2's and the wrapper's `size_approx` and `max_capacity`. Each is a single read
  (`availableApprox()` of a semaphore, or `maxcap`), changes no state, and is
  bounded by the invariants already checked. V3's ring walks are modelled.
* A throwing `T` constructor in V2 (line 289). The header documents it as leaving
  the buffer corrupted, so there is no intended behaviour to check.
* A failure of V2's unchecked `malloc` (line 64), which is an out-of-memory crash,
  and `bad_alloc` from the `new` of a semaphore, which the members' destructors
  clean up.
* The `LightweightSemaphore` implementation: `atomicops.h` is not among the
  sources, so its contract is modelled from the spec (`Semaphore`).
* The spec's V1 queue. Its code is folly's `ProducerConsumerQueue`, bundled in
  `src/benchmarks/ext/folly` for the benchmarks to compare against and not part of
  the library's headers. The project's twelve TLC runs are spent on V2 and V3.
* Weak-memory reorderings, and the benchmarks and tests,
  whose code is not among the sources.
