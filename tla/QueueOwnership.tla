---------------------------- MODULE QueueOwnership ----------------------------
(***************************************************************************)
(* Who owns which heap storage across the construction, move construction, *)
(* move assignment, swap and destruction of the three queue classes.  None *)
(* of these may run concurrently with anything else on the same objects,   *)
(* so this is a sequential model: one call per step, the queue operations  *)
(* reduced to adding and removing one element (their concurrent behaviour  *)
(* is the subject of the other modules).                                   *)
(*                                                                         *)
(*   ReaderWriterQueue (RObjs): frontBlock/tailBlock point into a ring of  *)
(*     blocks (own[o]); largestBlockSize only sizes later blocks.          *)
(*   BlockingReaderWriterQueue (WObjs): such a ring as `inner`, and the    *)
(*     unique_ptr `sema`, whose count the model keeps (Null once moved).  *)
(*   BlockingReaderWriterCircularBuffer (CObjs): rawData (own[o], one      *)
(*     buffer or none); its two semaphores always travel with it.          *)
(*                                                                         *)
(* make_block may fail when AllocCanFail; the code then throws            *)
(* std::bad_alloc (exceptions enabled).  Storage is a bound: a step that   *)
(* would need more than is left is not taken.                              *)
(***************************************************************************)
EXTENDS Integers, FiniteSets

LOCAL INSTANCE Functions

CONSTANTS
  RObjs, WObjs, CObjs, \* objects of each class (model values)
  Storage,             \* heap blocks and buffers (model values)
  CtorBlocks,          \* blocks of the ring the queue constructor builds
  MaxHeld,             \* bound: elements in one queue
  MaxMade,             \* bound: elements enqueued in a behaviour
  AllocCanFail         \* whether make_block / malloc may return nullptr

Null == -1  \* a null sema: no count, never a count

Objs == RObjs \cup WObjs \cup CObjs
Rings == RObjs \cup WObjs

ASSUME CtorBlocks \in 1 .. Cardinality(Storage) /\ AllocCanFail \in BOOLEAN

VARIABLES
  status,   \* "unborn", "alive" (constructed), "dead" (destroyed)
  own,      \* own[o]: the storage object o's pointers designate
  held,     \* held[o]: elements in o's queue
  sema,     \* sema[w]: the count of w's semaphore, or Null once moved from
  inUse,    \* storage allocated and not yet freed
  made, taken, destroyed  \* history: elements enqueued, dequeued, ~T()'d

vars == <<status, own, held, sema, inUse, made, taken, destroyed>>

Pool == Storage \ inUse

Init ==
  /\ status = [o \in Objs |-> "unborn"]
  /\ own = [o \in Objs |-> {}]
  /\ held = [o \in Objs |-> 0]
  /\ sema = [w \in WObjs |-> 0]
  /\ inUse = {}
  /\ made = 0 /\ taken = 0 /\ destroyed = 0

Alive == {o \in Objs : status[o] = "alive"}

(* o takes src's storage and elements, src gets s and nothing in it.       *)
Transfer(o, src, s) ==
  /\ own' = [own EXCEPT ![o] = own[src], ![src] = s]
  /\ held' = [held EXCEPT ![o] = held[src], ![src] = 0]

(* std::swap of the storage pointers and of the elements they lead to.     *)
Exchange(o, src) ==
  /\ own' = [own EXCEPT ![o] = own[src], ![src] = own[o]]
  /\ held' = [held EXCEPT ![o] = held[src], ![src] = held[o]]

-----------------------------------------------------------------------------
(* ReaderWriterQueue(size) in multi-block mode: make_block CtorBlocks      *)
(* times, linking each block in.  When make_block returns nullptr the      *)
(* constructor throws bad_alloc; the object does not exist and the blocks  *)
(* made so far stay allocated.                                             *)
BuildRing(o) ==
  /\ status[o] = "unborn"
  /\ \/ \E S \in SUBSET Pool :
          /\ Cardinality(S) = CtorBlocks
          /\ status' = [status EXCEPT ![o] = "alive"]
          /\ own' = [own EXCEPT ![o] = S]
          /\ inUse' = inUse \cup S
     \/ \E S \in SUBSET Pool :
          /\ AllocCanFail
          /\ Cardinality(S) < CtorBlocks
          /\ inUse' = inUse \cup S
          /\ UNCHANGED <<status, own>>
  /\ UNCHANGED <<held, made, taken, destroyed>>

RConstruct(o) == BuildRing(o) /\ UNCHANGED sema

(* BlockingReaderWriterQueue(size): inner(size), then a new semaphore at 0.*)
WConstruct(o) == BuildRing(o) /\ sema' = [sema EXCEPT ![o] = 0]

(* ReaderWriterQueue(ReaderWriterQueue&&): take other's frontBlock,        *)
(* tailBlock and largestBlockSize, then give other a fresh block of 32     *)
(* linked to itself; if that make_block fails, bad_alloc leaves both as    *)
(* they were.                                                              *)
MoveRing(o, src) ==
  /\ status[o] = "unborn" /\ status[src] = "alive"
  /\ \E s \in Pool :
       /\ status' = [status EXCEPT ![o] = "alive"]
       /\ Transfer(o, src, {s})
       /\ inUse' = inUse \cup {s}
  /\ UNCHANGED <<made, taken, destroyed>>

(* Mutant: other keeps its frontBlock and tailBlock.                       *)
RMoveConstructNoFresh(o, src) ==
  /\ status[o] = "unborn" /\ status[src] = "alive"
  /\ status' = [status EXCEPT ![o] = "alive"]
  /\ own' = [own EXCEPT ![o] = own[src]]
  /\ held' = [held EXCEPT ![o] = held[src]]
  /\ UNCHANGED <<inUse, sema, made, taken, destroyed>>

RMoveConstruct(o, src) == MoveRing(o, src) /\ UNCHANGED sema

(* operator=(ReaderWriterQueue&&): swap frontBlock, tailBlock and          *)
(* largestBlockSize.                                                       *)
RMoveAssign(o, src) ==
  /\ {o, src} \subseteq Alive
  /\ Exchange(o, src)
  /\ UNCHANGED <<status, sema, inUse, made, taken, destroyed>>

(* Mutant: sema is copied rather than moved.                              *)
WMoveConstructCopiesSema(o, src) ==
  /\ MoveRing(o, src)
  /\ sema' = [sema EXCEPT ![o] = sema[src]]

(* BlockingReaderWriterQueue(&&): inner(std::move(other.inner)), then      *)
(* sema(std::move(other.sema)), which leaves other.sema null.              *)
WMoveConstruct(o, src) ==
  /\ MoveRing(o, src)
  /\ sema' = [sema EXCEPT ![o] = sema[src], ![src] = Null]

(* operator=(BlockingReaderWriterQueue&&): std::swap(sema, other.sema);    *)
(* std::swap(inner, other.inner).  The second swap move-constructs a       *)
(* temporary from inner, whose make_block(32) may fail: bad_alloc then     *)
(* propagates with sema already swapped and inner not.  Otherwise the      *)
(* temporary's fresh block is freed by its destructor and the inners are  *)
(* exchanged.                                                              *)
WMoveAssign(o, src) ==
  /\ {o, src} \subseteq Alive
  /\ sema' = [sema EXCEPT ![o] = sema[src], ![src] = sema[o]]
  /\ \/ Pool # {} /\ Exchange(o, src)
     \/ AllocCanFail /\ UNCHANGED <<own, held>>
  /\ UNCHANGED <<status, inUse, made, taken, destroyed>>

(* BlockingReaderWriterCircularBuffer(capacity): malloc the slot array.    *)
CConstruct(o) ==
  /\ status[o] = "unborn"
  /\ \E s \in Pool :
       /\ status' = [status EXCEPT ![o] = "alive"]
       /\ own' = [own EXCEPT ![o] = {s}]
       /\ inUse' = inUse \cup {s}
  /\ UNCHANGED <<held, sema, made, taken, destroyed>>

(* BlockingReaderWriterCircularBuffer(&&): start with no buffer (rawData   *)
(* nullptr, maxcap 0, semaphores at 0) and swap(other).                    *)
CMoveConstruct(o, src) ==
  /\ status[o] = "unborn" /\ status[src] = "alive"
  /\ status' = [status EXCEPT ![o] = "alive"]
  /\ Transfer(o, src, {})
  /\ UNCHANGED <<sema, inUse, made, taken, destroyed>>

(* operator=(&&) and swap(other): exchange every member.                   *)
CSwap(o, src) ==
  /\ {o, src} \subseteq Alive
  /\ Exchange(o, src)
  /\ UNCHANGED <<status, sema, inUse, made, taken, destroyed>>

-----------------------------------------------------------------------------
(* Mutant: the enqueue does not fail on a full queue.                      *)
EnqueueIgnoresFull(o) ==
  /\ o \in Alive /\ own[o] # {}
  /\ o \in WObjs => sema[o] # Null
  /\ made < MaxMade
  /\ held' = [held EXCEPT ![o] = @ + 1]
  /\ sema' = IF o \in WObjs THEN [sema EXCEPT ![o] = @ + 1] ELSE sema
  /\ made' = made + 1
  /\ UNCHANGED <<status, own, inUse, taken, destroyed>>

(* A successful enqueue (try_enqueue or enqueue); the wrapper then signals.*)
(* A V2 buffer without storage has slots_ at 0, so its enqueues fail; a    *)
(* full one (MaxHeld is then its capacity) fails on slots_->tryWait().      *)
Enqueue(o) ==
  /\ o \in Alive /\ own[o] # {}
  /\ o \in WObjs => sema[o] # Null
  /\ held[o] < MaxHeld /\ made < MaxMade
  /\ held' = [held EXCEPT ![o] = @ + 1]
  /\ sema' = IF o \in WObjs THEN [sema EXCEPT ![o] = @ + 1] ELSE sema
  /\ made' = made + 1
  /\ UNCHANGED <<status, own, inUse, taken, destroyed>>

(* A successful dequeue; the wrapper first takes a unit of sema.           *)
Dequeue(o) ==
  /\ o \in Alive /\ held[o] > 0
  /\ o \in WObjs => sema[o] # Null /\ sema[o] > 0
  /\ held' = [held EXCEPT ![o] = @ - 1]
  /\ sema' = IF o \in WObjs THEN [sema EXCEPT ![o] = @ - 1] ELSE sema
  /\ taken' = taken + 1
  /\ UNCHANGED <<status, own, inUse, made, destroyed>>

(* ~ReaderWriterQueue (also the inner of a wrapper, whose sema is deleted  *)
(* by its unique_ptr): ~T() on every element, std::free every block.        *)
RDestroy(o) ==
  /\ o \in Alive \cap Rings
  /\ status' = [status EXCEPT ![o] = "dead"]
  /\ destroyed' = destroyed + held[o]
  /\ inUse' = inUse \ own[o]
  /\ own' = [own EXCEPT ![o] = {}]
  /\ held' = [held EXCEPT ![o] = 0]
  /\ UNCHANGED <<sema, made, taken>>

(* Mutant: the buffer is freed without destroying the elements in it.      *)
CDestroyNoElements(o) ==
  /\ o \in Alive \cap CObjs
  /\ status' = [status EXCEPT ![o] = "dead"]
  /\ inUse' = inUse \ own[o]
  /\ own' = [own EXCEPT ![o] = {}]
  /\ held' = [held EXCEPT ![o] = 0]
  /\ UNCHANGED <<sema, made, taken, destroyed>>

(* ~BlockingReaderWriterCircularBuffer: ~T() on the items->availableApprox()*)
(* elements from nextItem, then std::free(rawData) (a no-op when null).    *)
CDestroy(o) ==
  /\ o \in Alive \cap CObjs
  /\ status' = [status EXCEPT ![o] = "dead"]
  /\ destroyed' = destroyed + held[o]
  /\ inUse' = inUse \ own[o]
  /\ own' = [own EXCEPT ![o] = {}]
  /\ held' = [held EXCEPT ![o] = 0]
  /\ UNCHANGED <<sema, made, taken>>

Next ==
  \/ \E o \in RObjs : RConstruct(o) \/ RDestroy(o)
  \/ \E o \in WObjs : WConstruct(o) \/ RDestroy(o)
  \/ \E o \in CObjs : CConstruct(o) \/ CDestroy(o)
  \/ \E o \in Objs : Enqueue(o) \/ Dequeue(o)
  \/ \E o, src \in RObjs : RMoveConstruct(o, src) \/ RMoveAssign(o, src)
  \/ \E o, src \in WObjs : WMoveConstruct(o, src) \/ WMoveAssign(o, src)
  \/ \E o, src \in CObjs : CMoveConstruct(o, src) \/ CSwap(o, src)

Spec == Init /\ [][Next]_vars

-----------------------------------------------------------------------------
OwnershipTypeOK ==
  /\ status \in [Objs -> {"unborn", "alive", "dead"}]
  /\ own \in [Objs -> SUBSET Storage] /\ inUse \subseteq Storage
  /\ held \in [Objs -> 0 .. MaxHeld]
  /\ sema \in [WObjs -> Nat \cup {Null}]

(* Every block or buffer in use belongs to exactly one living object (no   *)
(* double free to come, no leak), no living object points at storage that *)
(* is not in use, and a ReaderWriterQueue, moved from or not, always has a *)
(* ring to work on: what the fresh block of the move constructor is for.   *)
OwnershipSound ==
  /\ \A s \in inUse : Cardinality({o \in Alive : s \in own[o]}) = 1
  /\ \A o \in Alive : own[o] \subseteq inUse
  /\ \A o \in Alive \cap Rings : own[o] # {}

(* Every element enqueued is, exactly once, dequeued, destroyed by a       *)
(* destructor, or still in a living queue: moves and swaps neither lose    *)
(* nor duplicate elements.                                                 *)
ElementsConserved ==
  made = taken + destroyed + SumFunctionOnSet(held, Alive)

(* The semaphore of a BlockingReaderWriterQueue counts the elements of its *)
(* own inner queue, which is what makes assert(success) after a successful *)
(* wait hold.                                                              *)
SemaphoreMatchesInner ==
  \A w \in Alive \cap WObjs : sema[w] # Null => sema[w] = held[w]
====
