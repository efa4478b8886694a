--------------------------- MODULE CircularBuffer ---------------------------
(***************************************************************************)
(* BlockingReaderWriterCircularBuffer (src/readerwritercircularbuffer.h):  *)
(* a fixed ring of mask + 1 slots, indexed by the producer's counter       *)
(* nextSlot and the consumer's counter nextItem, both size_t values that   *)
(* grow without bound and wrap modulo 2^W; a slot is `counter & mask`.     *)
(* Two semaphores gate the threads: slots_ counts free slots and items     *)
(* counts ready elements.  One producer and one consumer run concurrently; *)
(* each semaphore operation and each access to the ring is one step.       *)
(* The destructor runs once both threads have returned.                    *)
(***************************************************************************)
EXTENDS Word, Integers, Sequences, FiniteSets

CONSTANTS
  Capacity,     \* the constructor's `capacity` (maxcap)
  MaxEnqueues   \* bound on the elements the producer enqueues

ASSUME Capacity \in 1 .. Mod \div 2 - 1 /\ MaxEnqueues \in Nat

VARIABLES
  slots, items,          \* the counts of the semaphores slots_ and items
  nextSlot, nextItem,    \* the ring counters
  live, val,             \* per slot: an element is constructed there; which
  ppc, cpc,              \* producer's and consumer's place in their calls
  dpc, di, dn,           \* destructor: where it is, its i and its n
  sent, removed          \* history: elements constructed, elements moved out

vars == <<slots, items, nextSlot, nextItem, live, val, ppc, cpc,
          dpc, di, dn, sent, removed>>
dtorVars == <<dpc, di, dn>>

Slots == INSTANCE Semaphore WITH count <- slots
Items == INSTANCE Semaphore WITH count <- items

(* mask = capacity after --capacity and the smears: one less than the      *)
(* power of two the ring is allocated with.                                *)
mask == CircularMask(Capacity)
Positions == 0 .. mask

Values == 1 .. MaxEnqueues

(* Mutant: "cheap modulo" by the actual capacity instead of the mask.     *)
PosModCapacity(i) == i % Capacity

(* reinterpret_cast<T *>(data) + (i & mask): mask is 2^k - 1, so i & mask *)
(* is the remainder of i by mask + 1.                                      *)
Pos(i) == i % (mask + 1)

Init ==
  /\ slots = SignedSize(Capacity)
  /\ items = 0
  /\ nextSlot = 0 /\ nextItem = 0
  /\ live = [p \in Positions |-> FALSE]
  /\ val = [p \in Positions |-> 0]
  /\ ppc = "idle" /\ cpc = "idle"
  /\ dpc = "none" /\ di = 0 /\ dn = 0
  /\ sent = 0 /\ removed = <<>>

-----------------------------------------------------------------------------
(* Producer: try_enqueue, wait_enqueue ("wait"), wait_enqueue_timed       *)
(* ("timedWait").  A call that returns false leaves ppc "idle".           *)

PIdle == ppc = "idle" /\ dpc = "none" /\ sent < MaxEnqueues

(* Mutant: try_enqueue ignores what slots_->tryWait() returned.           *)
PTryEnqueueNoWait ==
  /\ PIdle
  /\ ppc' = "enqueue"
  /\ UNCHANGED <<slots, items, nextSlot, nextItem, live, val, cpc, dtorVars,
                 sent, removed>>

(* try_enqueue: if slots_->tryWait() succeeds go on to inner_enqueue,     *)
(* else return false.                                                      *)
PTryEnqueue ==
  /\ PIdle
  /\ \/ Slots!Acquire /\ ppc' = "enqueue"
     \/ Slots!TryWaitFails /\ UNCHANGED ppc
  /\ UNCHANGED <<items, nextSlot, nextItem, live, val, cpc, dtorVars,
                 sent, removed>>

(* wait_enqueue / wait_enqueue_timed: block in slots_->wait.              *)
PWaitBegin(w) ==
  /\ PIdle
  /\ ppc' = w
  /\ UNCHANGED <<slots, items, nextSlot, nextItem, live, val, cpc, dtorVars,
                 sent, removed>>

PWaitAcquire ==
  /\ ppc \in {"wait", "timedWait"}
  /\ Slots!Acquire
  /\ ppc' = "enqueue"
  /\ UNCHANGED <<items, nextSlot, nextItem, live, val, cpc, dtorVars,
                 sent, removed>>

(* Mutant: the timed wait takes a slot and still reports a timeout.       *)
PWaitTimeoutAfterTaking ==
  /\ ppc = "timedWait"
  /\ Slots!Acquire
  /\ ppc' = "idle"
  /\ UNCHANGED <<items, nextSlot, nextItem, live, val, cpc, dtorVars,
                 sent, removed>>

(* wait_enqueue_timed: slots_->wait(timeout) returns false; return false. *)
(* (wait_enqueue loops on a false return, a step that changes nothing.)   *)
PWaitTimeout ==
  /\ ppc = "timedWait"
  /\ Slots!TimesOut
  /\ ppc' = "idle"
  /\ UNCHANGED <<items, nextSlot, nextItem, live, val, cpc, dtorVars,
                 sent, removed>>

(* Mutant: i = ++nextSlot instead of nextSlot++.                          *)
PInnerEnqueuePreIncrement ==
  /\ ppc = "enqueue"
  /\ nextSlot' = Wrap(nextSlot + 1)
  /\ live' = [live EXCEPT ![Pos(nextSlot')] = TRUE]
  /\ val' = [val EXCEPT ![Pos(nextSlot')] = sent + 1]
  /\ sent' = sent + 1
  /\ ppc' = "signal"
  /\ UNCHANGED <<slots, items, nextItem, cpc, dtorVars, removed>>

(* inner_enqueue: i = nextSlot++; construct the element at i & mask.      *)
PInnerEnqueue ==
  /\ ppc = "enqueue"
  /\ nextSlot' = Wrap(nextSlot + 1)
  /\ live' = [live EXCEPT ![Pos(nextSlot)] = TRUE]
  /\ val' = [val EXCEPT ![Pos(nextSlot)] = sent + 1]
  /\ sent' = sent + 1
  /\ ppc' = "signal"
  /\ UNCHANGED <<slots, items, nextItem, cpc, dtorVars, removed>>

(* Mutant: items->signal() is left out.                                   *)
PSignalMissing ==
  /\ ppc = "signal"
  /\ ppc' = "idle"
  /\ UNCHANGED <<slots, items, nextSlot, nextItem, live, val, cpc, dtorVars,
                 sent, removed>>

(* inner_enqueue: items->signal(); the call returns true.                 *)
PSignal ==
  /\ ppc = "signal"
  /\ Items!Signal
  /\ ppc' = "idle"
  /\ UNCHANGED <<slots, nextSlot, nextItem, live, val, cpc, dtorVars,
                 sent, removed>>

ProducerStep == PWaitAcquire \/ PInnerEnqueue \/ PSignal

Producer ==
  \/ PTryEnqueue
  \/ \E w \in {"wait", "timedWait"} : PWaitBegin(w)
  \/ PWaitTimeout
  \/ ProducerStep

-----------------------------------------------------------------------------
(* Consumer: try_dequeue, wait_dequeue ("wait"), wait_dequeue_timed       *)
(* ("timedWait").                                                          *)

CIdle == cpc = "idle" /\ dpc = "none"

(* try_dequeue: if items->tryWait() succeeds go on to inner_dequeue,      *)
(* else return false.                                                      *)
CTryDequeue ==
  /\ CIdle
  /\ \/ Items!Acquire /\ cpc' = "dequeue"
     \/ Items!TryWaitFails /\ UNCHANGED cpc
  /\ UNCHANGED <<slots, nextSlot, nextItem, live, val, ppc, dtorVars,
                 sent, removed>>

(* wait_dequeue / wait_dequeue_timed: block in items->wait.               *)
CWaitBegin(w) ==
  /\ CIdle
  /\ cpc' = w
  /\ UNCHANGED <<slots, items, nextSlot, nextItem, live, val, ppc, dtorVars,
                 sent, removed>>

CWaitAcquire ==
  /\ cpc \in {"wait", "timedWait"}
  /\ Items!Acquire
  /\ cpc' = "dequeue"
  /\ UNCHANGED <<slots, nextSlot, nextItem, live, val, ppc, dtorVars,
                 sent, removed>>

(* wait_dequeue_timed: items->wait(timeout) returns false; return false.  *)
CWaitTimeout ==
  /\ cpc = "timedWait"
  /\ Items!TimesOut
  /\ cpc' = "idle"
  /\ UNCHANGED <<slots, nextSlot, nextItem, live, val, ppc, dtorVars,
                 sent, removed>>

(* inner_dequeue: i = nextItem++; move the element at i & mask out and    *)
(* destroy it.                                                             *)
CInnerDequeue ==
  /\ cpc = "dequeue"
  /\ nextItem' = Wrap(nextItem + 1)
  /\ live' = [live EXCEPT ![Pos(nextItem)] = FALSE]
  /\ removed' = Append(removed, val[Pos(nextItem)])
  /\ cpc' = "signal"
  /\ UNCHANGED <<slots, items, nextSlot, val, ppc, dtorVars, sent>>

(* Mutant: slots_->signal() is left out.                                  *)
CSignalMissing ==
  /\ cpc = "signal"
  /\ cpc' = "idle"
  /\ UNCHANGED <<slots, items, nextSlot, nextItem, live, val, ppc, dtorVars,
                 sent, removed>>

(* inner_dequeue: slots_->signal(); the call returns true.                *)
CSignal ==
  /\ cpc = "signal"
  /\ Slots!Signal
  /\ cpc' = "idle"
  /\ UNCHANGED <<items, nextSlot, nextItem, live, val, ppc, dtorVars,
                 sent, removed>>

ConsumerStep == CWaitAcquire \/ CInnerDequeue \/ CSignal

Consumer ==
  \/ CTryDequeue
  \/ \E w \in {"wait", "timedWait"} : CWaitBegin(w)
  \/ CWaitTimeout
  \/ ConsumerStep

-----------------------------------------------------------------------------
(* ~BlockingReaderWriterCircularBuffer, once both threads have returned:  *)
(* for (i = 0, n = items->availableApprox(); i != n; ++i)                 *)
(*   data[(nextItem + i) & mask].~T();                                     *)
(* std::free(rawData);                                                     *)

DestroyBegin ==
  /\ dpc = "none" /\ ppc = "idle" /\ cpc = "idle"
  /\ dpc' = "loop" /\ di' = 0 /\ dn' = Items!AvailableApprox
  /\ UNCHANGED <<slots, items, nextSlot, nextItem, live, val, ppc, cpc,
                 sent, removed>>

(* Mutant: the loop starts at nextSlot instead of nextItem.               *)
DestroyStepFromSlot ==
  /\ dpc = "loop" /\ di # dn
  /\ live' = [live EXCEPT ![Pos(Wrap(nextSlot + di))] = FALSE]
  /\ di' = di + 1
  /\ UNCHANGED <<slots, items, nextSlot, nextItem, val, ppc, cpc,
                 dpc, dn, sent, removed>>

DestroyStep ==
  /\ dpc = "loop" /\ di # dn
  /\ live' = [live EXCEPT ![Pos(Wrap(nextItem + di))] = FALSE]
  /\ di' = di + 1
  /\ UNCHANGED <<slots, items, nextSlot, nextItem, val, ppc, cpc,
                 dpc, dn, sent, removed>>

DestroyFree ==
  /\ dpc = "loop" /\ di = dn
  /\ dpc' = "freed"
  /\ UNCHANGED <<slots, items, nextSlot, nextItem, live, val, ppc, cpc,
                 di, dn, sent, removed>>

Destructor == DestroyBegin \/ DestroyStep \/ DestroyFree

Next == Producer \/ Consumer \/ Destructor

Spec == Init /\ [][Next]_vars

(* Both threads are scheduled, so a step of a call in flight is taken     *)
(* (each semaphore is decremented by one thread only, so once positive it *)
(* stays so until that thread acquires); the consumer is a loop that keeps *)
(* calling wait_dequeue; the producer may stop.                            *)
FairSpec ==
  /\ Spec
  /\ WF_vars(ProducerStep)
  /\ WF_vars(ConsumerStep)
  /\ SF_vars(CWaitBegin("wait"))

-----------------------------------------------------------------------------
(* Properties. *)

(* The elements in the ring that a dequeue may take: from nextItem up to  *)
(* nextSlot, less the one the producer has constructed but not yet        *)
(* signalled.  Counters are subtracted modulo 2^W, as size_t does.       *)
Published == Wrap(nextSlot + Mod - nextItem) - (IF ppc = "signal" THEN 1 ELSE 0)

AbsQueue == [k \in 1 .. Published |-> val[Pos(Wrap(nextItem + k - 1))]]

(* inner_enqueue never constructs into a slot that holds an element, and  *)
(* inner_dequeue only moves out of a slot that holds one: the semaphores  *)
(* and the counters agree on whose turn each slot is, across the wrap of  *)
(* the counters.                                                           *)
SlotAccessSafe ==
  /\ ppc = "enqueue" => ~live[Pos(nextSlot)]
  /\ cpc = "dequeue" => live[Pos(nextItem)]

(* "The two semaphores together encode the full occupancy": items counts  *)
(* the constructed elements no dequeue has claimed, slots_ the free slots *)
(* no enqueue has claimed, whatever the interleaving of the two threads   *)
(* and of timed waits that give up (until the destructor runs).          *)
SemaphoresEncodeOccupancy ==
  LET held == Cardinality({p \in Positions : live[p]})
  IN  dpc = "none" =>
      /\ items + (IF cpc = "dequeue" THEN 1 ELSE 0)
               + (IF ppc = "signal" THEN 1 ELSE 0) = held
      /\ slots + (IF ppc = "enqueue" THEN 1 ELSE 0)
               + (IF cpc = "signal" THEN 1 ELSE 0) + held = Capacity

(* The destructor destroys exactly the elements still in the ring: each   *)
(* slot it destroys holds an element, and none is left when it frees the  *)
(* memory.                                                                 *)
DestructorSafe ==
  /\ dpc = "loop" /\ di # dn => live[Pos(Wrap(nextItem + di))]
  /\ dpc = "freed" => \A p \in Positions : ~live[p]

(* The ring implements a FIFO queue: enqueue takes effect at              *)
(* items->signal(), dequeue at the move out of the slot.                  *)
Abstract == INSTANCE SPSCQueue WITH queue <- AbsQueue, removed <- removed
QueueSpec == Abstract!Spec

(* Every element enqueued is eventually dequeued by a consumer that keeps *)
(* calling wait_dequeue, unless the buffer is destroyed first (the        *)
(* destructor destroys what is left).                                     *)
Delivered ==
  \A n \in Values : (sent >= n) ~> (Len(removed) >= n \/ dpc # "none")

(* A producer blocked in wait_enqueue on a full ring eventually gets a    *)
(* slot: the consumer's slots_->signal() wakes it.                         *)
EnqueueWaitReturns == ppc = "wait" ~> (ppc = "enqueue")
====
