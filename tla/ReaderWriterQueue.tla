-------------------------- MODULE ReaderWriterQueue --------------------------
(***************************************************************************)
(* moodycamel::ReaderWriterQueue<T, MAX_BLOCK_SIZE> (readerwriterqueue.h): *)
(* a ring of blocks, each a small circular buffer, shared by one producer  *)
(* thread (inner_enqueue, behind try_enqueue and enqueue) and one consumer *)
(* thread (try_dequeue, pop, peek).                                        *)
(*                                                                         *)
(* Each thread is a program counter and the locals of the call in flight.  *)
(* A step does at most one load or store of a field the other thread       *)
(* writes or reads, plus any number of accesses to fields only its own     *)
(* thread touches; loads and stores are sequentially consistent (see       *)
(* README: the fences of the code are abstracted).  Element construction   *)
(* and destruction are steps of their own, so an access to a slot the other *)
(* thread still owns is a reachable state.                                 *)
(*                                                                         *)
(* The element enqueued by the n-th successful enqueue is the value n.     *)
(***************************************************************************)
EXTENDS Naturals, Sequences, FiniteSets

CONSTANTS
  MAX_BLOCK_SIZE, \* template parameter: the largest block allocated
  QueueSize,      \* the `size` argument of the constructor
  MaxBlocks,      \* bound: blocks that can ever be allocated
  MaxEnqueues,    \* bound: successful enqueues in a behaviour
  W               \* bits of size_t, for the constructor's arithmetic

S == INSTANCE Sizing

ASSUME Len(S!InitialBlockSizes(QueueSize)) <= MaxBlocks
ASSUME MaxEnqueues \in Nat \ {0}

Blocks == 1 .. MaxBlocks
nullptr == 0
Values == 1 .. MaxEnqueues

(* No block is ever larger than the constructor's largest or the largest   *)
(* size growth doubles up to.                                              *)
SlotCount ==
  IF S!InitialLargestBlockSize(QueueSize) > MAX_BLOCK_SIZE
    THEN S!InitialLargestBlockSize(QueueSize) ELSE MAX_BLOCK_SIZE
Slots == 0 .. SlotCount - 1

VARIABLES
  (* ReaderWriterQueue members *)
  frontBlock, tailBlock, largestBlockSize,
  (* Block members, one function per field over the block pool *)
  allocated,  \* the blocks make_block has returned
  sizeMask, front, localTail, tail, localFront, next,
  live,       \* live[b][i]: slot i of block b holds a constructed T
  val,        \* val[b][i]: the value last constructed in slot i of block b
  (* the producer thread: program counter and inner_enqueue's locals *)
  ppc, mode, tb, bf, bt, nbt, nb,
  (* the consumer thread: program counter and try_dequeue/pop/peek's locals *)
  cpc, op, fb, cb, cf, ct, cval,
  (* history *)
  sent,          \* successful enqueues so far
  removed,       \* values dequeued or popped, in order
  presult,       \* outcome of the last finished enqueue call
  cresult,       \* outcome of the last finished consumer call
  lenAtStart,    \* elements in the queue when the current enqueue began
  emptyAtStart,  \* the queue was empty when the current consumer call began
  lastPeek       \* the value peek returned in this consumer call, else 0

queueVars == <<frontBlock, tailBlock, largestBlockSize, allocated, sizeMask,
               front, localTail, tail, localFront, next, live, val>>
prodVars  == <<ppc, mode, tb, bf, bt, nbt, nb>>
consVars  == <<cpc, op, fb, cb, cf, ct, cval>>
histVars  == <<sent, removed, presult, cresult, lenAtStart, emptyAtStart, lastPeek>>
vars == <<queueVars, prodVars, consVars, histVars>>

-----------------------------------------------------------------------------
(* Mutant: the index is incremented without the & sizeMask.               *)
SuccNoMask(b, i) == i + 1

(* (i + 1) & sizeMask: the next index in a block of sizeMask + 1 slots.    *)
Succ(b, i) == (i + 1) % (sizeMask[b] + 1)

(* (tail - front) & sizeMask: the elements a block holds.                  *)
Occupancy(b) == (tail[b] + sizeMask[b] + 1 - front[b]) % (sizeMask[b] + 1)

BlockContents(b) ==
  [j \in 1 .. Occupancy(b) |-> val[b][(front[b] + j - 1) % (sizeMask[b] + 1)]]

(* The blocks from b to tailBlock along next.                              *)
RECURSIVE Segment(_, _)
Segment(b, k) ==
  IF b = tailBlock \/ k = 0 THEN <<b>> ELSE <<b>> \o Segment(next[b], k - 1)

RECURSIVE Concat(_)
Concat(s) == IF s = <<>> THEN <<>> ELSE BlockContents(Head(s)) \o Concat(Tail(s))

(* The queue's contents as the consumer will see them: the published       *)
(* elements of every block from frontBlock to tailBlock.                   *)
AbsQueue == Concat(Segment(frontBlock, MaxBlocks))

-----------------------------------------------------------------------------
(* ReaderWriterQueue(size): the block ring of the constructor.             *)
InitSizes == S!InitialBlockSizes(QueueSize)

Init ==
  LET n == Len(InitSizes) IN
  /\ allocated = 1 .. n
  /\ sizeMask = [b \in Blocks |-> IF b <= n THEN InitSizes[b] - 1 ELSE 0]
  /\ next = [b \in Blocks |-> IF b > n THEN nullptr ELSE IF b = n THEN 1 ELSE b + 1]
  /\ front = [b \in Blocks |-> 0]
  /\ localTail = [b \in Blocks |-> 0]
  /\ tail = [b \in Blocks |-> 0]
  /\ localFront = [b \in Blocks |-> 0]
  /\ live = [b \in Blocks |-> [i \in Slots |-> FALSE]]
  /\ val = [b \in Blocks |-> [i \in Slots |-> 0]]
  /\ frontBlock = 1
  /\ tailBlock = 1
  /\ largestBlockSize = S!InitialLargestBlockSize(QueueSize)
  /\ ppc = "idle" /\ mode = "CannotAlloc"
  /\ tb = nullptr /\ bf = 0 /\ bt = 0 /\ nbt = 0 /\ nb = nullptr
  /\ cpc = "idle" /\ op = "dequeue"
  /\ fb = nullptr /\ cb = nullptr /\ cf = 0 /\ ct = 0 /\ cval = 0
  /\ sent = 0 /\ removed = <<>>
  /\ presult = "none" /\ cresult = "none"
  /\ lenAtStart = 0 /\ emptyAtStart = TRUE /\ lastPeek = 0

-----------------------------------------------------------------------------
(* Producer: inner_enqueue<canAlloc>.  try_enqueue/try_emplace call it     *)
(* with CannotAlloc, enqueue/emplace with CanAlloc.                        *)

(* new (location) T(...): the element takes the next value.                *)
Construct(b, i) ==
  /\ live' = [live EXCEPT ![b][i] = TRUE]
  /\ val' = [val EXCEPT ![b][i] = sent + 1]

(* Mutant: the room test compares tail, not tail + 1, with the shadow front,*)
(* so the spare slot of a block gets used.                                 *)
PBeginNoSpareSlot(m) ==
  /\ ppc = "idle"
  /\ sent < MaxEnqueues
  /\ LET t == tailBlock
         n == Succ(t, tail[t])
     IN /\ tb' = t /\ bf' = localFront[t] /\ bt' = tail[t] /\ nbt' = n
        /\ ppc' = IF tail[t] # localFront[t] THEN "construct" ELSE "refreshFront"
  /\ mode' = m
  /\ lenAtStart' = Len(AbsQueue)
  /\ presult' = "none"
  /\ UNCHANGED <<queueVars, nb, consVars, sent, removed, cresult,
                 emptyAtStart, lastPeek>>

(* Read tailBlock, the shadow localFront and tail; room if the shadow says *)
(* so, else go and refresh it.                                             *)
PBegin(m) ==
  /\ ppc = "idle"
  /\ sent < MaxEnqueues
  /\ LET t == tailBlock
         n == Succ(t, tail[t])
     IN /\ tb' = t /\ bf' = localFront[t] /\ bt' = tail[t] /\ nbt' = n
        /\ ppc' = IF n # localFront[t] THEN "construct" ELSE "refreshFront"
  /\ mode' = m
  /\ lenAtStart' = Len(AbsQueue)
  /\ presult' = "none"
  /\ UNCHANGED <<queueVars, nb, consVars, sent, removed, cresult,
                 emptyAtStart, lastPeek>>

(* Mutant: the full test reuses the stale shadow instead of loading front. *)
PRefreshFrontStale ==
  /\ ppc = "refreshFront"
  /\ ppc' = IF nbt # localFront[tb] THEN "construct" ELSE "checkNext"
  /\ UNCHANGED <<queueVars, mode, tb, bf, bt, nbt, nb, consVars, histVars>>

(* tailBlock_->localFront = tailBlock_->front.load()                       *)
PRefreshFront ==
  /\ ppc = "refreshFront"
  /\ localFront' = [localFront EXCEPT ![tb] = front[tb]]
  /\ bf' = front[tb]
  /\ ppc' = IF nbt # front[tb] THEN "construct" ELSE "checkNext"
  /\ UNCHANGED <<frontBlock, tailBlock, largestBlockSize, allocated, sizeMask,
                 front, localTail, tail, next, live, val,
                 mode, tb, bt, nbt, nb, consVars, histVars>>

PConstruct ==
  /\ ppc = "construct"
  /\ Construct(tb, bt)
  /\ ppc' = "storeTail"
  /\ UNCHANGED <<frontBlock, tailBlock, largestBlockSize, allocated, sizeMask,
                 front, localTail, tail, localFront, next,
                 mode, tb, bf, bt, nbt, nb, consVars, histVars>>

(* tailBlock_->tail = nextBlockTail: the element is published.             *)
PStoreTail ==
  /\ ppc = "storeTail"
  /\ tail' = [tail EXCEPT ![tb] = nbt]
  /\ sent' = sent + 1
  /\ presult' = "ok"
  /\ ppc' = "idle"
  /\ UNCHANGED <<frontBlock, tailBlock, largestBlockSize, allocated, sizeMask,
                 front, localTail, localFront, next, live, val,
                 mode, tb, bf, bt, nbt, nb, consVars,
                 removed, cresult, lenAtStart, emptyAtStart, lastPeek>>

(* Mutant: the producer moves on to the next block without checking that  *)
(* it is not the consumer's front block.                                   *)
PCheckNextIgnoresFront ==
  /\ ppc = "checkNext"
  /\ \/ /\ nb' = next[tb]
        /\ ppc' = "readNext"
        /\ UNCHANGED presult
     \/ /\ next[tb] = frontBlock
        /\ mode = "CanAlloc"
        /\ ppc' = "alloc"
        /\ UNCHANGED <<nb, presult>>
     \/ /\ next[tb] = frontBlock
        /\ mode = "CannotAlloc"
        /\ presult' = "full"
        /\ ppc' = "idle"
        /\ UNCHANGED nb
  /\ UNCHANGED <<queueVars, mode, tb, bf, bt, nbt, consVars,
                 sent, removed, cresult, lenAtStart, emptyAtStart, lastPeek>>

(* The tail block is full: tailBlock_->next.load() != frontBlock.  The     *)
(* successor is free, or the ring is saturated and the call allocates or   *)
(* fails according to canAlloc.                                            *)
PCheckNext ==
  /\ ppc = "checkNext"
  /\ \/ /\ next[tb] # frontBlock
        /\ nb' = next[tb]
        /\ ppc' = "readNext"
        /\ UNCHANGED presult
     \/ /\ next[tb] = frontBlock
        /\ mode = "CanAlloc"
        /\ ppc' = "alloc"
        /\ UNCHANGED <<nb, presult>>
     \/ /\ next[tb] = frontBlock
        /\ mode = "CannotAlloc"
        /\ presult' = "full"
        /\ ppc' = "idle"
        /\ UNCHANGED nb
  /\ UNCHANGED <<queueVars, mode, tb, bf, bt, nbt, consVars,
                 sent, removed, cresult, lenAtStart, emptyAtStart, lastPeek>>

(* nextBlockFront = tailBlockNext->localFront = tailBlockNext->front.load();*)
(* nextBlockTail = tailBlockNext->tail.load();                             *)
PReadNext ==
  /\ ppc = "readNext"
  /\ localFront' = [localFront EXCEPT ![nb] = front[nb]]
  /\ bf' = front[nb]
  /\ nbt' = tail[nb]
  /\ ppc' = "constructNext"
  /\ UNCHANGED <<frontBlock, tailBlock, largestBlockSize, allocated, sizeMask,
                 front, localTail, tail, next, live, val,
                 mode, tb, bt, nb, consVars, histVars>>

PConstructNext ==
  /\ ppc = "constructNext"
  /\ Construct(nb, nbt)
  /\ ppc' = "storeNextTail"
  /\ UNCHANGED <<frontBlock, tailBlock, largestBlockSize, allocated, sizeMask,
                 front, localTail, tail, localFront, next,
                 mode, tb, bf, bt, nbt, nb, consVars, histVars>>

(* tailBlockNext->tail = (nextBlockTail + 1) & tailBlockNext->sizeMask      *)
PStoreNextTail ==
  /\ ppc = "storeNextTail"
  /\ tail' = [tail EXCEPT ![nb] = Succ(nb, nbt)]
  /\ ppc' = "publishTail"
  /\ UNCHANGED <<frontBlock, tailBlock, largestBlockSize, allocated, sizeMask,
                 front, localTail, localFront, next, live, val,
                 mode, tb, bf, bt, nbt, nb, consVars, histVars>>

(* make_block(newBlockSize); on nullptr return false.  Otherwise construct *)
(* the element in slot 0 of the private new block, set tail = localTail =  *)
(* 1 and newBlock->next = tailBlock_->next, and record largestBlockSize.   *)
(* make_block fails when malloc does, which may happen on any call and     *)
(* always happens once the MaxBlocks pool is spent.                        *)
PAlloc ==
  LET newBlockSize == IF largestBlockSize >= MAX_BLOCK_SIZE
                        THEN largestBlockSize ELSE largestBlockSize * 2
  IN
  /\ ppc = "alloc"
  /\ \/ /\ presult' = "nomem"
        /\ ppc' = "idle"
        /\ UNCHANGED <<queueVars, nb>>
     \/ \E b \in Blocks \ allocated :
          /\ allocated' = allocated \cup {b}
          /\ sizeMask' = [sizeMask EXCEPT ![b] = newBlockSize - 1]
          /\ largestBlockSize' = newBlockSize
          /\ Construct(b, 0)
          /\ tail' = [tail EXCEPT ![b] = 1]
          /\ localTail' = [localTail EXCEPT ![b] = 1]
          /\ next' = [next EXCEPT ![b] = next[tb]]
          /\ nb' = b
          /\ ppc' = "link"
          /\ UNCHANGED <<frontBlock, tailBlock, front, localFront, presult>>
  /\ UNCHANGED <<mode, tb, bf, bt, nbt, consVars,
                 sent, removed, cresult, lenAtStart, emptyAtStart, lastPeek>>

(* tailBlock_->next = newBlock                                             *)
PLink ==
  /\ ppc = "link"
  /\ next' = [next EXCEPT ![tb] = nb]
  /\ ppc' = "publishTail"
  /\ UNCHANGED <<frontBlock, tailBlock, largestBlockSize, allocated, sizeMask,
                 front, localTail, tail, localFront, live, val,
                 mode, tb, bf, bt, nbt, nb, consVars, histVars>>

(* tailBlock = tailBlockNext (or newBlock): the element is published.      *)
PPublishTail ==
  /\ ppc = "publishTail"
  /\ tailBlock' = nb
  /\ sent' = sent + 1
  /\ presult' = "ok"
  /\ ppc' = "idle"
  /\ UNCHANGED <<frontBlock, largestBlockSize, allocated, sizeMask,
                 front, localTail, tail, localFront, next, live, val,
                 mode, tb, bf, bt, nbt, nb, consVars,
                 removed, cresult, lenAtStart, emptyAtStart, lastPeek>>

(* The steps of an enqueue call in flight.                                *)
ProducerStep ==
  \/ PRefreshFront \/ PConstruct \/ PStoreTail \/ PCheckNext
  \/ PReadNext \/ PConstructNext \/ PStoreNextTail \/ PAlloc \/ PLink
  \/ PPublishTail

Producer == (\E m \in {"CanAlloc", "CannotAlloc"} : PBegin(m)) \/ ProducerStep

-----------------------------------------------------------------------------
(* Consumer: try_dequeue, pop and peek share one path; they differ in what *)
(* they do with the element found, and peek neither advances frontBlock    *)
(* nor refreshes the next block's localTail.                               *)

(* Mutant: an empty-looking shadow is trusted without loading tail.        *)
CBeginNoRefresh(o) ==
  /\ cpc = "idle"
  /\ LET f == frontBlock IN
     /\ fb' = f /\ cb' = f /\ cf' = front[f] /\ ct' = localTail[f]
     /\ cpc' = IF front[f] # localTail[f] THEN "take" ELSE "checkTail"
  /\ op' = o
  /\ emptyAtStart' = (AbsQueue = <<>>)
  /\ lastPeek' = 0
  /\ cresult' = "none"
  /\ UNCHANGED <<queueVars, prodVars, cval, sent, removed, presult,
                 lenAtStart>>

(* Read frontBlock, the shadow localTail and front; an element if the      *)
(* shadow says so, else go and refresh it.                                 *)
CBegin(o) ==
  /\ cpc = "idle"
  /\ LET f == frontBlock IN
     /\ fb' = f /\ cb' = f /\ cf' = front[f] /\ ct' = localTail[f]
     /\ cpc' = IF front[f] # localTail[f] THEN "take" ELSE "refreshTail"
  /\ op' = o
  /\ emptyAtStart' = (AbsQueue = <<>>)
  /\ lastPeek' = 0
  /\ cresult' = "none"
  /\ UNCHANGED <<queueVars, prodVars, cval, sent, removed, presult,
                 lenAtStart>>

(* frontBlock_->localTail = frontBlock_->tail.load()                       *)
CRefreshTail ==
  /\ cpc = "refreshTail"
  /\ localTail' = [localTail EXCEPT ![fb] = tail[fb]]
  /\ ct' = tail[fb]
  /\ cpc' = IF cf # tail[fb] THEN "take" ELSE "checkTail"
  /\ UNCHANGED <<frontBlock, tailBlock, largestBlockSize, allocated, sizeMask,
                 front, tail, localFront, next, live, val,
                 prodVars, op, fb, cb, cf, cval, histVars>>

(* Mutant: an empty front block is taken for an empty queue; the consumer  *)
(* never moves on to the next block.                                       *)
CCheckTailNoAdvance ==
  /\ cpc = "checkTail"
  /\ cresult' = "empty"
  /\ cpc' = "idle"
  /\ UNCHANGED <<queueVars, prodVars, op, fb, cb, cf, ct, cval,
                 sent, removed, presult, lenAtStart, emptyAtStart, lastPeek>>

(* frontBlock_ != tailBlock.load(): if the front block is the tail block   *)
(* the queue is empty and the call returns false.                          *)
CCheckTail ==
  /\ cpc = "checkTail"
  /\ \/ /\ fb # tailBlock
        /\ cpc' = "reread"
        /\ UNCHANGED cresult
     \/ /\ fb = tailBlock
        /\ cresult' = "empty"
        /\ cpc' = "idle"
  /\ UNCHANGED <<queueVars, prodVars, op, fb, cb, cf, ct, cval,
                 sent, removed, presult, lenAtStart, emptyAtStart, lastPeek>>

(* Mutant: no double check; an empty front block that is not the tail     *)
(* block is left at once.                                                  *)
CRereadSkipped ==
  /\ cpc = "reread"
  /\ cpc' = "readNext"
  /\ UNCHANGED <<queueVars, prodVars, op, fb, cb, cf, ct, cval, histVars>>

(* The double check: frontBlock_ = frontBlock; blockTail =                 *)
(* frontBlock_->localTail = frontBlock_->tail.load(); blockFront =         *)
(* frontBlock_->front; if the block filled up meanwhile, take from it.     *)
CReread ==
  /\ cpc = "reread"
  /\ fb' = frontBlock
  /\ localTail' = [localTail EXCEPT ![frontBlock] = tail[frontBlock]]
  /\ ct' = tail[frontBlock]
  /\ cf' = front[frontBlock]
  /\ cb' = frontBlock
  /\ cpc' = IF front[frontBlock] # tail[frontBlock] THEN "take" ELSE "readNext"
  /\ UNCHANGED <<frontBlock, tailBlock, largestBlockSize, allocated, sizeMask,
                 front, tail, localFront, next, live, val,
                 prodVars, op, cval, histVars>>

(* Block *nextBlock = frontBlock_->next                                    *)
CReadNext ==
  /\ cpc = "readNext"
  /\ cb' = next[fb]
  /\ cpc' = "readNextTail"
  /\ UNCHANGED <<queueVars, prodVars, op, fb, cf, ct, cval, histVars>>

(* nextBlockFront = nextBlock->front; nextBlockTail = nextBlock->localTail *)
(* = nextBlock->tail.load() (peek only loads tail, for its assert).        *)
CReadNextTail ==
  /\ cpc = "readNextTail"
  /\ cf' = front[cb]
  /\ ct' = tail[cb]
  /\ localTail' = IF op = "peek" THEN localTail
                  ELSE [localTail EXCEPT ![cb] = tail[cb]]
  /\ cpc' = IF op = "peek" THEN "take" ELSE "advance"
  /\ UNCHANGED <<frontBlock, tailBlock, largestBlockSize, allocated, sizeMask,
                 front, tail, localFront, next, live, val,
                 prodVars, op, fb, cb, cval, histVars>>

(* frontBlock = frontBlock_ = nextBlock                                    *)
CAdvance ==
  /\ cpc = "advance"
  /\ frontBlock' = cb
  /\ fb' = cb
  /\ cpc' = "take"
  /\ UNCHANGED <<tailBlock, largestBlockSize, allocated, sizeMask,
                 front, localTail, tail, localFront, next, live, val,
                 prodVars, op, cb, cf, ct, cval, histVars>>

(* Mutant: peek on the next-block path returns the address of index       *)
(* nextBlockFront in the old front block.                                  *)
CTakePeekOldBlock ==
  /\ cpc = "take"
  /\ \/ /\ op = "peek"
        /\ lastPeek' = val[fb][cf]
        /\ cresult' = "ok"
        /\ cpc' = "idle"
        /\ UNCHANGED <<live, cval>>
     \/ /\ op \in {"dequeue", "pop"}
        /\ live' = [live EXCEPT ![cb][cf] = FALSE]
        /\ cval' = val[cb][cf]
        /\ cpc' = "storeFront"
        /\ UNCHANGED <<lastPeek, cresult>>
  /\ UNCHANGED <<frontBlock, tailBlock, largestBlockSize, allocated, sizeMask,
                 front, localTail, tail, localFront, next, val,
                 prodVars, op, fb, cb, cf, ct,
                 sent, removed, presult, lenAtStart, emptyAtStart>>

(* peek returns the element's address; try_dequeue moves it out and pop    *)
(* does not, and both run ~T() on the slot.                                *)
CTake ==
  /\ cpc = "take"
  /\ \/ /\ op = "peek"
        /\ lastPeek' = val[cb][cf]
        /\ cresult' = "ok"
        /\ cpc' = "idle"
        /\ UNCHANGED <<live, cval>>
     \/ /\ op \in {"dequeue", "pop"}
        /\ live' = [live EXCEPT ![cb][cf] = FALSE]
        /\ cval' = val[cb][cf]
        /\ cpc' = "storeFront"
        /\ UNCHANGED <<lastPeek, cresult>>
  /\ UNCHANGED <<frontBlock, tailBlock, largestBlockSize, allocated, sizeMask,
                 front, localTail, tail, localFront, next, val,
                 prodVars, op, fb, cb, cf, ct,
                 sent, removed, presult, lenAtStart, emptyAtStart>>

(* frontBlock_->front = (blockFront + 1) & frontBlock_->sizeMask: the slot *)
(* is handed back to the producer.                                         *)
CStoreFront ==
  /\ cpc = "storeFront"
  /\ front' = [front EXCEPT ![cb] = Succ(cb, cf)]
  /\ removed' = Append(removed, cval)
  /\ cresult' = "ok"
  /\ cpc' = "idle"
  /\ UNCHANGED <<frontBlock, tailBlock, largestBlockSize, allocated, sizeMask,
                 localTail, tail, localFront, next, live, val,
                 prodVars, op, fb, cb, cf, ct, cval,
                 sent, presult, lenAtStart, emptyAtStart, lastPeek>>

(* The steps of a consumer call in flight.                                 *)
ConsumerStep ==
  \/ CRefreshTail \/ CCheckTail \/ CReread \/ CReadNext \/ CReadNextTail
  \/ CAdvance \/ CTake \/ CStoreFront

Consumer == (\E o \in {"dequeue", "pop", "peek"} : CBegin(o)) \/ ConsumerStep

Next == Producer \/ Consumer

Spec == Init /\ [][Next]_vars

(* Both threads are scheduled, so a call in flight keeps taking steps: no  *)
(* step of either thread waits for the other (the queue is wait-free).     *)
(* The consumer is a loop that keeps calling try_dequeue or pop, though it *)
(* may peek in between: a removing call is begun infinitely often when the *)
(* consumer is idle infinitely often.  The producer may stop calling.      *)
FairSpec ==
  /\ Spec
  /\ WF_vars(ProducerStep)
  /\ WF_vars(ConsumerStep)
  /\ SF_vars(\E o \in {"dequeue", "pop"} : CBegin(o))

-----------------------------------------------------------------------------
PCs == {"idle", "refreshFront", "construct", "storeTail", "checkNext",
        "readNext", "constructNext", "storeNextTail", "alloc", "link",
        "publishTail"}
CPCs == {"idle", "refreshTail", "checkTail", "reread", "readNext",
         "readNextTail", "advance", "take", "storeFront"}

TypeOK ==
  /\ allocated \subseteq Blocks
  /\ frontBlock \in allocated /\ tailBlock \in allocated
  /\ \A b \in allocated :
       /\ sizeMask[b] + 1 \in {2^k : k \in 1 .. 8} /\ sizeMask[b] < SlotCount
       /\ next[b] \in allocated
       /\ {front[b], tail[b], localFront[b], localTail[b]} \subseteq 0 .. sizeMask[b]
  /\ live \in [Blocks -> [Slots -> BOOLEAN]]
  /\ val \in [Blocks -> [Slots -> 0 .. MaxEnqueues]]
  /\ ppc \in PCs /\ mode \in {"CanAlloc", "CannotAlloc"}
  /\ cpc \in CPCs /\ op \in {"dequeue", "pop", "peek"}
  /\ sent \in 0 .. MaxEnqueues /\ removed \in Seq(Values)
  /\ presult \in {"none", "ok", "full", "nomem"}
  /\ cresult \in {"none", "ok", "empty"}

(* Slot ownership: the producer constructs only into a slot that holds no  *)
(* live element, and the consumer reads (peek), moves out of and destroys  *)
(* only a slot that holds one.  Breaking it takes a thread acting on a     *)
(* stale view of the other's index or block pointer.                       *)
SlotAccessSafe ==
  /\ ppc = "construct" => ~live[tb][bt]
  /\ ppc = "constructNext" => ~live[nb][nbt]
  /\ cpc = "take" => live[cb][cf]

(* The asserts of the code hold: when the consumer moves to the next block *)
(* (or peeks into it) that block is not empty,                             *)
(* assert(nextBlockFront != nextBlockTail); when the producer moves on to  *)
(* the next block that block is empty, assert(nextBlockFront ==            *)
(* nextBlockTail).                                                         *)
CodeAssertions ==
  /\ (cpc = "advance" \/ (cpc = "take" /\ cb # fb)) => cf # ct
  /\ ppc = "constructNext" => bf = nbt

(* A consumer call returns false (queue empty) only if the queue was empty *)
(* when the call began: elements are only added while it runs, so that is  *)
(* the only point where "empty" can be the truth.  This is what the read   *)
(* of tailBlock and the double check of try_dequeue are for.               *)
EmptyReturnLinearizable == cresult = "empty" => emptyAtStart

(* try_enqueue fails only when the queue held at least `size` elements     *)
(* when the call began ("Constructs a queue that can hold at least `size`  *)
(* elements without further allocations", the spare block of the           *)
(* constructor).                                                           *)
CapacityGuarantee == presult = "full" => lenAtStart >= QueueSize

(* A pointer returned by peek addresses the element the next try_dequeue  *)
(* or pop will remove, until the consumer's next call.                     *)
PeekSeesFront == lastPeek # 0 => AbsQueue # <<>> /\ Head(AbsQueue) = lastPeek

(* Every element a successful enqueue published is eventually taken out by *)
(* the consumer: no element is stranded in a block the consumer never      *)
(* reaches, however the two threads interleave.                            *)
Delivered == \A n \in Values : (sent >= n) ~> (Len(removed) >= n)

(* The queue implements SPSCQueue: successful enqueues append at the store *)
(* of tail or tailBlock, successful dequeues and pops remove the oldest    *)
(* element at the store of front, and no other step changes the contents:  *)
(* FIFO order, no loss, no duplication.                                    *)
Abstract == INSTANCE SPSCQueue WITH queue <- AbsQueue, removed <- removed
QueueSpec == Abstract!Spec
=============================================================================
