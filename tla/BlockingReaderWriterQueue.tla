--------------------- MODULE BlockingReaderWriterQueue ---------------------
(***************************************************************************)
(* moodycamel::BlockingReaderWriterQueue (readerwriterqueue.h): a          *)
(* ReaderWriterQueue `inner` and a semaphore `sema` counting the elements  *)
(* ready to dequeue.  An enqueue runs the inner enqueue and, if it         *)
(* succeeded, signals sema; a dequeue first takes a unit of sema           *)
(* (tryWait, wait or wait(timeout)) and then runs the inner try_dequeue or *)
(* pop, asserting that it succeeds.  peek goes straight to the inner       *)
(* queue.                                                                  *)
(*                                                                         *)
(* The inner queue is the step-by-step model of module ReaderWriterQueue;  *)
(* the wrapper adds its own program counters around the inner calls, so   *)
(* every interleaving of the wrapper's semaphore steps with the inner      *)
(* queue's loads and stores is explored.                                   *)
(***************************************************************************)
EXTENDS ReaderWriterQueue

VARIABLES
  sema,      \* the count of the semaphore
  bpc,       \* producer: "idle", "inner" (in inner enqueue), "signal"
  bcpc,      \* consumer: "idle", "wait", "timedWait", "acquired", "inner"
  bop,       \* consumer: the inner call it makes ("dequeue", "pop", "peek")
  success    \* the value of `success` at the last assert(success)

wrapVars == <<sema, bpc, bcpc, bop, success>>
allVars == <<vars, wrapVars>>

Sema == INSTANCE Semaphore WITH count <- sema

BInit ==
  /\ Init
  /\ sema = 0 /\ bpc = "idle" /\ bcpc = "idle" /\ bop = "dequeue"
  /\ success = TRUE

-----------------------------------------------------------------------------
(* Producer: try_enqueue / try_emplace (CannotAlloc), enqueue / emplace    *)
(* (CanAlloc): if (inner.xxx(...)) { sema->signal(); return true; }        *)

(* Mutant: the semaphore is signalled before the inner enqueue runs.      *)
BEnqueueSignalFirst(m) ==
  /\ bpc = "idle"
  /\ PBegin(m)
  /\ Sema!Signal
  /\ bpc' = "inner"
  /\ UNCHANGED <<bcpc, bop, success>>

BEnqueueBegin(m) ==
  /\ bpc = "idle"
  /\ PBegin(m)
  /\ bpc' = "inner"
  /\ UNCHANGED <<sema, bcpc, bop, success>>

(* A step of the inner enqueue; when it returns, signal if it succeeded.   *)
BEnqueueInner ==
  /\ bpc = "inner"
  /\ ProducerStep
  /\ bpc' = IF ppc' # "idle" THEN "inner"
            ELSE IF presult' = "ok" THEN "signal" ELSE "idle"
  /\ UNCHANGED <<sema, bcpc, bop, success>>

(* Mutant: the enqueue returns true without signalling.                  *)
BEnqueueSignalMissing ==
  /\ bpc = "signal"
  /\ bpc' = "idle"
  /\ UNCHANGED <<vars, sema, bcpc, bop, success>>

(* sema->signal(); return true.                                           *)
BEnqueueSignal ==
  /\ bpc = "signal"
  /\ Sema!Signal
  /\ bpc' = "idle"
  /\ UNCHANGED <<vars, bcpc, bop, success>>

-----------------------------------------------------------------------------
(* Consumer: try_dequeue and pop (sema->tryWait()), wait_dequeue           *)
(* (while (!sema->wait());), wait_dequeue_timed (sema->wait(timeout)),     *)
(* then the inner call and assert(success); peek calls inner.peek().       *)

(* try_dequeue / pop: tryWait succeeds, or the call returns false.        *)
BTryDequeue(o) ==
  /\ bcpc = "idle"
  /\ \/ Sema!Acquire /\ bcpc' = "acquired"
     \/ Sema!TryWaitFails /\ UNCHANGED bcpc
  /\ bop' = o
  /\ UNCHANGED <<vars, bpc, success>>

BWaitBegin(w) ==
  /\ bcpc = "idle"
  /\ bcpc' = w /\ bop' = "dequeue"
  /\ UNCHANGED <<vars, sema, bpc, success>>

BWaitAcquire ==
  /\ bcpc \in {"wait", "timedWait"}
  /\ Sema!Acquire
  /\ bcpc' = "acquired"
  /\ UNCHANGED <<vars, bpc, bop, success>>

(* Mutant: the timed wait takes a unit and still reports a timeout.       *)
BWaitTimeoutAfterTaking ==
  /\ bcpc = "timedWait"
  /\ Sema!Acquire
  /\ bcpc' = "idle"
  /\ UNCHANGED <<vars, bpc, bop, success>>

(* wait_dequeue_timed: sema->wait(timeout) is false; return false.        *)
BWaitTimeout ==
  /\ bcpc = "timedWait"
  /\ Sema!TimesOut
  /\ bcpc' = "idle"
  /\ UNCHANGED <<vars, bpc, bop, success>>

(* The inner try_dequeue or pop begins.                                    *)
BInnerBegin ==
  /\ bcpc = "acquired"
  /\ CBegin(bop)
  /\ bcpc' = "inner"
  /\ UNCHANGED <<sema, bpc, bop, success>>

(* peek(): return inner.peek().                                           *)
BPeek ==
  /\ bcpc = "idle"
  /\ CBegin("peek")
  /\ bcpc' = "inner" /\ bop' = "peek"
  /\ UNCHANGED <<sema, bpc, success>>

(* A step of the inner call; when a try_dequeue or pop returns, its       *)
(* result is what assert(success) checks.                                  *)
BInnerStep ==
  /\ bcpc = "inner"
  /\ ConsumerStep
  /\ bcpc' = IF cpc' = "idle" THEN "idle" ELSE "inner"
  /\ success' = IF cpc' = "idle" /\ bop # "peek" THEN cresult' = "ok"
                ELSE success
  /\ UNCHANGED <<sema, bpc, bop>>

BProducerStep == BEnqueueInner \/ BEnqueueSignal
BConsumerStep == BWaitAcquire \/ BInnerBegin \/ BInnerStep

BNext ==
  \/ \E m \in {"CanAlloc", "CannotAlloc"} : BEnqueueBegin(m)
  \/ BProducerStep
  \/ \E o \in {"dequeue", "pop"} : BTryDequeue(o)
  \/ \E w \in {"wait", "timedWait"} : BWaitBegin(w)
  \/ BWaitTimeout \/ BPeek
  \/ BConsumerStep

BSpec == BInit /\ [][BNext]_allVars

(* The threads are scheduled, so calls in flight progress; a thread       *)
(* blocked in wait is woken once the count is positive (only it takes     *)
(* units, so the count stays positive).  The consumer is a loop that      *)
(* keeps calling wait_dequeue; the producer may stop.                      *)
BFairSpec ==
  /\ BSpec
  /\ WF_allVars(BProducerStep)
  /\ WF_allVars(BConsumerStep)
  /\ SF_allVars(BWaitBegin("wait"))

-----------------------------------------------------------------------------
BlockingTypeOK ==
  /\ TypeOK
  /\ sema \in Nat
  /\ bpc \in {"idle", "inner", "signal"}
  /\ bcpc \in {"idle", "wait", "timedWait", "acquired", "inner"}
  /\ bop \in {"dequeue", "pop", "peek"}
  /\ success \in BOOLEAN

(* assert(success): once try_dequeue, pop, wait_dequeue or                 *)
(* wait_dequeue_timed has taken a unit of sema, the inner try_dequeue or  *)
(* pop finds an element, whatever the producer is doing meanwhile.  It    *)
(* needs both the signal-after-publish order of the enqueue and the inner *)
(* queue never reporting empty while it holds an element.                  *)
SemaphoreAssertHolds == success

(* The semaphore counts the queue: the elements in the inner queue are    *)
(* the units in sema, plus one the producer has published but not yet     *)
(* signalled, plus one the consumer has taken a unit for but not yet      *)
(* removed.  A timed wait that gives up takes nothing.                     *)
SemaphoreCountsElements ==
  Len(AbsQueue) = sema + (IF bpc = "signal" THEN 1 ELSE 0)
                       + (IF bcpc \in {"acquired", "inner"} /\ bop # "peek"
                            THEN 1 ELSE 0)

(* A consumer blocked in wait_dequeue returns once an element has been    *)
(* enqueued: it is not left waiting while the queue holds something.       *)
WaitDequeueReturns ==
  (bcpc = "wait" /\ AbsQueue # <<>>) ~> (bcpc # "wait")
====
