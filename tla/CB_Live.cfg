\* Liveness under FairSpec: capacity 2 (a ring of 2 slots), 5 enqueues, so the producer blocks on a full ring.
\* The consumer may block in wait_dequeue for ever once the producer stops, so deadlock is not an error.
CONSTANTS
  W = 8
  Capacity = 2
  MaxEnqueues = 5
SPECIFICATION FairSpec
CHECK_DEADLOCK FALSE
PROPERTY Delivered
PROPERTY EnqueueWaitReturns
