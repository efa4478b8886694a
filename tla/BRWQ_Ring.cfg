\* Under BFairSpec, so the same instance also checks that a blocked wait_dequeue returns.
\* The blocking wrapper over the constructor's ring of five 2-slot blocks (size 4, MAX_BLOCK_SIZE 2),
\* growth to 6 blocks, 6 enqueues.
\* The consumer may block in wait_dequeue for ever once the producer stops, so deadlock is not an error.
CONSTANTS
  MAX_BLOCK_SIZE = 2
  QueueSize = 4
  MaxBlocks = 6
  MaxEnqueues = 6
  W = 16
SPECIFICATION BFairSpec
CHECK_DEADLOCK FALSE
INVARIANT BlockingTypeOK
INVARIANT SemaphoreAssertHolds
INVARIANT SemaphoreCountsElements
PROPERTY QueueSpec
PROPERTY WaitDequeueReturns
