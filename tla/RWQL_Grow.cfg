\* Size 3 with MAX_BLOCK_SIZE 2: one 4-slot block, then 4-slot blocks spliced in
\* by enqueue, so the observers' walks meet a ring that grows and a frontBlock
\* that moves while they run, and the destructor a ring that has grown and
\* turned.  The destructor ends the queue's life, so its last state has no
\* successor.
CONSTANTS
  MAX_BLOCK_SIZE = 2
  QueueSize = 3
  MaxBlocks = 3
  MaxEnqueues = 5
  W = 16
SPECIFICATION LSpec
CHECK_DEADLOCK FALSE
INVARIANT ObserverTypeOK
INVARIANT SizeApproxWithinCall
INVARIANT MaxCapacityWithinCall
INVARIANT DestructorReleasesAll
