\* Capacity 3 in a ring of 4 slots, 8-bit counters and 262 enqueues: nextSlot and nextItem wrap past 255 to 0.
\* The consumer may block in wait_dequeue for ever once the producer stops, so deadlock is not an error.
CONSTANTS
  W = 8
  Capacity = 3
  MaxEnqueues = 262
SPECIFICATION Spec
CHECK_DEADLOCK FALSE
INVARIANT SlotAccessSafe
INVARIANT SemaphoresEncodeOccupancy
INVARIANT DestructorSafe
PROPERTY QueueSpec
