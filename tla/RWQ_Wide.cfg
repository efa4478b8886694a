\* One initial block of 4 slots (size 2, MAX_BLOCK_SIZE 4): indices wrap inside a block, growth adds a 4-slot block.
\* Under FairSpec, so the same instance also checks that every element is delivered.
CONSTANTS
  MAX_BLOCK_SIZE = 4
  QueueSize = 2
  MaxBlocks = 3
  MaxEnqueues = 7
  W = 16
SPECIFICATION FairSpec
INVARIANT TypeOK
INVARIANT SlotAccessSafe
INVARIANT CodeAssertions
INVARIANT EmptyReturnLinearizable
INVARIANT CapacityGuarantee
INVARIANT PeekSeesFront
PROPERTY QueueSpec
PROPERTY Delivered
