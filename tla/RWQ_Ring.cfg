\* Five initial blocks of 2 slots (size 4, MAX_BLOCK_SIZE 2): the spare-block ring of the constructor.
CONSTANTS
  MAX_BLOCK_SIZE = 2
  QueueSize = 4
  MaxBlocks = 6
  MaxEnqueues = 6
  W = 16
SPECIFICATION Spec
INVARIANT TypeOK
INVARIANT SlotAccessSafe
INVARIANT CodeAssertions
INVARIANT EmptyReturnLinearizable
INVARIANT CapacityGuarantee
INVARIANT PeekSeesFront
PROPERTY QueueSpec
