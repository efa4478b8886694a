\* Scenario S3: size 15, MAX_BLOCK_SIZE 8; room for one allocated block.
CONSTANTS
  MAX_BLOCK_SIZE = 8
  QueueSize = 15
  MaxBlocks = 2
  MaxEnqueues = 17
  W = 16
SPECIFICATION Spec
INVARIANT S3FirstGrowthAt17
