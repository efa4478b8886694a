\* ceilToPow2 on every 16-bit word (sizeof(size_t) = 2: one pass of the wide-smear loop),
\* and the constructor's layout for every size whose size + 1 rounds up within 16 bits.
CONSTANTS
  W = 16
  MAX_BLOCK_SIZE = 8
  Lo = 0
  Hi <- MaxWord
SPECIFICATION Spec
INVARIANT CeilMatchesReference
INVARIANT CapacityCoversRepresentable
