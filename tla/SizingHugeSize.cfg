\* The constructor's layout for every 8-bit size, including those whose size + 1
\* rounds up past the width of size_t.
CONSTANTS
  W = 8
  MAX_BLOCK_SIZE = 4
  Lo = 0
  Hi <- MaxWord
SPECIFICATION Spec
INVARIANT CapacityCovers
