\* make_block may fail in the multi-block constructor: the blocks it made
\* before the failure are never freed.
CONSTANTS
  r1 = r1  r2 = r2  w1 = w1  w2 = w2  c1 = c1  c2 = c2
  s1 = s1  s2 = s2  s3 = s3  s4 = s4  s5 = s5
  RObjs <- MCRObjs
  WObjs <- MCWObjs
  CObjs <- MCCObjs
  Storage <- MCStorage
  CtorBlocks = 2
  MaxHeld = 1
  MaxMade = 2
  AllocCanFail = TRUE
SPECIFICATION Spec
SYMMETRY Symmetry
CHECK_DEADLOCK FALSE
INVARIANT OwnershipSound
