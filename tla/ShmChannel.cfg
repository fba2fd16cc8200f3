\* Nothing fails.  Two blocks of 2 + 1 bytes fill a ring of 8 bytes, or one of
\* 2 + 5, the longest it takes; a block of 6 passes recv_push's length check but
\* never fits with its header; one of 8 is too long.  A batch takes two blocks,
\* so that three blocks need a second wake-up.
SPECIFICATION FairSpec
CONSTANTS
  Size = 8
  HeadLen = 2
  Lens = {1, 5, 6, 8}
  PipeCap = 4
  TokenMax = 2
  BatchMax = 2
  Faults = {}
  MaxCalls = 4
INVARIANTS TypeOK WakeUpPending SafeKept
PROPERTY Delivered
