\* A ring of 7 bytes: headers of 2 bytes and bodies of 0, 1 or 3 bytes wrap at
\* every offset, and the ring fills up with one or two blocks.
SPECIFICATION Spec
CONSTANTS
  Size = 7
  HeadLen = 2
  Lens = {0, 1, 3}
  PullInit = 1
  MaxBlocks = 4
INVARIANTS TypeOK NoOverwrite IntactFifo Accounting
PROPERTY ImplementsFifo
CHECK_DEADLOCK FALSE
