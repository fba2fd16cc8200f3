\* Either process may die at any step, realloc and malloc may fail, and the
\* pipe holds a single token.
SPECIFICATION Spec
CONSTANTS
  Size = 8
  HeadLen = 2
  Lens = {1, 3}
  PipeCap = 1
  TokenMax = 2
  BatchMax = 2
  Faults = {"crash", "memory"}
  MaxCalls = 3
PROPERTY ImplementsLossyFifo
