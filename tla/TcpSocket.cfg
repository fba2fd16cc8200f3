SPECIFICATION FairSocketSpec
CONSTANTS
    HeadLen = 2
    MaxLen = 5
    FirstSize = 4
    BufLen = 2
    ListSize = 2
    MaxIn = 3
    MaxOut = 3
INVARIANTS Framed Stream
PROPERTIES Progress
CHECK_DEADLOCK FALSE
