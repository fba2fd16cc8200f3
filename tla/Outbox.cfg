SPECIFICATION FairSpec
CONSTANTS
    Users = {u1, u2}
    MaxStamp = 3
    Size = 2
    Workers = {w1}
    MaxFaults = 1
INVARIANTS NoGhost NewestShown
PROPERTIES Told
CHECK_DEADLOCK FALSE
