SPECIFICATION FairSpec
CONSTANTS
    Workers = {w1, w2}
    Active = {f, g}
    Passive = {p}
    Stars = {g}
    Data = {d1, d2}
    NoFeed = none
    MaxRequests = 2
    MaxFaults = 1
INVARIANTS TypeOK Coherent
PROPERTIES Heals
CHECK_DEADLOCK FALSE
