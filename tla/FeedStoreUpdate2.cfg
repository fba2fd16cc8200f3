SPECIFICATION Spec
CONSTANTS
    Workers = {w1}
    Active = {f, g}
    Passive = {}
    Stars = {}
    Data = {d1}
    NoFeed = none
    MaxRequests = 2
    MaxFaults = 0
PROPERTIES MatchTold
CHECK_DEADLOCK FALSE
