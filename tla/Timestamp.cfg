SPECIFICATION Spec
CONSTANTS
    Users = {u1, u2, u3}
    Stamps = {t1, t2}
    NoUser = nobody
    NoStamp = none
    MaxNodes = 2
    Items = 3
INVARIANTS TypeOK Structure Coherent Recent
PROPERTIES ImplementsUserValues
