SPECIFICATION Spec

CONSTANTS
    b1 = b1
    t1 = t1
    t2 = t2
    Requests <- TwoTabs
    MaxSigned = 3
    MaxLost = 0

INVARIANTS
    TypeOK
    SessionIsHeld
