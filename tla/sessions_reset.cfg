SPECIFICATION Spec

CONSTANTS
    b1 = b1
    t1 = t1
    t2 = t2
    Requests <- OneTab
    MaxSigned = 3
    MaxLost = 0

PROPERTIES
    ClearedUntilLogin
