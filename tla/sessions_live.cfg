SPECIFICATION FairSpec

CONSTANTS
    b1 = b1
    t1 = t1
    t2 = t2
    Requests <- OneTab
    MaxSigned = 3
    MaxLost = 1

INVARIANTS
    WaitersHaveARefresh

PROPERTIES
    RequestsSettle
