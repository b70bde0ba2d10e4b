SPECIFICATION Spec

CONSTANTS
    Emails = {e1, e2, e3}
    Campaigns = {c1}
    Sends = {s1}
    BatchSize = 2
    MaxRows = 2
    MaxEdits = 0
    MaxFaults = 0
    MaxRequests = 2

SYMMETRY Symmetry

INVARIANTS
    TypeOK
    RespectsOptOut
    ProgressIsHonest

