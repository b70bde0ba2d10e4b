SPECIFICATION FairSpec

CONSTANTS
    Emails = {e1}
    Campaigns = {c1}
    Sends = {s1, s2}
    BatchSize = 1
    MaxRows = 1
    MaxEdits = 1
    MaxFaults = 1
    MaxRequests = 1

INVARIANTS
    SentMeansCompleted
    StuckOnlyAfterFault

PROPERTIES
    ImplementsBroadcast
    SendingEnds

