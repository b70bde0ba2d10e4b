SPECIFICATION Spec

CONSTANTS
    Emails = {e1}
    Campaigns = {c1}
    Sends = {s1, s2}
    BatchSize = 1
    MaxRows = 1
    MaxEdits = 0
    MaxFaults = 0
    MaxRequests = 1

SYMMETRY Symmetry

PROPERTIES
    OnlyDraftsAreSent

