\* A sale and its broadcast.
CONSTANTS
    None = None
    Events = {e1}
    Workers = {w1}
    MaxRetries = 1
    MaxFaults = 0
SPECIFICATION FairSpec
PROPERTY
    SaleIsAnnounced
CHECK_DEADLOCK FALSE
