\* Two events, two workers, a failure, and tasks that may stall; fair.
CONSTANTS
    None = None
    Events = {e1, e2}
    Workers = {w1, w2}
    MaxRetries = 2
    MaxFaults = 1
SPECIFICATION FairSpec
INVARIANTS
    PostsInv
    StatusIsHonest
PROPERTIES
    FinalStays
    EventsSettle
CHECK_DEADLOCK FALSE
