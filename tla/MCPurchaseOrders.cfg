\* Two threads, every handler, every kind of draft and delivery; fair.
CONSTANTS
    p1 = p1
    p2 = p2
    ghost = ghost
    None = None
    Threads = {t1, t2}
    Products = {p1, p2}
    Foreign = {ghost}
    MaxLines = 4
    Drafts <- MCDrafts
    Deliveries <- MCDeliveries
    MaxReceived = 2
SPECIFICATION MCFairSpec
PROPERTIES
    RequestsFinish
CHECK_DEADLOCK FALSE
