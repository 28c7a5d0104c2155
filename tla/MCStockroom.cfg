\* Two threads and a worker: one order, one invoice read again and again, two products.
CONSTANTS
    p1 = p1
    p2 = p2
    ghost = ghost
    i1 = i1
    i2 = i2
    None = None
    Threads = {t1, t2}
    Products = {p1, p2}
    Foreign = {ghost}
    MaxLines = 4
    Drafts <- MCDrafts
    Deliveries <- MCDeliveries
    MaxReceived = 2
    Workers = {w1}
    Jobs = {j1}
    ItemIds = {i1, i2}
    Bodies <- MCBodies
    Suggested = {x1, x2, x3}
    NewRows <- MCNewRows
    Changes <- MCChanges
    Receipts <- MCReceipts
    Counts <- MCCounts
    Reorder = 0
    MaxCommits = 4
SPECIFICATION StockroomSpec
INVARIANTS
    ReceiptsInv
    SerialStatusTellsTruth
    InvoicesBooked
    SerialJobTellsTruth
    NobodyWaitsForNothing
    StockRecorded
    OneRecentPending
    SerialRecordsAgree
SYMMETRY EveryThread
CHECK_DEADLOCK FALSE
