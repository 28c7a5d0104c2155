\* Two threads, two sales posted alone or in batches, two returns; fair.
CONSTANTS
    p1 = p1
    p2 = p2
    ghost = ghost
    s1 = s1
    s2 = s2
    None = None
    Threads = {t1, t2}
    Products = {p1, p2}
    Foreign = {ghost}
    SaleIds = {s1, s2}
    ReturnIds = {r1, r2}
    Sales <- MCSingles
    Batches <- MCBatches
    Returned <- MCReturned
    OpeningStock <- MCOpeningStock
SPECIFICATION FairSpec
INVARIANTS
    StockInv
    UnreportedIsRecorded
PROPERTIES
    ImplementsSaleLog
    RequestsFinish
