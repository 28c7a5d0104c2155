\* Two threads and one worker on one job, fair.
CONSTANTS
    p1 = p1
    p2 = p2
    ghost = ghost
    i1 = i1
    i2 = i2
    None = None
    Threads = {t1, t2}
    Workers = {w1}
    Jobs = {j1}
    ItemIds = {i1, i2}
    Products = {p1, p2}
    Foreign = {ghost}
    Bodies <- MCBodies
SPECIFICATION FairSpec
PROPERTIES
    AcceptedUploadsAreRead
CHECK_DEADLOCK FALSE
