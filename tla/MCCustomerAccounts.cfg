\* One customer, every handler, two threads.
CONSTANTS
    c1 = c1
    None = None
    Threads = {t1, t2}
    Customers = {c1}
    SaleIds = {s1, s2}
    Limit <- MCLimit
    Rate = 1
    MinRedeem = 1
    Totals = {2}
    Amounts = {1}
    Batches <- MCBulk
    MaxEntries = 2
SPECIFICATION MCSpec
INVARIANTS
    StatementsInv
    LockedEntriesChain
    SerialBooksBalance
SYMMETRY ThreadsAndSales
