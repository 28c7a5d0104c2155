CONSTANTS
    None = None
    Threads = {t1, t2}
    MaxLoans = 1
    Principals = {2, 3}
    LoanRange = {2}
    Payments = {1, 4}
    Premium = 1
    Thresholds = {1}
    Yield = 1
    Days = 2
    MaxPostings = 4
SPECIFICATION MCSpec
INVARIANTS
    BooksInv
    EntriesBalance
    SerialBooksAgree
SYMMETRY EveryThread
