CONSTANTS
  t1 = t1
  t2 = t2
  s1 = s1
  s2 = s2
  None = None
  Threads = {t1, t2}
  Sales = {s1, s2}
  Configs = {TRUE}
  Categories = {"a", "b"}
  Codes = {"1"}
  MaxInvoices = 2
  MaxCrashes = 1
  Targets = {1}
  MaxSessions = 4
  MaxSales = 1
  Owners = {"o"}
  Stores = {"s", "u"}
  Groups = {1, 2}
  MaxTransfers = 1
  MaxCalls = 4
  MaxCodes = 3
  MaxTokens = 3
  MaxFaults = 1
  Amounts = {1, 5, 7, 8, 14, 28, 99}
  Rates = {12, 28}
  Local = 7
  MaxLines = 3
SPECIFICATION MCSpec
SYMMETRY MCSymmetry
INVARIANTS
    OfficeTypeOK
    ListedIfCounted
    SerialFilingAgrees
    SerialSubmitsOnce
    OpenSessionsExplained
    ChainsExplained
    CallsExplained
    SerialCodesWork
    SessionsExplained
    FiguresAgree
PROPERTIES
    ReopenedByAReader
    StartHeals
