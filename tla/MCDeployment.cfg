CONSTANTS
  c1 = c1
  c2 = c2
  None = None
  Containers = {c1, c2}
  Releases = {19, 23}
  Busy = {"loan_products"}
  MaxFaults = 2
SPECIFICATION MCSpec
INVARIANTS
    SchemaInv
    ServedIsMigrated
    OneMigrator
PROPERTIES
    GivesUpForAReason
    EveryoneServes
CHECK_DEADLOCK FALSE
