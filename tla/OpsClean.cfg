\* No storage faults: restarts, an administrator, two callers.
SPECIFICATION Spec
CONSTANTS
  Connector = {c1}
  Caller = {p1, p2}
  MaxOps = 2
  MaxConcurrent = 2
  MaxRetry = 1
  DbFaults = FALSE
  Administered = {c1}
INVARIANTS OneOpenRow
PROPERTIES RetryWriteIsNewest ImplementsLedger
