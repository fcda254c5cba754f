\* Liveness: one caller, hanging providers, restarts.
SPECIFICATION FairSpec
CONSTANTS
  Connector = {c1}
  Caller = {p1}
  MaxOps = 2
  MaxConcurrent = 1
  MaxRetry = 1
  DbFaults = FALSE
  Administered = {}

PROPERTIES OperationsClose SlotsReturn
