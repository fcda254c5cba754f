\* An administrator edits a connector while it is being tested.
SPECIFICATION Spec
CONSTANTS
  Connector = {c1}
  Caller = {p1}
  MaxOps = 1
  MaxConcurrent = 2
  MaxRetry = 1
  DbFaults = FALSE
  Administered = {c1}
PROPERTIES VerifiedMeansTested
