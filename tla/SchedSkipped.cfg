\* A skipped item of Retry all hides the newest verdict from the repair.
SPECIFICATION SchedFairSpec
CONSTANTS
  Connector = {c1}
  MaxOps = 2
  MaxRetry = 1
  Faults = TRUE
PROPERTIES MetadataHealsDespiteSkips
