\* Storage faults and restarts; one connector, two callers, two threads.
SPECIFICATION Spec
CONSTANTS
  Connector = {c1}
  Caller = {p1, p2}
  MaxOps = 2
  MaxConcurrent = 2
  MaxRetry = 1
  DbFaults = TRUE
  Administered = {}
INVARIANTS TypeOK SlotAccounting LockDiscipline ExclusiveRun
PROPERTIES TerminalFinal StatusWritesInOrder
