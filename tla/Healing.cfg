\* The parts that recover by themselves, one at a time.
SPECIFICATION HealingSpec
CONSTANTS
    c1 = c1
    c2 = c2
    d1 = d1
    d2 = d2
    Connector = {c1}
    MaxOps = 2
    MaxRetry = 1
    Faults = TRUE
    Interval = 1
    Lookback = 2
    WatchdogSec = 2
    FreeFailures = 0
    PerStep = 1
    BackoffMax = 3
    SpoolMax = 1
    MaxChanges = 1
    MaxCrashes = 1
    Contents = {0, 1}
    Big = {1}
    MaxWrites = 2
    StaleAfter = 1
    Drains = {d1, d2}
    MaxAlarms = 3
INVARIANTS
    HealingTypeOK
    JournalCovered
    ChangesComplete
    AlarmsPaired
PROPERTIES
    MetadataHeals
    FailedIsRetried
    BackendCatchesUp
    BaselineCatchesUp
    SilenceFound
CHECK_DEADLOCK FALSE
