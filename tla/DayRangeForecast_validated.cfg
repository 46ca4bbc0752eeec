SPECIFICATION FairRangeSpec
\* The last session is over.
CHECK_DEADLOCK FALSE
CONSTANTS
    RangeStock = {k1, k2}
    FirstPool = {k1}
    PastSessions = 3
    LastSession = 2
    MinTrainingDays = 1
    CalibrationDays = 1
    ValidationDays = 1
    MaxModelAge = 1
    KeepModels = 1
    MaxRangeFaults = 1
INVARIANTS
    ValidatedIsUsed
