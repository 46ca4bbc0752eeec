SPECIFICATION RollSpec
\* The report is written once.
CHECK_DEADLOCK FALSE
CONSTANTS
    NaN = NaN
    Unit = 10
    MinPerClass = 1
    MinShare = 10
    MinDays = 2
    LastDay = 4
    ValidationDates = {3, 4}
    Windows = {1, 2}
    MinTrainingDays = 2
    EvalCode = {"c1"}
    Moves = {1}
    Market = {10, 12}
    RegimeDays = 2
    Band = 1
INVARIANT KeysIdentify
