\* The detail that is shown when the date is switched.
SPECIFICATION ScreenSpec
CHECK_DEADLOCK FALSE
CONSTANTS
    Day = {1, 2}
    Stock = {s1, s2}
    Role = {r1, r2}
    Nothing = Nothing
    MaxRevisions = 1
    MaxInputs = 2
    MaxTalk = 2
INVARIANTS
    FocusIsCleared
