SPECIFICATION StatusSpec
\* The horizon is reached.
CHECK_DEADLOCK FALSE
CONSTANTS
    Horizon = 4
    Session = {0, 2, 3, 4}
    Listed = 2
    FirstAsOf = 2
    Window = 3
    RefreshDays = 2
    Claims = {{}, {"suspended"}, {"traded", "suspended"}}
PROPERTIES
    SparseKeepsTheRest
