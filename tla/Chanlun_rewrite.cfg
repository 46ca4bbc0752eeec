SPECIFICATION ChanSpec
\* The walk of bars is over.
CHECK_DEADLOCK FALSE
CONSTANTS
    FirstBar <- MCFirstBar
    Move <- MCWalk
    MinStrokeBars = 6
    MaxBars = 16
PROPERTIES
    FinishedStaysFinished
