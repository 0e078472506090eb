SPECIFICATION PageSpec
CONSTANTS
    Runs = {r1}
    MaxTries = 3
INVARIANTS
    FinishedPageIsTrue
PROPERTY PollingEnds
CHECK_DEADLOCK FALSE
