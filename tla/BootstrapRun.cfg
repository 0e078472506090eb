SPECIFICATION Spec
CONSTANTS
    NoRun = NoRun
    Runs = {r1, r2, r3}
    Threads = 2
    MaxFaults = 2
    MaxStarts = 3
INVARIANTS
    FailureIsHonest
    SettledRunHasNoWriter
    RunningIsOwned
PROPERTIES
    ImplementsLifecycle
    RunsSettle
CHECK_DEADLOCK FALSE
