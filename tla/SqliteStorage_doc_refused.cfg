SPECIFICATION SafeSpec
CONSTANTS
    t1 = t1
    t2 = t2
    t3 = t3
    p1 = p1
    p2 = p2
    Processes = {p1}
    Threads = {t1}
    ProcessOf <- OneThread
    Projects = {a}
    Payloads = {v}
    NoOne = NoOne
    MaxSaves = 2
    MaxCrashes = 1
INVARIANT OwnFileIsAccepted
CHECK_DEADLOCK FALSE
