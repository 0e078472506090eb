SPECIFICATION Spec
CONSTANTS
    t1 = t1
    t2 = t2
    t3 = t3
    p1 = p1
    p2 = p2
    Processes = {p1, p2}
    Threads = {t1, t2, t3}
    ProcessOf <- ThreeThreads
    Projects = {a}
    Payloads = {v, w}
    NoOne = NoOne
    MaxSaves = 3
    MaxCrashes = 1
PROPERTIES
    NothingSavedIsLost
    SameAsMemory
    SavesEnd
CHECK_DEADLOCK FALSE
