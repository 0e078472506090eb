SPECIFICATION Spec
CONSTANTS
    Requests <- MCRequests
    MaxStorylineSteps = 2
    MaxObjections = 2
INVARIANTS
    ObjectiveIsSomebodys
    NoGapIsLostOrPromoted
    RefusedClaimsStayRefused
    FiguresAreSourced
    RefusedOnlyForKnownCauses
CHECK_DEADLOCK FALSE
