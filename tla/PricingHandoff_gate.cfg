SPECIFICATION Spec
CONSTANTS
    s1 = s1
    s2 = s2
    k1 = k1
    k2 = k2
    Cases = {c1, c2}
    Strategies = {s1, s2}
    Clients = {k1, k2}
    ClientOf <- TwoStrategies
    Texts = {budget}
    Timings = {"BEFORE_PRICING", "BEFORE_CONTRACT"}
    Sheets = {sheet1}
    None = None
    MaxRecords = 3
INVARIANTS
    FirstHandoffIsGated
    ReleasedMeansApproved
    AnswerIsForThisCase
SYMMETRY Symmetry
