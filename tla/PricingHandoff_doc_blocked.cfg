SPECIFICATION Spec
CONSTANTS
    s1 = s1
    s2 = s2
    k1 = k1
    k2 = k2
    Cases = {c1}
    Strategies = {s1}
    Clients = {k1}
    ClientOf <- OneStrategy
    Texts = {budget}
    Timings = {"BEFORE_PRICING", "BEFORE_CONTRACT"}
    Sheets = {sheet1, sheet2}
    None = None
    MaxRecords = 3
INVARIANT BlockedBuildIsNeverSent
