\* One project calls until its budget is spent, with the semantic cache on.
SPECIFICATION Spec
CONSTANTS
    m1 = m1
    m2 = m2
    m3 = m3
    None = None
    Project = {p1}
    Candidates <- ThreeModels
    MaxRetries = 2
    Threshold = 2
    Cap = 1
    Key = {k1}
    MaxCalls = 3
INVARIANTS SpentIsBilled 
PROPERTY NoAttemptAfterKill
CHECK_DEADLOCK FALSE
