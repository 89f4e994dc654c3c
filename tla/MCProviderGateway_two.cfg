\* Two projects share the circuit of one model; providers answer and delays end.
SPECIFICATION FairSpec
CONSTANTS
    m1 = m1
    m2 = m2
    m3 = m3
    None = None
    Project = {p1, p2}
    Candidates <- OneModel
    MaxRetries = 2
    Threshold = 2
    Cap = 1
    Key = {}
    MaxCalls = 2
INVARIANT HammeringBounded
PROPERTY CallsEnd
CHECK_DEADLOCK FALSE
