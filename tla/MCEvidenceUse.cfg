\* Three sources of one claim, room for two of them, one in use, beside an
\* analysis.
SPECIFICATION Spec
CONSTANTS
    c1 = c1
    e1 = e1
    e2 = e2
    e3 = e3
    Operator = {o1, o2}
    Claim = {c1}
    Evidence = {e1, e2, e3}
    Ready = {c1}
    Used <- InUse
    Request = {q1, q2}
    MaxSources = 2
    MaxClaims = 1
    ClaimLimit = 1
    MaxRows = 11
    MaxRetired = 1
    None = None
SYMMETRY Interchangeable
INVARIANTS WithinCapacity OneChain 
PROPERTY NeverRevived
