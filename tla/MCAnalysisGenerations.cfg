SPECIFICATION FairSpec
CONSTANTS
    Project = {p1}
    Worker = {w1, w2}
    Candidate = {c1, c2}
    Analysis = {a1, a2}
    Valid = {a1}
    None = None
    MaxFaults = 1
INVARIANTS
    TypeOK
    CurrentIsAccepted
    NoForkedHistory
    HistoryEndsInCurrent
    
PROPERTIES
    TerminalIsFrozen
    ImplementsCurrentAnalysis
    CandidatesAreSettled
CHECK_DEADLOCK FALSE
