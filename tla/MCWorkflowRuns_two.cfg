\* Two processes, phases that may outlast the threshold, one crash or failed statement.
SPECIFICATION Spec
CONSTANTS
    w1 = w1  w2 = w2  w3 = w3  k1 = k1  k2 = k2
    Project = {p1}
    Process = {k1, k2}
    Task = {w1, w2}
    Home <- TwoProcesses
    Run = {r1, r2, r3}
    LongPhases = TRUE
    MaxAsks = 3
    MaxFaults = 1
    None = None
SYMMETRY Interchangeable
INVARIANTS OneActiveRun 
 
