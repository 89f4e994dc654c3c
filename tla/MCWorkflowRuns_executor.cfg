\* Two processes: a stale job is claimed while the other process recovers its run.
SPECIFICATION Spec
CONSTANTS
    w1 = w1  w2 = w2  w3 = w3  k1 = k1  k2 = k2
    Project = {p1, p2}
    Process = {k1, k2}
    Task = {w1, w2}
    Home <- TwoProcesses
    Run = {r1, r2, r3, r4}
    LongPhases = FALSE
    MaxAsks = 4
    MaxFaults = 1
    None = None
INVARIANTS OneExecutor
SYMMETRY Interchangeable
