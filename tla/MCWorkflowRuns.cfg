\* Two tasks of one process, phases within the threshold, one fault; preflight is asked for.
SPECIFICATION FairSpec
CONSTANTS
    w1 = w1  w2 = w2  w3 = w3  k1 = k1  k2 = k2
    Project = {p1, p2}
    Process = {k1}
    Task = {w1, w2}
    Home <- TwoTasksOneProcess
    Run = {r1, r2}
    LongPhases = FALSE
    MaxAsks = 2
    MaxFaults = 1
    None = None
INVARIANTS OneExecutor NoLeakedGuard
PROPERTIES RunsEnd
