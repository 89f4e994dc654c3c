---------------------------- MODULE MCWorkflowRuns ----------------------------
\* Small instances of WorkflowRuns: one process with all tasks, or one each.
EXTENDS WorkflowRuns, TLC

CONSTANTS w1, w2, w3, k1, k2

OneTask == [w \in {w1} |-> k1]
TwoTasksOneProcess == [w \in {w1, w2} |-> k1]
TwoProcesses == [w \in {w1, w2} |-> IF w = w1 THEN k1 ELSE k2]
Interchangeable == Permutations(Run)
=============================================================================
