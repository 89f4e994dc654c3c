\* A list replaces the cached object under a running workflow.
SPECIFICATION Spec
CONSTANTS
    Task = {w1, w2, w3}
    Object = {o1, o2, o3}
    Request = {kill}
    Patch = {patch}
    Kill = kill
    Phase = {f1, f2}
    Lists = TRUE
    Deletes = FALSE
    Restarts = FALSE
    Failures = FALSE
    None = None
PROPERTIES KillHaltsWorkflow
CHECK_DEADLOCK FALSE
