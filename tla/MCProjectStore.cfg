\* Two tasks over one project: lists, a deletion, restarts and failing saves.
SPECIFICATION FairSpec
CONSTANTS
    Task = {w1, w2}
    Object = {o1, o2, o3}
    Request = {kill}
    Patch = {patch}
    Kill = kill
    Phase = {f1}
    Lists = TRUE
    Deletes = TRUE
    Restarts = TRUE
    Failures = TRUE
    None = None
INVARIANTS SharedEditsAreDurable
PROPERTIES KillHaltsSharedWorkflow SavesEnd
