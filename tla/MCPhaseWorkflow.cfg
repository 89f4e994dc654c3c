\* Workflows and phases run by hand, operator edits, and crashes between any two steps.
SPECIFICATION FairSpec
CONSTANTS
    Sequence <- Core
    Exec = {x}
    Manual = TRUE
    MaxCalls = 4
    MaxFails = 2
    MaxEdits = 1
    MaxCrashes = 1
INVARIANTS UndisturbedIsCoherent 
PROPERTIES CompletedOnPrerequisites FinishedWorkSurvives EndsCompleteOrGated
CHECK_DEADLOCK FALSE
