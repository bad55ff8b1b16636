CONSTANTS
    Overwrite = TRUE
    FilesExist = FALSE
    CheckFails = TRUE
    MaxStarts = 4
    MaxErrors = 2
SPECIFICATION FairSpec
INVARIANT RunsAsAsked
PROPERTIES InitializationEnds FatalErrorStops
CHECK_DEADLOCK FALSE
