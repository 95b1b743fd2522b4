SPECIFICATION Spec
CONSTANTS
    NSteps = 2
    MaxEpisodes = 2
    Reaches = TRUE
INVARIANTS
    SemaphoresReset
CHECK_DEADLOCK FALSE
