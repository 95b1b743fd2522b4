\* Three episodes of up to four steps; old ns-3 processes that leave promptly, or are
\* killed wherever they are.
SPECIFICATION Spec
CONSTANTS
    NSteps = 4
    MaxEpisodes = 3
    Reaches = TRUE
INVARIANTS
    ParametersMatchWindow
    ObservationLag
    NoMutualWait
PROPERTIES
    ImplementsGymSafely
    CallsReturn
CHECK_DEADLOCK FALSE
