\* A gNB in backoff, whose access manager measures the channel in every slot, receives the
\* SRS of one of its UEs.
SPECIFICATION Spec
CONSTANTS
    Powers = {2, 4}
    Threshold = 3
    Durations = {1, 3}
    Defer = 1
    SrsWhileSensing = TRUE
    MaxSignals = 1
    MaxFrames = 0
INVARIANTS
    NoFatal
