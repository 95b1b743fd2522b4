\* Three signals of others, weaker or stronger than the threshold, and two of its own, of
\* one, two or four ticks: two weak signals are heard together, and a signal may begin or
\* end before, in or after any reception, transmission and check.
SPECIFICATION Spec
CONSTANTS
    Powers = {2, 4}
    Threshold = 3
    Durations = {1, 2, 4}
    Defer = 1
    SrsWhileSensing = FALSE
    MaxSignals = 3
    MaxFrames = 2
INVARIANTS
    NoFatal
    EnergyDurationExact
    HeardByManager
PROPERTIES
    ReturnsToIdle
