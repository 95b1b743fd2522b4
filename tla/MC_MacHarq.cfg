\* Two processes, which expire after two slots without an answer, both directions, two
\* sizes of attempt and slots with room for none, one or two of the smaller.  Feedback of
\* the uplink is just in time; that of the downlink may be, or be late.
SPECIFICATION Spec
CONSTANTS
    NumHarq = 2
    DlFlight = 1
    UlFlight = 1
    Sizes = {1, 2}
    Rooms = {0, 1, 2}
    LastRv = 1
    MaxBlocks = 3
INVARIANTS
    HarqAssertionsHold
    FeedbackIsCurrent
    AckMeansDecoded
    HistoryIsOwn
PROPERTIES
    NoBlockForgotten
