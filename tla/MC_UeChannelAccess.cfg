\* Slots of five symbols of five ticks, two ticks to the microsecond: the symbol is cut
\* off to two microseconds.  Four kinds of slots, and others are heard three times, shortly or
\* for longer than the time the UE asks ahead.
SPECIFICATION Spec
CONSTANTS
    Kinds = {"AlwaysOn", "OnOff", "Cat2"}
    Symbols = 5
    Symbol = 5
    Micro = 2
    Threshold = 8
    Lead = 8
    Defer = 8
    ChangeTime = 60
    Pattern <- FourSlots
    Durations = {2, 12}
    MaxBusy = 3
INVARIANTS
    ManagerAssertionsHold
    RequestsEndAtUlCtrl
    GrantedMeansIdle
PROPERTIES
    FeedbackSent
