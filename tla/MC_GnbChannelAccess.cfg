\* Slots of five ticks; grants of a part of a slot (which are ignored), of one slot
\* and of two exactly, and of between one and two and between two and three.  Six slots
\* hold a grant that is used up, one that is given up and a queue that is pushed back
\* several times.
SPECIFICATION Spec
CONSTANTS
    Period = 5
    Micro = 2
    CtrlTime = 1
    Grants = {3, 5, 6, 10, 13}
    Latency = 2
    N2Delay = 1
    BroadcastEvery = 3
    MaxSlot = 5
INVARIANTS
    AssertionsHold
    AgreesWithManager
    OnAirWithinUse
    SentOnceInOrder
    NotDoubleBooked
    QueueStaysShort
CHECK_DEADLOCK FALSE
