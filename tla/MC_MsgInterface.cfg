\* Three messages each way, so that a buffer is filled, emptied and filled again by
\* both sides in every order, and the C++ side closes after any of them.
\* The two programs may both wait to receive: that deadlock is theirs.
SPECIFICATION Spec
CONSTANTS
    MaxMsgs = 3
    HandleFinish = TRUE
INVARIANTS
    OneOwner
    InOrderIntact
    SpinsForAReason
PROPERTIES
    ImplementsChannel
    AwaitedMessageArrives
    FinishIsLearnt
CHECK_DEADLOCK FALSE
