\* Two defer times and two slot lengths, which the agent changes at any moment, the draws
\* 0, 1 and 3, requests that are cancelled, as NrUePhy does, and made anew over what they
\* left scheduled, and a channel that goes busy three times, for one tick (within a slot)
\* or for three (as long as the longest defer time): backoffs are suspended twice, at a
\* slot's edge and inside one.
SPECIFICATION Spec
CONSTANTS
    Defers = {2, 3}
    Slots = {1, 2}
    Draws = {0, 1, 3}
    Durations = {1, 3}
    MaxBusy = 3
    MaxCancels = 1
    InitStates = {"IDLE"}
    InitBackoffs = {0}
INVARIANTS
    OnePendingEvent
    NoFreeSlots
    NoStrandedRequest
PROPERTIES
    GrantsAreEarned
    BackoffNeverGrows
    RequestAnswered
