\* Two minima, a maximum that one doubling of the larger passes, every algorithm and rule,
\* and feedback enough to tell 10% and 80% apart.
SPECIFICATION CwSpec
CONSTANTS
    CwMins = {3, 7}
    CwMax = 12
    LinBackoff = 4
    BackoffTypes = {0, 1, 2, 3}
    UpdateRules = {"ALL_NACKS", "ANY_NACK", "NACKS_10_PERCENT", "NACKS_80_PERCENT"}
    RetryLimit = 2
    MaxFeedback = 5
PROPERTY
    FeedbackMovesWindow
