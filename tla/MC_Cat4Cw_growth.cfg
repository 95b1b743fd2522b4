\* The default algorithm (BEB) and rule, and parameters that stay what they are.
SPECIFICATION CwSpec
CONSTANTS
    CwMins = {3}
    CwMax = 63
    LinBackoff = 4
    BackoffTypes = {3}
    UpdateRules = {"ANY_NACK"}
    RetryLimit = 2
    MaxFeedback = 2
PROPERTY
    FailuresKeepWidening
