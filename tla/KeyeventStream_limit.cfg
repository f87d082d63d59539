SPECIFICATION Spec
CONSTANTS
    Consumers = {c1}
    NumEntries = 3
    Foreign = {}
    Malformed = {}
    MaxRetry = 1
    Batch = 2
    MaxFaults = 0
    Gone = Gone
PROPERTY OverLimitRecognised
CHECK_DEADLOCK FALSE
