SPECIFICATION FairSpec
CONSTANTS
    Consumers = {c1, c2}
    NumEntries = 2
    Foreign = {}
    Malformed = {2}
    MaxRetry = 2
    Batch = 1
    MaxFaults = 1
    Gone = Gone
INVARIANTS TypeOK NothingLost DeadLetterAfterRetries
PROPERTY AllSettled
CHECK_DEADLOCK FALSE
