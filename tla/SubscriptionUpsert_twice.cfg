SPECIFICATION Spec
CONSTANTS
    Requests = {q1, q2}
    Events = {dead, updated}
    Seed = Seed
INVARIANT OneRowPerEvent
CHECK_DEADLOCK FALSE
