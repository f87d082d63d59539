SPECIFICATION Spec
CONSTANTS
    r1 = r1
    s1 = s1
    s2 = s2
    Relays = {w1}
    Records = {r1}
    Subscriptions = {s1, s2}
    Early = {s1}
    Wanted <- BothWanted
    Batch = 1
    MaxAttempts = 1
    MaxFaults = 0
PROPERTY AttemptsCounted
CHECK_DEADLOCK FALSE
