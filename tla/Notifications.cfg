SPECIFICATION FairSpec
CONSTANTS
    r1 = r1
    s1 = s1
    s2 = s2
    Relays = {w1, w2}
    Records = {r1}
    Subscriptions = {s1, s2}
    Early = {s1}
    Wanted <- BothWanted
    Batch = 2
    MaxAttempts = 2
    MaxFaults = 1
INVARIANTS TypeOK FannedOutComplete TasksOfFannedOut PublishedWasSent RepeatsExplained NoTaskSkipped
PROPERTIES NotSentAgain SentToSubscribers ImplementsLoops EveryoneTold
CHECK_DEADLOCK FALSE
