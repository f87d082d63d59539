SPECIFICATION FairSpec
CONSTANTS
    Consumers = {c1}
    NumEntries = 2
    MaxRetry = 2
    Batch = 2
    MaxFaults = 1
    Gone = Gone
    e1 = e1
    e2 = e2
    EngineIds = {e1, e2}
    u1 = u1
    Uuids = {u1}
    NoUuid = NoUuid
    NoRow = NoRow
    Idle = Idle
    StreamIds <- TwoIds
    IdOf <- InOrder
    Payloads <- OnlyRunning
    Contents <- TwoContents
INVARIANTS SettledShown ExpiryAnnounced VersionsUnique
PROPERTIES NoComeback EveryEntryShown
CHECK_DEADLOCK FALSE
