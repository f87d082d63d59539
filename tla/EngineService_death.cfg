SPECIFICATION Spec
CONSTANTS
    Workers = {w1}
    EngineIds = {e1}
    u1 = u1
    u2 = u2
    Uuids = {u1, u2}
    NoUuid = NoUuid
    NoRow = NoRow
    Idle = Idle
    StreamIds <- TwoIds
    Payloads <- OnlyRunning
INVARIANT DeathNotLost
