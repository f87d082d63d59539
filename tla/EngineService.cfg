SPECIFICATION FairSpec
CONSTANTS
    Workers = {w1, w2, w3}
    EngineIds = {e1}
    u1 = u1
    u2 = u2
    Uuids = {u1, u2}
    NoUuid = NoUuid
    NoRow = NoRow
    Idle = Idle
    StreamIds <- ThreeIds
    Payloads <- KeyOrNone
INVARIANTS TypeOK RowReflectsEntry AppliedNotLost StateAnnounced RecordsTrue DecisionsStand
PROPERTIES RowsAdvance EventsDescribeChanges ImplementsRegistry TransactionsEnd
