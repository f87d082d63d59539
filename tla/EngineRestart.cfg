SPECIFICATION FairSpec
CONSTANTS
    Requests = {r1}
    Handlers = {h1}
    Removers = {x1}
    MaxAttempts = 2
    OtherKey = OtherKey
INVARIANTS TypeOK CallsJustified
PROPERTIES UnitsAtomic EveryUnitEnds
CHECK_DEADLOCK FALSE
