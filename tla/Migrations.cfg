SPECIFICATION Spec
INVARIANTS SchemaOfRevision UpgradeGoesThrough
PROPERTY NothingStoredIsDropped
CHECK_DEADLOCK FALSE
