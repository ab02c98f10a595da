\* A backlog whose boundary falls inside a duplicate pair.
SPECIFICATION Spec
CONSTANTS
    Controls <- FallsBehind
    DuplicateEvery = 2
    SnapshotEvery = 2
    MaxTicks = 0
    TickBound = 4
    MaxCrashes = 1
    MaxFaults = 0
    MaxReadFaults = 0
    MaxUpdates = 0
    MaxPauses = 0
INVARIANT
    GardenIsFold
CHECK_DEADLOCK FALSE
