\* A run that falls behind its producer and may catch up; no redeliveries.  Saves
\* may fail three times and a read once; a run with a tick limit ends.
SPECIFICATION FairSpec
CONSTANTS
    Controls <- BehindThenInjects
    DuplicateEvery = 0
    SnapshotEvery = 2
    MaxTicks = 3
    TickBound = 9
    MaxCrashes = 2
    MaxFaults = 2
    MaxReadFaults = 1
    MaxUpdates = 1
    MaxPauses = 1
INVARIANTS
    GardenIsFold
    SnapshotsAreFolds
    TallyAgrees
PROPERTY
    RunEnds
CHECK_DEADLOCK FALSE
