\* A run that keeps up, with redeliveries, crashes, torn appends and faults.
SPECIFICATION Spec
CONSTANTS
    Controls <- DrainsAndInjects
    DuplicateEvery = 2
    SnapshotEvery = 2
    MaxTicks = 3
    TickBound = 4
    MaxCrashes = 2
    MaxFaults = 1
    MaxReadFaults = 0
    MaxUpdates = 1
    MaxPauses = 1
PROPERTIES
    ImplementsPromise
INVARIANTS
    CommitCovered
    IdsNotReissued
    ClockAgrees
    LifecycleSurvives
    InjectedFailureRecovers
    SelfDescribing
CHECK_DEADLOCK FALSE
