\* Two calls on up to two runs, with faults and every way the daemon stops.
SPECIFICATION Spec
CONSTANTS
    RunIDs = {"r1", "r2"}
    Recovered = {"r1"}
    Damaged = {"r1"}
    Calls = {c1, c2}
    Requests <- MixedRequests
    Mixes = {"light", "heavy"}
    Mix = "heavy"
    EventsOf <- LightAndHeavy
    CapacityOf <- OnlyHeavyLags
    MaxTicks = 2
    Watchers = {}
    TickBound = 2
    MaxFaults = 1
SYMMETRY CallSymmetry
INVARIANTS
    AnswersAreDefinite
    AnswersInOrder
    ReceiptsAreHonest
    ListIsComplete
    PendingIsCurrent
    CleanExitAnswersAll
CHECK_DEADLOCK FALSE
