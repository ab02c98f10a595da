\* A burst and another client on one run, with an interrupt at any moment
\* and every way the daemon stops.
SPECIFICATION FairBurst
CONSTANTS
    RunIDs = {"r1"}
    Recovered = {}
    Damaged = {}
    Calls = {"other"}
    Requests <- Disturbances
    Mixes = {"heavy"}
    Mix = "heavy"
    EventsOf <- OneHeavy
    CapacityOf <- OneLags
    MaxTicks = 0
    Watchers = {}
    TickBound = 1
    MaxFaults = 0
    BurstID = "no id"
    BurstControls = "heavy"
    MaxPolls = 1
INVARIANTS
    BurstEndsItsRun
PROPERTIES
    BurstReturns
    ShutdownEnds
CHECK_DEADLOCK FALSE
