\* One client that resumes on a run with a backlog.
SPECIFICATION Spec
CONSTANTS
    Streams = {s1}
    Buffer = 1
    Events = 2
    Capacity = 1
    MaxTicks = 0
    TickBound = 1
    MaxPauses = 0
    MaxFaults = 0
INVARIANTS
    CatchupMeetsFrame
CHECK_DEADLOCK FALSE
