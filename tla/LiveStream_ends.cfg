\* Liveness of calls, streams and shutdown, and the handover of a resuming client,
\* on a run that folds all it appends.
SPECIFICATION FairSpec
CONSTANTS
    Streams = {s1, s2}
    Buffer = 1
    Events = 1
    Capacity = 0
    MaxTicks = 1
    TickBound = 1
    MaxPauses = 1
    MaxFaults = 1
INVARIANT
    HandoverExact
PROPERTIES
    ShutdownCompletes
    StreamsEnd
CHECK_DEADLOCK FALSE
