\* Two streams on a run with backlog, faults, pauses and a shutdown.
SPECIFICATION Spec
CONSTANTS
    Streams = {s1, s2}
    Buffer = 2
    Events = 2
    Capacity = 1
    MaxTicks = 2
    TickBound = 2
    MaxPauses = 1
    MaxFaults = 1
SYMMETRY StreamSymmetry
INVARIANTS
    NeverAbandoned
    HonestEnd
    FramesOrdered
    FinalUnlessLost
CHECK_DEADLOCK FALSE
