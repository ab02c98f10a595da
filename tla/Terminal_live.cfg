\* One tick, which may fail, two typed lines, interrupts at any moment, and a
\* channel of one frame.
SPECIFICATION FairTerminal
CONSTANTS
    Streams = {"terminal"}
    Buffer = 1
    Events = 1
    Capacity = 0
    MaxTicks = 1
    TickBound = 1
    MaxPauses = 2
    MaxFaults = 1
    Values = {0}
    Start <- RainAndGrowth
    MaxEventsPerTick = 1
    MaxTyped = 2
INVARIANTS
    SummaryShowsTheEnd
    DesiredIsAccepted
PROPERTY
    TerminalReturns
CHECK_DEADLOCK FALSE
