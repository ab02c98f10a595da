\* Three ticks under both clocks, updates and pauses anywhere between them.
SPECIFICATION FairSpec
CONSTANTS
    Mixes <- DrainsOrLags
    Organisms = 3
    Duplicates = {0, 2}
    Raw <- Spread
    Clocks = {"manual", "system"}
    MaxTicks = 3
    TickBound = 4
    MaxUpdates = 2
    MaxPauses = 2
INVARIANTS
    LiveMatchesBatch
    LogTellsTheRun
PROPERTY
    TickReturns
CHECK_DEADLOCK FALSE
