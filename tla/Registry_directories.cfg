\* Two directories, three lives, one damaged log, one failed first save.
SPECIFICATION Spec
CONSTANTS
    MaxIds = 2
    maxIDAttempts = 2
    Policies = {"refuse", "continue"}
    MaxRecords = 2
    MaxBirths = 2
    MaxLives = 3
    MaxDamages = 1
    MinIntact = 1
    MaxFaults = 1
INVARIANTS
    ServesItsLog
    RecoverableRunsReturn
    FinishedStayFinished
    StartedRunsSurvive
CHECK_DEADLOCK FALSE
