\* Rain, growth and pests on two organisms, with redeliveries.
SPECIFICATION Spec
CONSTANTS
    Organisms = {o1, o2}
    Strangers = {stranger}
    Amounts = {0, 1, 3}
    MaxMoisture = 4
    MaxHealth = 4
    MaxStage = 1
    GrowthMoistureCost = 2
    GrowthHealthFloor = 2
    MaxEvents = 4
    MaxRedeliveries = 1
SYMMETRY
    OrganismSymmetry
INVARIANTS
    HealthIsWhatPestsLeft
PROPERTIES
    DeadStayAsTheyDied
    AppliedMeansChanged
CHECK_DEADLOCK FALSE
