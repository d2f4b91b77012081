CONSTANTS
    Decisions = {1}
    Analyses = {1}
    Runs = {1}
    PlanningCapacity = 1
    ImplementationCapacity = 1
    MaxCrashes = 1
    MaxDrops = 1
SPECIFICATION FairSpec
CHECK_DEADLOCK FALSE
INVARIANTS TypeOK WorkHasPlace
PROPERTIES GivenUpStays WorkSettles
