CONSTANTS
    Decisions = {}
    Analyses = {}
    Runs = {1, 2}
    PlanningCapacity = 1
    ImplementationCapacity = 1
    MaxCrashes = 1
    MaxDrops = 0
SPECIFICATION FairSpec
CHECK_DEADLOCK FALSE
PROPERTY AuthorisedTestResumes
