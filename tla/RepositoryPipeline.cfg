CONSTANTS
    Tasks = {t1, t2}
    NoTask = NoTask
    Commits = {c1}
    NoCommit = NoCommit
    Readers = {r1}
    QueueCapacity = 1
    PlanningEnabled = TRUE
    FaultKinds = {"crash", "database", "internal", "workspace"}
    MaxFaults = 2
SPECIFICATION FairSpec
CHECK_DEADLOCK FALSE
INVARIANTS TypeOK EvidenceAgrees RowsFollowStatus FailureExplained NoFalseActive ToldStaysTrue
PROPERTIES SettledStays ImplementsStages QueuedSettles
