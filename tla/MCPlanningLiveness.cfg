\* Crashes and lost worktrees under the fairness of the event loop.
SPECIFICATION FairSpec
CONSTANTS
    Keys = {k1, k2}
    NoKey = NoKey
    PlanItem = PlanItem
    Requests = {r1}
    RevisionLimit = 2
    SchemaMaxVersion = 2
    QueueCapacity = 1
    FaultKinds = {"crash", "workspace"}
    MaxFaults = 1
PROPERTIES
    DecisionSettles
    AnalysisSettles
