\* One failure of the model: the thread keeps the old decision.
SPECIFICATION FairSpec
CONSTANTS
    Keys = {k1, k2}
    NoKey = NoKey
    PlanItem = PlanItem
    Requests = {r1}
    RevisionLimit = 2
    SchemaMaxVersion = 2
    QueueCapacity = 1
    FaultKinds = {"llm"}
    MaxFaults = 1
PROPERTIES
    DecisionSettles
