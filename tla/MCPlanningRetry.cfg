\* No failure at all: a client repeats its request.
SPECIFICATION Spec
CONSTANTS
    Keys = {k1, k2}
    NoKey = NoKey
    PlanItem = PlanItem
    Requests = {r1}
    RevisionLimit = 2
    SchemaMaxVersion = 2
    QueueCapacity = 1
    FaultKinds = {}
    MaxFaults = 0
PROPERTIES
    RetryReturnsDecision
