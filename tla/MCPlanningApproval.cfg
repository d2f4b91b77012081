\* Every kind of failure, two of them in a behaviour.
SPECIFICATION Spec
CONSTANTS
    Keys = {k1, k2, k3}
    NoKey = NoKey
    PlanItem = PlanItem
    Requests = {r1}
    RevisionLimit = 2
    SchemaMaxVersion = 2
    QueueCapacity = 1
    FaultKinds = {"crash", "infrastructure", "llm", "evidence", "workspace"}
    MaxFaults = 2
SYMMETRY Symmetry
INVARIANTS
    TypeOK
    PlanChain
    OneOpenDecision
    VerdictIsDecided
    FailedTaskHasNoPlan
    CheckpointBehindRows
PROPERTIES
    SettledForever
    AppliedByItsWorker
    ImplementsLifecycle
