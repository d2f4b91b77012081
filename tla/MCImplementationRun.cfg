\* Every kind of failure, two of them in a behaviour.
SPECIFICATION Spec
CONSTANTS
    Keys = {k1, k2}
    NoKey = NoKey
    Drafts = {d1, d2}
    NoDraft = NoDraft
    Requests = {r1, r2}
    QueueCapacity = 2
    FaultKinds = {"crash", "infrastructure", "error", "source", "tamper", "runner"}
    MaxFaults = 2
SYMMETRY Symmetry
INVARIANTS
    TypeOK
    RowsAgree
    PatchOnDisk
    TestsRunOnce
    TestsReviewedPatch
    ContainerKnown
    CheckpointJustified
PROPERTIES
    EvidenceForever
    ImplementsLifecycle
