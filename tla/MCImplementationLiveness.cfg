\* Every failure but infrastructure errors, under the fairness of the event loop.
SPECIFICATION FairSpec
CONSTANTS
    Keys = {k1}
    NoKey = NoKey
    Drafts = {d1, d2}
    NoDraft = NoDraft
    Requests = {r1}
    QueueCapacity = 1
    FaultKinds = {"crash", "error", "source", "tamper", "runner"}
    MaxFaults = 2
PROPERTIES
    GenerationSettles
    TestSettles
