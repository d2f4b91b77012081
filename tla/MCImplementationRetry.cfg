\* No failure at all: a client repeats its request while the patch is written.
SPECIFICATION Spec
CONSTANTS
    Keys = {k1}
    NoKey = NoKey
    Drafts = {d1}
    NoDraft = NoDraft
    Requests = {r1}
    QueueCapacity = 1
    FaultKinds = {}
    MaxFaults = 0
PROPERTIES
    ConsistentPatchIsKept
