CONSTANTS
    Paths = {p1, p2, p3}
    Allowed = {p1, p2}
    MaxFiles = 2
    PatchFaults = 2
    MaxOutput = 1
    PipeSize = 1
    RunnerFaults = 2
SPECIFICATION FairSpec
CHECK_DEADLOCK FALSE
INVARIANTS AllOrNothing VerdictWithoutContainer
PROPERTIES CallEnds
