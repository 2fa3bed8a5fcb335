\* Two pods of one volume, no failures.
CONSTANTS
    Paths = {p1, p2}
    FaultyCalls = {}
    MaxFaults = 0
    MaxCrashes = 0
SPECIFICATION Spec
INVARIANT SessionOutlivesMounts
