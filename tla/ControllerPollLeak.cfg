\* Only the readiness poll may fail: CreateVolume then returns without
\* rollback, and a later DeleteVolume reports success.
CONSTANTS
    Names <- MCNames
    Handlers = {h1, h2}
    Indices <- MCIndices
    Faults <- MCFaults
    FaultyCalls = {"GetLUN"}
    MaxFaults = 1
    MaxRequests = 2
    MaxTimeouts = 0
    MaxCrashes = 0
    NoHandler = NoHandler
SPECIFICATION Spec
INVARIANT DeletedVolumeLeavesNoLUN
