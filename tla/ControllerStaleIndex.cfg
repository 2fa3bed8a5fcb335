\* No appliance call fails; the CO gives up on one RPC and retries it, so
\* two DeleteVolume handlers of one name run at once while the other name
\* is created.
CONSTANTS
    Names <- MCNames
    Handlers = {h1, h2}
    Indices <- MCIndices
    Faults <- MCFaults
    FaultyCalls = {}
    MaxFaults = 0
    MaxRequests = 3
    MaxTimeouts = 1
    MaxCrashes = 0
    NoHandler = NoHandler
SPECIFICATION Spec
PROPERTY ImplementsLifecycle
