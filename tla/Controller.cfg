\* Sequential requests per name, every appliance call may fail or lose its
\* response, one plugin crash.
CONSTANTS
    Names <- MCNames
    Handlers = {h1, h2}
    Indices <- MCIndices
    Faults <- MCFaults
    FaultyCalls <- MCAllCalls
    MaxFaults = 2
    MaxRequests = 3
    MaxTimeouts = 0
    MaxCrashes = 1
    NoHandler = NoHandler
SPECIFICATION Spec
INVARIANTS
    OutcomeReflectsAppliance
SYMMETRY HandlerSymmetry
