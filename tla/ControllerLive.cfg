\* Termination of every handler, and the per-name lifecycle refinement,
\* under failures, a CO timeout (a handler left running unobserved) and a
\* crash.
CONSTANTS
    Names <- MCOneName
    Handlers = {h1, h2}
    Indices <- MCSmallIndices
    Faults <- MCFaults
    FaultyCalls <- MCAllCalls
    MaxFaults = 2
    MaxRequests = 3
    MaxTimeouts = 1
    MaxCrashes = 1
    NoHandler = NoHandler
SPECIFICATION Spec

PROPERTIES
    RequestsComplete
    ImplementsLifecycle
