\* Writing the descriptor may fail.
CONSTANTS
    Paths = {p1}
    FaultyCalls = {"Encode"}
    MaxFaults = 1
    MaxCrashes = 0
SPECIFICATION Spec
INVARIANT NoUnpersistedSession
