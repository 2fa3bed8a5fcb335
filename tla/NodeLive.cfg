\* One pod, failures a retry recovers from, no restart.
CONSTANTS
    Paths = {p1}
    FaultyCalls <- MCRetryableCalls
    MaxFaults = 3
    MaxCrashes = 0
SPECIFICATION Spec
PROPERTIES
    UnpublishCompletes
    PublishCompletes
