\* One pod; DisconnectVolume may fail once.
CONSTANTS
    Paths = {p1}
    FaultyCalls = {"DisconnectVolume"}
    MaxFaults = 1
    MaxCrashes = 0
SPECIFICATION Spec
PROPERTY UnpublishCompletes
