\* One pod: every library call may fail (up to four failures), and the
\* plugin may restart twice.
CONSTANTS
    Paths = {p1}
    FaultyCalls <- MCAllCalls
    MaxFaults = 4
    MaxCrashes = 2
SPECIFICATION Spec
INVARIANTS
    SessionOutlivesMounts
    UnpublishedPathUnmounted
PROPERTY
    ImplementsAttachment
