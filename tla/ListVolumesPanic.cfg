\* A CO paging from the empty token.
CONSTANTS
    TargetIndices <- MCTargetIndices
    MaxEntriesSet <- MCMaxEntries
    StartTokens <- MCStartTokens
    MaxFaults = 0
SPECIFICATION Spec
INVARIANT ListVolumesNoPanic
