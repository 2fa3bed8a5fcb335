\* Every ordering of up to four targets, each page size and starting token.
CONSTANTS
    TargetIndices <- MCTargetIndices
    MaxEntriesSet <- MCMaxEntries
    StartTokens <- MCStartTokens
    MaxFaults = 1
SPECIFICATION Spec
INVARIANTS
    GarbageTokenTolerated
    TokenTextParsesToListed
    PagesHonourMaxEntries
