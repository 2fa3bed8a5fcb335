\* Every combination of the request names, capability lists and capacity
\* ranges above.
CONSTANTS
    GiBUnits = 4
    Inputs <- MCInputs
    NameInputs <- MCNames
    CapInputs <- MCCaps
SPECIFICATION Spec
INVARIANTS
    ResolvedSizeLegal
    ResolvedWithinRequest
    ChecksInSpecOrder
    NameCaseInsensitive
