SPECIFICATION Spec
CONSTANTS
    Bytes <- MCBytes
    Readers <- MCReaders
    MaxTyped = 3
    MaxVisits = 1
INVARIANTS
    AbortEndsOnlyThePhase
