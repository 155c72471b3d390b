SPECIFICATION Spec
CONSTANTS
    r1 = r1
    r2 = r2
    r3 = r3
    r4 = r4
    NoOne = NoOne
    Requests <- FourRequests
    NoSegments <- OneEmpty
    Workers = 2
INVARIANTS
    TypeOK
    LoadsOnce
    NeverHalfLoaded
PROPERTIES
    EveryRequestAnswered
