SPECIFICATION Spec
CONSTANTS
    c1 = c1
    c2 = c2
    c3 = c3
    v1 = v1
    v2 = v2
    NoVersion = NoVersion
    Commands <- ThreeCommands
    Versions <- TwoVersions
SYMMETRY Interchangeable
INVARIANTS
    TypeOK
    AtMostOneProduction
    IndexedVersionsExist
    PromotionSticks
