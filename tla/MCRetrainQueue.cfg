SPECIFICATION Spec
CONSTANTS
    Nothing = Nothing
    lower = lower
    upper = upper
    key = key
    w1 = w1
    w2 = w2
    b1 = b1
    b2 = b2
    Texts <- TwoTexts
    Keys <- OneKey
    KeyOf <- CaseFolded
    Corpus <- OneCorpus
    Writers <- TwoWriters
    Builders <- TwoBuilders
    MaxQueue = 2
    MaxRows = 4
SYMMETRY Interchangeable
INVARIANTS
    TypeOK
    OvershootBounded
    DuplicatesBounded
    
    OneLabelPerText
CHECK_DEADLOCK FALSE
