CONSTANTS
    MaxScore = 5
    TLog = 1
    TSan = 2
    TExc = 3
    TBlk = 4
    Cases <- AllCases
SPECIFICATION Spec
INVARIANTS
    TypeOK
    BlockingLayerStopsRequest
    ScoreAtThresholdBlocks
    ExcludedSegmentNotForwarded
    
    WrappedIsExplained
    ForwardedCarriesCanary
PROPERTIES
    DecisionOnlyRaised
    ImplementsContract
