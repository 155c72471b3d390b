CONSTANTS
    MaxScore = 5
    TLog = 1
    TSan = 2
    TExc = 3
    TBlk = 4
    Cases <- FewCases
SPECIFICATION Spec
INVARIANTS
    LayerErrorBlocks
