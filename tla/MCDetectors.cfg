CONSTANTS
    a = a
    b = b
    x = x
    f = f
    broken = broken
    absent = absent
    Rules <- MCRules
    Valid <- MCValid
    Fallback <- MCFallback
    Broken <- MCBroken
    Absent <- MCAbsent
    NoTime = NoTime
    RulesMaxClock = 2
    MaxScore = 64000000
    TLog = 19200000
    TSan = 35200000
    TExc = 44800000
    TBlk = 54400000
    Turns <- MCTurns
    MaxTurns = 7
    WindowSize = 6
    Cumulative = 76800000
SPECIFICATION Spec
CHECK_DEADLOCK FALSE
INVARIANTS
    RulesTypeOK
    RulesFollowFile
    WindowIsLastTurns
    CrescendoNeverPasses
    MoreRiskNeverLower
