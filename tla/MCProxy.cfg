CONSTANTS
    r1 = r1
    r2 = r2
    i1 = i1
    i2 = i2
    Requests = {r1, r2}
    Ids = {i1, i2}
    IdChoices <- MCIdChoices
    Verdicts <- MCVerdicts
    Configs <- MCConfigs
    NoRow = NoRow
    Never = Never
    Cooldown = 1
    MaxClock = 1
    MaxRestarts = 1
SPECIFICATION Spec
INVARIANTS
    TypeOK
    LogTellsTheHits
    AlertsSpaced
    LeakAccounted
    CollectedWereFlagged
PROPERTIES
    SilenceExplained
    RequestsSettle
