CONSTANTS
    CanaryLen = 2
    Slack = 2
    MaxBytes = 8
    MaxChunk <- SafeChunk
SPECIFICATION Spec
INVARIANTS
    TypeOK
    TokenNeverForwarded
    LateLeakIsReported
    HeldChunkIsReported
    CleanStreamUntouched
