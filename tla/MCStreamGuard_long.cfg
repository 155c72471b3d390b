CONSTANTS
    CanaryLen = 2
    Slack = 2
    MaxBytes = 8
    MaxChunk <- LongChunk
SPECIFICATION Spec
INVARIANTS
    TokenHeldBack
