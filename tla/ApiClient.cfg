SPECIFICATION ClientSpec
CONSTANTS
    Calls = {c1}
    MaxAttempts = 5
    RetryMaxDelay = 64
    Second = 4
    RetryAfterCap = 480
    IntRange = 4096
    RetryAfters <- MCRetryAfters
INVARIANTS
    NeverExhausted
    FirstAnswerIsExact
    BackoffBounded
PROPERTIES
    ImplementsRemoteCall
CHECK_DEADLOCK FALSE
