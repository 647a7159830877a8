SPECIFICATION Spec
CONSTANTS
    Second = 4
    Limit = 128
    MaxRetry = 5
    RetryAfter = {0, 1, 3, 9, 31, 33, 64, 65}
    MaxFailures = 5
INVARIANTS
    DelayDoubles
    RequestsAreSpaced
    PauseIsBounded
    HonorsTelegram
