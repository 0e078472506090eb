SPECIFICATION Spec
CONSTANTS
    max_attempts = 3
    backoff_seconds = 1
    backoff_multiplier = 2
    max_backoff_seconds = 3
    respect_reset = TRUE
    retry_on = {"RATE_LIMITED", "PROVIDER_UNAVAILABLE", "TIMEOUT", "NETWORK_FAILED"}
    Resets = {0, 2, 9}
INVARIANTS
    CostIsOnRecord
    WaitsFitTheFailure
PROPERTIES
    AnswerIsAskedForOnce
    CallEnds
