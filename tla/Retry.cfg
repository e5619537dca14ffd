SPECIFICATION FairSpec
CONSTANTS
    MaxTargets = 3
    lock_timeout_ms = 2
    acquisition_timeout_ms = 6
    TIMEOUT_MARGIN_MS = 2
    retry_horizon_ms = 16
    retry_delay_min_ms = 1
    retry_delay_max_ms = 3
    max_attempts = 3
    Overhead = 1
    EndOfTime = 20
INVARIANTS
    ContentionIsRetryable
    LockPhaseInHorizon
    ReadersBlockedBriefly
PROPERTIES
    Terminates
CHECK_DEADLOCK FALSE
