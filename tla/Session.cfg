SPECIFICATION Spec
CONSTANTS
    Targets = {t1, t2}
    max_attempts = 2
    MaxErrors = 3
INVARIANTS
    NothingLeftOpen
    LockOutlivesStaging
    OneFailureLeavesNothing
    OutcomeIsTrue
CHECK_DEADLOCK FALSE
