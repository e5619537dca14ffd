SPECIFICATION Spec
CONSTANTS
    Targets = {t1}
    max_attempts = 1
    MaxErrors = 1
INVARIANTS
    DiagnosticIsHarmless
CHECK_DEADLOCK FALSE
