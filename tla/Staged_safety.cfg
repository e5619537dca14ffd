SPECIFICATION Spec
CONSTANTS
    Runs = {r1, r2, r3}
    Targets = {t1, t2}
    NoRun = NoRun
    MaxVersion = 2
    MaxAttempts = 2
    MaxFaults = 2
SYMMETRY Interchangeable
INVARIANTS
    ExclusiveOwner
    CleanForOwner
    PreparedSurvives
    ChangeNeverMissed
PROPERTIES
    AtomicPublication
