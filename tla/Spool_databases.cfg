SPECIFICATION Spec
CONSTANTS
    a1 = a1
    a2 = a2
    b1 = b1
    Runs = {a1, a2}
    Departed = {}
    NoRun = NoRun
    TaskOf <- Tasks
    DatabaseOf <- TwoDatabases
    Attempts = 1
    MaxFaults = 0
INVARIANTS
    LiveSpoolsKept
CHECK_DEADLOCK FALSE
