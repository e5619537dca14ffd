SPECIFICATION Spec
CONSTANTS
    a1 = a1
    a2 = a2
    b1 = b1
    Runs = {a1, a2, b1}
    Departed = {b1}
    NoRun = NoRun
    TaskOf <- Tasks
    DatabaseOf <- OneDatabase
    Attempts = 2
    MaxFaults = 3
INVARIANTS
    OwnerKeepsSpools
    NoSpoolAtCommit
    DirectoryIsClean
    NothingLeftBehind
PROPERTIES
    ForeignSpoolsKept
CHECK_DEADLOCK FALSE
