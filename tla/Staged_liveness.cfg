SPECIFICATION FairSpec
CONSTANTS
    Runs = {r1, r2, r3}
    Targets = {t1}
    NoRun = NoRun
    MaxVersion = 2
    MaxAttempts = 2
    MaxFaults = 1
PROPERTIES
    RunsEnd
    EventuallyFresh
    OrphansRemoved
