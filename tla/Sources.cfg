CONSTANTS
    a = a
    b = b
    None = None
    Keys = {a, b}
    Pipelines = {1, 2}
    Names = {1, 2}
    MaxVersion = 2
    MaxChanges = 2
    Layouts <- MCLayouts
SPECIFICATION Spec
INVARIANTS
    SkipIsJustified
    NoSpuriousRun
    SameFiles
    TablesAsDescribed
