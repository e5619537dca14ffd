SPECIFICATION Spec
CONSTANTS
    p1 = p1
    p2 = p2
    r1 = r1
    Publishers = {p1, p2}
    Readers = {r1}
    Tables = {1, 2}
    Layouts <- AgreedLayouts
    Before = Before
    None = None
    max_attempts = 2
INVARIANTS
    SortedOrderSuffices
PROPERTIES
    RefilledAsValidated
    EveryoneEnds
CHECK_DEADLOCK FALSE
