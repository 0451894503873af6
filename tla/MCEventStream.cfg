SPECIFICATION Spec
CONSTANTS
    c1 = c1
    c2 = c2
    MaxEvents = 3
    Clients = {c1, c2}
    PageLimit = 2
    MaxBreaks = 2
    MaxResets = 2
INVARIANTS
    ShowsRunInOrder
CHECK_DEADLOCK FALSE
