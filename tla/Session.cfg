CONSTANTS
    c1 = c1
    c2 = c2
    c3 = c3
    Commands = {c1, c2, c3}
    Deliveries <- Kinds
    MaxUpdates = 1
    MaxReturns = 1
SPECIFICATION Spec
INVARIANTS
    TypeOK
    NoLaneLeft
PROPERTIES
    ImplementsContract
CHECK_DEADLOCK FALSE
