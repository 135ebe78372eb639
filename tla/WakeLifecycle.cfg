SPECIFICATION Spec
CONSTANTS
    a = a
    b = b
    la1 = la1
    la2 = la2
    lb1 = lb1
    None = None
    Channels = {a, b}
    Launches = {la1, lb1}
    Commands <- MCTwo
    MaxGeneration = 1
    MaxAcks = 1
INVARIANTS
    OneDispatch
PROPERTIES
    StaleAckNeverCounts
    ImplementsLane
