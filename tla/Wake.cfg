SPECIFICATION FairSpec
CONSTANTS
    a = a
    b = b
    la1 = la1
    la2 = la2
    lb1 = lb1
    None = None
    Channels = {a, b}
    Launches = {la1, la2, lb1}
    Commands <- MCCommands
    MaxGeneration = 0
    MaxAcks = 1
INVARIANTS
    TypeOK
    CoverageIsHeld
    NothingForgotten
PROPERTIES
    NewWakeIsCarried
    NoSpontaneousRetry
    WakesSettle
