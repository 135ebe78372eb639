CONSTANTS
    NumMessages = 2
    Deliveries <- MidTurn
    Unhealthy = TRUE
    MaxRestarts = 1
    MaxStops = 1
    MaxReturns = 0
SPECIFICATION Spec
INVARIANTS
    TypeOK
    Custody
    ViewsAgree
    OneLiveSession
    StatusMatchesOwner
    DeliveredOnce
    IdleIsEmpty
CHECK_DEADLOCK FALSE
