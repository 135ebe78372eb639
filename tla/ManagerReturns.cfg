CONSTANTS
    NumMessages = 2
    Deliveries <- AtBoundary
    Unhealthy = FALSE
    MaxRestarts = 0
    MaxStops = 0
    MaxReturns = 1
SPECIFICATION Spec
INVARIANTS
    Custody
    DeliveredOnce
CHECK_DEADLOCK FALSE
