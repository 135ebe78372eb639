CONSTANTS
    NumMessages = 2
    Deliveries <- Steering
    Unhealthy = FALSE
    MaxRestarts = 1
    MaxStops = 0
    MaxReturns = 0
SPECIFICATION FairSpec
PROPERTIES
    MessagesSettle
CHECK_DEADLOCK FALSE
