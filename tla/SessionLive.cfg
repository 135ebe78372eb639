CONSTANTS
    c1 = c1
    c2 = c2
    c3 = c3
    Commands = {c1, c2}
    Deliveries <- Kinds
    MaxUpdates = 1
    MaxReturns = 1
SPECIFICATION FairSpec
INVARIANT PromptWaits
PROPERTIES
    CommandsSettle
    StoppingEnds
CHECK_DEADLOCK FALSE
