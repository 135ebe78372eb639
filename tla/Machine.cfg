SPECIFICATION Spec
CONSTANTS
    First = e0
    Requests = {e1}
    Tokens = {t1}
    MaxSockets = 2
    MaxFailures = 1
INVARIANTS
    TypeOK
    OnlineIsCurrent
    StaysWatched
PROPERTIES
    EpochFences
CHECK_DEADLOCK FALSE
