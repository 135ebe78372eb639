SPECIFICATION FairSpec
CONSTANTS
    First = e0
    Requests = {e1}
    Tokens = {t1}
    MaxSockets = 1
    MaxFailures = 0
PROPERTIES
    NoLiveSocketFlips
CHECK_DEADLOCK FALSE
