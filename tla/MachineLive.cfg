SPECIFICATION FairSpec
CONSTANTS
    First = e0
    Requests = {e1, e2}
    Tokens = {t1, t2}
    MaxSockets = 1
    MaxFailures = 1
INVARIANTS
    OneCredential
    TokenSpentOnce
PROPERTIES
    AbandonedGoesOffline
    SupersededCloses
CHECK_DEADLOCK FALSE
