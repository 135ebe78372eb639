CONSTANTS
    Messages = {m1, m2, m3}
    MaxRevision = 3
SPECIFICATION FairSpec
INVARIANTS
    TypeOK
    AppliedIsEffective
    SettlesOnNewest
PROPERTIES
    HeldIsSent
CHECK_DEADLOCK FALSE
