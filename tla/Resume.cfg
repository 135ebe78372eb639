CONSTANTS
    MaxSessions = 4
    MaxRows = 6
SPECIFICATION Spec
INVARIANTS
    ForgottenForGood
    NoThirdChance
PROPERTIES
    Continues
CHECK_DEADLOCK FALSE
