SPECIFICATION RecoverySpec
CONSTANTS
    Recoverers = {p1, p2}
    NoRecoverer = NoRecoverer
    Checkpoints = {g1, g2}
    MaxLineage = 2
PROPERTIES
    OnlyOwnLockIsRemoved
CHECK_DEADLOCK FALSE
