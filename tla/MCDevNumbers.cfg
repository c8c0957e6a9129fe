SPECIFICATION Spec
CONSTANTS
    Numbers <- MCNumbers
INVARIANTS
    TypeOK
    WatchedExactly
    OwnDevice
CHECK_DEADLOCK FALSE
