SPECIFICATION Spec
CONSTANTS
    Width = 8
    Second = 10
    MaxPort = 100
    MaxChan = 100
    Given <- MCGiven
    Fallback <- MCFallback
INVARIANTS
    UpUsable
CHECK_DEADLOCK FALSE
