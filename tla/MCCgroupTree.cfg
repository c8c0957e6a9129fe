SPECIFICATION TreeSpec
CONSTANTS
    HexIds = {"a1", "b2"}
    InsideParts <- MCInside
    MaxDepth = 9
INVARIANTS
    FindsContainer
CHECK_DEADLOCK FALSE
