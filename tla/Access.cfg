CONSTANTS
    Nodes = {n1, n2}
    Lookups = {a}
    Patches = {p1, p2}
    None = None
    L1TTL = 1
    L2TTL = 2
    Calls = {c1, c2}
    MaxTokens = 3
    MaxTime = 1
    MaxLogins = 2
    AccessTTL = 1
    RefreshTTL = 1
    Tolerance = 1
SYMMETRY Symmetry
SPECIFICATION AccessSpec
INVARIANTS
    CurrentWhenQuiet
    StaleIsBounded
    PatchesAddUp
    RotationIsSafe
PROPERTIES
    LoggedOutIsRefused
CHECK_DEADLOCK FALSE
